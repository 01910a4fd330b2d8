------------------------- MODULE LlvmEmitterProofs -------------------------
(***************************************************************************)
(* The two invariants of LlvmEmitter, for any number of processes, paths,  *)
(* commands and runs.                                                      *)
(*                                                                         *)
(* Files are kept apart by three facts: a file is under one path only      *)
(* (OnePath), the file that a run may make is not yet in use (Fresh), and  *)
(* no file names a run that has not begun (Known).  For a process p that   *)
(* shares no path with another, Apart says that the files under its paths  *)
(* are out of reach of the others, and Phase what is under them at each    *)
(* step of p.                                                              *)
(***************************************************************************)
EXTENDS LlvmEmitter, TLAPS

Types == {"found", "empty", "text", "object", "library", "dot"}
Bytes == [type : Types, of : SUBSET (Processes \X (0 .. MaxRuns))]

\* Where a process has opened its file, and where it has had the linker write one.
Opened == {"passes", "write", "rename", "link", "linking", "discard", "clean",
           "dot_write", "ok", "error", "killed"}
Places == Opened \cup {"idle", "translate", "open"}
          \cup {"usage", "import", "conflict", "stats", "mlir", "run", "emit", "lower", "jit", "dot"}
Placed == {"clean", "ok", "error", "killed"}
Linking == {"rename", "link", "linking", "discard", "clean"}

EmitterTypeOK ==
    /\ command \in [Processes -> Commands]
    /\ run \in [Processes -> 0 .. MaxRuns]
    /\ pc \in [Processes -> Places]
    /\ stream \in [Processes -> File \cup {Absent}]
    /\ linked \in [Processes -> Bytes]
    /\ dir \in [Paths -> File \cup {Absent}]
    /\ content \in [File -> Bytes]

Where(p) ==
    /\ pc[p] # "idle" => run[p] \in 1 .. MaxRuns
    /\ pc[p] \in {"passes", "write"} => stream[p] \in File /\ OutputPath(p) \in Paths
    /\ pc[p] \in Linking => command[p].kind = "SO"

OnePath == \A a, b \in Paths : dir[a] = dir[b] /\ dir[a] # Absent => a = b

Unused(file) == file \in File => /\ \A path \in Paths : dir[path] # file
                                 /\ \A p \in Processes : stream[p] # file

Fresh(p) ==
    /\ pc[p] \notin Opened => Unused(<<p, run[p], "emitted">>)
    /\ pc[p] \notin Placed => Unused(<<p, run[p], "linked">>)
    /\ \A k \in 1 .. MaxRuns : k > run[p] =>
          Unused(<<p, k, "emitted">>) /\ Unused(<<p, k, "linked">>)

Known(p) == \A k \in 0 .. MaxRuns : k > run[p] =>
                /\ \A file \in File : <<p, k>> \notin content[file].of
                /\ \A q \in Processes : <<p, k>> \notin linked[q].of

Base == /\ EmitterTypeOK /\ OnePath
        /\ \A p \in Processes : Where(p) /\ Fresh(p) /\ Known(p)

-----------------------------------------------------------------------------
Mine(p, path) == dir[path] # Absent /\ Build(p) \in content[dir[path]].of
Whole(p, path, type) ==
    dir[path] # Absent /\ content[dir[path]] = [type |-> type, of |-> {Build(p)}]

\* The files under some paths are out of reach of others, and p's bytes are nowhere else.
Away(p, some) ==
    /\ \A q \in Processes \ {p} : stream[q] # Absent =>
          \A path \in some \cap Paths : dir[path] # stream[q]
    /\ \A path \in Paths \ some : ~Mine(p, path)
    /\ \A q \in Processes \ {p} : Build(p) \notin linked[q].of
Apart(p) == Away(p, Footprint(p))

Phase(p) ==
    LET out == OutputPath(p)
        so == command[p].kind = "SO"
    IN  /\ pc[p] \notin Opened => \A path \in Paths : ~Mine(p, path)
        /\ pc[p] \in {"passes", "write"} =>
              /\ dir[out] = stream[p] /\ content[dir[out]] = Empty
              /\ so => ~Mine(p, Tmp(p))
        /\ pc[p] = "rename" => Whole(p, out, "object")
        /\ pc[p] \in {"link", "linking"} => dir[out] = Absent /\ Whole(p, Tmp(p), "object")
        /\ pc[p] = "linking" => linked[p] = [type |-> "object", of |-> {Build(p)}]
        /\ pc[p] = "discard" => dir[out] = Absent
        /\ pc[p] = "clean" => Whole(p, out, "library")
        /\ pc[p] = "ok" /\ out # NoPath =>
              /\ Whole(p, out, ArtifactType(p))
              /\ so => dir[Tmp(p)] = Absent
        /\ pc[p] = "error" => \A path \in Paths : ~Mine(p, path)

EmitterInv == Base /\ \A p \in Processes : Alone(p) => Apart(p) /\ Phase(p)

-----------------------------------------------------------------------------
(* Names *)

LEMMA FileNames ==
    /\ \A p \in Processes, k \in 1 .. MaxRuns :
          <<p, k, "emitted">> \in File /\ <<p, k, "linked">> \in File
    /\ Absent \notin File
BY AbsentAssumption DEF File

LEMMA PathNames ==
    ASSUME command \in [Processes -> Commands], NEW p \in Processes
    PROVE  /\ OutputPath(p) \in Paths \cup {NoPath}
           /\ command[p].kind \in {"LLVM_IR", "ASM", "OBJ", "SO"}
           /\ command[p].kind = "OBJ" => OutputPath(p) \in Paths
           /\ command[p].kind = "SO" =>
                 OutputPath(p) \in Paths /\ Tmp(p) \in Paths /\ Tmp(p) # OutputPath(p)
<1>1. command[p] \in Commands
  OBVIOUS
<1>2. OutputPath(p) \in Paths \cup {NoPath}
  BY <1>1, PathAssumption, CommandAssumption DEF OutputPath, DefaultPath
<1>3. command[p].kind \in {"LLVM_IR", "ASM", "OBJ", "SO"}
  BY <1>1, CommandAssumption
<1>4. command[p].kind = "OBJ" => OutputPath(p) \in Paths
  BY <1>1, PathAssumption, CommandAssumption DEF OutputPath, DefaultPath
<1>5. ASSUME command[p].kind = "SO"
      PROVE  OutputPath(p) \in Paths /\ Tmp(p) \in Paths /\ Tmp(p) # OutputPath(p)
  <2>1. OutputPath(p) = IF command[p].path = NoPath THEN DefaultSo ELSE command[p].path
    BY <1>1, <1>5, CommandAssumption DEF OutputPath, DefaultPath
  <2>2. OutputPath(p) \in Paths
    BY <2>1, <1>1, PathAssumption, CommandAssumption
  <2>3. Tmp(p) \in Paths
    BY <2>1, <1>1, <1>5, CommandAssumption DEF Tmp
  <2> QED  BY <2>2, <2>3, PathAssumption DEF Tmp
<1> QED  BY <1>2, <1>3, <1>4, <1>5

LEMMA SameCommand ==
    ASSUME UNCHANGED command, NEW p \in Processes
    PROVE  /\ OutputPath(p)' = OutputPath(p) /\ Tmp(p)' = Tmp(p)
           /\ Footprint(p)' = Footprint(p) /\ EmittedType(p)' = EmittedType(p)
           /\ ArtifactType(p)' = ArtifactType(p) /\ (Alone(p)' <=> Alone(p))
<1>1. ASSUME NEW q \in Processes PROVE OutputPath(q)' = OutputPath(q)
  BY DEF OutputPath
<1>2. \A q \in Processes : Tmp(q)' = Tmp(q)
  BY <1>1 DEF Tmp
<1>3. \A q \in Processes : Footprint(q)' = Footprint(q)
  BY <1>1, <1>2 DEF Footprint
<1>4. EmittedType(p)' = EmittedType(p)
  BY DEF EmittedType
<1>5. ArtifactType(p)' = ArtifactType(p)
  BY <1>4 DEF ArtifactType
<1>6. Alone(p)' <=> Alone(p)
  BY <1>3 DEF Alone
<1> QED  BY <1>1, <1>2, <1>3, <1>4, <1>5, <1>6

LEMMA EmptyIsBytes == Empty \in Bytes /\ Found \in Bytes /\ Empty.of = {} /\ Found.of = {}
<1>1. {} \in SUBSET (Processes \X (0 .. MaxRuns))
  OBVIOUS
<1>2. Empty \in Bytes
  BY <1>1 DEF Empty, Bytes, Types
<1>3. Found \in Bytes
  BY <1>1 DEF Found, Bytes, Types
<1> QED  BY <1>2, <1>3 DEF Empty, Found

-----------------------------------------------------------------------------
(* Base, by the kind of a step *)

\* A step that changes no file: streams may close, and the linker read known bytes.
LEMMA QuietBase ==
    ASSUME Base, NEW p \in Processes, NEW there \in Places, there # "idle",
           UNCHANGED <<command, run, dir, content>>,
           pc' = [pc EXCEPT ![p] = there],
           pc[p] \in Opened => there \in Opened,
           pc[p] \in Placed => there \in Placed,
           stream' = stream \/ stream' = [stream EXCEPT ![p] = Absent],
           linked' = linked \/ \E bytes \in {Empty} \cup {content[file] : file \in File} :
                                   linked' = [linked EXCEPT ![p] = bytes],
           Where(p)'
    PROVE  Base'
<1> USE DEF Base
<1>1. EmitterTypeOK'
  BY EmptyIsBytes DEF EmitterTypeOK
<1>2. OnePath'
  BY DEF OnePath
<1>3. ASSUME NEW q \in Processes PROVE Where(q)'
  BY <1>3, SameCommand DEF Where, EmitterTypeOK
<1>4. \A file : Unused(file) => Unused(file)'
  BY FileNames DEF Unused, EmitterTypeOK
<1>5. ASSUME NEW q \in Processes PROVE Fresh(q)'
  <2>1. /\ run'[q] = run[q]
        /\ pc[q] \in Opened => pc'[q] \in Opened
        /\ pc[q] \in Placed => pc'[q] \in Placed
    BY DEF EmitterTypeOK
  <2> QED  BY <2>1, <1>4, <1>5 DEF Fresh
<1>6. ASSUME NEW q \in Processes PROVE Known(q)'
  BY EmptyIsBytes DEF Known, EmitterTypeOK
<1> QED  BY <1>1, <1>2, <1>3, <1>5, <1>6

\* A run begins, maybe with another command.
LEMMA BeginBase ==
    ASSUME Base, NEW p \in Processes, NEW there \in Places, there \notin Opened \cup {"idle"},
           run[p] < MaxRuns, run' = [run EXCEPT ![p] = @ + 1],
           pc' = [pc EXCEPT ![p] = there],
           command' \in [Processes -> Commands],
           \A q \in Processes \ {p} : command'[q] = command[q],
           UNCHANGED <<stream, linked, dir, content>>
    PROVE  Base'
<1> USE DEF Base
<1>1. run[p] \in Nat /\ run'[p] = run[p] + 1 /\ run'[p] \in 1 .. MaxRuns
  BY PathAssumption DEF EmitterTypeOK
<1>2. EmitterTypeOK'
  <2>1. run' \in [Processes -> 0 .. MaxRuns]
    BY <1>1 DEF EmitterTypeOK
  <2> QED  BY <2>1 DEF EmitterTypeOK
<1>3. OnePath'
  BY DEF OnePath
<1>4. ASSUME NEW q \in Processes PROVE Where(q)'
  <2>1. CASE q = p
    BY <1>1, <2>1 DEF Where, EmitterTypeOK, Opened, Linking
  <2>2. CASE q # p
    <3>1. command'[q] = command[q] /\ pc'[q] = pc[q] /\ run'[q] = run[q]
      BY <2>2 DEF EmitterTypeOK
    <3>2. OutputPath(q)' = OutputPath(q)
      BY <3>1 DEF OutputPath
    <3> QED  BY <3>1, <3>2 DEF Where
  <2> QED  BY <2>1, <2>2
<1>5. \A file : Unused(file) => Unused(file)'
  BY DEF Unused
<1>6. ASSUME NEW q \in Processes PROVE Fresh(q)'
  <2>1. CASE q = p
    <3>1. Unused(<<p, run'[p], "emitted">>) /\ Unused(<<p, run'[p], "linked">>)
      <4> DEFINE k == run'[p]
      <4>1. k \in 1 .. MaxRuns /\ k > run[p]
        BY <1>1
      <4>2. Fresh(p)
        OBVIOUS
      <4> HIDE DEF k
      <4> QED  BY <4>1, <4>2 DEF Fresh, k
    <3>2. \A k \in 1 .. MaxRuns : k > run'[p] => k > run[p]
      BY <1>1
    <3> QED  BY <2>1, <3>1, <3>2, <1>5 DEF Fresh
  <2>2. CASE q # p
    BY <2>2, <1>5 DEF Fresh, EmitterTypeOK
  <2> QED  BY <2>1, <2>2
<1>7. ASSUME NEW q \in Processes PROVE Known(q)'
  BY <1>1 DEF Known, EmitterTypeOK
<1> QED  BY <1>2, <1>3, <1>4, <1>6, <1>7

\* The file that OpenFile opens.
Opens(p, path) == IF dir[path] = Absent THEN <<p, run[p], "emitted">> ELSE dir[path]

LEMMA OpenBase ==
    ASSUME Base, NEW p \in Processes, NEW path \in Paths, NEW there \in Places,
           pc[p] \notin Opened \cup {"idle"}, there \in Opened \ (Placed \cup Linking),
           there = "dot_write" \/ path = OutputPath(p),
           OpenFile(p, path), pc' = [pc EXCEPT ![p] = there],
           UNCHANGED <<command, run, linked>>
    PROVE  /\ Base'
           /\ Opens(p, path) \in File
           /\ \A other \in Paths \ {path} : dir[other] # Opens(p, path)
           /\ \A q \in Processes : dir[path] = Absent => stream[q] # Opens(p, path)
<1> USE DEF Base
<1> DEFINE file == Opens(p, path)
<1>1. /\ dir' = [dir EXCEPT ![path] = file] /\ stream' = [stream EXCEPT ![p] = file]
      /\ content' = [content EXCEPT ![file] = Empty]
  BY DEF OpenFile, Opens
<1>2. run[p] \in 1 .. MaxRuns /\ Unused(<<p, run[p], "emitted">>)
  BY DEF Where, Fresh
<1>3. file \in File /\ file # Absent
  <2>1. <<p, run[p], "emitted">> \in File
    BY <1>2, FileNames
  <2>2. dir[path] \in File \cup {Absent}
    BY DEF EmitterTypeOK
  <2> QED  BY <2>1, <2>2, FileNames DEF Opens
<1>4. \A other \in Paths \ {path} : dir[other] # file
  BY <1>2, <1>3, FileNames DEF Opens, Unused, OnePath
<1>5. \A q \in Processes : dir[path] = Absent => stream[q] # file
  BY <1>2, <1>3, FileNames DEF Opens, Unused
<1>6. EmitterTypeOK'
  BY <1>1, <1>3, EmptyIsBytes DEF EmitterTypeOK
<1>7. OnePath'
  BY <1>1, <1>3, <1>4 DEF OnePath, EmitterTypeOK
<1>8. ASSUME NEW q \in Processes PROVE Where(q)'
  BY <1>1, <1>2, <1>3, SameCommand DEF Where, EmitterTypeOK, Opened, Linking, Placed
<1>9. ASSUME NEW other, Unused(other), other # <<p, run[p], "emitted">> PROVE Unused(other)'
  <2>1. other \in File => other # file
    BY <1>9, <1>3 DEF Opens, Unused
  <2> QED  BY <1>9, <2>1, <1>1 DEF Unused, EmitterTypeOK
<1>10. ASSUME NEW q \in Processes PROVE Fresh(q)'
  <2>1. q # p => pc'[q] = pc[q]
    BY DEF EmitterTypeOK
  <2>2. pc'[p] = there /\ pc[p] \notin Placed /\ run[p] \in Nat
    BY DEF EmitterTypeOK, Placed, Opened
  <2>3. pc'[q] \notin Opened => q # p
    BY <2>1, <2>2
  <2>4. \A k \in 1 .. MaxRuns : k > run[q] => <<q, k, "emitted">> # <<p, run[p], "emitted">>
    BY <2>2
  <2>5. \A k \in 0 .. MaxRuns : <<q, k, "linked">> # <<p, run[p], "emitted">>
    OBVIOUS
  <2>6. run[q] \in 0 .. MaxRuns
    BY DEF EmitterTypeOK
  <2> QED  BY <1>9, <1>10, <2>1, <2>2, <2>3, <2>4, <2>5, <2>6 DEF Fresh
<1>11. ASSUME NEW q \in Processes PROVE Known(q)'
  BY <1>1, EmptyIsBytes DEF Known, EmitterTypeOK
<1> QED  BY <1>3, <1>4, <1>5, <1>6, <1>7, <1>8, <1>10, <1>11

\* Bytes go to an open file.
LEMMA WriteBase ==
    ASSUME Base, NEW p \in Processes, NEW there \in Places, NEW type \in Types,
           run[p] \in 1 .. MaxRuns, stream[p] \in File, there \in Opened \ {"passes", "write"},
           there \in Linking => command[p].kind = "SO",
           pc[p] \in Placed => there \in Placed,
           content' = [content EXCEPT ![stream[p]] = [type |-> type, of |-> @.of \cup {Build(p)}]],
           pc' = [pc EXCEPT ![p] = there],
           stream' = stream \/ stream' = [stream EXCEPT ![p] = Absent],
           linked' = linked \/ linked' = [linked EXCEPT ![p] = Empty],
           UNCHANGED <<command, run, dir>>
    PROVE  Base'
<1> USE DEF Base
<1> DEFINE bytes == [type |-> type, of |-> content[stream[p]].of \cup {Build(p)}]
<1>1. content' = [content EXCEPT ![stream[p]] = bytes]
  OBVIOUS
<1>2. content[stream[p]] \in Bytes /\ Build(p) \in Processes \X (0 .. MaxRuns)
  BY DEF EmitterTypeOK, Build
<1>3. bytes \in Bytes
  BY <1>2 DEF Bytes
<1>4. EmitterTypeOK'
  <2> HIDE DEF bytes
  <2> QED  BY <1>1, <1>3, EmptyIsBytes DEF EmitterTypeOK
<1>5. OnePath'
  BY DEF OnePath
<1>6. ASSUME NEW q \in Processes PROVE Where(q)'
  BY SameCommand DEF Where, EmitterTypeOK, Opened, Linking
<1>7. \A file : Unused(file) => Unused(file)'
  BY FileNames DEF Unused, EmitterTypeOK
<1>8. ASSUME NEW q \in Processes PROVE Fresh(q)'
  <2>1. /\ run'[q] = run[q]
        /\ pc[q] \in Opened => pc'[q] \in Opened
        /\ pc[q] \in Placed => pc'[q] \in Placed
    BY DEF EmitterTypeOK
  <2> QED  BY <2>1, <1>7, <1>8 DEF Fresh
<1>9. ASSUME NEW q \in Processes PROVE Known(q)'
  <2> SUFFICES ASSUME NEW k \in 0 .. MaxRuns, k > run[q]
               PROVE  /\ \A file \in File : <<q, k>> \notin content'[file].of
                      /\ \A r \in Processes : <<q, k>> \notin linked'[r].of
    BY DEF Known
  <2>1. <<q, k>> # Build(p)
    BY DEF Build, EmitterTypeOK
  <2>2. /\ \A file \in File : <<q, k>> \notin content[file].of
        /\ \A r \in Processes : <<q, k>> \notin linked[r].of
    BY DEF Known
  <2>3. <<q, k>> \notin bytes.of
    BY <2>1, <2>2
  <2>4. \A file \in File : <<q, k>> \notin content'[file].of
    <3> HIDE DEF bytes
    <3> QED  BY <1>1, <2>2, <2>3 DEF EmitterTypeOK
  <2>5. \A r \in Processes : <<q, k>> \notin linked'[r].of
    BY <2>2, EmptyIsBytes DEF EmitterTypeOK
  <2> QED  BY <2>4, <2>5
<1> QED  BY <1>4, <1>5, <1>6, <1>8, <1>9

\* Names come and go: under each path there is what was under it, or nothing, or what
\* was under a path that has lost it.
LEMMA MoveBase ==
    ASSUME Base, NEW p \in Processes, NEW there \in Places, there \in {"link", "ok", "error"},
           there = "link" => command[p].kind = "SO",
           pc[p] \in Linking, pc[p] \in Placed => there \in Placed,
           dir' \in [Paths -> File \cup {Absent}],
           \A path \in Paths : dir'[path] # Absent => \E old \in Paths : dir'[path] = dir[old],
           OnePath',
           pc' = [pc EXCEPT ![p] = there],
           stream' = stream \/ stream' = [stream EXCEPT ![p] = Absent],
           linked' = linked \/ linked' = [linked EXCEPT ![p] = Empty],
           UNCHANGED <<command, run, content>>
    PROVE  Base'
<1> USE DEF Base
<1>1. EmitterTypeOK'
  BY EmptyIsBytes DEF EmitterTypeOK
<1>2. ASSUME NEW q \in Processes PROVE Where(q)'
  BY SameCommand DEF Where, EmitterTypeOK, Linking
<1>3. \A file : Unused(file) => Unused(file)'
  BY FileNames DEF Unused, EmitterTypeOK
<1>4. ASSUME NEW q \in Processes PROVE Fresh(q)'
  <2>1. /\ run'[q] = run[q]
        /\ pc[q] \in Opened => pc'[q] \in Opened
        /\ pc[q] \in Placed => pc'[q] \in Placed
    BY DEF EmitterTypeOK, Opened
  <2> QED  BY <2>1, <1>3, <1>4 DEF Fresh
<1>5. ASSUME NEW q \in Processes PROVE Known(q)'
  BY EmptyIsBytes DEF Known, EmitterTypeOK
<1> QED  BY <1>1, <1>2, <1>4, <1>5

LEMMA RenameBase ==
    ASSUME Base, NEW p \in Processes, Rename(p)
    PROVE  Base'
<1>1. OutputPath(p) \in Paths /\ Tmp(p) \in Paths /\ Tmp(p) # OutputPath(p)
  BY PathNames DEF EmitterTypeOK, Where, Linking, Base, Rename, At
<1>2. dir' \in [Paths -> File \cup {Absent}]
  BY <1>1 DEF EmitterTypeOK, Base, Rename
<1>3. \A path \in Paths : dir'[path] # Absent => \E old \in Paths : dir'[path] = dir[old]
  BY <1>1 DEF EmitterTypeOK, Base, Rename
<1>4. OnePath'
  BY <1>1 DEF EmitterTypeOK, OnePath, Base, Rename
<1>5. pc[p] \in Linking /\ pc[p] \notin Placed /\ command[p].kind = "SO"
  BY DEF Where, Linking, Placed, Base, Rename, At
<1>6. /\ pc' = [pc EXCEPT ![p] = "link"] /\ stream' = stream /\ linked' = linked
      /\ UNCHANGED <<command, run, content>>
  BY DEF Rename, Go
<1> QED  BY <1>2, <1>3, <1>4, <1>5, <1>6, MoveBase DEF Places, Opened

LEMMA RemoveBase ==
    ASSUME Base, NEW p \in Processes, Remove(p)
    PROVE  Base'
<1>1. dir' \in [Paths -> File \cup {Absent}] /\ OnePath'
      /\ \A path \in Paths : dir'[path] # Absent => \E old \in Paths : dir'[path] = dir[old]
  BY DEF EmitterTypeOK, OnePath, Base, Remove
<1>2. PICK outcome \in {"ok", "error"} : pc' = [pc EXCEPT ![p] = outcome]
  BY DEF Remove, End
<1>3. pc[p] \in Linking /\ outcome \in Placed
  BY DEF Linking, Placed, Remove, At
<1>4. /\ stream' = [stream EXCEPT ![p] = Absent] /\ linked' = [linked EXCEPT ![p] = Empty]
      /\ UNCHANGED <<command, run, content>>
  BY DEF Remove, End
<1> QED  BY <1>1, <1>2, <1>3, <1>4, MoveBase DEF Places, Opened

\* The linker makes a file.
LEMMA LinkWriteBase ==
    ASSUME Base, NEW p \in Processes, LinkWrite(p)
    PROVE  /\ Base'
           /\ <<p, run[p], "linked">> \in File /\ Unused(<<p, run[p], "linked">>)
<1> USE DEF Base
<1> DEFINE file == <<p, run[p], "linked">>
           library == Library(linked[p])
<1>1. pc[p] = "linking" /\ pc' = [pc EXCEPT ![p] = "clean"] /\ UNCHANGED <<command, run, stream, linked>>
  BY DEF LinkWrite, At, Go
<1>2. dir' = [dir EXCEPT ![OutputPath(p)] = file] /\ content' = [content EXCEPT ![file] = library]
  BY DEF LinkWrite
<1>3. OutputPath(p) \in Paths /\ run[p] \in 1 .. MaxRuns
  BY <1>1, PathNames DEF EmitterTypeOK, Where, Linking
<1>4. file \in File /\ file # Absent /\ Unused(file)
  BY <1>1, <1>3, FileNames DEF Fresh, Placed
<1>5. library \in Bytes /\ library.of = linked[p].of
  BY DEF Library, Bytes, Types, EmitterTypeOK
<1> HIDE DEF library
<1>6. EmitterTypeOK'
  <2>1. dir' \in [Paths -> File \cup {Absent}] /\ content' \in [File -> Bytes]
    <3> HIDE DEF file
    <3> QED  BY <1>2, <1>3, <1>4, <1>5 DEF EmitterTypeOK
  <2>2. pc' \in [Processes -> Places]
    BY <1>1 DEF EmitterTypeOK, Places, Opened
  <2> QED  BY <1>1, <2>1, <2>2 DEF EmitterTypeOK
<1>7. OnePath'
  BY <1>2, <1>3, <1>4 DEF OnePath, Unused, EmitterTypeOK
<1>8. ASSUME NEW q \in Processes PROVE Where(q)'
  BY <1>1, SameCommand DEF Where, EmitterTypeOK, Linking
<1>9. \A other : Unused(other) /\ other # file => Unused(other)'
  BY <1>1, <1>2, <1>3 DEF Unused, EmitterTypeOK
<1>10. ASSUME NEW q \in Processes PROVE Fresh(q)'
  <2>1. /\ run'[q] = run[q] /\ run[q] \in 0 .. MaxRuns /\ run[p] \in 0 .. MaxRuns
        /\ pc[q] \in Opened => pc'[q] \in Opened
        /\ pc'[q] \notin Placed => q # p /\ pc[q] \notin Placed
    BY <1>1 DEF EmitterTypeOK, Opened, Placed
  <2>2. \A k \in 0 .. MaxRuns : <<q, k, "emitted">> # file
    OBVIOUS
  <2>3. \A k \in 0 .. MaxRuns : k > run[q] \/ q # p => <<q, k, "linked">> # file
    BY <2>1
  <2> HIDE DEF file
  <2> QED  BY <2>1, <2>2, <2>3, <1>9, <1>10 DEF Fresh
<1>11. ASSUME NEW q \in Processes PROVE Known(q)'
  BY <1>1, <1>2, <1>4, <1>5 DEF Known, EmitterTypeOK
<1> QED  BY <1>4, <1>6, <1>7, <1>8, <1>10, <1>11

\* The steps that change no file and do not begin a run.
Quietly(p) == \/ Translate(p) \/ OpenFails(p) \/ EmitText(p) \/ AddPasses(p)
              \/ LinkRead(p) \/ LinkFails(p) \/ Kill(p)

LEMMA QuietStep ==
    ASSUME Base, NEW p \in Processes, Quietly(p)
    PROVE  Base' /\ UNCHANGED <<command, run, dir, content>>
<1> USE DEF Base
<1> DEFINE there == pc'[p]
<1>1. UNCHANGED <<command, run, dir, content>>
  BY DEF Quietly, Translate, OpenFails, EmitText, AddPasses, LinkRead, LinkFails, Kill
<1>2. /\ pc' = [pc EXCEPT ![p] = there]
      /\ there \in {"open", "write", "linking", "discard", "ok", "error", "killed"}
      /\ pc[p] \in Opened => there \in Opened
      /\ pc[p] \in Placed => there \in Placed
      /\ pc[p] # "idle"
      /\ there \in Linking => pc[p] \in Linking
      /\ there = "write" => pc[p] = "passes"
  BY DEF Quietly, Translate, OpenFails, EmitText, AddPasses, LinkRead, LinkFails, Kill,
         At, Go, End, EmitterTypeOK, Opened, Placed, Linking
<1>3. stream' = stream \/ stream' = [stream EXCEPT ![p] = Absent]
  BY DEF Quietly, Translate, OpenFails, EmitText, AddPasses, LinkRead, LinkFails, Kill, Go, End
<1>4. linked' = linked \/ \E bytes \in {Empty} \cup {content[file] : file \in File} :
                              linked' = [linked EXCEPT ![p] = bytes]
  <2>1. CASE LinkRead(p)
    <3>1. Tmp(p) \in Paths
      BY <2>1, PathNames DEF LinkRead, At, Where, Linking, EmitterTypeOK
    <3>2. dir[Tmp(p)] \in File /\ linked' = [linked EXCEPT ![p] = content[dir[Tmp(p)]]]
      BY <2>1, <3>1 DEF LinkRead, EmitterTypeOK
    <3> QED  BY <3>2
  <2> QED  BY <2>1 DEF Quietly, Translate, OpenFails, EmitText, AddPasses, LinkFails, Kill, Go, End
<1>5. there = "write" => stream' = stream
  BY <1>2 DEF Quietly, Translate, OpenFails, EmitText, AddPasses, LinkRead, LinkFails, Kill,
         At, Go, End, EmitterTypeOK
<1>6. Where(p)'
  BY <1>1, <1>2, <1>5, SameCommand DEF Where, EmitterTypeOK
<1> HIDE DEF there
<1>7. there \in Places /\ there # "idle"
  BY <1>2 DEF Places, Opened
<1>8. Base'
  BY <1>1, <1>2, <1>3, <1>4, <1>6, <1>7, QuietBase
<1> QED  BY <1>1, <1>8

LEMMA StartBase ==
    ASSUME Base, NEW p \in Processes, Start(p)
    PROVE  Base'
<1>1. /\ run[p] < MaxRuns /\ run' = [run EXCEPT ![p] = @ + 1]
      /\ pc' = [pc EXCEPT ![p] = "translate"]
      /\ UNCHANGED <<command, stream, linked, dir, content>>
  BY DEF Start, Go
<1>2. "translate" \in Places /\ "translate" \notin Opened \cup {"idle"}
  BY DEF Places, Opened
<1> QED  BY <1>1, <1>2, BeginBase DEF Base, EmitterTypeOK

LEMMA OpenStep ==
    ASSUME Base, NEW p \in Processes, Open(p)
    PROVE  /\ Base' /\ OutputPath(p) \in Paths
           /\ Opens(p, OutputPath(p)) \in File
           /\ \A other \in Paths \ {OutputPath(p)} : dir[other] # Opens(p, OutputPath(p))
           /\ \A q \in Processes : dir[OutputPath(p)] = Absent => stream[q] # Opens(p, OutputPath(p))
<1>1. OutputPath(p) \in Paths
  BY PathNames DEF Open, Base, EmitterTypeOK
<1>2. PICK there \in {"write", "passes"} : pc' = [pc EXCEPT ![p] = there]
  BY DEF Open
<1>3. /\ there \in Places /\ there \in Opened \ (Placed \cup Linking)
      /\ pc[p] \notin Opened \cup {"idle"}
  BY DEF Places, Opened, Placed, Linking, Open, At
<1>4. OpenFile(p, OutputPath(p)) /\ UNCHANGED <<command, run, linked>>
  BY DEF Open
<1> QED  BY <1>1, <1>2, <1>3, <1>4, OpenBase

LEMMA WriteStep ==
    ASSUME Base, NEW p \in Processes, Write(p)
    PROVE  Base'
<1>1. run[p] \in 1 .. MaxRuns /\ stream[p] \in File
  BY DEF Write, At, Where, Base
<1>2. PICK there \in {"rename", "ok"} : /\ pc' = [pc EXCEPT ![p] = there]
                                        /\ there = "rename" => command[p].kind = "SO"
  BY DEF Write, Go, End
<1>3. there \in Places /\ there \in Opened \ {"passes", "write"} /\ pc[p] \notin Placed
      /\ (there \in Linking => command[p].kind = "SO")
  BY <1>2 DEF Places, Opened, Placed, Linking, Write, At
<1>4. EmittedType(p) \in Types
  BY DEF EmittedType, Types
<1>5. /\ stream' = stream \/ stream' = [stream EXCEPT ![p] = Absent]
      /\ linked' = linked \/ linked' = [linked EXCEPT ![p] = Empty]
  BY DEF Write, Go, End
<1>6. content' = [content EXCEPT ![stream[p]] =
                      [type |-> EmittedType(p), of |-> @.of \cup {Build(p)}]]
      /\ UNCHANGED <<command, run, dir>>
  BY DEF Write
<1> QED  BY <1>1, <1>2, <1>3, <1>4, <1>5, <1>6, WriteBase

LEMMA StepBase ==
    ASSUME Base, NEW p \in Processes, Step(p)
    PROVE  Base'
BY QuietStep, StartBase, OpenStep, WriteStep, RenameBase, RemoveBase, LinkWriteBase
   DEF Step, Quietly

-----------------------------------------------------------------------------
(* What others do to a process that is alone *)

\* The files under some paths are as they were.
Kept(some) == \A path \in some \cap Paths :
              /\ dir'[path] = dir[path]
              /\ dir[path] # Absent => content'[dir[path]] = content[dir[path]]

LEMMA AwayPaths ==
    ASSUME Base, NEW p \in Processes, NEW some, NEW q \in Processes \ {p},
           some \cap Footprint(q) \subseteq {NoPath}
    PROVE  /\ OutputPath(q) \in Paths => OutputPath(q) \notin some
           /\ command[q].kind = "SO" =>
                 Tmp(q) \in Paths /\ OutputPath(q) \in Paths /\ Tmp(q) \notin some
<1>1. OutputPath(q) \in Footprint(q) /\ (command[q].kind = "SO" => Tmp(q) \in Footprint(q))
  BY DEF Footprint
<1>2. command[q].kind = "SO" => Tmp(q) \in Paths /\ OutputPath(q) \in Paths
  BY PathNames DEF Base, EmitterTypeOK
<1> QED  BY <1>1, <1>2, PathAssumption

\* Whatever another process does, the files of p are kept and stay apart.
LEMMA OthersKeep ==
    ASSUME Base, NEW p \in Processes, NEW some, Away(p, some), NEW q \in Processes \ {p}, Step(q),
           some \cap Footprint(q) \subseteq {NoPath}
    PROVE  Kept(some) /\ Away(p, some)' /\ pc'[p] = pc[p] /\ stream'[p] = stream[p]
           /\ linked'[p] = linked[p] /\ UNCHANGED command /\ Build(p)' = Build(p)
<1> USE DEF Base
<1>1. /\ pc'[p] = pc[p] /\ stream'[p] = stream[p] /\ linked'[p] = linked[p]
      /\ UNCHANGED command /\ run'[p] = run[p]
  BY DEF Step, Start, Translate, Open, OpenFile, OpenFails, EmitText, AddPasses, Write, Rename,
         LinkRead, LinkFails, LinkWrite, Remove, Kill, Go, End, EmitterTypeOK
<1>2. Build(p)' = Build(p) /\ Build(p) # Build(q)
  BY <1>1 DEF Build
<1>3. SUFFICES /\ Kept(some)
               /\ \A r \in Processes \ {p} : stream'[r] # Absent =>
                     \A path \in some \cap Paths : dir'[path] # stream'[r]
               /\ \A path \in Paths \ some :
                     dir'[path] # Absent => Build(p) \notin content'[dir'[path]].of
               /\ \A r \in Processes \ {p} : Build(p) \notin linked'[r].of
  BY <1>1, <1>2 DEF Away, Mine
<1>4. \A path \in Paths \ some : dir[path] # Absent => Build(p) \notin content[dir[path]].of
  BY DEF Away, Mine
<1>5. CASE Start(q) \/ Quietly(q)
  <2>1. UNCHANGED <<dir, content>>
    BY <1>5, QuietStep DEF Start
  <2>2. \A r \in Processes : stream'[r] \in {stream[r], Absent}
    BY <1>5 DEF Start, Quietly, Translate, OpenFails, EmitText, AddPasses, LinkRead, LinkFails,
                Kill, Go, End, EmitterTypeOK
  <2>3. \A r \in Processes \ {p} : Build(p) \notin linked'[r].of
    <3>1. CASE LinkRead(q)
      <4>1. Tmp(q) \in Paths \ some
        BY <3>1, AwayPaths DEF LinkRead, At, Where, Linking
      <4>2. dir[Tmp(q)] # Absent /\ linked' = [linked EXCEPT ![q] = content[dir[Tmp(q)]]]
        BY <3>1 DEF LinkRead
      <4>3. Build(p) \notin content[dir[Tmp(q)]].of
        BY <4>1, <4>2, <1>4
      <4> QED  BY <4>2, <4>3 DEF Away, EmitterTypeOK
    <3>2. CASE ~LinkRead(q)
      <4>1. \A r \in Processes : linked'[r] \in {linked[r], Empty}
        BY <1>5, <3>2 DEF Start, Quietly, Translate, OpenFails, EmitText, AddPasses, LinkFails,
                          Kill, Go, End, EmitterTypeOK
      <4> QED  BY <4>1, EmptyIsBytes DEF Away
    <3> QED  BY <3>1, <3>2
  <2>4. Kept(some)
    BY <2>1 DEF Kept
  <2> QED  BY <2>1, <2>2, <2>3, <2>4, <1>4 DEF Away
<1>6. CASE Open(q)
  <2> DEFINE out == OutputPath(q)
             file == Opens(q, out)
  <2>1. /\ out \in Paths \ some /\ file \in File
        /\ \A other \in Paths \ {out} : dir[other] # file
    BY <1>6, OpenStep, AwayPaths
  <2>2. /\ dir' = [dir EXCEPT ![out] = file] /\ stream' = [stream EXCEPT ![q] = file]
        /\ content' = [content EXCEPT ![file] = Empty] /\ linked' = linked
    BY <1>6 DEF Open, OpenFile, Opens
  <2> HIDE DEF out, file
  <2>3. \A path \in some \cap Paths : path # out /\ dir'[path] = dir[path] /\ dir[path] # file
    BY <2>1, <2>2 DEF EmitterTypeOK
  <2>4. Kept(some)
    BY <2>2, <2>3 DEF Kept, EmitterTypeOK
  <2>5. \A path \in Paths \ some :
           dir'[path] # Absent => Build(p) \notin content'[dir'[path]].of
    BY <2>1, <2>2, <1>4, EmptyIsBytes DEF EmitterTypeOK
  <2>6. \A r \in Processes \ {p} : stream'[r] # Absent =>
           \A path \in some \cap Paths : dir'[path] # stream'[r]
    BY <2>2, <2>3 DEF Away, EmitterTypeOK
  <2> QED  BY <2>2, <2>4, <2>5, <2>6 DEF Away
<1>7. CASE Write(q)
  <2>1. stream[q] \in File /\ dir' = dir
    BY <1>7 DEF Write, At, Where
  <2>2. \A r \in Processes : stream'[r] \in {stream[r], Absent} /\ linked'[r] \in {linked[r], Empty}
    BY <1>7 DEF Write, Go, End, EmitterTypeOK
  <2>3. \A path \in some \cap Paths : dir[path] # stream[q]
    BY <2>1, FileNames DEF Away
  <2>4. Kept(some)
    BY <1>7, <2>1, <2>3 DEF Kept, Write, EmitterTypeOK
  <2>5. \A path \in Paths \ some :
           dir'[path] # Absent => Build(p) \notin content'[dir'[path]].of
    BY <1>7, <2>1, <1>2, <1>4 DEF Write, EmitterTypeOK
  <2> QED  BY <2>1, <2>2, <2>4, <2>5, EmptyIsBytes DEF Away
<1>8. CASE Rename(q)
  <2>1. /\ OutputPath(q) \in Paths \ some /\ Tmp(q) \in Paths \ some
    BY <1>8, AwayPaths DEF Rename, At, Where, Linking
  <2>2. UNCHANGED <<stream, linked, content>>
    BY <1>8 DEF Rename, Go
  <2>3. /\ \A path \in some \cap Paths : dir'[path] = dir[path]
        /\ \A path \in Paths \ some : dir'[path] # Absent =>
              \E old \in Paths \ some : dir'[path] = dir[old]
    BY <1>8, <2>1 DEF Rename, EmitterTypeOK
  <2> QED  BY <2>2, <2>3, <1>4 DEF Away, Kept
<1>9. CASE LinkWrite(q)
  <2> DEFINE file == <<q, run[q], "linked">>
             out == OutputPath(q)
             library == Library(linked[q])
  <2>1. out \in Paths \ some
    BY <1>9, AwayPaths DEF LinkWrite, At, Where, Linking
  <2>2. file \in File /\ Unused(file)
    BY <1>9, LinkWriteBase
  <2>3. /\ UNCHANGED <<stream, linked>> /\ dir' = [dir EXCEPT ![out] = file]
        /\ content' = [content EXCEPT ![file] = library]
    BY <1>9 DEF LinkWrite, Go
  <2>4. Build(p) \notin library.of
    BY DEF Away, Library
  <2> HIDE DEF file, out, library
  <2>5. \A path \in some \cap Paths : dir'[path] = dir[path] /\ dir[path] # file
    BY <2>1, <2>2, <2>3 DEF Unused, EmitterTypeOK
  <2>6. Kept(some)
    BY <2>3, <2>5 DEF Kept, EmitterTypeOK
  <2>7. \A path \in Paths \ some :
           dir'[path] # Absent => Build(p) \notin content'[dir'[path]].of
    BY <2>2, <2>3, <2>4, <1>4 DEF EmitterTypeOK
  <2> QED  BY <2>3, <2>5, <2>6, <2>7 DEF Away
<1>10. CASE Remove(q)
  <2>1. Tmp(q) \in Paths \ some
    BY <1>10, AwayPaths DEF Remove, Where, Linking
  <2>2. \A r \in Processes : stream'[r] \in {stream[r], Absent} /\ linked'[r] \in {linked[r], Empty}
    BY <1>10 DEF Remove, End, EmitterTypeOK
  <2>3. dir' = [dir EXCEPT ![Tmp(q)] = Absent] /\ UNCHANGED content
    BY <1>10 DEF Remove
  <2>4. \A path \in some \cap Paths : dir'[path] = dir[path]
    BY <2>1, <2>3 DEF EmitterTypeOK
  <2>5. \A path \in Paths : dir'[path] # Absent => dir'[path] = dir[path]
    BY <2>3 DEF EmitterTypeOK
  <2> QED  BY <2>2, <2>3, <2>4, <2>5, <1>4, EmptyIsBytes DEF Away, Kept
<1> QED  BY <1>5, <1>6, <1>7, <1>8, <1>9, <1>10 DEF Step, Quietly

\* A process whose own files, command and place stay is at the same phase.
LEMMA KeptPhase ==
    ASSUME Base, NEW p \in Processes, Apart(p), Phase(p), Kept(Footprint(p)), Apart(p)',
           pc'[p] = pc[p], stream'[p] = stream[p], linked'[p] = linked[p],
           command'[p] = command[p], Build(p)' = Build(p)
    PROVE  Phase(p)'
<1> DEFINE out == OutputPath(p)
           so == command[p].kind = "SO"
           tmp == Tmp(p)
<1>1. /\ Kept(Footprint(p)) /\ Apart(p)' /\ pc'[p] = pc[p] /\ stream'[p] = stream[p]
      /\ linked'[p] = linked[p] /\ Build(p)' = Build(p)
  OBVIOUS
<1>2. /\ OutputPath(p)' = out /\ Tmp(p)' = tmp /\ Footprint(p)' = Footprint(p)
      /\ ArtifactType(p)' = ArtifactType(p) /\ command'[p].kind = command[p].kind
  <2>1. OutputPath(p)' = out
    BY DEF OutputPath
  <2> QED  BY <2>1 DEF Tmp, Footprint, ArtifactType, EmittedType
<1>3. /\ out \in Paths => out \in Footprint(p) \cap Paths
      /\ so => out \in Footprint(p) \cap Paths /\ tmp \in Footprint(p) \cap Paths
      /\ out # NoPath => out \in Paths
  BY PathNames DEF Base, EmitterTypeOK, Footprint
<1>4. \A path \in Footprint(p) \cap Paths :
         /\ dir'[path] = dir[path]
         /\ Mine(p, path)' <=> Mine(p, path)
         /\ dir[path] # Absent => content'[dir'[path]] = content[dir[path]]
         /\ \A type : Whole(p, path, type)' <=> Whole(p, path, type)
  BY <1>1 DEF Kept, Mine, Whole
<1>5. \A path \in Paths \ Footprint(p) : ~Mine(p, path)'
  BY <1>1, <1>2 DEF Apart, Away
<1>6. /\ pc[p] \in {"passes", "write"} => out \in Paths /\ stream[p] \in File
      /\ pc[p] \in Linking => so
  BY DEF Base, Where
<1> HIDE DEF out, so, tmp
<1>7. (\A path \in Paths : ~Mine(p, path)) => (\A path \in Paths : ~Mine(p, path)')
  BY <1>4, <1>5
<1>8. pc'[p] \notin Opened => \A path \in Paths : ~Mine(p, path)'
  BY <1>1, <1>7 DEF Phase
<1>9. pc'[p] = "error" => \A path \in Paths : ~Mine(p, path)'
  BY <1>1, <1>7 DEF Phase
<1>10. pc'[p] \in {"passes", "write"} =>
         /\ dir'[out] = stream'[p] /\ content'[dir'[out]] = Empty
         /\ so => ~Mine(p, tmp)'
  BY <1>1, <1>2, <1>3, <1>4, <1>6, FileNames DEF Phase, out, so, tmp, Mine
<1>11. pc'[p] = "rename" => Whole(p, out, "object")'
  BY <1>1, <1>2, <1>3, <1>4, <1>6 DEF Phase, out, so, tmp, Linking, Whole
<1>12. pc'[p] \in {"link", "linking"} => dir'[out] = Absent /\ Whole(p, tmp, "object")'
  BY <1>1, <1>2, <1>3, <1>4, <1>6 DEF Phase, out, so, tmp, Linking, Whole
<1>13. pc'[p] = "linking" => linked'[p] = [type |-> "object", of |-> {Build(p)'}]
  BY <1>1 DEF Phase
<1>14. pc'[p] = "discard" => dir'[out] = Absent
  BY <1>1, <1>3, <1>4, <1>6 DEF Phase, out, so, Linking
<1>15. pc'[p] = "clean" => Whole(p, out, "library")'
  BY <1>1, <1>2, <1>3, <1>4, <1>6 DEF Phase, out, so, tmp, Linking, Whole
<1>16. pc'[p] = "ok" /\ out # NoPath => /\ Whole(p, out, ArtifactType(p))'
                                        /\ so => dir'[tmp] = Absent
  BY <1>1, <1>2, <1>3, <1>4 DEF Phase, out, so, tmp, Whole
<1> QED  BY <1>2, <1>8, <1>9, <1>10, <1>11, <1>12, <1>13, <1>14, <1>15, <1>16 DEF Phase, Whole, Mine, out, so, tmp

LEMMA OthersPhase ==
    ASSUME Base, NEW p \in Processes, Alone(p), Apart(p), Phase(p),
           NEW q \in Processes \ {p}, Step(q)
    PROVE  Apart(p)' /\ Phase(p)'
<1>1. Footprint(p) \cap Footprint(q) \subseteq {NoPath}
  BY DEF Alone
<1>2. ASSUME NEW some, some = Footprint(p)
      PROVE  /\ Kept(Footprint(p)) /\ Apart(p)' /\ pc'[p] = pc[p] /\ stream'[p] = stream[p]
             /\ linked'[p] = linked[p] /\ UNCHANGED command /\ Build(p)' = Build(p)
  <2>1. /\ Kept(some) /\ Away(p, some)' /\ pc'[p] = pc[p] /\ stream'[p] = stream[p]
        /\ linked'[p] = linked[p] /\ UNCHANGED command /\ Build(p)' = Build(p)
    <3>1. Away(p, some) /\ some \cap Footprint(q) \subseteq {NoPath}
      BY <1>1, <1>2 DEF Apart, Away
    <3> QED  BY <3>1, OthersKeep
  <2>2. some = Footprint(p)'
    BY <1>2, <2>1, SameCommand
  <2> QED  BY <1>2, <2>1, <2>2 DEF Apart, Away, Kept
<1>3. /\ Kept(Footprint(p)) /\ Apart(p)' /\ pc'[p] = pc[p] /\ stream'[p] = stream[p]
      /\ linked'[p] = linked[p] /\ UNCHANGED command /\ Build(p)' = Build(p)
  BY <1>2
<1> QED  BY <1>3, KeptPhase

-----------------------------------------------------------------------------
(* What a process that is alone does *)

\* A step that changes no file and begins no run leaves the other streams alone.
LEMMA OwnQuiet ==
    ASSUME Base, NEW p \in Processes, Apart(p), Phase(p), Quietly(p)
    PROVE  Apart(p)' /\ Phase(p)'
<1> USE DEF Base
<1> DEFINE out == OutputPath(p)
           so == command[p].kind = "SO"
           tmp == Tmp(p)
<1>1. UNCHANGED <<command, run, dir, content>>
  BY QuietStep
<1>2. /\ OutputPath(p)' = out /\ Tmp(p)' = tmp /\ Footprint(p)' = Footprint(p)
      /\ ArtifactType(p)' = ArtifactType(p) /\ Build(p)' = Build(p)
  BY <1>1, SameCommand DEF Build
<1>3. /\ \A path \in Paths : Mine(p, path)' <=> Mine(p, path)
      /\ \A path, type : Whole(p, path, type)' <=> Whole(p, path, type)
  BY <1>1, <1>2 DEF Mine, Whole
<1>4. Apart(p)'
  <2>1. \A q \in Processes \ {p} : stream'[q] = stream[q] /\ linked'[q] = linked[q]
    BY DEF Quietly, Translate, OpenFails, EmitText, AddPasses, LinkRead, LinkFails, Kill, Go, End,
           EmitterTypeOK
  <2> QED  BY <1>1, <1>2, <1>3, <2>1 DEF Apart, Away
<1>5. Phase(p)'
  <2> USE DEF Phase, At, Go, End, EmitterTypeOK, Opened
  <2>1. CASE Translate(p)
    BY <2>1, <1>1, <1>3 DEF Translate
  <2>2. CASE OpenFails(p)
    BY <2>2, <1>1, <1>3 DEF OpenFails
  <2>3. CASE EmitText(p)
    BY <2>3, <1>1, <1>2, <1>3 DEF EmitText
  <2>4. CASE AddPasses(p)
    <3>1. /\ dir[out] = stream[p] /\ content[dir[out]] = Empty /\ (so => ~Mine(p, tmp))
          /\ out \in Paths
      BY <2>4 DEF AddPasses, Where
    <3>2. CASE Go(p, "write")
      <4>1. pc'[p] = "write" /\ stream'[p] = stream[p] /\ command'[p].kind = command[p].kind
        BY <3>2, <1>1
      <4>2. dir'[OutputPath(p)'] = stream'[p] /\ content'[dir'[OutputPath(p)']] = Empty
        BY <4>1, <3>1, <1>1, <1>2
      <4>3. so => ~Mine(p, Tmp(p))'
        BY <3>1, <1>1, <1>2 DEF Mine
      <4> QED  BY <4>1, <4>2, <4>3
    <3>3. CASE End(p, "error")
      <4>1. ~Mine(p, out) /\ out \in Footprint(p) /\ (so => tmp \in Footprint(p))
        BY <3>1, EmptyIsBytes DEF Mine, Footprint
      <4>2. \A path \in Paths : ~Mine(p, path)
        BY <4>1, <3>1 DEF Apart, Away, Footprint
      <4> QED  BY <3>3, <4>2, <1>3
    <3> QED  BY <2>4, <3>2, <3>3 DEF AddPasses
  <2>5. CASE LinkRead(p)
    <3>1. dir[out] = Absent /\ Whole(p, tmp, "object")
      BY <2>5 DEF LinkRead
    <3>2. pc'[p] = "linking" /\ linked'[p] = [type |-> "object", of |-> {Build(p)}]
      BY <2>5, <3>1 DEF LinkRead, Whole
    <3> QED  BY <3>1, <3>2, <1>1, <1>2, <1>3
  <2>6. CASE LinkFails(p)
    BY <2>6, <1>1, <1>2 DEF LinkFails
  <2>7. CASE Kill(p)
    BY <2>7 DEF Kill
  <2> QED  BY <2>1, <2>2, <2>3, <2>4, <2>5, <2>6, <2>7 DEF Quietly
<1> QED  BY <1>4, <1>5

LEMMA OwnOpen ==
    ASSUME Base, NEW p \in Processes, Apart(p), Phase(p), Open(p)
    PROVE  Apart(p)' /\ Phase(p)'
<1> USE DEF Base
<1> DEFINE out == OutputPath(p)
           so == command[p].kind = "SO"
           tmp == Tmp(p)
           file == Opens(p, out)
<1>1. /\ out \in Paths /\ file \in File /\ \A other \in Paths \ {out} : dir[other] # file
      /\ \A q \in Processes : dir[out] = Absent => stream[q] # file
  BY OpenStep
<1>2. /\ dir' = [dir EXCEPT ![out] = file] /\ stream' = [stream EXCEPT ![p] = file]
      /\ content' = [content EXCEPT ![file] = Empty] /\ UNCHANGED <<command, run, linked>>
  BY DEF Open, OpenFile, Opens
<1>3. /\ pc[p] = "open" /\ pc'[p] \in {"passes", "write"}
  BY DEF Open, At, EmitterTypeOK
<1>4. /\ OutputPath(p)' = out /\ Tmp(p)' = tmp /\ Footprint(p)' = Footprint(p)
      /\ Build(p)' = Build(p) /\ command'[p].kind = command[p].kind
  BY <1>2, SameCommand DEF Build
<1>5. out \in Footprint(p) /\ (so => tmp \in Paths /\ tmp # out)
  BY PathNames DEF Footprint, EmitterTypeOK
<1>6. \A path \in Paths : ~Mine(p, path)
  BY <1>3 DEF Phase, Opened
<1>7. \A q \in Processes \ {p} : stream[q] # Absent =>
         \A path \in Footprint(p) \cap Paths : dir'[path] # stream[q]
  <2>1. \A q \in Processes \ {p} : stream[q] # Absent => stream[q] # file
    BY <1>1, <1>5 DEF Apart, Away, Opens
  <2> HIDE DEF file, out
  <2> QED  BY <1>2, <2>1 DEF Apart, Away, EmitterTypeOK
<1>8. \A path \in Paths : dir'[path] # Absent => Build(p) \notin content'[dir'[path]].of
  <2> HIDE DEF file, out
  <2> QED  BY <1>1, <1>2, <1>6, EmptyIsBytes DEF Mine, EmitterTypeOK
<1>9. Apart(p)'
  <2> HIDE DEF file, out
  <2> QED  BY <1>2, <1>4, <1>7, <1>8 DEF Apart, Away, Mine, EmitterTypeOK
<1>10. dir'[out] = stream'[p] /\ content'[dir'[out]] = Empty
  <2> HIDE DEF file, out
  <2> QED  BY <1>1, <1>2 DEF EmitterTypeOK
<1>11. Phase(p)'
  BY <1>3, <1>4, <1>5, <1>8, <1>10 DEF Phase, Mine, Opened
<1> QED  BY <1>9, <1>11

\* Nothing there is of a run that begins.
LEMMA NothingOfNew ==
    ASSUME Base, NEW p \in Processes, run[p] < MaxRuns, run' = [run EXCEPT ![p] = @ + 1],
           UNCHANGED <<dir, linked, content>>
    PROVE  /\ \A path \in Paths : ~Mine(p, path)'
           /\ \A q \in Processes : Build(p)' \notin linked'[q].of
<1> DEFINE k == run[p] + 1
<1>1. k \in 0 .. MaxRuns /\ k > run[p] /\ Build(p)' = <<p, k>>
  BY PathAssumption DEF Base, EmitterTypeOK, Build
<1> HIDE DEF k
<1>2. /\ \A file \in File : <<p, k>> \notin content[file].of
      /\ \A q \in Processes : <<p, k>> \notin linked[q].of
  BY <1>1 DEF Base, Known
<1> QED  BY <1>1, <1>2 DEF Mine, Base, EmitterTypeOK

LEMMA OwnStart ==
    ASSUME Base, NEW p \in Processes, Apart(p), Start(p)
    PROVE  Apart(p)' /\ Phase(p)'
<1>1. /\ run[p] < MaxRuns /\ run' = [run EXCEPT ![p] = @ + 1] /\ pc'[p] = "translate"
      /\ UNCHANGED <<command, stream, linked, dir, content>>
  BY DEF Start, Go, Base, EmitterTypeOK
<1>2. Footprint(p)' = Footprint(p)
  BY <1>1, SameCommand
<1>3. /\ \A path \in Paths : ~Mine(p, path)'
      /\ \A q \in Processes : Build(p)' \notin linked'[q].of
  BY <1>1, NothingOfNew
<1>4. Apart(p)'
  BY <1>1, <1>2, <1>3 DEF Apart, Away
<1>5. Phase(p)'
  BY <1>1, <1>3 DEF Phase, Opened
<1> QED  BY <1>4, <1>5

LEMMA OwnWrite ==
    ASSUME Base, NEW p \in Processes, Apart(p), Phase(p), Write(p)
    PROVE  Apart(p)' /\ Phase(p)'
<1> USE DEF Base
<1> DEFINE out == OutputPath(p)
           so == command[p].kind = "SO"
           tmp == Tmp(p)
           bytes == [type |-> EmittedType(p), of |-> {Build(p)}]
<1>1. /\ pc[p] = "write" /\ stream[p] \in File /\ out \in Paths /\ dir[out] = stream[p]
      /\ content[stream[p]] = Empty
  BY DEF Write, At, Where, Phase
<1>2. UNCHANGED <<command, run, dir>> /\ pc'[p] = IF so THEN "rename" ELSE "ok"
  BY DEF Write, Go, End, EmitterTypeOK
<1>3. content' = [content EXCEPT ![stream[p]] = bytes]
  <2>1. content[stream[p]].of \cup {Build(p)} = {Build(p)}
    BY <1>1, EmptyIsBytes
  <2> QED  BY <2>1 DEF Write
<1>4. /\ OutputPath(p)' = out /\ Tmp(p)' = tmp /\ Footprint(p)' = Footprint(p)
      /\ Build(p)' = Build(p) /\ ArtifactType(p)' = ArtifactType(p)
  BY <1>2, SameCommand DEF Build
<1>5. \A q \in Processes \ {p} : stream'[q] = stream[q] /\ linked'[q] = linked[q]
  BY DEF Write, Go, End, EmitterTypeOK
<1>6. \A path \in Paths \ Footprint(p) : dir[path] # Absent =>
         Build(p) \notin content'[dir[path]].of
  <2>1. \A path \in Paths \ Footprint(p) : dir[path] # Absent => dir[path] # stream[p]
    BY <1>1, FileNames DEF OnePath, Footprint
  <2> HIDE DEF bytes
  <2> QED  BY <1>3, <2>1 DEF Apart, Away, Mine, EmitterTypeOK
<1>7. Apart(p)'
  BY <1>2, <1>4, <1>5, <1>6 DEF Apart, Away, Mine
<1>8. content'[dir'[out]] = bytes /\ dir'[out] # Absent
  <2> HIDE DEF bytes
  <2> QED  BY <1>1, <1>2, <1>3, FileNames DEF EmitterTypeOK
<1>9. ASSUME so PROVE Phase(p)'
  BY <1>2, <1>4, <1>8, <1>9 DEF Phase, Whole, EmittedType, Opened
<1>10. ASSUME ~so PROVE Phase(p)'
  BY <1>2, <1>4, <1>8, <1>10 DEF Phase, Whole, ArtifactType, Opened
<1> QED  BY <1>7, <1>9, <1>10

LEMMA OwnRename ==
    ASSUME Base, NEW p \in Processes, Apart(p), Phase(p), Rename(p)
    PROVE  Apart(p)' /\ Phase(p)'
<1> USE DEF Base
<1> DEFINE out == OutputPath(p)
           tmp == Tmp(p)
<1>1. /\ pc[p] = "rename" /\ pc'[p] = "link" /\ Whole(p, out, "object")
      /\ UNCHANGED <<command, run, content, stream, linked>>
  BY DEF Rename, At, Go, Phase, EmitterTypeOK
<1>2. out \in Footprint(p) \cap Paths /\ tmp \in Footprint(p) \cap Paths /\ out # tmp
  BY <1>1, PathNames DEF Where, Linking, Footprint, EmitterTypeOK
<1>3. dir' = [dir EXCEPT ![tmp] = dir[out], ![out] = Absent]
  BY <1>1 DEF Rename, Whole
<1>4. /\ OutputPath(p)' = out /\ Tmp(p)' = tmp /\ Footprint(p)' = Footprint(p)
      /\ Build(p)' = Build(p)
  BY <1>1, SameCommand DEF Build
<1> HIDE DEF out, tmp
<1>5. /\ dir'[out] = Absent /\ dir'[tmp] = dir[out]
      /\ \A path \in Paths \ {out, tmp} : dir'[path] = dir[path]
  BY <1>2, <1>3 DEF EmitterTypeOK
<1>6. Apart(p)'
  <2>1. \A path \in Footprint(p) \cap Paths : dir'[path] # Absent =>
           \E old \in Footprint(p) \cap Paths : dir'[path] = dir[old]
    BY <1>2, <1>5
  <2>2. \A path \in Paths \ Footprint(p) : dir'[path] = dir[path]
    BY <1>2, <1>5
  <2> QED  BY <1>1, <1>4, <2>1, <2>2 DEF Apart, Away, Mine
<1>7. Phase(p)'
  BY <1>1, <1>4, <1>5 DEF Phase, Whole, Opened, out, tmp
<1> QED  BY <1>6, <1>7

LEMMA OwnLinkWrite ==
    ASSUME Base, NEW p \in Processes, Apart(p), Phase(p), LinkWrite(p)
    PROVE  Apart(p)' /\ Phase(p)'
<1> USE DEF Base
<1> DEFINE out == OutputPath(p)
           file == <<p, run[p], "linked">>
           library == [type |-> "library", of |-> {Build(p)}]
<1>1. /\ pc[p] = "linking" /\ pc'[p] = "clean" /\ UNCHANGED <<command, run, stream, linked>>
      /\ linked[p] = [type |-> "object", of |-> {Build(p)}]
  BY DEF LinkWrite, At, Go, Phase, EmitterTypeOK
<1>2. out \in Footprint(p) \cap Paths
  BY <1>1, PathNames DEF Where, Linking, Footprint, EmitterTypeOK
<1>3. file \in File /\ Unused(file)
  BY LinkWriteBase
<1>4. dir' = [dir EXCEPT ![out] = file] /\ content' = [content EXCEPT ![file] = library]
  BY <1>1 DEF LinkWrite, Library
<1>5. /\ OutputPath(p)' = out /\ Footprint(p)' = Footprint(p) /\ Build(p)' = Build(p)
  BY <1>1, SameCommand DEF Build
<1>6. dir'[out] = file /\ content'[file] = library /\ file # Absent
  <2> HIDE DEF file, library, out
  <2> QED  BY <1>2, <1>3, <1>4, FileNames DEF EmitterTypeOK
<1>7. Apart(p)'
  <2> HIDE DEF file, library, out
  <2>1. \A q \in Processes : stream'[q] # file
    BY <1>1, <1>3 DEF Unused
  <2>2. \A path \in Paths \ {out} : dir'[path] = dir[path] /\ dir[path] # file
    BY <1>2, <1>3, <1>4 DEF Unused, EmitterTypeOK
  <2>3. \A path \in Paths \ {out} : dir[path] # Absent => content'[dir[path]] = content[dir[path]]
    BY <1>4, <2>2 DEF EmitterTypeOK
  <2> QED  BY <1>1, <1>2, <1>5, <1>6, <2>1, <2>2, <2>3 DEF Apart, Away, Mine
<1>8. Phase(p)'
  BY <1>1, <1>5, <1>6 DEF Phase, Whole, Opened
<1> QED  BY <1>7, <1>8

LEMMA OwnRemove ==
    ASSUME Base, NEW p \in Processes, Apart(p), Phase(p), Remove(p)
    PROVE  Apart(p)' /\ Phase(p)'
<1> USE DEF Base
<1> DEFINE out == OutputPath(p)
           tmp == Tmp(p)
<1>1. /\ UNCHANGED <<command, run, content>> /\ dir' = [dir EXCEPT ![tmp] = Absent]
      /\ pc[p] \in {"clean", "discard"} /\ pc'[p] = IF pc[p] = "clean" THEN "ok" ELSE "error"
  BY DEF Remove, At, End, EmitterTypeOK
<1>2. /\ out \in Footprint(p) \cap Paths /\ tmp \in Footprint(p) \cap Paths /\ out # tmp
      /\ command[p].kind = "SO" /\ Footprint(p) = {out, tmp}
  BY <1>1, PathNames DEF Where, Linking, Footprint, EmitterTypeOK
<1>3. /\ OutputPath(p)' = out /\ Tmp(p)' = tmp /\ Footprint(p)' = Footprint(p)
      /\ Build(p)' = Build(p) /\ ArtifactType(p)' = "library"
  BY <1>1, <1>2, SameCommand DEF Build, ArtifactType
<1> HIDE DEF out, tmp
<1>4. dir'[tmp] = Absent /\ \A path \in Paths \ {tmp} : dir'[path] = dir[path]
  BY <1>1, <1>2 DEF EmitterTypeOK
<1>5. \A q \in Processes \ {p} : stream'[q] = stream[q] /\ linked'[q] = linked[q]
  BY DEF Remove, End, EmitterTypeOK
<1>6. Apart(p)'
  BY <1>1, <1>2, <1>3, <1>4, <1>5 DEF Apart, Away, Mine
<1>7. ASSUME pc[p] = "clean" PROVE Phase(p)'
  BY <1>1, <1>2, <1>3, <1>4, <1>7 DEF Phase, Whole, Opened, out, tmp
<1>8. ASSUME pc[p] = "discard" PROVE Phase(p)'
  <2>1. dir'[out] = Absent
    BY <1>2, <1>4, <1>8 DEF Phase, out
  <2>2. \A path \in Paths : ~Mine(p, path)'
    BY <2>1, <1>2, <1>3, <1>4, <1>6 DEF Apart, Away, Mine
  <2> QED  BY <2>2, <1>1, <1>8 DEF Phase, Opened
<1> QED  BY <1>1, <1>6, <1>7, <1>8

LEMMA OwnStep ==
    ASSUME Base, NEW p \in Processes, Apart(p), Phase(p), Step(p)
    PROVE  Apart(p)' /\ Phase(p)'
BY OwnQuiet, OwnStart, OwnOpen, OwnWrite, OwnRename, OwnLinkWrite, OwnRemove DEF Step, Quietly

\* The files that p puts under its paths are its own, or were under them before: whatever
\* others have open is still under none of some paths that p's are among.
LEMMA OwnClear ==
    ASSUME Base, NEW p \in Processes, Step(p), NEW some, Footprint(p) \cap Paths \subseteq some,
           \A q \in Processes \ {p} : stream[q] # Absent =>
               \A path \in some \cap Paths : dir[path] # stream[q]
    PROVE  \A q \in Processes \ {p} : stream'[q] # Absent =>
               \A path \in some \cap Paths : dir'[path] # stream'[q]
<1> USE DEF Base
<1>1. \A q \in Processes \ {p} : stream'[q] = stream[q]
  BY DEF Step, Start, Translate, Open, OpenFile, OpenFails, EmitText, AddPasses, Write, Rename,
         LinkRead, LinkFails, LinkWrite, Remove, Kill, Go, End, EmitterTypeOK
<1>2. OutputPath(p) \in Footprint(p)
  BY DEF Footprint
<1>3. CASE Start(p) \/ Quietly(p) \/ Write(p)
  <2>1. UNCHANGED dir
    BY <1>3, QuietStep DEF Start, Write
  <2> QED  BY <1>1, <2>1
<1>4. CASE Open(p)
  <2> DEFINE out == OutputPath(p)
             file == Opens(p, out)
  <2>1. /\ out \in some \cap Paths /\ dir' = [dir EXCEPT ![out] = file]
        /\ dir[out] = Absent => \A q \in Processes : stream[q] # file
        /\ dir[out] # Absent => file = dir[out]
    BY <1>2, <1>4, OpenStep DEF Open, OpenFile, Opens
  <2> HIDE DEF out, file
  <2>2. \A path \in some \cap Paths : dir'[path] = IF path = out THEN file ELSE dir[path]
    BY <2>1 DEF EmitterTypeOK
  <2> QED  BY <1>1, <2>1, <2>2
<1>5. CASE Rename(p)
  <2>1. /\ OutputPath(p) \in some \cap Paths /\ Tmp(p) \in some \cap Paths
        /\ OutputPath(p) # Tmp(p)
    BY <1>2, <1>5, PathNames DEF Rename, At, Where, Linking, Footprint, EmitterTypeOK
  <2>2. \A path \in some \cap Paths : dir'[path] # Absent =>
           \E old \in some \cap Paths : dir'[path] = dir[old]
    BY <1>5, <2>1 DEF Rename, EmitterTypeOK
  <2> QED  BY <1>1, <2>2
<1>6. CASE LinkWrite(p)
  <2> DEFINE file == <<p, run[p], "linked">>
  <2>1. file \in File /\ Unused(file) /\ dir' = [dir EXCEPT ![OutputPath(p)] = file]
    BY <1>6, LinkWriteBase DEF LinkWrite
  <2> HIDE DEF file
  <2>2. \A path \in Paths : dir'[path] \in {dir[path], file}
    BY <2>1 DEF EmitterTypeOK
  <2> QED  BY <1>1, <2>1, <2>2 DEF Unused
<1>7. CASE Remove(p)
  <2>1. \A path \in Paths : dir'[path] \in {dir[path], Absent}
    BY <1>7 DEF Remove, EmitterTypeOK
  <2> QED  BY <1>1, <2>1
<1> QED  BY <1>3, <1>4, <1>5, <1>6, <1>7 DEF Step, Quietly

-----------------------------------------------------------------------------
(* The invariant and the properties *)

LEMMA InitBase ==
    ASSUME Init
    PROVE  Base /\ \A p \in Processes : Apart(p) /\ \A path \in Paths : ~Mine(p, path)
<1> USE DEF Init
<1>1. PICK old \in Directories :
         dir = [path \in Paths |-> IF path \in old THEN <<path, 0, "found">> ELSE Absent]
  OBVIOUS
<1>2. \A path \in Paths : <<path, 0, "found">> \in File
  BY DEF File
<1>3. \A path \in Paths : dir[path] \in {<<path, 0, "found">>, Absent}
  BY <1>1
<1>4. EmitterTypeOK
  <2>1. dir \in [Paths -> File \cup {Absent}]
    BY <1>1, <1>2
  <2>2. content \in [File -> Bytes] /\ linked \in [Processes -> Bytes]
    BY EmptyIsBytes
  <2>3. pc \in [Processes -> Places] /\ run \in [Processes -> 0 .. MaxRuns]
    BY PathAssumption DEF Places
  <2> QED  BY <2>1, <2>2, <2>3 DEF EmitterTypeOK
<1>5. OnePath
  BY <1>3 DEF OnePath
<1>6. ASSUME NEW p \in Processes PROVE Where(p) /\ Fresh(p) /\ Known(p)
  <2>1. Where(p)
    BY DEF Where, Linking
  <2>2. \A k \in 0 .. MaxRuns : Unused(<<p, k, "emitted">>) /\ Unused(<<p, k, "linked">>)
    <3>1. \A q \in Processes : stream[q] = Absent
      OBVIOUS
    <3>2. ASSUME NEW k \in 0 .. MaxRuns, NEW what \in {"emitted", "linked"}
          PROVE  Unused(<<p, k, what>>)
      <4>1. \A path : <<p, k, what>> # <<path, 0, "found">>
        OBVIOUS
      <4> HIDE DEF Init
      <4> QED  BY <1>3, <3>1, <4>1, FileNames DEF Unused
    <3> QED  BY <3>2
  <2>3. Fresh(p)
    BY <2>2, PathAssumption DEF Fresh
  <2>4. Known(p)
    BY EmptyIsBytes DEF Known
  <2> QED  BY <2>1, <2>3, <2>4
<1>7. ASSUME NEW p \in Processes PROVE \A path \in Paths : ~Mine(p, path)
  BY <1>2, <1>3, EmptyIsBytes DEF Mine
<1>8. ASSUME NEW p \in Processes PROVE Apart(p)
  BY <1>7, EmptyIsBytes DEF Apart, Away
<1> QED  BY <1>4, <1>5, <1>6, <1>7, <1>8 DEF Base

\* Every state that the runs of the compiler reach is as Base, Apart and Phase say.
THEOREM EmitterInvariant == Spec => []EmitterInv
<1>1. Init => EmitterInv
  <2> SUFFICES ASSUME Init PROVE EmitterInv
    OBVIOUS
  <2>1. ASSUME NEW p \in Processes PROVE Phase(p)
    BY <2>1, InitBase DEF Init, Phase
  <2> QED  BY <2>1, InitBase DEF EmitterInv
<1>2. EmitterInv /\ [Next]_vars => EmitterInv'
  <2> SUFFICES ASSUME EmitterInv, [Next]_vars PROVE EmitterInv'
    OBVIOUS
  <2>1. CASE UNCHANGED vars
    <3> USE <2>1 DEF vars
    <3>1. /\ EmitterTypeOK' <=> EmitterTypeOK
          /\ OnePath' <=> OnePath
      BY DEF EmitterTypeOK, OnePath
    <3>2. \A file : Unused(file)' <=> Unused(file)
      BY DEF Unused
    <3>3. ASSUME NEW p \in Processes
          PROVE  Where(p) /\ Fresh(p) /\ Known(p) => (Where(p) /\ Fresh(p) /\ Known(p))'
      BY <3>2, SameCommand DEF Where, Fresh, Known
    <3>4. ASSUME NEW p \in Processes, Apart(p), Phase(p)
          PROVE  Apart(p)' /\ Phase(p)'
      <4>1. /\ \A path : Mine(p, path)' <=> Mine(p, path)
            /\ \A path, type : Whole(p, path, type)' <=> Whole(p, path, type)
            /\ Build(p)' = Build(p)
        BY DEF Mine, Whole, Build
      <4>2. Apart(p)'
        BY <3>4, <4>1, SameCommand DEF Apart, Away
      <4>3. Phase(p)'
        BY <3>4, <4>1, SameCommand DEF Phase
      <4> QED  BY <4>2, <4>3
    <3> QED  BY <3>1, <3>3, <3>4, SameCommand DEF EmitterInv, Base
  <2>2. ASSUME NEW q \in Processes, Step(q) PROVE EmitterInv'
    <3>1. Base' /\ UNCHANGED command
      BY <2>2, StepBase DEF EmitterInv, Step, Start, Translate, Open, OpenFails, EmitText,
         AddPasses, Write, Rename, LinkRead, LinkFails, LinkWrite, Remove, Kill
    <3>2. ASSUME NEW p \in Processes, Alone(p)' PROVE Apart(p)' /\ Phase(p)'
      <4>1. Alone(p) /\ Apart(p) /\ Phase(p)
        BY <3>1, <3>2, SameCommand DEF EmitterInv
      <4>2. CASE p = q
        BY <2>2, <4>1, <4>2, OwnStep DEF EmitterInv
      <4>3. CASE p # q
        BY <2>2, <4>1, <4>3, OthersPhase DEF EmitterInv
      <4> QED  BY <4>2, <4>3
    <3> QED  BY <3>1, <3>2 DEF EmitterInv
  <2> QED  BY <2>1, <2>2 DEF Next
<1> QED  BY <1>1, <1>2, PTL DEF Spec

\* A run that returns 0 has put its own artifact, and nothing of an earlier run, at the
\* output path, and has left no object of an earlier run behind (emit_codegen_file): for
\* any number of compilers on other paths, any directory, any kills and any runs before.
THEOREM SuccessAlwaysArtifact == Spec => []SuccessIsArtifact
<1>1. EmitterInv => SuccessIsArtifact
  <2> SUFFICES ASSUME EmitterInv, NEW p \in Processes, pc[p] = "ok", Alone(p), OutputPath(p) # NoPath
               PROVE  /\ dir[OutputPath(p)] # Absent
                      /\ content[dir[OutputPath(p)]] = [type |-> ArtifactType(p), of |-> {Build(p)}]
                      /\ command[p].kind = "SO" => dir[Tmp(p)] = Absent
    BY DEF SuccessIsArtifact
  <2> QED  BY DEF EmitterInv, Phase, Whole
<1> QED  BY <1>1, EmitterInvariant, PTL

\* A run for a shared library that returns, with or without an error, leaves no object
\* of its own in the directory (std::rename, the linker, std::remove).
THEOREM ObjectNeverLeft == Spec => []NoObjectLeft
<1>1. EmitterInv => NoObjectLeft
  <2> SUFFICES ASSUME EmitterInv, NEW p \in Processes, pc[p] \in {"ok", "error"}, Alone(p),
                      command[p].kind = "SO", NEW path \in Paths, dir[path] # Absent
               PROVE  ~(content[dir[path]].type = "object" /\ Build(p) \in content[dir[path]].of)
    BY DEF NoObjectLeft
  <2>1. Base /\ Apart(p) /\ Phase(p)
    BY DEF EmitterInv
  <2>2. CASE pc[p] = "error"
    BY <2>1, <2>2 DEF Phase, Mine
  <2>3. CASE pc[p] = "ok"
    <3>1. OutputPath(p) \in Paths /\ Footprint(p) = {OutputPath(p), Tmp(p)}
      BY <2>1, PathNames DEF Base, EmitterTypeOK, Footprint
    <3>2. dir[Tmp(p)] = Absent /\ Whole(p, OutputPath(p), "library")
      BY <2>1, <2>3, <3>1, PathAssumption DEF Phase, ArtifactType
    <3>3. path = OutputPath(p) \/ path \in Paths \ Footprint(p)
      BY <3>1, <3>2
    <3> QED  BY <2>1, <3>2, <3>3 DEF Apart, Away, Mine, Whole
  <2> QED  BY <2>2, <2>3
<1> QED  BY <1>1, EmitterInvariant, PTL
=============================================================================
