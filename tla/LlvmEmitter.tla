---------------------------- MODULE LlvmEmitter ----------------------------
(***************************************************************************)
(* emit_output (src/codegen/llvm_emitter.cpp) and the files it leaves:     *)
(* runs of the compiler, in processes of their own, that share a           *)
(* directory, may be killed at any step and started again.                 *)
(*                                                                         *)
(* A path leads to a file (dir) and a file has a content, since a file     *)
(* that is open for writing keeps its identity when it is renamed.  The    *)
(* directory can be written to, so rename fails only if there is no file.  *)
(* A file that is half written counts as empty.                            *)
(*                                                                         *)
(* A definition called ..._bug is a slip one could make in the definition  *)
(* it precedes; it is used nowhere and serves to see a property fail.      *)
(***************************************************************************)
EXTENDS Naturals

CONSTANTS
    Processes,   \* places the compiler is run from
    Commands,    \* [kind, path]: output_kind and output_path
    Paths,       \* the paths in use
    TmpObj,      \* TmpObj[path] = path + ".tmp.o"
    NoPath,      \* no output_path, and standard output
    DefaultObj, DefaultSo,   \* "a.o", "a.so"
    Absent,      \* no file under a path
    Directories, \* sets of paths under which there may be files at the start
    MaxRuns      \* bound: how often the command of a process is run

ASSUME PathAssumption ==
    /\ NoPath \notin Paths /\ {DefaultObj, DefaultSo} \subseteq Paths
    /\ TmpObj \in [Paths -> Paths \cup {NoPath}] /\ \A path \in Paths : TmpObj[path] # path
    /\ MaxRuns \in Nat

\* The temporary of every library that is asked for is among the paths.
ASSUME CommandAssumption == \A asked \in Commands :
    /\ asked.kind \in {"LLVM_IR", "ASM", "OBJ", "SO"} /\ asked.path \in Paths \cup {NoPath}
    /\ asked.kind = "SO" => TmpObj[IF asked.path = NoPath THEN DefaultSo ELSE asked.path] \in Paths

VARIABLES
    command,     \* command[p]: what p is asked to emit
    run,         \* run[p]: how often p has started
    pc,          \* pc[p]: where p is: "idle", ..., "ok" (exit 0), "error" (1), "killed"
    stream,      \* stream[p]: the file that p has open for writing
    linked,      \* linked[p]: what the linker of p has read
    dir,         \* dir[path]: the file there, or Absent
    content      \* content[file]: [type, of], of being the runs that wrote it

vars == <<command, run, pc, stream, linked, dir, content>>

-----------------------------------------------------------------------------
Build(p) == <<p, run[p]>>

\* A file is named by the path it was first seen under, or by the run that made it.
File == {<<path, 0, "found">> : path \in Paths}
        \cup {<<p, k, what>> : p \in Processes, k \in 1 .. MaxRuns, what \in {"emitted", "linked"}}

ASSUME AbsentAssumption == Absent \notin File

Found == [type |-> "found", of |-> {}]
Empty == [type |-> "empty", of |-> {}]

\* What the linker makes of bytes: a library made of the same runs.
Library(bytes) == [type |-> "library", of |-> bytes.of]

DefaultPath(kind) == CASE kind = "OBJ" -> DefaultObj [] kind = "SO" -> DefaultSo [] OTHER -> NoPath
OutputPath(p) ==
    IF command[p].path = NoPath THEN DefaultPath(command[p].kind) ELSE command[p].path

EmittedType(p) == IF command[p].kind \in {"OBJ", "SO"} THEN "object" ELSE "text"
Tmp_bug(p) == TmpObj[DefaultSo]      \* one temporary for every library
Tmp(p) == TmpObj[OutputPath(p)]

-----------------------------------------------------------------------------
Init == /\ command \in [Processes -> Commands]
        /\ run = [p \in Processes |-> 0]
        /\ pc = [p \in Processes |-> "idle"]
        /\ stream = [p \in Processes |-> Absent]
        /\ linked = [p \in Processes |-> Empty]
        /\ \E old \in Directories :
              dir = [path \in Paths |-> IF path \in old THEN <<path, 0, "found">> ELSE Absent]
        /\ content = [f \in File |-> Found]

At(p, here)   == pc[p] = here
Go(p, there)  == pc' = [pc EXCEPT ![p] = there] /\ UNCHANGED <<stream, linked>>
End(p, outcome) == /\ pc' = [pc EXCEPT ![p] = outcome]
                   /\ stream' = [stream EXCEPT ![p] = Absent]
                   /\ linked' = [linked EXCEPT ![p] = Empty]

Start(p) ==
    /\ pc[p] \in {"idle", "ok", "error", "killed"}
    /\ run[p] < MaxRuns
    /\ run' = [run EXCEPT ![p] = @ + 1]
    /\ Go(p, "translate")
    /\ UNCHANGED <<command, dir, content>>

\* translate_to_llvm_ir or create_target_machine may fail; no file is open yet.
Translate(p) ==
    /\ At(p, "translate")
    /\ Go(p, "open") \/ End(p, "error")
    /\ UNCHANGED <<command, run, dir, content>>

Open_bug(p) ==      \* the file is opened with OF_Append
    /\ At(p, "open") /\ OutputPath(p) # NoPath
    /\ LET path == OutputPath(p)
           file == IF dir[path] = Absent THEN <<p, run[p], "emitted">> ELSE dir[path]
       IN  /\ dir' = [dir EXCEPT ![path] = file]
           /\ stream' = [stream EXCEPT ![p] = file]
    /\ pc' = [pc EXCEPT ![p] = IF command[p].kind = "LLVM_IR" THEN "write" ELSE "passes"]
    /\ UNCHANGED <<command, run, linked, content>>

\* An existing file is emptied, not replaced.
OpenFile(p, path) ==
    LET file == IF dir[path] = Absent THEN <<p, run[p], "emitted">> ELSE dir[path]
    IN  /\ dir' = [dir EXCEPT ![path] = file]
        /\ stream' = [stream EXCEPT ![p] = file]
        /\ content' = [content EXCEPT ![file] = Empty]

\* open_file_stream.  Without a path the text goes to standard output and no file is
\* concerned.
Open(p) ==
    /\ At(p, "open") /\ OutputPath(p) # NoPath
    /\ OpenFile(p, OutputPath(p))
    /\ pc' = [pc EXCEPT ![p] = IF command[p].kind = "LLVM_IR" THEN "write" ELSE "passes"]
    /\ UNCHANGED <<command, run, linked>>

OpenFails(p) ==
    /\ At(p, "open") /\ OutputPath(p) # NoPath
    /\ End(p, "error")
    /\ UNCHANGED <<command, run, dir, content>>

EmitText(p) ==
    /\ At(p, "open") /\ OutputPath(p) = NoPath
    /\ End(p, "ok") \/ (command[p].kind # "LLVM_IR" /\ End(p, "error"))
    /\ UNCHANGED <<command, run, dir, content>>

\* addPassesToEmitFile may refuse: the file has been emptied by then.
AddPasses(p) ==
    /\ At(p, "passes")
    /\ Go(p, "write") \/ End(p, "error")
    /\ UNCHANGED <<command, run, dir, content>>

\* The bytes go where the open file is, under whatever path by now, over what other
\* runs have written there.
Write(p) ==
    /\ At(p, "write")
    /\ content' = [content EXCEPT ![stream[p]] =
                      [type |-> EmittedType(p), of |-> @.of \cup {Build(p)}]]
    /\ IF command[p].kind = "SO" THEN Go(p, "rename") ELSE End(p, "ok")
    /\ UNCHANGED <<command, run, dir>>

\* The result of std::rename is not looked at.
Rename(p) ==
    /\ At(p, "rename")
    /\ dir' = IF dir[OutputPath(p)] = Absent THEN dir
              ELSE [dir EXCEPT ![Tmp(p)] = dir[OutputPath(p)], ![OutputPath(p)] = Absent]
    /\ Go(p, "link")
    /\ UNCHANGED <<command, run, content>>

\* The linker reads its input; without a whole one, or a linker, the status is not 0.
LinkRead(p) ==
    /\ At(p, "link")
    /\ dir[Tmp(p)] # Absent /\ content[dir[Tmp(p)]].type = "object"
    /\ linked' = [linked EXCEPT ![p] = content[dir[Tmp(p)]]]
    /\ pc' = [pc EXCEPT ![p] = "linking"]
    /\ UNCHANGED <<command, run, stream, dir, content>>

LinkFails(p) ==
    /\ pc[p] \in {"link", "linking"}
    /\ Go(p, "discard")
    /\ UNCHANGED <<command, run, dir, content>>

\* It then puts a new file at the output path.
LinkWrite(p) ==
    /\ At(p, "linking")
    /\ LET file == <<p, run[p], "linked">>
       IN  /\ dir' = [dir EXCEPT ![OutputPath(p)] = file]
           /\ content' = [content EXCEPT ![file] = Library(linked[p])]
    /\ Go(p, "clean")
    /\ UNCHANGED <<command, run>>

\* std::remove comes before the status of the linker is looked at.
Remove_bug(p) ==      \* ... or after it: a failure returns early
    /\ pc[p] \in {"clean", "discard"}
    /\ IF At(p, "clean") THEN dir' = [dir EXCEPT ![Tmp(p)] = Absent] ELSE UNCHANGED dir
    /\ End(p, IF At(p, "clean") THEN "ok" ELSE "error")
    /\ UNCHANGED <<command, run, content>>
Remove(p) ==
    /\ pc[p] \in {"clean", "discard"}
    /\ dir' = [dir EXCEPT ![Tmp(p)] = Absent]
    /\ End(p, IF At(p, "clean") THEN "ok" ELSE "error")
    /\ UNCHANGED <<command, run, content>>

\* Its process group is killed, or the machine stops: the linker ends as well.
Kill(p) ==
    /\ pc[p] \notin {"idle", "ok", "error", "killed"}
    /\ End(p, "killed")
    /\ UNCHANGED <<command, run, dir, content>>

Step(p) == \/ Start(p) \/ Translate(p) \/ Open(p) \/ OpenFails(p) \/ EmitText(p) \/ AddPasses(p)
           \/ Write(p) \/ Rename(p) \/ LinkRead(p) \/ LinkFails(p) \/ LinkWrite(p) \/ Remove(p)
           \/ Kill(p)
Next == \E p \in Processes : Step(p)
Spec == Init /\ [][Next]_vars

-----------------------------------------------------------------------------
(* Properties *)

\* The paths a run may write to, and runs that share none with p.
Footprint(p) == {OutputPath(p)} \cup (IF command[p].kind = "SO" THEN {Tmp(p)} ELSE {})
Alone(p) == \A q \in Processes \ {p} : Footprint(p) \cap Footprint(q) \subseteq {NoPath}

ArtifactType(p) == IF command[p].kind = "SO" THEN "library" ELSE EmittedType(p)

\* A run that returns 0 has put its own artifact, and nothing of an earlier run, at
\* the output path, and an earlier run's object is not left behind: whatever was there
\* before, however earlier runs were killed, and whatever others do on other paths.
SuccessIsArtifact ==
    \A p \in Processes : pc[p] = "ok" /\ Alone(p) /\ OutputPath(p) # NoPath =>
        /\ dir[OutputPath(p)] # Absent
        /\ content[dir[OutputPath(p)]] = [type |-> ArtifactType(p), of |-> {Build(p)}]
        /\ command[p].kind = "SO" => dir[Tmp(p)] = Absent

\* A run for a shared library that returns, with an error too, leaves no object file
\* of its own, neither beside the library nor under the library's name.
NoObjectLeft ==
    \A p \in Processes : pc[p] \in {"ok", "error"} /\ Alone(p) /\ command[p].kind = "SO" =>
        \A path \in Paths : dir[path] # Absent =>
            LET there == content[dir[path]] IN ~(there.type = "object" /\ Build(p) \in there.of)

=============================================================================
