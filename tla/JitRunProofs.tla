---------------------------- MODULE JitRunProofs ----------------------------
(***************************************************************************)
(* The two invariants of JitRun, for every function, all options and any   *)
(* width of int64_t.                                                       *)
(***************************************************************************)
EXTENDS JitRun, TLAPS

-----------------------------------------------------------------------------
(* Arithmetic *)

\* A product that does not overflow is what it is.
LEMMA WrapFacts ==
    ASSUME NEW n \in Int
    PROVE  /\ Wrap(n) \in Int
           /\ n \in 0 .. Limit - 1 => Wrap(n) = n
<1>1. Limit \in Nat \ {0} /\ 2 * Limit \in Nat \ {0}
  BY WordAssumption
<1>2. (n + Limit) % (2 * Limit) \in Int
  BY <1>1
<1>3. ASSUME n \in 0 .. Limit - 1 PROVE (n + Limit) % (2 * Limit) = n + Limit
  BY <1>1, <1>3
<1> QED  BY <1>1, <1>2, <1>3 DEF Wrap

LEMMA ProductGrows ==
    ASSUME NEW a \in Nat \ {0}, NEW b \in Nat \ {0}
    PROVE  a * b \in Nat \ {0} /\ b <= a * b
  OBVIOUS

\* A place within a block, within blocks.
LEMMA Nested ==
    ASSUME NEW a \in Nat \ {0}, NEW b \in Nat \ {0}, NEW i \in 0 .. a - 1, NEW j \in 0 .. b - 1
    PROVE  i * b + j \in 0 .. a * b - 1
<1>1. i * b <= (a - 1) * b /\ i * b >= 0
  OBVIOUS
<1>2. (a - 1) * b = a * b - b
  OBVIOUS
<1>3. a * b \in Int /\ i * b \in Int
  OBVIOUS
<1> QED  BY <1>1, <1>2, <1>3

LEMMA OptionTypes ==
    ASSUME options \in Options
    PROVE  /\ options.N \in Int /\ options.C \in Int /\ options.H \in Int /\ options.W \in Int
           /\ options.file \in Nat \cup {NoFile, Missing}
           /\ options.N * options.C * options.H * options.W \in Int
           /\ in_elems \in Int /\ out_elems \in Nat \ {0}
<1>1. /\ options.N \in Int /\ options.C \in Int /\ options.H \in Int /\ options.W \in Int
      /\ options.out_elems \in Int /\ options.file \in Nat \cup {NoFile, Missing}
  BY OptionAssumption
<1>2. options.N * options.C * options.H * options.W \in Int
  BY <1>1
<1> QED  BY <1>1, <1>2, WrapFacts DEF in_elems, out_elems

-----------------------------------------------------------------------------
(* A model that agrees with the options *)

\* The strides that the host writes do not wrap, nor does the number of elements.
LEMMA Strided ==
    ASSUME options \in Options, Positive,
           options.N * options.C * options.H * options.W < Limit
    PROVE  LET N == options.N  C == options.C  H == options.H  W == options.W
           IN  /\ N \in Nat \ {0} /\ C \in Nat \ {0} /\ H \in Nat \ {0} /\ W \in Nat \ {0}
               /\ in_elems = N * (C * (H * W))
               /\ Wrap(C * H * W) = C * (H * W) /\ Wrap(H * W) = H * W
               /\ H * W \in Nat \ {0} /\ C * (H * W) \in Nat \ {0} /\ N * (C * (H * W)) \in Nat \ {0}
<1> DEFINE N == options.N  C == options.C  H == options.H  W == options.W
<1>1. N \in Nat \ {0} /\ C \in Nat \ {0} /\ H \in Nat \ {0} /\ W \in Nat \ {0}
  BY OptionTypes DEF Positive
<1> HIDE DEF N, C, H, W
<1>2. H * W \in Nat \ {0}
  BY <1>1, ProductGrows
<1>3. C * (H * W) \in Nat \ {0} /\ H * W <= C * (H * W)
  BY <1>1, <1>2, ProductGrows
<1>4. N * (C * (H * W)) \in Nat \ {0} /\ C * (H * W) <= N * (C * (H * W))
  BY <1>1, <1>3, ProductGrows
<1>5. C * H * W = C * (H * W) /\ N * C * H * W = N * (C * (H * W))
  BY <1>1
<1>6. Limit \in Nat
  BY WordAssumption
<1>7. N * (C * (H * W)) < Limit
  BY <1>5 DEF N, C, H, W
<1>8. /\ H * W \in 0 .. Limit - 1 /\ C * (H * W) \in 0 .. Limit - 1
      /\ N * (C * (H * W)) \in 0 .. Limit - 1
  BY <1>2, <1>3, <1>4, <1>6, <1>7
<1>9. /\ Wrap(H * W) = H * W /\ Wrap(C * (H * W)) = C * (H * W)
      /\ Wrap(N * (C * (H * W))) = N * (C * (H * W))
  BY <1>2, <1>3, <1>4, <1>8, WrapFacts
<1>10. in_elems = N * (C * (H * W)) /\ Wrap(C * H * W) = C * (H * W)
  BY <1>5, <1>9 DEF in_elems, N, C, H, W
<1> QED  BY <1>1, <1>2, <1>3, <1>4, <1>9, <1>10 DEF N, C, H, W

\* The only argument is read through in_desc, with one size and one stride for each of
\* its four dimensions.
LEMMA Described ==
    ASSUME main \in Functions, options \in Options, OneToOne, Len(main.args[1]) = 4, Given(Sizes(1)), Positive,
           options.N * options.C * options.H * options.W < Limit
    PROVE  LET N == options.N  C == options.C  H == options.H  W == options.W
           IN  /\ DOMAIN main.args = {1} /\ FirstArgument = 2
               /\ Descriptor(1) = in_desc /\ Buffer(1) = input
               /\ Sizes(1) = <<N, C, H, W>> /\ Strides(1) = <<C * (H * W), H * W, W, 1>>
<1>1. main.args \in Seq(Type) /\ Len(main.args) = 1 /\ main.results # << >>
  BY FunctionAssumption DEF OneToOne
<1>2. DOMAIN main.args = {1} /\ main.args[1] \in Type
  BY <1>1
<1>3. DOMAIN main.args[1] = 1 .. 4
  BY <1>2 DEF Type
<1>4. FirstArgument = 2 /\ Descriptor(1) = in_desc
  BY <1>1 DEF FirstArgument, Descriptor, Passed
<1>5. Buffer(1) = input
  BY <1>4 DEF Buffer, in_desc
<1>6. DOMAIN Sizes(1) = 1 .. 4
  BY <1>3 DEF Sizes
<1>7. Sizes(1) = <<options.N, options.C, options.H, options.W>>
  <2> DEFINE given == <<options.N, options.C, options.H, options.W>>
  <2>1. Sizes(1) = [d \in 1 .. 4 |-> Sizes(1)[d]]
    BY <1>3 DEF Sizes
  <2>2. \A d \in 1 .. 4 : Sizes(1)[d] = given[d]
    BY DEF Given
  <2>3. given = [d \in 1 .. 4 |-> given[d]]
    OBVIOUS
  <2> QED  BY <2>1, <2>2, <2>3
<1>8. Strides(1) = [d \in 1 .. 4 |-> in_desc[7 + d]]
  BY <1>4 DEF Strides
<1>9. /\ in_desc[8] = options.C * (options.H * options.W) /\ in_desc[9] = options.H * options.W
      /\ in_desc[10] = options.W /\ in_desc[11] = 1
  BY Strided DEF in_desc
<1>10. Strides(1) = <<in_desc[8], in_desc[9], in_desc[10], in_desc[11]>>
  BY <1>8
<1> QED  BY <1>2, <1>4, <1>5, <1>7, <1>9, <1>10

LEMMA IndexTypes ==
    ASSUME NEW N \in Nat \ {0}, NEW C \in Nat \ {0}, NEW H \in Nat \ {0}, NEW W \in Nat \ {0},
           NEW index \in Indices(<<N, C, H, W>>)
    PROVE  /\ DOMAIN index = 1 .. 4
           /\ index[1] \in 0 .. N - 1 /\ index[2] \in 0 .. C - 1
           /\ index[3] \in 0 .. H - 1 /\ index[4] \in 0 .. W - 1
<1> DEFINE sizes == <<N, C, H, W>>
<1>1. DOMAIN sizes = 1 .. 4 /\ \A d \in 1 .. 4 : sizes[d] \in Nat
  OBVIOUS
<1> HIDE DEF sizes
<1>2. \A k \in UNION {0 .. sizes[d] - 1 : d \in DOMAIN sizes} : k \in Nat
  <2>1. ASSUME NEW d \in DOMAIN sizes, NEW k \in 0 .. sizes[d] - 1 PROVE k \in Nat
    BY <1>1
  <2> QED  BY <2>1
<1>3. DOMAIN index = 1 .. 4 /\ \A d \in 1 .. 4 : index[d] \in Nat /\ index[d] < sizes[d]
  BY <1>1, <1>2 DEF Indices, sizes
<1> QED  BY <1>3 DEF sizes

\* Where an element is, by the strides of the descriptor ...
LEMMA PositionByStrides ==
    ASSUME NEW N \in Nat \ {0}, NEW C \in Nat \ {0}, NEW H \in Nat \ {0}, NEW W \in Nat \ {0},
           NEW index \in Indices(<<N, C, H, W>>)
    PROVE  Position(index, <<C * (H * W), H * W, W, 1>>)
             = index[1] * (C * (H * W)) + index[2] * (H * W) + index[3] * W + index[4] * 1
<1> DEFINE strides == <<C * (H * W), H * W, W, 1>>
           terms   == [d \in DOMAIN index |-> index[d] * strides[d]]
<1>1. DOMAIN terms = 1 .. 4
  BY IndexTypes
<1>2. Sum(terms) = terms[1] + terms[2] + terms[3] + terms[4]
  BY <1>1 DEF Sum, At
<1>3. \A d \in 1 .. 4 : terms[d] = index[d] * strides[d]
  BY <1>1
<1>4. /\ strides[1] = C * (H * W) /\ strides[2] = H * W /\ strides[3] = W /\ strides[4] = 1
  OBVIOUS
<1>5. Position(index, strides) = Sum(terms)
  BY DEF Position
<1> HIDE DEF terms, strides
<1>6. /\ terms[1] = index[1] * (C * (H * W)) /\ terms[2] = index[2] * (H * W)
      /\ terms[3] = index[3] * W /\ terms[4] = index[4] * 1
  BY <1>3, <1>4
<1> QED  BY <1>2, <1>5, <1>6 DEF strides

\* ... and in a file.
LEMMA PositionInFile ==
    ASSUME NEW N \in Nat \ {0}, NEW C \in Nat \ {0}, NEW H \in Nat \ {0}, NEW W \in Nat \ {0},
           NEW index \in Indices(<<N, C, H, W>>)
    PROVE  RowMajor(index, <<N, C, H, W>>)
             = index[1] * (C * (H * W)) + index[2] * (H * W) + index[3] * W + index[4] * 1
<1> DEFINE sizes    == <<N, C, H, W>>
           after(d) == SubSeq(sizes, d + 1, Len(sizes))
           terms    == [d \in DOMAIN sizes |-> index[d] * Product(after(d))]
<1>1. /\ DOMAIN sizes = 1 .. 4 /\ Len(sizes) = 4 /\ sizes \in Seq(Nat)
      /\ sizes[1] = N /\ sizes[2] = C /\ sizes[3] = H /\ sizes[4] = W
  OBVIOUS
<1> HIDE DEF sizes
<1>2. /\ DOMAIN after(1) = 1 .. 3 /\ after(1)[1] = C /\ after(1)[2] = H /\ after(1)[3] = W
      /\ DOMAIN after(2) = 1 .. 2 /\ after(2)[1] = H /\ after(2)[2] = W
      /\ DOMAIN after(3) = 1 .. 1 /\ after(3)[1] = W
      /\ DOMAIN after(4) = {}
  BY <1>1
<1> HIDE DEF after
<1>3. Product(after(1)) = C * (H * W)
  <2>1. /\ At(after(1), 1, 1) = C /\ At(after(1), 2, 1) = H /\ At(after(1), 3, 1) = W
        /\ At(after(1), 4, 1) = 1
    BY <1>2 DEF At
  <2> QED  BY <2>1 DEF Product
<1>4. Product(after(2)) = H * W
  <2>1. /\ At(after(2), 1, 1) = H /\ At(after(2), 2, 1) = W /\ At(after(2), 3, 1) = 1
        /\ At(after(2), 4, 1) = 1
    BY <1>2 DEF At
  <2> QED  BY <2>1 DEF Product
<1>5. Product(after(3)) = W
  <2>1. /\ At(after(3), 1, 1) = W /\ At(after(3), 2, 1) = 1 /\ At(after(3), 3, 1) = 1
        /\ At(after(3), 4, 1) = 1
    BY <1>2 DEF At
  <2> QED  BY <2>1 DEF Product
<1>6. Product(after(4)) = 1
  <2>1. \A d \in 1 .. 4 : At(after(4), d, 1) = 1
    BY <1>2 DEF At
  <2> QED  BY <2>1 DEF Product
<1>7. DOMAIN terms = 1 .. 4
  BY <1>1
<1>8. Sum(terms) = terms[1] + terms[2] + terms[3] + terms[4]
  BY <1>7 DEF Sum, At
<1>9. /\ terms[1] = index[1] * (C * (H * W)) /\ terms[2] = index[2] * (H * W)
      /\ terms[3] = index[3] * W /\ terms[4] = index[4] * 1
  BY <1>1, <1>3, <1>4, <1>5, <1>6
<1> QED  BY <1>8, <1>9 DEF RowMajor, sizes, after

\* All elements are in a buffer of N * C * H * W of them.
LEMMA PositionInBuffer ==
    ASSUME NEW N \in Nat \ {0}, NEW C \in Nat \ {0}, NEW H \in Nat \ {0}, NEW W \in Nat \ {0},
           NEW index \in Indices(<<N, C, H, W>>)
    PROVE  index[1] * (C * (H * W)) + index[2] * (H * W) + index[3] * W + index[4] * 1
             \in 0 .. N * (C * (H * W)) - 1
<1>1. /\ index[1] \in 0 .. N - 1 /\ index[2] \in 0 .. C - 1
      /\ index[3] \in 0 .. H - 1 /\ index[4] \in 0 .. W - 1
  BY IndexTypes
<1>2. H * W \in Nat \ {0} /\ C * (H * W) \in Nat \ {0}
  BY ProductGrows
<1> DEFINE row == index[3] * W + index[4]
           image == index[2] * (H * W) + row
<1>3. row \in 0 .. H * W - 1
  BY <1>1, Nested
<1>4. image \in 0 .. C * (H * W) - 1
  <2> HIDE DEF row
  <2> QED  BY <1>1, <1>2, <1>3, Nested
<1>5. index[1] * (C * (H * W)) + image \in 0 .. N * (C * (H * W)) - 1
  <2> HIDE DEF image
  <2> QED  BY <1>1, <1>2, <1>4, Nested
<1>6. /\ index[1] * (C * (H * W)) \in Int /\ index[2] * (H * W) \in Int /\ index[3] * W \in Int
      /\ index[4] \in Int
  BY <1>1, <1>2
<1> QED  BY <1>5, <1>6

-----------------------------------------------------------------------------
(* The call *)

\* The callee finds what it needs.
Callable == Fits /\ \A i \in DOMAIN main.args : InBuffer(i)

LEMMA AgreeingCall ==
    ASSUME main \in Functions, options \in Options, Agrees, input = in_elems
    PROVE  /\ Callable
           /\ DOMAIN main.args = {1}
           /\ Accesses(1) = {<<index, RowMajor(index, Sizes(1))>> : index \in Indices(Sizes(1))}
           /\ main.results # << >> /\ Printable = out_elems
<1> DEFINE N == options.N  C == options.C  H == options.H  W == options.W
<1>1. /\ OneToOne /\ Len(main.args[1]) = 4 /\ Positive /\ Given(Sizes(1))
      /\ N * C * H * W < Limit /\ out_elems = Product(ResultSizes)
  BY DEF Agrees
<1>2. /\ N \in Nat \ {0} /\ C \in Nat \ {0} /\ H \in Nat \ {0} /\ W \in Nat \ {0}
      /\ in_elems = N * (C * (H * W))
  BY <1>1, Strided
<1>3. /\ DOMAIN main.args = {1} /\ FirstArgument = 2 /\ Descriptor(1) = in_desc /\ Buffer(1) = input
      /\ Sizes(1) = <<N, C, H, W>> /\ Strides(1) = <<C * (H * W), H * W, W, 1>>
  BY <1>1, Described
<1> HIDE DEF N, C, H, W
<1>4. \A index \in Indices(Sizes(1)) :
          /\ Position(index, Strides(1)) = RowMajor(index, Sizes(1))
          /\ Position(index, Strides(1)) \in 0 .. Buffer(1) - 1
  <2>1. ASSUME NEW index \in Indices(<<N, C, H, W>>)
        PROVE  /\ Position(index, <<C * (H * W), H * W, W, 1>>) = RowMajor(index, <<N, C, H, W>>)
               /\ Position(index, <<C * (H * W), H * W, W, 1>>) \in 0 .. N * (C * (H * W)) - 1
    BY <1>2, PositionByStrides, PositionInFile, PositionInBuffer
  <2> QED  BY <1>2, <1>3, <2>1
<1>5. Accesses(1) = {<<index, RowMajor(index, Sizes(1))>> : index \in Indices(Sizes(1))}
  BY <1>4 DEF Accesses
<1>6. InBuffer(1)
  <2>1. \A d \in DOMAIN Sizes(1) : Sizes(1)[d] >= 0
    <3> DEFINE sizes == <<N, C, H, W>>
    <3>1. DOMAIN sizes = 1 .. 4 /\ \A d \in 1 .. 4 : sizes[d] >= 0
      BY <1>2
    <3> QED  BY <1>3, <3>1
  <2>2. \A access \in Accesses(1) : access[2] \in 0 .. Buffer(1) - 1
    BY <1>4 DEF Accesses
  <2> QED  BY <2>1, <2>2 DEF InBuffer
<1>7. /\ main.results \in Seq(Type) /\ Len(main.results) = 1 /\ main.results[1] \in Type
      /\ Len(main.results[1]) <= 2
  BY <1>1, FunctionAssumption DEF OneToOne
<1>8. Fits
  <2> DEFINE words == [i \in DOMAIN main.results |-> Words(main.results[i])]
  <2>1. DOMAIN main.results = {1}
    BY <1>7
  <2>2. Words(main.results[1]) \in 0 .. 7
    BY <1>7 DEF Words, Type
  <2>3. Sum(words) = words[1]
    BY <2>1, <2>2 DEF Sum, At
  <2>4. Len(out_desc) = 7
    BY DEF out_desc
  <2>5. FirstArgument + 1 - 1 \in DOMAIN Passed
    <3>1. 2 + 1 - 1 \in DOMAIN Passed
      BY DEF Passed
    <3> QED  BY <1>3, <3>1, Zenon
  <2>6. Words(main.args[1]) <= Len(Descriptor(1))
    <3>1. Words(main.args[1]) = 11
      BY <1>1 DEF Words
    <3>2. Len(Descriptor(1)) = 11
      BY <1>3 DEF in_desc
    <3>3. 11 <= 11
      OBVIOUS
    <3> QED  BY <3>1, <3>2, <3>3, Zenon
  <2>7. Len(main.results) <= 2 /\ Sum(words) <= Len(out_desc)
    BY <1>7, <2>1, <2>2, <2>3, <2>4
  <2>8. \A i \in {1} : FirstArgument + i - 1 \in DOMAIN Passed /\ Words(main.args[i]) <= Len(Descriptor(i))
    BY <2>5, <2>6, Zenon
  <2> QED  BY <1>3, <2>7, <2>8 DEF Fits
<1>9. main.results # << >>
  BY <1>7
<1> QED  BY <1>1, <1>3, <1>5, <1>6, <1>8, <1>9 DEF Callable, Printable

-----------------------------------------------------------------------------
(* The run *)

Begun == {"open", "read", "lookup", "call", "print", "ok", "undefined"}   \* with a buffer
Fed   == {"lookup", "call", "print", "ok"}

JitTypeOK ==
    /\ main \in Functions /\ options \in Options
    /\ pc \in Begun \cup {"create", "allocate", "error"}

\* The buffer is as long as the options say, and a file that has been read fills it.
Buffered ==
    /\ pc \in Begun => input = in_elems
    /\ pc \in {"open", "read"} => options.file # NoFile
    /\ pc = "read" => options.file # Missing
    /\ pc \in Fed /\ options.file # NoFile => options.file \in Nat /\ in_elems <= options.file

\* What has been taken and printed, and why a run is undefined.
Outcome ==
    /\ pc \in {"print", "ok"} =>
          Callable /\ taken = IF main.args = << >> THEN {} ELSE Accesses(1)
    /\ pc = "ok" => printed = out_elems
    /\ pc = "undefined" => ~(Callable /\ out_elems <= Printable)

JitInv == JitTypeOK /\ Buffered /\ Outcome

\* What a call would do depends on the function, the options and the buffer only.
LEMMA SameCall ==
    ASSUME UNCHANGED <<main, options, input>>
    PROVE  /\ in_elems' = in_elems /\ out_elems' = out_elems
           /\ Callable' <=> Callable
           /\ Accesses(1)' = Accesses(1) /\ Printable' = Printable
  BY DEF in_elems, out_elems, Callable, Fits, FirstArgument, Passed, Descriptor, in_desc, out_desc,
         InBuffer, Sizes, Strides, Accesses, Buffer, Printable, ResultSizes

LEMMA JitStep ==
    ASSUME JitInv, [Next]_vars
    PROVE  JitInv'
<1>1. JitTypeOK /\ Buffered /\ Outcome
  BY DEF JitInv
<1>2. in_elems \in Int /\ out_elems \in Nat \ {0} /\ options.file \in Nat \cup {NoFile, Missing}
  BY <1>1, OptionTypes DEF JitTypeOK
<1>3. CASE Create
  BY <1>1, <1>3 DEF Create, Goto, JitInv, JitTypeOK, Buffered, Outcome, Begun, Fed
<1>4. CASE Allocate
  <2>1. in_elems' = in_elems
    BY <1>4 DEF Allocate, Goto, in_elems
  <2> QED  BY <1>1, <1>2, <1>4, <2>1 DEF Allocate, Goto, JitInv, JitTypeOK, Buffered, Outcome, Begun, Fed
<1>5. CASE UNCHANGED <<main, options, input>>
  <2>1. /\ in_elems' = in_elems /\ out_elems' = out_elems /\ (Callable' <=> Callable)
        /\ Accesses(1)' = Accesses(1) /\ Printable' = Printable
        /\ main' = main /\ options' = options /\ input' = input
    BY <1>5, SameCall
  <2>2. CASE Open
    BY <1>1, <2>1, <2>2 DEF Open, Goto, JitInv, JitTypeOK, Buffered, Outcome, Begun, Fed
  <2>3. CASE Read
    BY <1>1, <1>2, <2>1, <2>3 DEF Read, Goto, JitInv, JitTypeOK, Buffered, Outcome, Begun, Fed
  <2>4. CASE Lookup
    BY <1>1, <2>1, <2>4 DEF Lookup, Goto, JitInv, JitTypeOK, Buffered, Outcome, Begun, Fed
  <2>5. CASE Call
    BY <1>1, <2>1, <2>5 DEF Call, Callable, Goto, JitInv, JitTypeOK, Buffered, Outcome, Begun, Fed
  <2>6. CASE PrintResult
    BY <1>1, <1>2, <2>1, <2>6 DEF PrintResult, Goto, JitInv, JitTypeOK, Buffered, Outcome, Begun, Fed
  <2>7. CASE UNCHANGED vars
    BY <1>1, <2>1, <2>7 DEF vars, JitInv, JitTypeOK, Buffered, Outcome, Begun, Fed
  <2> QED
    BY <1>3, <1>4, <2>2, <2>3, <2>4, <2>5, <2>6, <2>7 DEF Next
<1> QED
  <2>1. Create \/ Allocate \/ UNCHANGED <<main, options, input>>
    BY DEF Next, Open, Read, Lookup, Call, PrintResult, Goto, vars
  <2> QED  BY <1>3, <1>4, <1>5, <2>1

LEMMA JitAlways == Spec => []JitInv
<1>1. Init => JitInv
  BY DEF Init, JitInv, JitTypeOK, Buffered, Outcome, Begun, Fed
<1> QED  BY <1>1, JitStep, PTL DEF Spec

\* Where the options agree with a model of rank 4, whatever its sizes and whether they are
\* compiled in, run_jit reads and writes inside its buffers, feeds the elements in their
\* order and prints the whole result.
THEOREM AgreeingRunAlwaysRight == Spec => []AgreeingRunIsRight
<1>1. JitInv => AgreeingRunIsRight
  <2> SUFFICES ASSUME JitInv, Agrees, pc \in {"undefined", "ok"}
               PROVE  pc = "ok" /\ InOrder /\ printed = Product(ResultSizes)
    BY DEF AgreeingRunIsRight
  <2>1. JitTypeOK /\ Buffered /\ Outcome
    BY DEF JitInv
  <2>2. /\ Callable /\ DOMAIN main.args = {1} /\ Printable = out_elems
        /\ Accesses(1) = {<<index, RowMajor(index, Sizes(1))>> : index \in Indices(Sizes(1))}
    BY <2>1, AgreeingCall DEF JitTypeOK, Buffered, Begun
  <2>3. pc = "ok"
    BY <2>1, <2>2, OptionTypes DEF JitTypeOK, Outcome
  <2>4. InOrder
    BY <2>1, <2>2, <2>3 DEF Outcome, InOrder
  <2>5. printed = Product(ResultSizes)
    BY <2>1, <2>3 DEF Outcome, Agrees
  <2> QED  BY <2>3, <2>4, <2>5
<1> QED  BY <1>1, JitAlways, PTL

\* Whatever the model and the options, a run that returns 0 has taken no number from its
\* input buffer that was not in the file.
THEOREM NoElementEverMadeUp == Spec => []NoElementMadeUp
<1>1. JitInv => NoElementMadeUp
  <2> SUFFICES ASSUME JitInv, pc = "ok", options.file # NoFile, FirstArgument = 2,
                      NEW access \in taken
               PROVE  access[2] < options.file
    BY DEF NoElementMadeUp
  <2>1. JitTypeOK /\ Buffered /\ Outcome
    BY DEF JitInv
  <2>2. input = in_elems /\ options.file \in Nat /\ in_elems <= options.file /\ in_elems \in Int
    BY <2>1, OptionTypes DEF JitTypeOK, Buffered, Begun, Fed
  <2>3. main.args # << >> /\ access \in Accesses(1) /\ Callable
    BY <2>1 DEF Outcome
  <2>4. InBuffer(1)
    <3>1. main.args \in Seq(Type)
      BY <2>1, FunctionAssumption DEF JitTypeOK
    <3>2. 1 \in DOMAIN main.args
      BY <2>3, <3>1
    <3> QED  BY <2>3, <3>2 DEF Callable
  <2>5. Buffer(1) = input
    BY DEF Buffer, Descriptor, Passed, in_desc, FirstArgument
  <2>6. access[2] \in 0 .. input - 1
    BY <2>3, <2>4, <2>5 DEF InBuffer
  <2> QED  BY <2>2, <2>6
<1> QED  BY <1>1, JitAlways, PTL
=============================================================================
