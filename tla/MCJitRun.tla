------------------------------ MODULE MCJitRun ------------------------------
(***************************************************************************)
(* Models and options for TLC, agreeing and not.                           *)
(***************************************************************************)
EXTENDS JitRun

F(args, results) == [args |-> args, results |-> results]

\* Images with and without a known batch, one too large for Bits, all lower ranks and
\* one above, and functions with other numbers of arguments and results.
MCFunctions == {
    F(<<<<1, 2, 2, 3>>>>, <<<<1, 2>>>>), F(<<<<2, 1, 3, 2>>>>, <<<<2, 1>>>>),
    F(<<<<Dynamic, 2, 2, 1>>>>, <<<<Dynamic, 2>>>>), F(<<<<Dynamic, 2, Dynamic, 1>>>>, <<<<1, 1>>>>),
    F(<<<<3, 3, 3, 3>>>>, <<<<1, 2>>>>),
    F(<< << >> >>, << << >> >>), F(<<<<2>>>>, <<<<2>>>>), F(<<<<2, 3>>>>, <<<<2, 3>>>>),
    F(<<<<2, 1, 3>>>>, <<<<2, 1>>>>), F(<<<<1, 1, 1, 1, 1>>>>, <<<<1, 1>>>>),
    F(<< >>, <<<<1, 2>>>>), F(<<<<1, 2, 2, 3>>, <<2>>>>, <<<<1, 1>>>>),
    F(<<<<1>>, <<1, 1, 1, 1>>>>, << >>), F(<<<<1, 2>>>>, << >>), F(<<<<1, 1, 1>>>>, << >>),
    F(<<<<1, 1, 1, 1>>>>, << << >>, << >> >>), F(<<<<1, 1, 1, 1>>>>, <<<<1, 1>>, <<1>>>>)}

MCOptions == {[N |-> n, C |-> c, H |-> h, W |-> w, out_elems |-> out, file |-> file] :
    n \in {-1, 0, 1, 2, 3}, c \in {-1, 1, 2, 3}, h \in 1 .. 3, w \in 1 .. 3,
    out \in {0, 2, 4, 6}, file \in {NoFile, Missing, 3, 12}}
=============================================================================
