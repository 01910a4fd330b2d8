----------------------------- MODULE MCMlirGen -----------------------------
(***************************************************************************)
(* Graphs for TLC: one node of every kind on operands of every rank, and   *)
(* two nodes in every order, with cycles, shadowing and second outputs,    *)
(* and chains of two kinds on operands that suit some of them.             *)
(***************************************************************************)
EXTENDS MlirGen, TLC

CONSTANTS x, w, y, z, v

Tensor(rank, bytes) == [typed |-> TRUE, rank |-> rank, bytes |-> bytes, fits |-> TRUE]
PlainNode(op, ins, outs) == [op |-> op, inputs |-> ins, outputs |-> outs, trans |-> {}, axis |-> 1]

\* Kinds of node with their attributes; "Tanh" is not supported.
Kinds == {[PlainNode(op, << >>, << >>) EXCEPT !.axis = a] : op \in {"Softmax", "Flatten"}, a \in {-2, 1, 3}}
    \cup {[PlainNode("Gemm", << >>, << >>) EXCEPT !.trans = t] : t \in SUBSET {"A", "B"}}
    \cup {PlainNode(op, << >>, << >>) : op \in (Supported \ {"Softmax", "Flatten", "Gemm"}) \cup {"Tanh"}}

SlotLists == {<< >>, <<x>>, <<y>>, <<x, w>>, <<x, w, w>>, <<x, w, y>>, <<x, x>>, <<x, y>>, <<x, w, w, w, w>>}

\* Contents of an initializer: none, not whole words, of an unknown type, not fitting.
OddContents == {Tensor(1, 0), Tensor(1, 12), [Tensor(2, 8) EXCEPT !.typed = FALSE],
                [Tensor(2, 8) EXCEPT !.fits = FALSE]}

OneNodeGraph(xt, wt, node) ==
    [inputs |-> <<x>>, initializers |-> <<w>>, outputs |-> <<y>>, nodes |-> <<node>>,
     tensor |-> (x :> xt @@ w :> wt @@ [name \in {y, z, v} |-> Tensor(0, 0)])]

\* All ranks; all lists of slots; tensors that cannot be emitted.
OneNodeGraphs ==
    {OneNodeGraph(Tensor(r, 0), wt, [k EXCEPT !.inputs = ins, !.outputs = <<y>>]) :
        r \in 0 .. 4, wt \in {Tensor(1, 8), Tensor(2, 24), Tensor(4, 8)},
        k \in Kinds, ins \in {<<x, w>>, <<x, w, w, w, w>>}}
    \cup
    {OneNodeGraph(Tensor(4, 0), Tensor(4, 8), [k EXCEPT !.inputs = ins, !.outputs = outs]) :
        k \in Kinds, ins \in SlotLists, outs \in {<< >>, <<y>>}}
    \cup
    {OneNodeGraph(xt, wt, PlainNode(op, <<x, w>>, <<y>>)) :
        xt \in {Tensor(2, 0), [Tensor(2, 0) EXCEPT !.typed = FALSE]},
        wt \in OddContents \cup {Tensor(2, 8)}, op \in {"Add", "Reshape"}}

\* Two elementwise nodes.
Elementwise ==
    {PlainNode("Relu", <<a>>, outs) : a \in Names, outs \in {<<x>>, <<w>>, <<y>>, <<v>>, <<y, z>>}}
    \cup {PlainNode("Add", <<a, b>>, outs) : a \in {w, y}, b \in {x, z}, outs \in {<<w>>, <<y>>, <<z>>}}

SharedOutputs == {p \in Elementwise \X Elementwise : ToSet(p[1].outputs) \cap ToSet(p[2].outputs) # {}}

TwoNodeGraphs ==
    {[inputs |-> <<x>>, initializers |-> <<w>>, outputs |-> outs,
      tensor |-> [name \in Names |-> Tensor(2, IF name = w THEN 8 ELSE 0)], nodes |-> pair] :
        outs \in {<<y>>, <<z, w>>},
        pair \in (Elementwise \X Elementwise) \ SharedOutputs}

\* The result of one kind, under a new or an old name, is the operand of another.
\* The weights suit a BatchNormalization, a Gemm, a Conv, or a Reshape to 1, 2, 3, 4.
Chained(k, a, out) ==
    [k EXCEPT !.inputs = [i \in 1 .. Arity(k.op) |-> IF i = 1 THEN a ELSE w], !.outputs = <<out>>]

Chains ==
    {[inputs |-> <<x>>, initializers |-> <<w>>, outputs |-> <<z>>,
      tensor |-> (x :> Tensor(r, 0) @@ w :> wt @@ [name \in {y, z, v} |-> Tensor(0, 0)]),
      nodes |-> <<Chained(first, x, mid), Chained(second, IF mid = w THEN x ELSE mid, z)>>] :
        r \in {2, 4}, wt \in {Tensor(1, 16), Tensor(2, 32), Tensor(4, 8), Tensor(4, 24)},
        mid \in {x, w, y}, first \in Kinds, second \in Kinds}

MCGraphs == OneNodeGraphs \cup TwoNodeGraphs \cup Chains
=============================================================================
