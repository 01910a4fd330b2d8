--------------------------- MODULE MCShapeRules ---------------------------
(***************************************************************************)
(* Small tensors of every rank, unknown sizes in every place.              *)
(***************************************************************************)
EXTENDS ShapeRules, TLC

Known(s) == [dims |-> s, shape |-> s]

MCStarts ==
    {Known(s) : s \in {<< >>, <<2>>, <<1, 3>>, <<2, 3>>, <<2, 2, 2>>, <<1, 2, 3, 2>>, <<1, 1, 1, 4>>}}
    \cup {[dims |-> <<0, 3>>,       shape |-> <<n, 3>>] : n \in 1 .. 2}
    \cup {[dims |-> <<0, 2, 3, 2>>, shape |-> <<n, 2, 3, 2>>] : n \in 1 .. 2}
    \cup {[dims |-> <<1, 2, 0, 1>>, shape |-> <<1, 2, n, 1>>] : n \in {1, 3}}

MCWeights == {<<2>>, <<3>>, <<3, 2>>, <<2, 3>>, <<1, 2, 2, 2>>, <<2, 2, 4, 1>>, <<2, 1, 1, 3>>}

MCWindows == [strides : {<<1, 1>>, <<2, 1>>, <<3, 2>>}, dilations : {<<1, 1>>, <<2, 1>>},
              pads : {<<0, 0, 0, 0>>, <<1, 0, 0, 0>>, <<1, 0, 1, 2>>}]

MCKernels == {<<1, 1>>, <<2, 2>>, <<4, 1>>}

MCTargets == {<<6>>, <<2, 3>>, <<3, 2>>, <<1, 2, 3, 1>>, <<1, 1, 2, 3, 1>>, <<0, -1>>, <<-1>>, <<0, 3>>}

MCAxes == -3 .. 4
=============================================================================
