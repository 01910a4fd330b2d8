---------------------------- MODULE MCDotExport ----------------------------
(***************************************************************************)
(* Names whose ids clash: the node name chosen by callers and the first    *)
(* made-up one ("n.0" and "n_0", say).                                     *)
(***************************************************************************)
EXTENDS DotExport, TLC

CONSTANTS f, x, y

MCDotId(name) == IF name = AutoName(0) THEN f ELSE name

Symmetry == Permutations(Names)
=============================================================================
