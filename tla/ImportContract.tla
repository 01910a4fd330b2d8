--------------------------- MODULE ImportContract ---------------------------
(***************************************************************************)
(* What import_onnx promises its callers: one answer, which is the graph   *)
(* of the file if the file can be imported and an exception otherwise.     *)
(***************************************************************************)
EXTENDS OnnxModel

CONSTANTS Files, Pending, Failed

VARIABLES file, result

Init == file \in Files \cup {Unreadable} /\ result = Pending

Answer == /\ result = Pending
          /\ result' = IF Importable(file) THEN Translation(file) ELSE Failed
          /\ UNCHANGED file

Safety   == Init /\ [][Answer]_<<file, result>>
Liveness == WF_<<file, result>>(Answer)
Spec == Safety /\ Liveness

=============================================================================
