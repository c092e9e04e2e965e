---------------------------- MODULE MCToolRelay -----------------------------
(* Small instances of the tool relay under the scheduler. *)
EXTENDS ToolRelay

OneIntent == {1}
Interactive == {"INTERACTIVE"}
=============================================================================
