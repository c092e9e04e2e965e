--------------------------- MODULE MCRecoveryCycle ---------------------------
(* A work node whose attempts fail in the classes of the cfg, with the retry *)
(* policy of the registry.                                                   *)
EXTENDS RecoveryCycle, TLC

SomeClasses == {"TIMEOUT", "RESOURCE", "CONTEXT_BUDGET"}
=============================================================================
