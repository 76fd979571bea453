---------------------------- MODULE MCPoisonJob ----------------------------
(* PoisonJob with a job of each kind, the dangerous one last or alone. *)
EXTENDS PoisonJob

MixedFates == <<"raises", "finishes", "raises", "kills">>
KillerFate == <<"kills">>
=============================================================================
