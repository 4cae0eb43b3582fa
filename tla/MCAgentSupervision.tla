------------------------- MODULE MCAgentSupervision -------------------------
(* AgentSupervision for TLC.                                               *)
EXTENDS AgentSupervision

TwoChildren == <<"PERMANENT", "TRANSIENT">>

=============================================================================
