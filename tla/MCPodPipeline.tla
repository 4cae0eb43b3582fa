--------------------------- MODULE MCPodPipeline ---------------------------
(* Small instances of PodPipeline for TLC.                                 *)
EXTENDS PodPipeline

PodSet == {"p1", "p2"}
OnePod == {"p1"}
Either == {{"integration"}, {"standalone"}}
One    == {{"integration"}}

=============================================================================
