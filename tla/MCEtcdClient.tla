--------------------------- MODULE MCEtcdClient ---------------------------
(* Instances of EtcdClient for TLC.                                        *)
EXTENDS EtcdClient

\* Every call may time out.
Timeouts == Kinds \X {"TIMEOUT"}

\* Replies to a listing may be errors, too.
ErrorsOfReads == Timeouts \cup ({"list"} \X {"http_error", "garbage"})
===========================================================================
