--------------------------- MODULE MCWatchManager ---------------------------
(* WatchManager for TLC: one attribute, so that an object or a filter has  *)
(* it or not.                                                              *)
EXTENDS WatchManager

TwoWatches == {"w1", "w2"}
OneWatch   == {"w1"}
OneLabel   == {"app=web"}

=============================================================================
