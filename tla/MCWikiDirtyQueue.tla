--------------------------- MODULE MCWikiDirtyQueue ---------------------------
(* One channel with one page p1.  "debounced" is the settle path's flush,    *)
(* "overview" the one AutoOverviewSubscriber runs.                           *)
EXTENDS WikiDirtyQueue, TLC

CONSTANTS c1, p1

OnePage == p1 :> c1
=============================================================================
