---------------------------- MODULE MCWriteIntents ----------------------------
(* Two batches: an ordinary one, and one with neither facts nor a graph to   *)
(* write.                                                                    *)
EXTENDS WriteIntents

CONSTANTS i1, i2
=============================================================================
