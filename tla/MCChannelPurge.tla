---------------------------- MODULE MCChannelPurge ----------------------------
(* One channel with one sync slot and two purge_channel calls.               *)
EXTENDS ChannelPurge

OneSlot == {1}
=============================================================================
