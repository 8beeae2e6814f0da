---------------------------- MODULE MCChannelSync ----------------------------
(* One channel with one or two slots for start_sync calls and their tasks.   *)
EXTENDS ChannelSync

OneSlot  == {1}
TwoSlots == 1..2
=============================================================================
