------------------------------ MODULE RetryQueue ------------------------------
(***************************************************************************)
(* What the extraction queue promises its users, without workers, clocks   *)
(* or finalization races: a work queue with a retry budget.  An item is    *)
(* taken, then finished, failed, or returned untouched; a failure costs    *)
(* one try and the last try makes the item dead.  A finished or dead item  *)
(* stays so until it is reopened, which also restores its budget.  Several *)
(* items may move in one step, because one MongoDB bulk write moves many.  *)
(***************************************************************************)
EXTENDS Integers

CONSTANTS Items, Budget

VARIABLES item, tries

States == {"none", "todo", "taken", "done", "dead"}

Init ==
    /\ item = [i \in Items |-> "none"]
    /\ tries = [i \in Items |-> 0]

Move(i, from, to) == item[i] = from /\ item'[i] = to

Stay(i)   == item'[i] = item[i] /\ tries'[i] = tries[i]
Add(i)    == Move(i, "none", "todo") /\ tries'[i] = 0
Take(i)   == Move(i, "todo", "taken") /\ tries'[i] = tries[i]
Finish(i) == Move(i, "taken", "done") /\ tries'[i] = tries[i]
Return(i) == Move(i, "taken", "todo") /\ tries'[i] = tries[i]
Fail(i)   == /\ Move(i, "taken", IF tries[i] + 1 < Budget THEN "todo" ELSE "dead")
             /\ tries'[i] = tries[i] + 1
Reopen(i) == item[i] # "none" /\ item'[i] = "todo" /\ tries'[i] = 0

Step ==
    \A i \in Items :
        Stay(i) \/ Add(i) \/ Take(i) \/ Finish(i) \/ Return(i) \/ Fail(i) \/ Reopen(i)

Spec == Init /\ [][Step]_<<item, tries>>
=============================================================================
