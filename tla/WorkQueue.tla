------------------------------ MODULE WorkQueue ------------------------------
(***************************************************************************)
(* What a queue of delayed work promises: an item is added once, one       *)
(* worker has it at a time, it is given back at most until MaxTries tries  *)
(* are spent, and what is finished stays finished.  All that is open may   *)
(* be withdrawn.  Nothing is promised about an item whose worker died.     *)
(***************************************************************************)
EXTENDS Naturals

CONSTANTS Items, MaxTries

VARIABLES item, tries

QueueInit ==
    /\ item = [i \in Items |-> "absent"]
    /\ tries = [i \in Items |-> 0]

Add(i) ==
    /\ item[i] = "absent"
    /\ item' = [item EXCEPT ![i] = "waiting"]
    /\ UNCHANGED tries

Take(i) ==
    /\ item[i] = "waiting" /\ tries[i] < MaxTries
    /\ item' = [item EXCEPT ![i] = "taken"]
    /\ tries' = [tries EXCEPT ![i] = @ + 1]

GiveBack(i) ==
    /\ item[i] = "taken" /\ tries[i] < MaxTries
    /\ item' = [item EXCEPT ![i] = "waiting"]
    /\ UNCHANGED tries

Finish(i) ==
    /\ item[i] = "taken"
    /\ item' = [item EXCEPT ![i] = "finished"]
    /\ UNCHANGED tries

Withdraw ==
    /\ item' = [i \in Items |-> IF item[i] \in {"waiting", "taken"} THEN "finished" ELSE item[i]]
    /\ UNCHANGED tries

QueueNext ==
    \/ \E i \in Items : Add(i) \/ Take(i) \/ GiveBack(i) \/ Finish(i)
    \/ Withdraw

QueueSpec == QueueInit /\ [][QueueNext]_<<item, tries>>
=============================================================================
