------------------------------ MODULE Handlers ------------------------------
(***************************************************************************)
(* The server process, as the components of this project share it.         *)
(*                                                                         *)
(* Request handlers and scheduled jobs run in one Node process.  A handler *)
(* yields at every await of a statement or of a call to an outside party,  *)
(* and no handler runs in a transaction, so between two of its statements  *)
(* any other handler may run.  A slot of req holds what a handler in       *)
(* flight has read; its field pc names the statement it will run next.     *)
(***************************************************************************)
EXTENDS Naturals, FiniteSets, TLC

CONSTANT
    Requests        \* handlers that can be in flight at the same time

VARIABLES
    req,            \* slot -> the handler in it
    arrivals,       \* bound: requests still to arrive
    faults,         \* bound: restarts still to happen
    overlapped      \* history: two handlers were in flight at once, or one was cut off

server == <<req, arrivals, faults, overlapped>>

\* NULL in a column of names.
None == "none"

Idle == [pc |-> "idle"]
Unused == [pc |-> "unused"]

At(r, pc) == req[r].pc = pc

InFlight == {r \in Requests : req[r] \notin {Idle, Unused}}
Quiescent == InFlight = {}

\* A start with these slots, so many requests to come and so many restarts.
ServerInit(slots, requests, stops) ==
    /\ req = [r \in Requests |-> IF r \in slots THEN Idle ELSE Unused]
    /\ arrivals = requests /\ faults = stops /\ overlapped = FALSE

Enter(r, local) ==
    /\ req[r] = Idle
    /\ overlapped' = (overlapped \/ ~Quiescent)
    /\ req' = [req EXCEPT ![r] = local]
    /\ UNCHANGED faults

\* A request arrives.  Its handler runs to its first await and keeps what it has
\* read in local; Idle when it is already done.
Begin(r, local) ==
    /\ arrivals > 0
    /\ arrivals' = arrivals - 1
    /\ Enter(r, local)

\* node-cron fires a job.  Jobs come back for as long as the process runs, so
\* they are not counted.
Fire(r, local) ==
    /\ Enter(r, local)
    /\ UNCHANGED arrivals

\* The handler in slot r runs on to its next await.
Continue(r, local) ==
    /\ req' = [req EXCEPT ![r] = local]
    /\ UNCHANGED <<arrivals, faults, overlapped>>

\* It returns or throws.
Return(r) == Continue(r, Idle)

\* The process stops between two statements and is started again: handlers in
\* flight are gone, the tables stay.
Restart ==
    /\ faults > 0
    /\ ~Quiescent
    /\ faults' = faults - 1
    /\ overlapped' = TRUE
    /\ req' = [r \in Requests |-> IF r \in InFlight THEN Idle ELSE req[r]]
    /\ UNCHANGED arrivals

\* UPDATE ... SET: the columns the patch names change, the others keep what is
\* in the row now.
Update(row, patch) ==
    [f \in DOMAIN row \cup DOMAIN patch |-> IF f \in DOMAIN patch THEN patch[f] ELSE row[f]]

=============================================================================
