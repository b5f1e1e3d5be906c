------------------------------ MODULE FieldWork ------------------------------
(***************************************************************************)
(* The offices of one organisation and one working day of its staff:       *)
(* modules/branches.js and modules/fieldops.js.  A person with no branch   *)
(* of their own checks in at the head office.                              *)
(***************************************************************************)
EXTENDS Handlers, Integers

CONSTANTS
    Offices,        \* branches, by code
    HeadOffice,     \* the branch an organisation starts with
    Agents,          \* people who check in
    Evening         \* bound: the last minute of the day

ASSUME FieldConstants ==
    /\ HeadOffice \in Offices /\ Evening \in Nat

VARIABLES
    branch,         \* branches, by code
    attendance,     \* the attendance row of each person, or none
    visits,         \* gps_visits of each person, counted by whether they are closed
    minute          \* the clock

fieldWork == <<branch, attendance, visits, minute>>
fieldVars == <<server, fieldWork>>

Never == -1
NoRow == [at |-> None, in |-> Never, out |-> Never, worked |-> 0, visitCount |-> 0]

FieldInit ==
    /\ branch = [b \in Offices |->
          [status |-> IF b = HeadOffice THEN "active" ELSE "absent", head |-> b = HeadOffice]]
    /\ attendance = [p \in Agents |-> NoRow]
    /\ visits = [p \in Agents |-> [open |-> 0, closed |-> 0]]
    /\ minute = 0

Heads == {b \in Offices : branch[b].status # "absent" /\ branch[b].head}

\* The minutes between two times, never less than none.
Between(from, to) == IF to < from THEN 0 ELSE to - from

-----------------------------------------------------------------------------
\* Mutant: the flag of the other offices stays.
PostBranchBeside(r, b, head) ==
    /\ branch[b].status = "absent"
    /\ Begin(r, [pc |-> "insert", b |-> b, head |-> head, new |-> TRUE])
    /\ UNCHANGED fieldWork

\* POST and PATCH of a branch.  isHeadOffice is true, false or left out; the
\* validator hands a field that was left out on as null.
PostBranch(r, b, head) ==
    /\ branch[b].status = "absent"
    /\ Begin(r, [pc |-> IF head THEN "clear" ELSE "insert", b |-> b, head |-> head, new |-> TRUE])
    /\ UNCHANGED fieldWork

PatchBranch(r, b, head) ==
    /\ branch[b].status # "absent"
    /\ Begin(r, [pc |-> IF head = "true" THEN "clear" ELSE "patch", b |-> b, head |-> head, new |-> FALSE])
    /\ UNCHANGED fieldWork

ClearHead(r) ==
    /\ At(r, "clear")
    /\ branch' = [b \in Offices |-> [branch[b] EXCEPT !.head = FALSE]]
    /\ Continue(r, [req[r] EXCEPT !.pc = IF req[r].new THEN "insert" ELSE "patch"])
    /\ UNCHANGED <<attendance, visits, minute>>

\* The code of a branch is unique: a second insert is refused.
InsertBranch(r) ==
    /\ At(r, "insert")
    /\ branch' = IF branch[req[r].b].status # "absent" THEN branch
                 ELSE [branch EXCEPT ![req[r].b] = [status |-> "active", head |-> req[r].head]]
    /\ Return(r)
    /\ UNCHANGED <<attendance, visits, minute>>

\* The patch keeps a flag that is undefined and writes 0 for one that is null.
HeadFlag(head) == head = "true"

WriteBranch(r) ==
    /\ At(r, "patch")
    /\ branch' = [branch EXCEPT ![req[r].b].head = HeadFlag(req[r].head)]
    /\ Return(r)
    /\ UNCHANGED <<attendance, visits, minute>>

\* DELETE closes a branch nobody is attached to; the row keeps its flag.
CloseBranch(r, b) ==
    /\ branch[b].status = "active"
    /\ branch' = [branch EXCEPT ![b].status = "inactive"]
    /\ Begin(r, Idle)
    /\ UNCHANGED <<attendance, visits, minute>>

-----------------------------------------------------------------------------
\* check-in: refused when there is a row already; the row names the office.
CheckIn(r, p) ==
    /\ attendance[p] = NoRow
    /\ \E at \in Heads \cup {None} :
          /\ at = None => Heads = {}
          /\ Begin(r, [pc |-> "checkIn", p |-> p, at |-> at])
    /\ UNCHANGED fieldWork

\* One row per person and day: the second of two is a conflict.
InsertAttendance(r) ==
    LET p == req[r].p IN
    /\ At(r, "checkIn")
    /\ attendance' = IF attendance[p] # NoRow THEN attendance
                     ELSE [attendance EXCEPT ![p] =
                             [at |-> req[r].at, in |-> minute, out |-> Never, worked |-> 0, visitCount |-> 0]]
    /\ Return(r)
    /\ UNCHANGED <<branch, visits, minute>>

\* check-out reads the row, then the visits, and writes all it has worked out.
CheckOut(r, p) ==
    /\ attendance[p] # NoRow /\ attendance[p].out = Never
    /\ Begin(r, [pc |-> "visits", p |-> p, in |-> attendance[p].in])
    /\ UNCHANGED fieldWork

ReadVisits(r) ==
    /\ At(r, "visits")
    /\ Continue(r, [pc |-> "update", p |-> req[r].p,
                    patch |-> [out |-> minute, worked |-> Between(req[r].in, minute),
                               visitCount |-> visits[req[r].p].open + visits[req[r].p].closed]])
    /\ UNCHANGED fieldWork

WriteAttendance(r) ==
    /\ At(r, "update")
    /\ attendance' = [attendance EXCEPT ![req[r].p] = Update(@, req[r].patch)]
    /\ Return(r)
    /\ UNCHANGED <<branch, visits, minute>>

\* POST /visits: the visit is inserted, then the count is written as read, plus one.
PostVisit(r, p) ==
    /\ attendance[p] # NoRow
    /\ Begin(r, [pc |-> "visit", p |-> p, count |-> attendance[p].visitCount])
    /\ UNCHANGED fieldWork

InsertVisit(r) ==
    LET p == req[r].p IN
    /\ At(r, "visit")
    /\ visits' = [visits EXCEPT ![p].open = @ + 1]
    /\ Continue(r, [pc |-> "update", p |-> p, patch |-> [visitCount |-> req[r].count + 1]])
    /\ UNCHANGED <<branch, attendance, minute>>

CompleteVisit(r, p) ==
    /\ visits[p].open > 0
    /\ visits' = [visits EXCEPT ![p] = [open |-> @.open - 1, closed |-> @.closed + 1]]
    /\ Begin(r, Idle)
    /\ UNCHANGED <<branch, attendance, minute>>

\* PATCH: a manager's correction of the times, refused when they are the wrong way
\* round, recomputes the minutes worked.
Correct(r, p, field, t) ==
    /\ attendance[p] # NoRow
    /\ LET given == [f \in {field} |-> t]
           fixed == Update(attendance[p], given) IN
       /\ fixed.out # Never => fixed.out >= fixed.in
       /\ Begin(r, [pc |-> "update", p |-> p,
                    patch |-> IF fixed.out = Never THEN given
                              ELSE Update([worked |-> Between(fixed.in, fixed.out)], given)])
    /\ UNCHANGED fieldWork

ClockRuns ==
    /\ minute < Evening
    /\ minute' = minute + 1
    /\ UNCHANGED <<server, branch, attendance, visits>>

-----------------------------------------------------------------------------
FieldRequest(r) ==
    \/ \E b \in Offices, head \in BOOLEAN : PostBranch(r, b, head)
    \/ \E b \in Offices, head \in {"true", "false", "unset"} : PatchBranch(r, b, head)
    \/ \E b \in Offices : CloseBranch(r, b)
    \/ \E p \in Agents : CheckIn(r, p) \/ CheckOut(r, p) \/ PostVisit(r, p) \/ CompleteVisit(r, p)
    \/ \E p \in Agents, field \in {"in", "out"}, t \in 0..Evening : Correct(r, p, field, t)

FieldStep(r) ==
    \/ ClearHead(r) \/ InsertBranch(r) \/ WriteBranch(r) \/ InsertAttendance(r)
    \/ ReadVisits(r) \/ WriteAttendance(r) \/ InsertVisit(r)

FieldNext ==
    \/ \E r \in Requests : FieldRequest(r) \/ FieldStep(r)
    \/ ClockRuns
    \/ Restart /\ UNCHANGED fieldWork

\* A start with any slots, any number of requests and of restarts.
FieldSpec ==
    /\ \E slots \in SUBSET Requests, requests, stops \in Nat : ServerInit(slots, requests, stops)
    /\ FieldInit
    /\ [][FieldNext]_fieldVars

FieldTypeOK ==
    /\ branch \in [Offices -> [status : {"absent", "active", "inactive"}, head : BOOLEAN]]
    /\ attendance \in [Agents -> [at : Offices \cup {None}, in : Never..Evening, out : Never..Evening,
                                 worked : 0..Evening, visitCount : Nat]]
    /\ visits \in [Agents -> [open : Nat, closed : Nat]]

\* tests/admin.test.js: "isHeadOffice on the new branch has to move the flag, not
\* duplicate it."  However branches are opened, edited and closed, two offices are
\* never both the head office; claimed while no two requests have overlapped.
OneHeadAtMost == ~overlapped => Cardinality(Heads) <= 1

\* The same sentence, read the other way: the flag moves, it is not lost, so an
\* organisation that starts with a head office keeps one.
HeadOfficeIsKept == ~overlapped /\ Quiescent => Heads # {}

\* A day's record adds up: the minutes are those between its two times and the
\* count is of the visits there are, through visits logged after check-out and
\* corrections in any order.  Each is written from a row read earlier, so both are
\* claimed while no two requests have overlapped.
DayAddsUp ==
    ~overlapped /\ Quiescent =>
      \A p \in Agents : attendance[p] # NoRow =>
         /\ attendance[p].visitCount = visits[p].open + visits[p].closed
         /\ attendance[p].out # Never => attendance[p].worked = Between(attendance[p].in, attendance[p].out)

\* Offices and days agree with what was done: the parts above.
FieldWorkHolds ==
    /\ FieldTypeOK
    /\ OneHeadAtMost
    /\ DayAddsUp
=============================================================================
