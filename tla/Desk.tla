--------------------------------- MODULE Desk ---------------------------------
(***************************************************************************)
(* modules/support.js and modules/tasks.js, and the two jobs of            *)
(* services/scheduler.js that remind people: of tasks, and of the due date *)
(* of a filing period.  One ticket number sequence, one task and one       *)
(* filing period stand for all of them.                                    *)
(***************************************************************************)
EXTENDS Handlers

CONSTANTS
    MaxTickets,     \* bound: tickets ever raised
    Milestones,     \* days before the due date at which a reminder goes out: 7, 3, 1, 0
    MaxDays         \* bound: days the period is open for

ASSUME DeskConstants ==
    /\ IsFiniteSet(Requests)
    /\ MaxTickets \in Nat \ {0} /\ MaxDays \in Nat /\ Milestones \subseteq 0..MaxDays

VARIABLES
    ticket,         \* support_tickets, in the order they were raised
    task,           \* the tasks row; reminder is "none", "set" (in the future) or "due"
    days,           \* days left to the due date of the filing period
    filed,          \* whether the period has reached filed, archived, signed_off or paid
    reopened,       \* history: times each ticket was reopened
    reminded,       \* history: reminders of the task asked for, and sent
    dueSent,        \* history: reminders of the due date sent, by days left
    late            \* history: one of them went out after the period was filed

desk == <<ticket, task, days, filed, reopened, reminded, dueSent, late>>
deskVars == <<server, desk>>

Tickets == 1..MaxTickets
NoTicket == [status |-> "absent", no |-> 0, resolved |-> FALSE, closed |-> FALSE, reopens |-> 0, count |-> 0]

DeskInit ==
    /\ ticket = [t \in Tickets |-> NoTicket]
    /\ task = [status |-> "absent", reminder |-> "none"]
    /\ days = MaxDays /\ filed = FALSE
    /\ reopened = [t \in Tickets |-> 0]
    /\ reminded = [asked |-> 0, sent |-> 0]
    /\ dueSent = [d \in Milestones |-> 0] /\ late = FALSE

Raised == {t \in Tickets : ticket[t].status # "absent"}

-----------------------------------------------------------------------------
\* POST /tickets of a client: the number after the last one.  A ticket a member of the
\* staff raises has the channel 'internal', which support_tickets does not accept.
PostTicket(r, client) ==
    /\ Cardinality(Raised) < MaxTickets
    /\ Begin(r, IF client THEN [pc |-> "ticket", no |-> Cardinality(Raised) + 1] ELSE Idle)
    /\ UNCHANGED desk

InsertTicket(r) ==
    LET t == Cardinality(Raised) + 1
        taken == \E u \in Raised : ticket[u].no = req[r].no
    IN
    /\ At(r, "ticket")
    /\ ticket' = IF taken THEN ticket
                 ELSE [ticket EXCEPT ![t] = [NoTicket EXCEPT !.status = "open", !.no = req[r].no, !.count = 1]]
    /\ Continue(r, IF taken THEN Idle ELSE [pc |-> "message", ticket |-> t])
    /\ UNCHANGED <<task, days, filed, reopened, reminded, dueSent, late>>

\* ticket_messages accepts neither the visibility 'public' nor the author_kind 'staff',
\* so the insert throws, here, in a reply and with the comment of a rating.
InsertMessage(r) ==
    /\ At(r, "message")
    /\ Return(r)
    /\ UNCHANGED desk

ReplyTicket(r, t) ==
    /\ t \in Raised /\ ticket[t].status # "closed"
    /\ Begin(r, [pc |-> "message", ticket |-> t])
    /\ UNCHANGED desk

RateTicket(r, t) ==
    /\ ticket[t].status \in {"resolved", "closed"}
    /\ Begin(r, [pc |-> "message", ticket |-> t])
    /\ UNCHANGED desk

\* PATCH /tickets/:id.  'waiting_client' is refused by the table.
PatchTicket(r, t, status) ==
    /\ t \in Raised
    /\ LET row == ticket[t]
           again == status = "open" /\ row.status \in {"resolved", "closed"}
           patch == CASE status = "resolved" -> [status |-> status, resolved |-> TRUE]
                      [] status = "closed" -> [status |-> status, closed |-> TRUE]
                      [] again -> [status |-> status, resolved |-> FALSE, closed |-> FALSE,
                                   reopens |-> row.reopens + 1]
                      [] OTHER -> [status |-> status]
       IN  Begin(r, [pc |-> "patchTicket", ticket |-> t, patch |-> patch, again |-> again])
    /\ UNCHANGED desk

WriteTicket(r) ==
    LET t == req[r].ticket IN
    /\ At(r, "patchTicket")
    /\ ticket' = [ticket EXCEPT ![t] = Update(@, req[r].patch)]
    /\ reopened' = IF req[r].again THEN [reopened EXCEPT ![t] = @ + 1] ELSE reopened
    /\ Return(r)
    /\ UNCHANGED <<task, days, filed, reminded, dueSent, late>>

-----------------------------------------------------------------------------
\* POST and PATCH /tasks, and DELETE, which cancels.  A task without a reminder keeps
\* the one it has: a reminder is only taken away by being sent.
PostTask(r, reminder) ==
    /\ task.status = "absent"
    /\ task' = [status |-> "todo", reminder |-> IF reminder THEN "set" ELSE "none"]
    /\ reminded' = IF reminder THEN [reminded EXCEPT !.asked = 1] ELSE reminded
    /\ Begin(r, Idle)
    /\ UNCHANGED <<ticket, days, filed, reopened, dueSent, late>>

PatchTask(r, status, reminder) ==
    /\ task.status # "absent"
    /\ task' = [status |-> status, reminder |-> IF reminder THEN "set" ELSE task.reminder]
    /\ reminded' = IF reminder /\ task.reminder = "none" THEN [reminded EXCEPT !.asked = @ + 1] ELSE reminded
    /\ Begin(r, Idle)
    /\ UNCHANGED <<ticket, days, filed, reopened, dueSent, late>>

\* The time a reminder names comes.
ReminderFallsDue ==
    /\ task.reminder = "set"
    /\ task' = [task EXCEPT !.reminder = "due"]
    /\ UNCHANGED <<server, ticket, days, filed, reopened, reminded, dueSent, late>>

\* Mutant: a task in progress is not selected.
SelectTasksToDo(r) ==
    /\ task.status = "todo" /\ task.reminder = "due"
    /\ Fire(r, [pc |-> "remind"])
    /\ UNCHANGED desk

\* sendTaskReminders: what is due is selected, sent, and only then cleared.
SelectTasks(r) ==
    /\ task.status \in {"todo", "in_progress"} /\ task.reminder = "due"
    /\ Fire(r, [pc |-> "remind"])
    /\ UNCHANGED desk

SendTaskReminder(r) ==
    /\ At(r, "remind")
    /\ reminded' = [reminded EXCEPT !.sent = @ + 1]
    /\ Continue(r, [pc |-> "clear"])
    /\ UNCHANGED <<ticket, task, days, filed, reopened, dueSent, late>>

\* Mutant: what was sent is not cleared.
ClearReminderNever(r) ==
    /\ At(r, "clear")
    /\ Return(r)
    /\ UNCHANGED desk

ClearReminder(r) ==
    /\ At(r, "clear")
    /\ task' = [task EXCEPT !.reminder = "none"]
    /\ Return(r)
    /\ UNCHANGED <<ticket, days, filed, reopened, reminded, dueSent, late>>

-----------------------------------------------------------------------------
\* sendDueReminders runs in every pass of the frequent jobs: an open period whose due
\* date is a milestone away is selected, and reminded of (bound: twice a milestone).
SelectPeriods(r) ==
    /\ ~filed /\ days \in Milestones /\ dueSent[days] < 2
    /\ Fire(r, [pc |-> "due", days |-> days])
    /\ UNCHANGED desk

SendDueReminder(r) ==
    /\ At(r, "due")
    /\ dueSent' = [dueSent EXCEPT ![req[r].days] = @ + 1]
    /\ late' = (late \/ filed)
    /\ Return(r)
    /\ UNCHANGED <<ticket, task, days, filed, reopened, reminded>>

\* The filing workflow closes the period; the days pass.
FilePeriod(r) ==
    /\ ~filed /\ filed' = TRUE
    /\ Begin(r, Idle)
    /\ UNCHANGED <<ticket, task, days, reopened, reminded, dueSent, late>>

DayPasses ==
    /\ days > 0 /\ days' = days - 1
    /\ UNCHANGED <<server, ticket, task, filed, reopened, reminded, dueSent, late>>

-----------------------------------------------------------------------------
DeskRequest(r) ==
    \/ \E client \in BOOLEAN : PostTicket(r, client)
    \/ \E t \in Tickets : \/ ReplyTicket(r, t) \/ RateTicket(r, t)
                          \/ \E s \in {"open", "in_progress", "resolved", "closed"} : PatchTicket(r, t, s)
    \/ \E reminder \in BOOLEAN : \/ PostTask(r, reminder)
                                 \/ \E s \in {"todo", "in_progress", "done", "cancelled"} : PatchTask(r, s, reminder)
    \/ SelectTasks(r) \/ SelectPeriods(r) \/ FilePeriod(r)

DeskStep(r) ==
    \/ InsertTicket(r) \/ InsertMessage(r) \/ WriteTicket(r)
    \/ SendTaskReminder(r) \/ ClearReminder(r) \/ SendDueReminder(r)

DeskNext ==
    \/ \E r \in Requests : DeskRequest(r) \/ DeskStep(r)
    \/ ReminderFallsDue \/ DayPasses
    \/ Restart /\ UNCHANGED desk

\* A start with any slots, any number of requests and of restarts.
DeskSpec ==
    /\ \E slots \in SUBSET Requests, requests, stops \in Nat : ServerInit(slots, requests, stops)
    /\ DeskInit
    /\ [][DeskNext]_deskVars

DeskTypeOK ==
    /\ ticket \in [Tickets -> [status : {"absent", "open", "in_progress", "resolved", "closed"},
                               no : 0..MaxTickets, resolved : BOOLEAN, closed : BOOLEAN,
                               reopens : Nat, count : 0..1]]
    /\ task \in [status : {"absent", "todo", "in_progress", "done", "cancelled"},
                 reminder : {"none", "set", "due"}]
    /\ days \in 0..MaxDays /\ dueSent \in [Milestones -> 0..(2 + Cardinality(Requests))]

\* A ticket's reopen_count is the number of times it went back to open, and a ticket
\* that is resolved or closed says when, through any sequence of edits.
ReopensAgree ==
    ~overlapped =>
      \A t \in Raised :
        /\ ticket[t].reopens = reopened[t]
        /\ ticket[t].status = "resolved" => ticket[t].resolved
        /\ ticket[t].status = "closed" => ticket[t].closed

\* Every reminder asked for is sent once: none twice, and none taken away unsent.  An
\* edit that sets a new one while the job is sending the old one loses it; a restart
\* before it is cleared sends it twice.
RemindedOnce ==
    ~overlapped =>
      /\ reminded.sent <= reminded.asked
      /\ Quiescent /\ task.reminder = "none" => reminded.sent = reminded.asked

\* A reminder that has fallen due does not stay so: the job sends and clears it, or the
\* task is finished or cancelled, whatever overlaps and whatever restarts.
NoReminderStaysDue ==
    task.reminder = "due" ~> (task.reminder # "due" \/ task.status \notin {"todo", "in_progress"})

\* services/scheduler.js: "A reminder is sent at 7, 3 and 1 days before the due date,
\* once each."
OnceEachMilestone == \A d \in Milestones : dueSent[d] <= 1

\* Nobody is reminded of a period that has been filed, unless it was filed while the
\* job was at work.
NotRemindedOnceFiled == ~overlapped => ~late

\* Tickets, reminders and due dates agree with what was done: the parts above.
DeskHolds ==
    /\ DeskTypeOK
    /\ ReopensAgree
    /\ RemindedOnce
    /\ NotRemindedOnceFiled
=============================================================================
