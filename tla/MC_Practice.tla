---------------------------- MODULE MC_Practice -----------------------------
(***************************************************************************)
(* The day's work of a practice for TLC: clients and companies, leads,     *)
(* field work and the desk (tickets, tasks, due dates).  They meet in      *)
(* tables only at the edges, so a behaviour follows the handlers of one of *)
(* them, named by focus, and the tables of the others stay as they were    *)
(* first.                                                                  *)
(***************************************************************************)
EXTENDS Clients, Leads, FieldWork, Desk

VARIABLE focus

practiceVars == <<server, focus, clientele, leads, fieldWork, desk>>

One == {CHOOSE r \in Requests : TRUE}

\* The state codes of the two registration numbers, and the team that takes leads.
StateOfGstin == [g1 |-> "33", g2 |-> "29"]
Agency == <<"ann", "bob">>

\* One handler at a time over a longer time, or two that overlap over a shorter.
Init ==
    /\ \/ focus = "clients" /\ (ServerInit(One, 3, 1) \/ ServerInit(One, 4, 0))
       \/ focus = "leads" /\ (ServerInit(One, 4, 0) \/ ServerInit(Requests, 2, 1))
       \/ focus = "field" /\ ServerInit(One, 5, 1)
       \/ focus = "desk" /\ (ServerInit(One, 4, 1) \/ ServerInit(Requests, 3, 1))
    /\ ClientInit
    /\ LeadInit
    /\ FieldInit
    /\ DeskInit

On(f, action) ==
    /\ focus = f /\ action
    /\ f # "clients" => UNCHANGED clientele
    /\ f # "leads" => UNCHANGED leads
    /\ f # "field" => UNCHANGED fieldWork
    /\ f # "desk" => UNCHANGED desk
    /\ UNCHANGED focus

Next ==
    \/ On("clients", ClientNext)
    \/ On("leads", LeadNext)
    \/ On("field", FieldNext)
    \/ On("desk", DeskNext)

\* What has begun goes on, a pass of the frequent jobs comes round for as long as
\* the process runs, and reminders fall due.
Fairness ==
    /\ \A r \in Requests : WF_practiceVars(On("desk", DeskStep(r)))
    /\ SF_practiceVars(On("desk", \E r \in Requests : SelectTasks(r)))
    /\ WF_practiceVars(On("desk", ReminderFallsDue))

Spec == Init /\ [][Next]_practiceVars /\ Fairness

=============================================================================
