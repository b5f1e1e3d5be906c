---------------------------- MODULE MC_Messages -----------------------------
(***************************************************************************)
(* What goes out to people, for TLC: automation jobs, broadcasts and calls.*)
(* They meet in tables only at the edges, so a behaviour follows the       *)
(* handlers of one of them, named by focus, and the tables of the others   *)
(* stay as they were first.                                                *)
(***************************************************************************)
EXTENDS Automation, Broadcasts, Calls

VARIABLE focus

messagesVars == <<server, focus, automation, broadcasting, calling>>

One == {CHOOSE r \in Requests : TRUE}

\* Two people, and two of whom one is named twice.
Lists == {<<"a", "b">>, <<"a", "a", "b">>}

\* One handler at a time over a longer time, or two that overlap over a shorter.
Init ==
    /\ \/ focus = "automation" /\ ServerInit(Requests, 3, 1)
       \/ focus = "broadcasts" /\ (ServerInit(One, 1, 1) \/ ServerInit(Requests, 1, 0))
       \/ focus = "calls" /\ (ServerInit(One, 2, 1) \/ ServerInit(Requests, 1, 1))
    /\ AutomationInit /\ (focus # "automation" => ~rule.delayed)
    /\ BroadcastInit /\ (focus # "broadcasts" => connected)
    /\ CallInit

On(f, action) ==
    /\ focus = f /\ action
    /\ f # "automation" => UNCHANGED automation
    /\ f # "broadcasts" => UNCHANGED broadcasting
    /\ f # "calls" => UNCHANGED calling
    /\ UNCHANGED focus

Next ==
    \/ On("automation", AutomationNext)
    \/ On("broadcasts", BroadcastNext)
    \/ On("calls", CallNext)

\* What has begun goes on; the jobs and the polls of an open page come round for as
\* long as the process runs; the provider answers a poll in the end.
Fairness ==
    /\ \A r \in Requests : WF_messagesVars(On("automation", AutomationStep(r)))
    /\ WF_messagesVars(On("automation", \E r \in Requests : RunDueJobs(r)))
    /\ \A r \in Requests : WF_messagesVars(On("broadcasts", BroadcastStep(r)))
    /\ SF_messagesVars(On("broadcasts", \E r \in Requests : RunDueBroadcasts(r)))
    /\ \A r \in Requests : WF_messagesVars(On("calls", CallStep(r)))
    /\ \A c \in CallIds : SF_messagesVars(On("calls", \E r \in Requests : Ask(r, c, TRUE)))
    /\ SF_messagesVars(On("calls", \E r \in Requests : Poll(r)))

Spec == Init /\ [][Next]_messagesVars /\ Fairness

\* The same from a start with any slots, any number of requests and of restarts.
MessagesSpec ==
    /\ \E slots \in SUBSET Requests, requests, stops \in Nat : ServerInit(slots, requests, stops)
    /\ focus \in {"automation", "broadcasts", "calls"}
    /\ AutomationInit /\ BroadcastInit /\ CallInit
    /\ [][Next]_messagesVars

\* Nothing goes out twice and nothing is lost count of: jobs, messages and calls each
\* act once, and their counters are those of their rows.
OutgoingHolds ==
    /\ AutomationTypeOK /\ JobRunsOnce /\ FireCountAgrees
    /\ BroadcastTypeOK /\ ReachedOnce /\ FinishedMeansTried
    /\ CallTypeOK /\ EndedHasAnEnd /\ CallBooksAgree

\* What has begun comes to its end: a pending job, a broadcast, a call that is over.
OutgoingEnds ==
    /\ PendingJobsEnd
    /\ BroadcastEnds
    /\ EndedCallsLeave

=============================================================================
