-------------------------- MODULE Messages_proofs ---------------------------
(***************************************************************************)
(* What goes out to people, what comes back, and what they are shown.      *)
(* First the jobs of an automation rule, a broadcast, an agent's calls,    *)
(* and the deliveries, forms and envelopes that are taken in, for any      *)
(* tables, handlers, requests and restarts.  Each of these parts has the   *)
(* same plan: the kinds of handler its slots may hold, what every state    *)
(* says of the rows, what a state before the first overlap says of the     *)
(* rows and of the one handler in flight, a lemma for every operation and  *)
(* the theorem.  Then which rows a person sees, for any roles, and what a  *)
(* browser shows and offers: there the lemmas read tables off the source   *)
(* (roles, screens, controls, demands) and the invariants say what is      *)
(* known of the caller, the session and the window.                        *)
(***************************************************************************)
EXTENDS MC_Messages, Webhooks, Visibility, Browsing, Handlers_proofs, FiniteSetTheorems

-----------------------------------------------------------------------------
(***************************************************************************)
(* Automation: the invariant                                               *)
(***************************************************************************)

\* The handler of an event, which has no job in hand.
EventSlot ==
    [pc : {"skip", "queue", "act", "bump", "threw", "record"}, seen : Nat, of : Records,
     job : {None}, tried : {0}]

\* A pass, between jobs or with one in hand.
IsPass(l) == l # Idle /\ "rest" \in DOMAIN l

\* A job the pass has selected and not reached is as it was, or deleted.
Selected(j, n) ==
    \/ jobs[j].status = "deleted"
    \/ jobs[j].status = "pending" /\ jobs[j].attempts = n

\* The job in hand is the pass's own, and has not completed before its actions ran.
InHand(l) ==
    /\ \/ jobs[l.job].status = "deleted"
       \/ jobs[l.job].status = "running" /\ jobs[l.job].attempts = l.tried + 1
    /\ l.pc \in {"rule", "act", "threw"} => fires.job[l.job] = 0

JobSlot(l) ==
    /\ l.pc \in {"rule", "act", "bump", "threw", "done"}
    /\ DOMAIN l = IF l.pc = "rule" THEN {"pc", "job", "tried", "rest"}
                  ELSE {"pc", "job", "tried", "seen", "rest"}
    /\ l.pc # "rule" => l.seen \in Nat
    /\ l.job \in Records \ DOMAIN l.rest /\ l.tried \in Nat

PassSlot(l) ==
    /\ DOMAIN l.rest \subseteq Records
    /\ \A j \in DOMAIN l.rest : Selected(j, l.rest[j])
    /\ \/ l = [pc |-> "pass", rest |-> l.rest]
       \/ JobSlot(l) /\ InHand(l)

SlotOK(l) == l \in {Idle, Unused} \/ l \in EventSlot \/ (IsPass(l) /\ PassSlot(l))

SlotsInv ==
    /\ \A r \in Requests : SlotOK(req[r])
    /\ \A r, s \in Requests : IsPass(req[r]) /\ IsPass(req[s]) => r = s

\* A job that is open and in nobody's hands has not completed and has a try left.
JobsInv ==
    \A j \in Records :
       /\ fires.job[j] <= 1
       /\ jobs[j].status \in {"absent", "pending"} => fires.job[j] = 0
       /\ jobs[j].status = "absent" => jobs[j].attempts = 0
       /\ jobs[j].status = "pending" => jobs[j].attempts < MaxJobTries

\* How far the counter and the log have come with the run of the one handler.
CountOK(l) ==
    IF l.pc = "bump"
    THEN /\ l.seen = rule.fireCount /\ runsLog["fired"] = rule.fireCount
         /\ fires.rule = rule.fireCount + 1
    ELSE IF l.pc \in {"record", "done"}
    THEN rule.fireCount = fires.rule /\ fires.rule = runsLog["fired"] + 1
    ELSE /\ rule.fireCount = fires.rule /\ runsLog["fired"] = fires.rule
         /\ l.pc = "act" => l.seen = rule.fireCount

CountInv ==
    ~overlapped /\ rule.exists =>
      /\ Quiescent => rule.fireCount = fires.rule /\ runsLog["fired"] = fires.rule
      /\ \A r \in InFlight : CountOK(req[r])

AutomationInv ==
    /\ AutomationTypeOK
    /\ ServerOK
    /\ SlotsInv
    /\ JobsInv
    /\ CountInv

-----------------------------------------------------------------------------
(***************************************************************************)
(* What every step needs                                                   *)
(***************************************************************************)

\* A pass that is done with a job, or starts one, keeps the jobs it has selected.
LEMMA KindsDiffer ==
    /\ \A l \in EventSlot : ~IsPass(l) /\ l \notin {Idle, Unused}
    /\ ~IsPass(Idle) /\ ~IsPass(Unused)
    /\ \A l : IsPass(l) /\ PassSlot(l) => l \notin {Idle, Unused}
  BY DEF EventSlot, IsPass, PassSlot, JobSlot, Idle, Unused

\* A slot that has a new handler state leaves the invariant of the slots when that
\* state is in order and the other passes still are; a second pass does not start.
LEMMA OneSlotChanges ==
    ASSUME SlotsInv, NEW r \in Requests, NEW l,
           req'[r] = l, \A s \in Requests \ {r} : req'[s] = req[s],
           SlotOK(req[r])',
           \A s \in Requests \ {r} : SlotOK(req[s])',
           IsPass(l) => IsPass(req[r]) \/ \A s \in Requests : ~IsPass(req[s])
    PROVE  SlotsInv'
<1>1. \A s \in Requests : SlotOK(req[s])'
  <2> SUFFICES ASSUME NEW s \in Requests PROVE SlotOK(req[s])'
    OBVIOUS
  <2> QED
    BY DEF SlotOK, PassSlot, Selected, InHand, JobSlot, IsPass
<1>2. \A s, t \in Requests : IsPass(req'[s]) /\ IsPass(req'[t]) => s = t
  BY DEF SlotsInv
<1> QED
  BY <1>1, <1>2 DEF SlotsInv, IsPass

\* What a slot says of the jobs stays true while jobs and completions do.
LEMMA SlotStays ==
    ASSUME UNCHANGED <<jobs, fires>>, NEW l, SlotOK(l)
    PROVE  SlotOK(l)'
  BY DEF SlotOK, PassSlot, Selected, InHand, JobSlot, IsPass

LEMMA NotAPass ==
    ASSUME NEW l, SlotOK(l), ~IsPass(l)
    PROVE  SlotOK(l)'
  BY DEF SlotOK, IsPass

\* While jobs and completions stay, the slots and the jobs stay in order.
LEMMA SlotMoves ==
    ASSUME SlotsInv, JobsInv, NEW r \in Requests, NEW l,
           req'[r] = l, \A s \in Requests \ {r} : req'[s] = req[s],
           UNCHANGED <<jobs, fires>>, SlotOK(l),
           IsPass(l) => IsPass(req[r]) \/ \A s \in Requests : ~IsPass(req[s])
    PROVE  SlotsInv' /\ JobsInv'
<1>1. SlotOK(l)' /\ \A s \in Requests : SlotOK(req[s])'
  <2>1. \A s \in Requests : SlotOK(req'[s])
    BY DEF SlotsInv
  <2>2. ASSUME NEW s \in Requests PROVE SlotOK(req[s])'
    BY <2>1 DEF SlotOK, PassSlot, Selected, InHand, JobSlot, IsPass
  <2> QED
    BY <2>2, SlotStays
<1>2. SlotsInv'
  BY <1>1, OneSlotChanges
<1> QED
  BY <1>2 DEF JobsInv

\* A pass that changes the job it has in its hands disturbs no other handler, since
\* no other handler is a pass.
LEMMA PassMoves ==
    ASSUME SlotsInv, NEW r \in Requests, NEW l,
           req'[r] = l, \A s \in Requests \ {r} : req'[s] = req[s],
           IsPass(req[r]), SlotOK(req[r])'
    PROVE  SlotsInv'
<1>1. ASSUME NEW s \in Requests \ {r} PROVE SlotOK(req[s])'
  <2>1. SlotOK(req[s]) /\ ~IsPass(req[s]) /\ req'[s] = req[s]
    BY DEF SlotsInv
  <2> QED
    BY <2>1 DEF SlotOK, IsPass
<1> QED
  BY <1>1, OneSlotChanges

\* The counter and the log, after a step of a handler in flight ...
LEMMA CountContinues ==
    ASSUME ServerOK, CountInv, NEW r \in Requests, NEW l,
           req[r] \notin {Idle, Unused}, Continue(r, l),
           rule'.exists => rule.exists,
           ~overlapped /\ rule.exists /\ rule'.exists /\ CountOK(req[r]) => CountOK(req[r])'
    PROVE  CountInv'
<1>1. /\ req'[r] = l /\ overlapped' = overlapped
      /\ ~overlapped => \A s \in Requests \ {r} : req'[s] \in {Idle, Unused}
  BY Continued
<1>2. ~overlapped' /\ rule'.exists => CountOK(req[r])'
  BY <1>1 DEF CountInv, InFlight
<1>3. ~overlapped' => InFlight' \subseteq {r}
  BY <1>1 DEF InFlight
<1>4. Quiescent' => l \in {Idle, Unused}
  BY <1>1 DEF Quiescent, InFlight
<1>5. ASSUME ~overlapped', rule'.exists
      PROVE  /\ Quiescent' => rule'.fireCount = fires'.rule /\ runsLog'["fired"] = fires'.rule
             /\ \A s \in InFlight' : CountOK(req[s])'
  <2>1. CountOK(req[r])'
    BY <1>2, <1>5
  <2>2. \A s \in InFlight' : CountOK(req[s])'
    BY <1>1, <1>3, <1>5, <2>1 DEF CountOK
  <2>3. Quiescent' => rule'.fireCount = fires'.rule /\ runsLog'["fired"] = fires'.rule
    BY <1>1, <1>4, <2>1 DEF CountOK, Idle, Unused
  <2> QED
    BY <2>2, <2>3
<1> QED
  BY <1>5 DEF CountInv

\* ... and after the arrival of one.
LEMMA CountBegins ==
    ASSUME ServerOK, CountInv, NEW r \in Requests, NEW l,
           Begin(r, l) \/ Fire(r, l),
           rule'.exists => rule.exists,
           rule.exists /\ rule'.exists /\ rule.fireCount = fires.rule
             /\ runsLog["fired"] = fires.rule => CountOK(req[r])'
    PROVE  CountInv'
<1>1. /\ req'[r] = l /\ (overlapped => overlapped')
      /\ \A s \in Requests \ {r} : req'[s] = req[s]
      /\ ~overlapped' => \A s \in Requests : req[s] \in {Idle, Unused}
  BY Begun
<1>2. ~overlapped' /\ rule'.exists => CountOK(req[r])'
  BY <1>1 DEF CountInv, Quiescent, InFlight
<1>3. ~overlapped' => InFlight' \subseteq {r}
  BY <1>1 DEF InFlight
<1>4. Quiescent' => l \in {Idle, Unused}
  BY <1>1 DEF Quiescent, InFlight
<1>5. ASSUME ~overlapped', rule'.exists
      PROVE  /\ Quiescent' => rule'.fireCount = fires'.rule /\ runsLog'["fired"] = fires'.rule
             /\ \A s \in InFlight' : CountOK(req[s])'
  <2>1. CountOK(req[r])'
    BY <1>2, <1>5
  <2>2. \A s \in InFlight' : CountOK(req[s])'
    BY <1>1, <1>3, <1>5, <2>1 DEF CountOK
  <2>3. Quiescent' => rule'.fireCount = fires'.rule /\ runsLog'["fired"] = fires'.rule
    BY <1>1, <1>4, <2>1 DEF CountOK, Idle, Unused
  <2> QED
    BY <2>2, <2>3
<1> QED
  BY <1>5 DEF CountInv

-----------------------------------------------------------------------------
(***************************************************************************)
(* The steps of an event                                                   *)
(***************************************************************************)

LEMMA EventStep ==
    ASSUME AutomationInv, NEW r \in Requests, NEW record \in Records, NEW matches \in BOOLEAN,
           Event(r, record, matches)
    PROVE  AutomationInv'
<1> DEFINE l == [pc |-> IF ~matches THEN "skip" ELSE IF rule.delayed THEN "queue" ELSE "act",
                 seen |-> rule.fireCount, of |-> record, job |-> None, tried |-> 0]
<1>1. Begin(r, l) /\ UNCHANGED automation
  BY DEF Event
<1>2. l \in EventSlot
  BY DEF EventSlot, AutomationInv, AutomationTypeOK
<1>3. ServerOK' /\ req'[r] = l /\ \A s \in Requests \ {r} : req'[s] = req[s]
  BY <1>1, Begun DEF AutomationInv
<1>4. AutomationTypeOK'
  BY <1>1 DEF AutomationInv, AutomationTypeOK, automation
<1>5. rule.fireCount = fires.rule /\ runsLog["fired"] = fires.rule => CountOK(req[r])'
  BY <1>1, <1>3 DEF CountOK, automation
<1> HIDE DEF l
<1>6. SlotsInv' /\ JobsInv'
  BY <1>1, <1>2, <1>3, SlotMoves, KindsDiffer DEF AutomationInv, SlotOK, automation
<1>7. CountInv'
  BY <1>1, <1>5, CountBegins DEF AutomationInv, automation
<1> QED
  BY <1>3, <1>4, <1>6, <1>7 DEF AutomationInv

\* The log keeps one row more, or none when its rule is gone.
LEMMA Recorded ==
    ASSUME AutomationTypeOK, NEW status \in RunStatus
    PROVE  /\ Record(status) \in [RunStatus -> Nat]
           /\ rule.exists => Record(status)[status] = runsLog[status] + 1
           /\ \A s \in RunStatus \ {status} : Record(status)[s] = runsLog[s]
  BY DEF AutomationTypeOK, Record, RunStatus

\* What a slot at a statement is.
LEMMA AtStatement ==
    ASSUME SlotsInv, NEW r \in Requests
    PROVE  /\ At(r, "skip") \/ At(r, "queue") \/ At(r, "record") => req[r] \in EventSlot
           /\ At(r, "pass") => /\ IsPass(req[r]) /\ PassSlot(req[r])
                               /\ req[r] = [pc |-> "pass", rest |-> req[r].rest]
           /\ At(r, "rule") \/ At(r, "done") =>
                 IsPass(req[r]) /\ PassSlot(req[r]) /\ JobSlot(req[r]) /\ InHand(req[r])
           /\ At(r, "act") \/ At(r, "bump") \/ At(r, "threw") =>
                 \/ req[r] \in EventSlot
                 \/ IsPass(req[r]) /\ PassSlot(req[r]) /\ JobSlot(req[r]) /\ InHand(req[r])
<1>1. SlotOK(req[r])
  BY DEF SlotsInv
<1> QED
  BY <1>1 DEF At, SlotOK, EventSlot, PassSlot, JobSlot, Idle, Unused

LEMMA RecordSkippedStep ==
    ASSUME AutomationInv, NEW r \in Requests, RecordSkipped(r)
    PROVE  AutomationInv'
<1>1. req[r] \in EventSlot /\ req[r].pc = "skip" /\ req[r] \notin {Idle, Unused}
  BY AtStatement, KindsDiffer DEF RecordSkipped, At, AutomationInv
<1>2. Continue(r, Idle) /\ runsLog' = Record("skipped") /\ UNCHANGED <<rule, jobs, fires, refused>>
  BY DEF RecordSkipped, Return
<1>3. ServerOK' /\ req'[r] = Idle /\ \A s \in Requests \ {r} : req'[s] = req[s]
  BY <1>1, <1>2, Continued DEF AutomationInv
<1>4. runsLog' \in [RunStatus -> Nat] /\ runsLog'["fired"] = runsLog["fired"]
  BY <1>2, Recorded DEF AutomationInv, RunStatus
<1>5. AutomationTypeOK'
  BY <1>2, <1>4 DEF AutomationInv, AutomationTypeOK
<1>6. SlotsInv' /\ JobsInv'
  BY <1>2, <1>3, SlotMoves, KindsDiffer DEF AutomationInv, SlotOK
<1>7. CountOK(req[r]) => CountOK(req[r])'
  BY <1>1, <1>2, <1>3, <1>4 DEF CountOK, Idle
<1>8. CountInv'
  BY <1>1, <1>2, <1>7, CountContinues DEF AutomationInv
<1> QED
  BY <1>3, <1>5, <1>6, <1>8 DEF AutomationInv

LEMMA RecordFiredStep ==
    ASSUME AutomationInv, NEW r \in Requests, RecordFired(r)
    PROVE  AutomationInv'
<1>1. req[r] \in EventSlot /\ req[r].pc = "record" /\ req[r] \notin {Idle, Unused}
  BY AtStatement, KindsDiffer DEF RecordFired, At, AutomationInv
<1>2. Continue(r, Idle) /\ runsLog' = Record("fired") /\ UNCHANGED <<rule, jobs, fires, refused>>
  BY DEF RecordFired, Return
<1>3. ServerOK' /\ req'[r] = Idle /\ \A s \in Requests \ {r} : req'[s] = req[s]
  BY <1>1, <1>2, Continued DEF AutomationInv
<1>4. /\ runsLog' \in [RunStatus -> Nat]
      /\ rule.exists => runsLog'["fired"] = runsLog["fired"] + 1
  BY <1>2, Recorded DEF AutomationInv, RunStatus
<1>5. AutomationTypeOK'
  BY <1>2, <1>4 DEF AutomationInv, AutomationTypeOK
<1>6. SlotsInv' /\ JobsInv'
  BY <1>2, <1>3, SlotMoves, KindsDiffer DEF AutomationInv, SlotOK
<1>7. rule.exists /\ CountOK(req[r]) => CountOK(req[r])'
  BY <1>1, <1>2, <1>3, <1>4 DEF CountOK, Idle
<1>8. CountInv'
  BY <1>1, <1>2, <1>7, CountContinues DEF AutomationInv
<1> QED
  BY <1>3, <1>5, <1>6, <1>8 DEF AutomationInv

\* A job is queued only where there was none: no pass has selected it.
LEMMA QueueJobStep ==
    ASSUME AutomationInv, AutomationConstants, NEW r \in Requests, QueueJob(r)
    PROVE  AutomationInv'
<1> DEFINE j == req[r].of
           free == jobs[j].status = "absent" /\ rule.exists
<1>1. req[r] \in EventSlot /\ req[r].pc = "queue" /\ req[r] \notin {Idle, Unused} /\ j \in Records
  BY AtStatement, KindsDiffer DEF QueueJob, At, AutomationInv, EventSlot
<1>2. /\ Continue(r, Idle)
      /\ jobs' = IF free THEN [jobs EXCEPT ![j].status = "pending"] ELSE jobs
      /\ runsLog' = Record(IF free THEN "queued" ELSE "failed")
      /\ refused' \subseteq refused \cup {j} /\ UNCHANGED <<rule, fires>>
  BY DEF QueueJob, Return
<1>3. ServerOK' /\ req'[r] = Idle /\ \A s \in Requests \ {r} : req'[s] = req[s]
  BY <1>1, <1>2, Continued DEF AutomationInv
<1>4. runsLog' \in [RunStatus -> Nat] /\ runsLog'["fired"] = runsLog["fired"]
  BY <1>2, Recorded DEF AutomationInv, RunStatus
<1>5. /\ jobs' \in [Records -> [status : JobStatus, attempts : 0..MaxJobTries]]
      /\ \A k \in Records : jobs'[k] = jobs[k]
                            \/ (jobs[k].status = "absent" /\ jobs'[k].status = "pending"
                                /\ jobs'[k].attempts = jobs[k].attempts)
  BY <1>1, <1>2 DEF AutomationInv, AutomationTypeOK, JobStatus
<1>6. AutomationTypeOK'
  BY <1>1, <1>2, <1>4, <1>5 DEF AutomationInv, AutomationTypeOK
<1>7. JobsInv'
  BY <1>2, <1>5 DEF AutomationInv, JobsInv, AutomationConstants
<1>8. ASSUME NEW s \in Requests \ {r} PROVE SlotOK(req[s])'
  <2>1. SlotOK(req[s]) /\ req'[s] = req[s]
    BY <1>3 DEF AutomationInv, SlotsInv
  <2>2. PassSlot(req[s]) => PassSlot(req[s])'
    <3> SUFFICES ASSUME PassSlot(req[s]) PROVE PassSlot(req[s])'
      OBVIOUS
    <3>1. ASSUME NEW k \in Records, NEW n, Selected(k, n) PROVE Selected(k, n)'
      BY <1>5, <3>1 DEF Selected
    <3>2. JobSlot(req[s]) /\ InHand(req[s]) => JobSlot(req[s])' /\ InHand(req[s])'
      BY <1>2, <1>5, <2>1 DEF JobSlot, InHand
    <3> QED
      BY <2>1, <3>1, <3>2 DEF PassSlot
  <2> QED
    BY <2>1, <2>2 DEF SlotOK, IsPass
<1>9. SlotsInv'
  BY <1>3, <1>8, OneSlotChanges, KindsDiffer DEF AutomationInv, SlotOK
<1>10. CountOK(req[r]) => CountOK(req[r])'
  BY <1>1, <1>2, <1>3, <1>4 DEF CountOK, Idle
<1>11. CountInv'
  BY <1>1, <1>2, <1>10, CountContinues DEF AutomationInv
<1> QED
  BY <1>3, <1>6, <1>7, <1>9, <1>11 DEF AutomationInv

-----------------------------------------------------------------------------
(***************************************************************************)
(* The run of the actions, of an event or of a job                         *)
(***************************************************************************)

\* The actions run: the completion of a job in hand is its first.
LEMMA ExecuteActionsStep ==
    ASSUME AutomationInv, AutomationConstants, NEW r \in Requests, NEW ok \in BOOLEAN,
           ExecuteActions(r, ok)
    PROVE  AutomationInv'
<1> DEFINE l == [req[r] EXCEPT !.pc = IF ok THEN "bump" ELSE "threw"]
<1>1. /\ req[r].pc = "act" /\ req[r] \notin {Idle, Unused} /\ SlotOK(req[r])
      /\ \/ req[r] \in EventSlot
         \/ IsPass(req[r]) /\ PassSlot(req[r]) /\ JobSlot(req[r]) /\ InHand(req[r])
  BY AtStatement, KindsDiffer DEF ExecuteActions, At, AutomationInv, SlotsInv
<1>2. Continue(r, l) /\ UNCHANGED <<rule, jobs, runsLog, refused>>
  BY DEF ExecuteActions
<1>3. ServerOK' /\ req'[r] = l /\ \A s \in Requests \ {r} : req'[s] = req[s]
  BY <1>1, <1>2, Continued DEF AutomationInv
<1>4. fires' = IF ~ok THEN fires
               ELSE [rule |-> fires.rule + 1,
                     job |-> [j \in Records |-> fires.job[j] + (IF j = req[r].job THEN 1 ELSE 0)]]
  BY DEF ExecuteActions
<1>5. AutomationTypeOK'
  BY <1>2, <1>4 DEF AutomationInv, AutomationTypeOK
<1>6. CountOK(req[r]) => CountOK(req[r])'
  <2>1. l.pc = (IF ok THEN "bump" ELSE "threw") /\ l.seen = req[r].seen
    BY <1>1 DEF EventSlot, JobSlot
  <2> QED
    BY <1>1, <1>2, <1>3, <1>4, <2>1 DEF CountOK
<1>7. CountInv'
  BY <1>1, <1>2, <1>6, CountContinues DEF AutomationInv
<1>8. SlotsInv' /\ JobsInv'
  <2>1. CASE req[r] \in EventSlot
    <3>1. req[r].job = None /\ l \in EventSlot
      BY <1>1, <2>1 DEF EventSlot
    <3>2. fires'.job = fires.job
      BY <1>4, <3>1 DEF AutomationConstants, AutomationInv, AutomationTypeOK
    <3>3. JobsInv'
      BY <1>2, <3>2 DEF AutomationInv, JobsInv
    <3>4. ASSUME NEW s \in Requests \ {r} PROVE SlotOK(req[s])'
      <4>1. SlotOK(req[s]) /\ req'[s] = req[s]
        BY <1>3 DEF AutomationInv, SlotsInv
      <4> QED
        BY <1>2, <3>2, <4>1 DEF SlotOK, PassSlot, Selected, InHand, JobSlot, IsPass
    <3>5. SlotsInv'
      BY <1>3, <3>1, <3>4, OneSlotChanges, KindsDiffer DEF AutomationInv, SlotOK
    <3> QED
      BY <3>3, <3>5
  <2>2. CASE IsPass(req[r]) /\ PassSlot(req[r]) /\ JobSlot(req[r]) /\ InHand(req[r])
    <3> DEFINE k == req[r].job
    <3>1. /\ k \in Records /\ fires.job[k] = 0
          /\ jobs[k].status \in {"deleted", "running"}
      BY <1>1, <2>2 DEF JobSlot, InHand
    <3>2. \A j \in Records : fires'.job[j] \in {fires.job[j], IF j = k THEN 1 ELSE fires.job[j]}
      BY <1>4, <3>1 DEF AutomationInv, AutomationTypeOK
    <3>3. JobsInv'
      BY <1>2, <3>1, <3>2 DEF AutomationInv, JobsInv
    <3>4. /\ l.job = k /\ l.rest = req[r].rest /\ l.tried = req[r].tried /\ l.seen = req[r].seen
          /\ l.pc = (IF ok THEN "bump" ELSE "threw") /\ DOMAIN l = DOMAIN req[r]
          /\ IsPass(l)
      BY <1>1, <2>2 DEF JobSlot, IsPass, Idle
    <3>5. JobSlot(l)
      BY <1>1, <2>2, <3>4 DEF JobSlot
    <3> HIDE DEF l
    <3>6. InHand(req[r])'
      BY <1>1, <1>2, <1>3, <1>4, <2>2, <3>4 DEF InHand
    <3>7. SlotOK(req[r])'
      BY <1>2, <1>3, <2>2, <3>4, <3>5, <3>6 DEF SlotOK, PassSlot, IsPass, Selected, JobSlot
    <3>8. SlotsInv'
      BY <1>3, <2>2, <3>7, PassMoves DEF AutomationInv
    <3> QED
      BY <3>3, <3>8
  <2> QED
    BY <1>1, <2>1, <2>2
<1> QED
  BY <1>3, <1>5, <1>7, <1>8 DEF AutomationInv

\* The counter is written from what was read: right while one handler is in flight.
LEMMA BumpFiredStep ==
    ASSUME AutomationInv, AutomationConstants, NEW r \in Requests, BumpFired(r)
    PROVE  AutomationInv'
<1> DEFINE l == [req[r] EXCEPT !.pc = IF req[r].job = None THEN "record" ELSE "done"]
<1>1. /\ req[r].pc = "bump" /\ req[r] \notin {Idle, Unused} /\ SlotOK(req[r])
      /\ \/ req[r] \in EventSlot
         \/ IsPass(req[r]) /\ PassSlot(req[r]) /\ JobSlot(req[r]) /\ InHand(req[r])
  BY AtStatement, KindsDiffer DEF BumpFired, At, AutomationInv, SlotsInv
<1>2. /\ Continue(r, l) /\ UNCHANGED <<jobs, runsLog, fires, refused>>
      /\ rule' = IF rule.exists THEN [rule EXCEPT !.fireCount = req[r].seen + 1] ELSE rule
  BY DEF BumpFired
<1>3. ServerOK' /\ req'[r] = l /\ \A s \in Requests \ {r} : req'[s] = req[s]
  BY <1>1, <1>2, Continued DEF AutomationInv
<1>4. req[r].seen \in Nat
  BY <1>1 DEF EventSlot, JobSlot
<1>5. AutomationTypeOK'
  BY <1>2, <1>4 DEF AutomationInv, AutomationTypeOK
<1>6. rule'.exists /\ CountOK(req[r]) => CountOK(req[r])'
  <2>1. l.pc \in {"record", "done"}
    BY <1>1 DEF EventSlot, JobSlot
  <2> QED
    BY <1>1, <1>2, <1>3, <2>1 DEF CountOK, AutomationInv, AutomationTypeOK
<1>7. rule'.exists => rule.exists
  BY <1>2
<1>8. CountInv'
  BY <1>1, <1>2, <1>6, <1>7, CountContinues DEF AutomationInv
<1>9. SlotOK(l) /\ (IsPass(l) => IsPass(req[r]))
  <2>1. CASE req[r] \in EventSlot
    <3>1. l \in EventSlot
      BY <1>1, <2>1 DEF EventSlot
    <3> QED
      BY <3>1, KindsDiffer DEF SlotOK
  <2>2. CASE IsPass(req[r]) /\ PassSlot(req[r]) /\ JobSlot(req[r]) /\ InHand(req[r])
    <3>1. /\ l.job = req[r].job /\ l.rest = req[r].rest /\ l.tried = req[r].tried
          /\ l.seen = req[r].seen
          /\ l.pc = "done" /\ DOMAIN l = DOMAIN req[r] /\ l # Idle
      BY <1>1, <2>2 DEF JobSlot, IsPass, Idle, AutomationConstants
    <3> HIDE DEF l
    <3>2. JobSlot(l) /\ InHand(l) /\ IsPass(l)
      BY <1>1, <2>2, <3>1 DEF JobSlot, InHand, IsPass
    <3> QED
      BY <2>2, <3>1, <3>2 DEF SlotOK, PassSlot
  <2> QED
    BY <1>1, <2>1, <2>2
<1>10. SlotsInv' /\ JobsInv'
  BY <1>2, <1>3, <1>9, SlotMoves DEF AutomationInv
<1> QED
  BY <1>3, <1>5, <1>8, <1>10 DEF AutomationInv

-----------------------------------------------------------------------------
(***************************************************************************)
(* The pass                                                                *)
(***************************************************************************)

\* A job that gets the status is changed nowhere else, and one that is gone stays gone.
LEMMA JobSet ==
    ASSUME AutomationTypeOK, NEW j \in Records, NEW status \in JobStatus
    PROVE  /\ SetJob(j, status) \in [Records -> [status : JobStatus, attempts : 0..MaxJobTries]]
           /\ \A k \in Records \ {j} : SetJob(j, status)[k] = jobs[k]
           /\ SetJob(j, status)[j].attempts = jobs[j].attempts
           /\ SetJob(j, status)[j].status
                = IF jobs[j].status = "deleted" THEN "deleted" ELSE status
  BY DEF AutomationTypeOK, SetJob

\* A pass that has set its job's status and goes on to the jobs it has left.
LEMMA PassGoesOn ==
    ASSUME AutomationInv, NEW r \in Requests,
           IsPass(req[r]), PassSlot(req[r]), JobSlot(req[r]), InHand(req[r]),
           NEW status \in JobStatus \ {"absent"},
           Continue(r, [pc |-> "pass", rest |-> req[r].rest]),
           jobs' = SetJob(req[r].job, status), fires' = fires,
           status = "pending" =>
              req[r].tried + 1 < MaxJobTries /\ fires.job[req[r].job] = 0
    PROVE  ServerOK' /\ SlotsInv' /\ JobsInv'
<1> DEFINE l == [pc |-> "pass", rest |-> req[r].rest]
           k == req[r].job
<1>1. k \in Records \ DOMAIN req[r].rest /\ req[r] \notin {Idle, Unused}
  BY KindsDiffer DEF JobSlot
<1>2. ServerOK' /\ req'[r] = l /\ \A s \in Requests \ {r} : req'[s] = req[s]
  BY <1>1, Continued DEF AutomationInv
<1>3. /\ \A j \in Records \ {k} : jobs'[j] = jobs[j]
      /\ jobs'[k].attempts = jobs[k].attempts
      /\ jobs'[k].status = IF jobs[k].status = "deleted" THEN "deleted" ELSE status
  <2>1. AutomationTypeOK /\ k \in Records /\ status \in JobStatus
    BY <1>1 DEF AutomationInv
  <2> HIDE DEF k
  <2>2. /\ \A j \in Records \ {k} : SetJob(k, status)[j] = jobs[j]
        /\ SetJob(k, status)[k].attempts = jobs[k].attempts
        /\ SetJob(k, status)[k].status
             = IF jobs[k].status = "deleted" THEN "deleted" ELSE status
    BY <2>1, JobSet
  <2> QED
    BY <2>2 DEF k
<1>4. jobs[k].status = "deleted" \/ jobs[k].attempts = req[r].tried + 1
  BY DEF InHand
<1>5. JobsInv'
  <2> SUFFICES ASSUME NEW j \in Records
               PROVE  /\ fires'.job[j] <= 1
                      /\ jobs'[j].status \in {"absent", "pending"} => fires'.job[j] = 0
                      /\ jobs'[j].status = "absent" => jobs'[j].attempts = 0
                      /\ jobs'[j].status = "pending" => jobs'[j].attempts < MaxJobTries
    BY DEF JobsInv
  <2>1. CASE j = k
    BY <1>3, <1>4, <2>1 DEF AutomationInv, JobsInv
  <2>2. CASE j # k
    BY <1>3, <2>2 DEF AutomationInv, JobsInv
  <2> QED
    BY <2>1, <2>2
<1>6. SlotOK(req[r])'
  <2>1. IsPass(l) /\ l.rest = req[r].rest
    BY DEF IsPass, Idle
  <2>2. DOMAIN req[r].rest \subseteq Records /\ \A j \in DOMAIN req[r].rest : Selected(j, req[r].rest[j])
    BY DEF PassSlot
  <2>3. \A j \in DOMAIN req[r].rest : jobs'[j] = jobs[j]
    BY <1>1, <1>3, <2>2
  <2>4. /\ DOMAIN req'[r].rest \subseteq Records
        /\ \A j \in DOMAIN req'[r].rest : Selected(j, req[r].rest[j])'
        /\ req'[r] = [pc |-> "pass", rest |-> req'[r].rest]
    BY <1>2, <2>1, <2>2, <2>3 DEF Selected
  <2> QED
    BY <1>2, <2>1, <2>4 DEF SlotOK, PassSlot, IsPass
<1>7. SlotsInv'
  BY <1>2, <1>6, PassMoves DEF AutomationInv
<1> QED
  BY <1>2, <1>5, <1>7

\* A failed run: the event's is only recorded, a job is put back while it has a try left.
LEMMA ThrewStep ==
    ASSUME AutomationInv, AutomationConstants, NEW r \in Requests, Threw(r)
    PROVE  AutomationInv'
<1> DEFINE j == req[r].job
           l == IF j = None THEN Idle ELSE [pc |-> "pass", rest |-> req[r].rest]
           status == IF req[r].tried + 1 >= MaxJobTries THEN "failed" ELSE "pending"
<1>1. /\ req[r].pc = "threw" /\ req[r] \notin {Idle, Unused}
      /\ \/ req[r] \in EventSlot
         \/ IsPass(req[r]) /\ PassSlot(req[r]) /\ JobSlot(req[r]) /\ InHand(req[r])
  BY AtStatement, KindsDiffer DEF Threw, At, AutomationInv, SlotsInv
<1>2. /\ Continue(r, l) /\ UNCHANGED <<rule, fires, refused>>
      /\ jobs' = IF j = None THEN jobs ELSE SetJob(j, status)
      /\ runsLog' = Record("failed")
  BY DEF Threw
<1>3. runsLog' \in [RunStatus -> Nat] /\ runsLog'["fired"] = runsLog["fired"]
  BY <1>2, Recorded DEF AutomationInv, RunStatus
<1>4. ServerOK' /\ SlotsInv' /\ JobsInv' /\ AutomationTypeOK'
  <2>1. CASE req[r] \in EventSlot
    <3>1. l = Idle /\ UNCHANGED jobs
      BY <1>2, <2>1 DEF EventSlot
    <3>2. ServerOK' /\ req'[r] = Idle /\ \A s \in Requests \ {r} : req'[s] = req[s]
      BY <1>1, <1>2, <3>1, Continued DEF AutomationInv
    <3>3. SlotsInv' /\ JobsInv'
      BY <1>2, <3>1, <3>2, SlotMoves, KindsDiffer DEF AutomationInv, SlotOK
    <3>4. AutomationTypeOK'
      BY <1>2, <1>3, <3>1 DEF AutomationInv, AutomationTypeOK
    <3> QED
      BY <3>2, <3>3, <3>4
  <2>2. CASE IsPass(req[r]) /\ PassSlot(req[r]) /\ JobSlot(req[r]) /\ InHand(req[r])
    <3>1. j \in Records /\ j # None /\ req[r].tried \in Nat /\ fires.job[j] = 0
      BY <1>1, <2>2 DEF JobSlot, InHand, AutomationConstants
    <3>2. /\ status \in JobStatus \ {"absent"}
          /\ status = "pending" => req[r].tried + 1 < MaxJobTries
      BY <3>1 DEF JobStatus, AutomationConstants
    <3>3. Continue(r, [pc |-> "pass", rest |-> req[r].rest]) /\ jobs' = SetJob(j, status)
      BY <1>2, <3>1
    <3> HIDE DEF status
    <3>4. ServerOK' /\ SlotsInv' /\ JobsInv'
      BY <1>2, <2>2, <3>1, <3>2, <3>3, PassGoesOn
    <3>5. jobs' \in [Records -> [status : JobStatus, attempts : 0..MaxJobTries]]
      BY <3>1, <3>2, <3>3, JobSet DEF AutomationInv
    <3>6. AutomationTypeOK'
      BY <1>2, <1>3, <3>5 DEF AutomationInv, AutomationTypeOK
    <3> QED
      BY <3>4, <3>6
  <2> QED
    BY <1>1, <2>1, <2>2
<1>5. CountOK(req[r]) => CountOK(req[r])'
  <2>1. req'[r] = l
    BY <1>1, <1>2, Continued DEF AutomationInv
  <2>2. l.pc \in {"idle", "pass"}
    BY DEF Idle
  <2> QED
    BY <1>1, <1>2, <1>3, <2>1, <2>2 DEF CountOK
<1>6. CountInv'
  BY <1>1, <1>2, <1>5, CountContinues DEF AutomationInv
<1> QED
  BY <1>4, <1>6 DEF AutomationInv

\* A pass starts where none is running, with the jobs that wait.
LEMMA RunDueJobsStep ==
    ASSUME AutomationInv, OnePass, NEW r \in Requests, RunDueJobs(r)
    PROVE  AutomationInv'
<1> DEFINE due == {j \in Records : jobs[j].status = "pending"}
           l == [pc |-> "pass", rest |-> [j \in due |-> jobs[j].attempts]]
<1>1. Fire(r, l) /\ UNCHANGED automation /\ \A s \in Requests : ~IsPass(req[s])
  BY DEF RunDueJobs, InPass, IsPass
<1>2. ServerOK' /\ req'[r] = l /\ \A s \in Requests \ {r} : req'[s] = req[s]
  BY <1>1, Begun DEF AutomationInv
<1>3. SlotOK(l)
  <2>1. IsPass(l) /\ l.rest = [j \in due |-> jobs[j].attempts]
    BY DEF IsPass, Idle
  <2>2. DOMAIN l.rest = due /\ \A j \in due : Selected(j, l.rest[j])
    BY <2>1 DEF Selected
  <2>3. l = [pc |-> "pass", rest |-> l.rest]
    BY <2>1
  <2> HIDE DEF l
  <2>4. PassSlot(l)
    BY <2>2, <2>3 DEF PassSlot
  <2> QED
    BY <2>1, <2>4 DEF SlotOK
<1>4. AutomationTypeOK'
  BY <1>1 DEF AutomationInv, AutomationTypeOK, automation
<1>5. rule.fireCount = fires.rule /\ runsLog["fired"] = fires.rule => CountOK(req[r])'
  BY <1>1, <1>2 DEF CountOK, automation
<1> HIDE DEF l
<1>6. SlotsInv' /\ JobsInv'
  BY <1>1, <1>2, <1>3, SlotMoves DEF AutomationInv, automation
<1>7. CountInv'
  BY <1>1, <1>5, CountBegins DEF AutomationInv, automation
<1> QED
  BY <1>2, <1>4, <1>6, <1>7 DEF AutomationInv

LEMMA EndPassStep ==
    ASSUME AutomationInv, NEW r \in Requests, EndPass(r)
    PROVE  AutomationInv'
<1>1. req[r].pc = "pass" /\ req[r] \notin {Idle, Unused}
  BY DEF EndPass, At, Idle, Unused
<1>2. Continue(r, Idle) /\ UNCHANGED automation
  BY DEF EndPass, Return
<1>3. ServerOK' /\ req'[r] = Idle /\ \A s \in Requests \ {r} : req'[s] = req[s]
  BY <1>1, <1>2, Continued DEF AutomationInv
<1>4. AutomationTypeOK'
  BY <1>2 DEF AutomationInv, AutomationTypeOK, automation
<1>5. SlotsInv' /\ JobsInv'
  BY <1>2, <1>3, SlotMoves, KindsDiffer DEF AutomationInv, SlotOK, automation
<1>6. CountOK(req[r]) => CountOK(req[r])'
  BY <1>1, <1>2, <1>3 DEF CountOK, Idle, automation
<1>7. CountInv'
  BY <1>1, <1>2, <1>6, CountContinues DEF AutomationInv, automation
<1> QED
  BY <1>3, <1>4, <1>5, <1>7 DEF AutomationInv

\* With one pass at a time, a job the pass selected waits or is gone when it is claimed.
LEMMA ClaimJobStep ==
    ASSUME AutomationInv, AutomationConstants, NEW r \in Requests, NEW j \in Records, ClaimJob(r, j)
    PROVE  AutomationInv'
<1> DEFINE rest == [k \in DOMAIN req[r].rest \ {j} |-> req[r].rest[k]]
           mine == jobs[j].status = "pending"
           l == IF mine
                THEN [pc |-> "rule", job |-> j, tried |-> req[r].rest[j], rest |-> rest]
                ELSE [pc |-> "pass", rest |-> rest]
<1>1. /\ req[r].pc = "pass" /\ req[r] \notin {Idle, Unused} /\ j \in DOMAIN req[r].rest
      /\ IsPass(req[r]) /\ DOMAIN req[r].rest \subseteq Records
      /\ \A k \in DOMAIN req[r].rest : Selected(k, req[r].rest[k])
  BY AtStatement, KindsDiffer DEF ClaimJob, At, AutomationInv, PassSlot
<1>2. jobs[j].status \in {"deleted", "pending"} /\ (mine => jobs[j].attempts = req[r].rest[j])
  BY <1>1 DEF Selected
<1>3. /\ Continue(r, l) /\ UNCHANGED <<rule, runsLog, fires, refused>>
      /\ jobs' = IF mine THEN [jobs EXCEPT ![j] = [status |-> "running", attempts |-> @.attempts + 1]]
                 ELSE jobs
  BY <1>2 DEF ClaimJob
<1>4. ServerOK' /\ req'[r] = l /\ \A s \in Requests \ {r} : req'[s] = req[s]
  BY <1>1, <1>3, Continued DEF AutomationInv
<1>5. mine => jobs[j].attempts < MaxJobTries /\ jobs[j].attempts \in Nat /\ fires.job[j] = 0
  BY DEF AutomationInv, JobsInv, AutomationTypeOK
<1>6. /\ jobs' \in [Records -> [status : JobStatus, attempts : 0..MaxJobTries]]
      /\ \A k \in Records \ {j} : jobs'[k] = jobs[k]
      /\ mine => jobs'[j] = [status |-> "running", attempts |-> jobs[j].attempts + 1]
      /\ ~mine => jobs'[j] = jobs[j]
  BY <1>3, <1>5 DEF AutomationInv, AutomationTypeOK, JobStatus, AutomationConstants
<1>7. AutomationTypeOK'
  BY <1>3, <1>6 DEF AutomationInv, AutomationTypeOK
<1>8. JobsInv'
  BY <1>3, <1>6 DEF AutomationInv, JobsInv
<1>9. CountOK(req[r]) => CountOK(req[r])'
  <2>1. l.pc \in {"rule", "pass"}
    OBVIOUS
  <2> QED
    BY <1>1, <1>3, <1>4, <2>1 DEF CountOK
<1>10. CountInv'
  BY <1>1, <1>3, <1>9, CountContinues DEF AutomationInv
<1>11. SlotOK(req[r])'
  <2>1. IsPass(l) /\ l.rest = rest
    BY DEF IsPass, Idle
  <2>2. /\ DOMAIN rest = DOMAIN req[r].rest \ {j}
        /\ \A k \in DOMAIN rest : rest[k] = req[r].rest[k]
    OBVIOUS
  <2>3. \A k \in DOMAIN rest : Selected(k, req[r].rest[k]) /\ jobs'[k] = jobs[k]
    BY <1>1, <1>6, <2>2
  <2>4. /\ DOMAIN req'[r].rest = DOMAIN req[r].rest \ {j}
        /\ \A k \in DOMAIN req'[r].rest : Selected(k, req[r].rest[k])'
    BY <1>4, <2>1, <2>2, <2>3 DEF Selected
  <2>5. CASE mine
    <3>1. /\ l = [pc |-> "rule", job |-> j, tried |-> req[r].rest[j], rest |-> rest]
          /\ l.pc = "rule" /\ l.job = j /\ l.tried = req[r].rest[j]
          /\ DOMAIN l = {"pc", "job", "tried", "rest"}
      BY <2>5
    <3>2. JobSlot(l)
      BY <1>2, <1>5, <2>1, <2>2, <2>5, <3>1 DEF JobSlot
    <3> HIDE DEF l
    <3>3. JobSlot(req[r])' /\ InHand(req[r])'
      BY <1>2, <1>3, <1>4, <1>5, <1>6, <2>5, <3>1, <3>2 DEF JobSlot, InHand
    <3>4. IsPass(req[r])'
      BY <1>4, <2>1 DEF IsPass
    <3> QED
      BY <1>1, <2>4, <3>3, <3>4 DEF SlotOK, PassSlot
  <2>6. CASE ~mine
    <3>1. req'[r] = [pc |-> "pass", rest |-> req'[r].rest] /\ IsPass(req[r])'
      BY <1>4, <2>1, <2>6 DEF IsPass
    <3> QED
      BY <1>1, <2>4, <3>1 DEF SlotOK, PassSlot
  <2> QED
    BY <2>5, <2>6
<1>12. SlotsInv'
  BY <1>1, <1>4, <1>11, PassMoves DEF AutomationInv
<1> QED
  BY <1>4, <1>7, <1>8, <1>10, <1>12 DEF AutomationInv

\* The rule is read: on, its actions are next; off or gone, the job is cancelled.
LEMMA ReadRuleStep ==
    ASSUME AutomationInv, NEW r \in Requests, ReadRule(r)
    PROVE  AutomationInv'
<1>1. /\ req[r].pc = "rule" /\ req[r] \notin {Idle, Unused}
      /\ IsPass(req[r]) /\ PassSlot(req[r]) /\ JobSlot(req[r]) /\ InHand(req[r])
  BY AtStatement, KindsDiffer DEF ReadRule, At, AutomationInv
<1>2. UNCHANGED <<rule, runsLog, fires, refused>>
  BY DEF ReadRule
<1>3. CASE rule.exists /\ rule.active
  <2> DEFINE l == [pc |-> "act", job |-> req[r].job, tried |-> req[r].tried,
                   seen |-> rule.fireCount, rest |-> req[r].rest]
  <2>1. Continue(r, l) /\ UNCHANGED jobs
    BY <1>3 DEF ReadRule
  <2>2. ServerOK' /\ req'[r] = l /\ \A s \in Requests \ {r} : req'[s] = req[s]
    BY <1>1, <2>1, Continued DEF AutomationInv
  <2>3. AutomationTypeOK'
    BY <1>2, <2>1 DEF AutomationInv, AutomationTypeOK
  <2>4. CountOK(req[r]) => CountOK(req[r])'
    BY <1>1, <1>2, <2>2 DEF CountOK
  <2>5. CountInv'
    BY <1>1, <1>2, <2>1, <2>4, CountContinues DEF AutomationInv
  <2>6. /\ l.pc = "act" /\ l.job = req[r].job /\ l.tried = req[r].tried
        /\ l.seen \in Nat /\ l.rest = req[r].rest
        /\ DOMAIN l = {"pc", "job", "tried", "seen", "rest"}
    BY DEF AutomationInv, AutomationTypeOK
  <2>7. JobSlot(l) /\ IsPass(l)
    BY <1>1, <2>6 DEF JobSlot, IsPass, Idle
  <2> HIDE DEF l
  <2>8. InHand(l)
    BY <1>1, <2>6 DEF InHand
  <2>9. SlotOK(l)
    BY <1>1, <2>6, <2>7, <2>8 DEF SlotOK, PassSlot
  <2>10. SlotsInv' /\ JobsInv'
    BY <1>1, <1>2, <2>1, <2>2, <2>9, SlotMoves DEF AutomationInv
  <2> QED
    BY <2>2, <2>3, <2>5, <2>10 DEF AutomationInv
<1>4. CASE ~(rule.exists /\ rule.active)
  <2> DEFINE l == [pc |-> "pass", rest |-> req[r].rest]
  <2>1. Continue(r, l) /\ jobs' = SetJob(req[r].job, "cancelled")
    BY <1>4 DEF ReadRule
  <2>2. ServerOK' /\ SlotsInv' /\ JobsInv'
    BY <1>1, <1>2, <2>1, PassGoesOn DEF JobStatus
  <2>3. req[r].job \in Records
    BY <1>1 DEF JobSlot
  <2>4. jobs' \in [Records -> [status : JobStatus, attempts : 0..MaxJobTries]]
    BY <2>1, <2>3, JobSet DEF AutomationInv, JobStatus
  <2>5. AutomationTypeOK'
    BY <1>2, <2>4 DEF AutomationInv, AutomationTypeOK
  <2>6. req'[r] = l
    BY <1>1, <2>1, Continued DEF AutomationInv
  <2>7. CountOK(req[r]) => CountOK(req[r])'
    BY <1>1, <1>2, <2>6 DEF CountOK
  <2>8. CountInv'
    BY <1>1, <1>2, <2>1, <2>7, CountContinues DEF AutomationInv
  <2> QED
    BY <2>2, <2>5, <2>8 DEF AutomationInv
<1> QED
  BY <1>3, <1>4

LEMMA JobDoneStep ==
    ASSUME AutomationInv, NEW r \in Requests, JobDone(r)
    PROVE  AutomationInv'
<1> DEFINE l == [pc |-> "pass", rest |-> req[r].rest]
<1>1. /\ req[r].pc = "done" /\ req[r] \notin {Idle, Unused}
      /\ IsPass(req[r]) /\ PassSlot(req[r]) /\ JobSlot(req[r]) /\ InHand(req[r])
  BY AtStatement, KindsDiffer DEF JobDone, At, AutomationInv
<1>2. /\ UNCHANGED <<rule, fires, refused>> /\ Continue(r, l)
      /\ jobs' = SetJob(req[r].job, "done") /\ runsLog' = Record("fired")
  BY DEF JobDone
<1>3. ServerOK' /\ SlotsInv' /\ JobsInv'
  BY <1>1, <1>2, PassGoesOn DEF JobStatus
<1>4. req[r].job \in Records
  BY <1>1 DEF JobSlot
<1>5. jobs' \in [Records -> [status : JobStatus, attempts : 0..MaxJobTries]]
  BY <1>2, <1>4, JobSet DEF AutomationInv, JobStatus
<1>6. /\ runsLog' \in [RunStatus -> Nat]
      /\ rule.exists => runsLog'["fired"] = runsLog["fired"] + 1
  BY <1>2, Recorded DEF AutomationInv, RunStatus
<1>7. AutomationTypeOK'
  BY <1>2, <1>5, <1>6 DEF AutomationInv, AutomationTypeOK
<1>8. req'[r] = l
  BY <1>1, <1>2, Continued DEF AutomationInv
<1>9. rule.exists /\ CountOK(req[r]) => CountOK(req[r])'
  BY <1>1, <1>2, <1>6, <1>8 DEF CountOK
<1>10. CountInv'
  BY <1>1, <1>2, <1>9, CountContinues DEF AutomationInv
<1> QED
  BY <1>3, <1>7, <1>10 DEF AutomationInv

-----------------------------------------------------------------------------
(***************************************************************************)
(* The rule's edits, and a restart                                         *)
(***************************************************************************)

LEMMA PatchRuleStep ==
    ASSUME AutomationInv, NEW r \in Requests, NEW field \in {"active", "delayed"}, PatchRule(r, field)
    PROVE  AutomationInv'
<1>1. Begin(r, Idle) /\ UNCHANGED <<jobs, runsLog, fires, refused>>
  BY DEF PatchRule
<1>2. /\ rule' \in [exists : BOOLEAN, active : BOOLEAN, delayed : BOOLEAN, fireCount : Nat]
      /\ rule'.exists = rule.exists /\ rule'.fireCount = rule.fireCount
  BY DEF PatchRule, AutomationInv, AutomationTypeOK
<1>3. ServerOK' /\ req'[r] = Idle /\ \A s \in Requests \ {r} : req'[s] = req[s]
  BY <1>1, Begun DEF AutomationInv
<1>4. AutomationTypeOK'
  BY <1>1, <1>2 DEF AutomationInv, AutomationTypeOK
<1>5. SlotsInv' /\ JobsInv'
  BY <1>1, <1>3, SlotMoves, KindsDiffer DEF AutomationInv, SlotOK
<1>6. rule.fireCount = fires.rule /\ runsLog["fired"] = fires.rule => CountOK(req[r])'
  BY <1>1, <1>2, <1>3 DEF CountOK, Idle
<1>7. CountInv'
  BY <1>1, <1>2, <1>6, CountBegins DEF AutomationInv
<1> QED
  BY <1>3, <1>4, <1>5, <1>7 DEF AutomationInv

\* The jobs go with the rule, those a pass has in hand as well.
LEMMA DeleteRuleStep ==
    ASSUME AutomationInv, NEW r \in Requests, DeleteRule(r)
    PROVE  AutomationInv'
<1>1. /\ Begin(r, Idle) /\ UNCHANGED <<fires, refused>>
      /\ rule' = [rule EXCEPT !.exists = FALSE]
      /\ jobs' = [j \in Records |-> IF jobs[j].status = "absent" THEN jobs[j]
                                    ELSE [jobs[j] EXCEPT !.status = "deleted"]]
      /\ runsLog' = [s \in RunStatus |-> 0]
  BY DEF DeleteRule
<1>2. ServerOK' /\ req'[r] = Idle /\ \A s \in Requests \ {r} : req'[s] = req[s]
  BY <1>1, Begun DEF AutomationInv
<1>3. AutomationTypeOK'
  BY <1>1 DEF AutomationInv, AutomationTypeOK, JobStatus
<1>4. CountInv'
  BY <1>1 DEF CountInv, AutomationInv, AutomationTypeOK
<1>5. \A j \in Records : /\ jobs[j].status = "absent" => jobs'[j] = jobs[j]
                         /\ jobs[j].status # "absent" => jobs'[j].status = "deleted"
  BY <1>1 DEF AutomationInv, AutomationTypeOK
<1>6. JobsInv'
  BY <1>1, <1>5 DEF AutomationInv, JobsInv
<1>7. ASSUME NEW s \in Requests \ {r} PROVE SlotOK(req[s])'
  <2>1. SlotOK(req[s]) /\ req'[s] = req[s]
    BY <1>2 DEF AutomationInv, SlotsInv
  <2>2. PassSlot(req[s]) => PassSlot(req[s])'
    BY <1>1, <1>5, <2>1 DEF PassSlot, Selected, JobSlot, InHand
  <2> QED
    BY <2>1, <2>2 DEF SlotOK, IsPass
<1>8. SlotsInv'
  BY <1>2, <1>7, OneSlotChanges, KindsDiffer DEF AutomationInv, SlotOK
<1> QED
  BY <1>2, <1>3, <1>4, <1>6, <1>8 DEF AutomationInv

\* A restart leaves a job that was running, running: no pass will take it up again.
LEMMA RestartStep ==
    ASSUME AutomationInv, Restart, UNCHANGED automation
    PROVE  AutomationInv'
<1>1. ServerOK' /\ overlapped' /\ \A r \in Requests : req'[r] \in {Idle, Unused}
  BY Restarted DEF AutomationInv
<1>2. SlotsInv'
  BY <1>1, KindsDiffer DEF SlotsInv, SlotOK, IsPass
<1> QED
  BY <1>1, <1>2 DEF AutomationInv, AutomationTypeOK, JobsInv, CountInv, automation

LEMMA AutomationStutters ==
    ASSUME AutomationInv, UNCHANGED automationVars
    PROVE  AutomationInv'
<1>1. ServerOK' /\ AutomationTypeOK' /\ JobsInv'
  BY DEF AutomationInv, ServerOK, InFlight, AutomationTypeOK, JobsInv, automationVars, server, automation
<1>2. SlotsInv'
  BY DEF AutomationInv, SlotsInv, SlotOK, PassSlot, Selected, JobSlot, InHand, IsPass,
         automationVars, server, automation
<1>3. CountInv'
  BY DEF AutomationInv, CountInv, CountOK, Quiescent, InFlight, automationVars, server, automation
<1> QED
  BY <1>1, <1>2, <1>3 DEF AutomationInv

LEMMA AutomationStarts ==
    ASSUME NEW slots, NEW requests, NEW stops, AutomationConstants,
           ServerInit(slots, requests, stops), AutomationInit
    PROVE  AutomationInv
<1>1. ServerOK /\ \A r \in Requests : req[r] \in {Idle, Unused}
  BY ServerStarts
<1>2. SlotsInv
  BY <1>1, KindsDiffer DEF SlotsInv, SlotOK, IsPass
<1>3. AutomationTypeOK /\ JobsInv
  BY DEF AutomationInit, AutomationTypeOK, JobsInv, JobStatus, AutomationConstants
<1>4. CountInv
  BY <1>1 DEF CountInv, InFlight, AutomationInit, RunStatus
<1> QED
  BY <1>1, <1>2, <1>3, <1>4 DEF AutomationInv

LEMMA AutomationInvStep ==
    ASSUME AutomationInv, OnePass, AutomationConstants, [AutomationNext]_automationVars
    PROVE  AutomationInv'
<1>1. ASSUME NEW r \in Requests, AutomationRequest(r) PROVE AutomationInv'
  BY <1>1, EventStep, RunDueJobsStep, PatchRuleStep, DeleteRuleStep DEF AutomationRequest
<1>2. ASSUME NEW r \in Requests, AutomationStep(r) PROVE AutomationInv'
  BY <1>2, RecordSkippedStep, QueueJobStep, ExecuteActionsStep, BumpFiredStep, RecordFiredStep,
     ThrewStep, EndPassStep, ClaimJobStep, ReadRuleStep, JobDoneStep DEF AutomationStep
<1>3. CASE UNCHANGED automationVars
  BY <1>3, AutomationStutters
<1> QED
  BY <1>1, <1>2, <1>3, RestartStep DEF AutomationNext

\* The invariant holds in every state, while passes do not overlap: node-cron starts
\* one every fifteen minutes, and OnePass says that it is over by then.
THEOREM AutomationInvariant ==
    ASSUME OnePass
    PROVE  AutomationSpec => []AutomationInv
<1>1. ASSUME NEW slots \in SUBSET Requests, NEW requests \in Nat, NEW stops \in Nat,
             ServerInit(slots, requests, stops), AutomationInit
      PROVE  AutomationInv
  BY <1>1, AutomationConstants, AutomationStarts
<1>2. (\E slots \in SUBSET Requests, requests, stops \in Nat : ServerInit(slots, requests, stops))
        /\ AutomationInit => AutomationInv
  BY <1>1
<1>3. AutomationInv /\ [AutomationNext]_automationVars => AutomationInv'
  BY AutomationConstants, AutomationInvStep
<1> QED
  BY <1>2, <1>3, PTL DEF AutomationSpec

\* automation.js, "a second scheduler pass cannot pick up the same one": a job completes
\* its actions at most once, whatever events, edits, retries and restarts come.
THEOREM JobOnceCorrect ==
    ASSUME OnePass
    PROVE  AutomationSpec => []JobRunsOnce
<1>1. AutomationInv => JobRunsOnce
  BY DEF AutomationInv, JobsInv, JobRunsOnce
<1> QED
  BY <1>1, AutomationInvariant, PTL

\* bumpFired and the run log: the rule's counter and its log agree with the runs that
\* completed, for as long as no two handlers have overlapped and none was cut off.
THEOREM FireCountCorrect ==
    ASSUME OnePass
    PROVE  AutomationSpec => [](AutomationTypeOK /\ FireCountAgrees)
<1>1. AutomationInv => AutomationTypeOK /\ FireCountAgrees
  BY DEF AutomationInv, CountInv, FireCountAgrees
<1> QED
  BY <1>1, AutomationInvariant, PTL

-----------------------------------------------------------------------------
(***************************************************************************)
(* The jobs are a work queue: every step is one of the queue's, or none    *)
(***************************************************************************)

\* A step that leaves the jobs alone leaves the queue alone.
LEMMA QueueStays ==
    ASSUME UNCHANGED jobs
    PROVE  UNCHANGED <<JobItem, JobTries>>
  BY DEF JobItem, JobTries

\* What the change of one job is to the queue.
LEMMA OneItemChanges ==
    ASSUME AutomationTypeOK, AutomationTypeOK', NEW j \in Records,
           \A k \in Records \ {j} : jobs'[k] = jobs[k]
    PROVE  /\ jobs'[j] = [jobs[j] EXCEPT !.status = "pending"] =>
                /\ jobs[j].status = "absent" => Queue!Add(j)
                /\ jobs[j].status = "running" /\ jobs[j].attempts < MaxJobTries => Queue!GiveBack(j)
           /\ jobs[j].status = "pending" /\ jobs[j].attempts < MaxJobTries
                /\ jobs'[j] = [status |-> "running", attempts |-> jobs[j].attempts + 1] => Queue!Take(j)
           /\ jobs[j].status = "running" /\ jobs'[j].attempts = jobs[j].attempts
                /\ jobs'[j].status \in {"done", "failed", "cancelled"} => Queue!Finish(j)
<1>1. \A k \in Records \ {j} : JobItem'[k] = JobItem[k] /\ JobTries'[k] = JobTries[k]
  BY DEF JobItem, JobTries
<1>2. JobItem = [k \in Records |-> JobItem[k]] /\ JobItem' = [k \in Records |-> JobItem'[k]]
  BY DEF JobItem
<1>3. JobTries = [k \in Records |-> JobTries[k]] /\ JobTries' = [k \in Records |-> JobTries'[k]]
  BY DEF JobTries
<1>4. JobTries[j] = jobs[j].attempts /\ JobTries'[j] = jobs'[j].attempts
  BY DEF JobTries
<1>5. /\ jobs[j].status = "absent" => JobItem[j] = "absent"
      /\ jobs[j].status = "pending" => JobItem[j] = "waiting"
      /\ jobs[j].status = "running" => JobItem[j] = "taken"
  BY DEF JobItem
<1>6. /\ jobs'[j].status = "pending" => JobItem'[j] = "waiting"
      /\ jobs'[j].status = "running" => JobItem'[j] = "taken"
      /\ jobs'[j].status \in {"done", "failed", "cancelled"} => JobItem'[j] = "finished"
  BY DEF JobItem
<1>7. JobItem' = [JobItem EXCEPT ![j] = JobItem'[j]]
  BY <1>1, <1>2
<1>8. JobTries' = [JobTries EXCEPT ![j] = JobTries'[j]]
  BY <1>1, <1>3
<1>9. JobTries'[j] = JobTries[j] => JobTries' = JobTries
  BY <1>1, <1>3
<1>10. jobs[j] \in [status : JobStatus, attempts : 0..MaxJobTries]
  BY DEF AutomationTypeOK
<1>11. ASSUME jobs'[j] = [jobs[j] EXCEPT !.status = "pending"]
       PROVE  /\ jobs[j].status = "absent" => Queue!Add(j)
              /\ jobs[j].status = "running" /\ jobs[j].attempts < MaxJobTries => Queue!GiveBack(j)
  <2>1. jobs'[j].status = "pending" /\ jobs'[j].attempts = jobs[j].attempts
    BY <1>10, <1>11
  <2> QED
    BY <2>1, <1>4, <1>5, <1>6, <1>7, <1>9 DEF Queue!Add, Queue!GiveBack
<1>12. ASSUME jobs[j].status = "pending", jobs[j].attempts < MaxJobTries,
              jobs'[j] = [status |-> "running", attempts |-> jobs[j].attempts + 1]
       PROVE  Queue!Take(j)
  BY <1>12, <1>4, <1>5, <1>6, <1>7, <1>8 DEF Queue!Take
<1>13. ASSUME jobs[j].status = "running", jobs'[j].attempts = jobs[j].attempts,
              jobs'[j].status \in {"done", "failed", "cancelled"}
       PROVE  Queue!Finish(j)
  BY <1>13, <1>4, <1>5, <1>6, <1>7, <1>9 DEF Queue!Finish
<1> QED
  BY <1>11, <1>12, <1>13

\* queueJob adds, or is refused.
LEMMA QueueJobAdds ==
    ASSUME AutomationInv, AutomationInv', NEW r \in Requests, QueueJob(r)
    PROVE  [Queue!QueueNext]_<<JobItem, JobTries>>
<1>1. PICK j \in Records : j = req[r].of
  BY AtStatement DEF QueueJob, AutomationInv, EventSlot
<1>2. CASE jobs[j].status = "absent" /\ rule.exists
  <2>1. jobs' = [jobs EXCEPT ![j].status = "pending"]
    BY <1>1, <1>2 DEF QueueJob
  <2>2. /\ \A k \in Records \ {j} : jobs'[k] = jobs[k]
        /\ jobs'[j] = [jobs[j] EXCEPT !.status = "pending"]
    BY <1>1, <2>1 DEF AutomationInv, AutomationTypeOK
  <2>3. Queue!Add(j)
    BY <1>2, <2>2, OneItemChanges DEF AutomationInv
  <2> QED
    BY <2>3 DEF Queue!QueueNext
<1>3. CASE ~(jobs[j].status = "absent" /\ rule.exists)
  BY <1>1, <1>3, QueueStays DEF QueueJob
<1> QED
  BY <1>2, <1>3

\* A pass that sets the status of the job it has in hand gives it back, or finishes it;
\* a job that was deleted under it is finished already.
LEMMA SetJobEnds ==
    ASSUME AutomationInv, AutomationInv', NEW j \in Records,
           jobs[j].status \in {"deleted", "running"},
           NEW status \in {"pending", "done", "failed", "cancelled"}, jobs' = SetJob(j, status),
           status = "pending" /\ jobs[j].status = "running" => jobs[j].attempts < MaxJobTries
    PROVE  [Queue!QueueNext]_<<JobItem, JobTries>>
<1>1. CASE jobs[j].status = "deleted"
  BY <1>1, QueueStays DEF SetJob
<1>2. CASE jobs[j].status = "running"
  <2>1. /\ \A k \in Records \ {j} : jobs'[k] = jobs[k]
        /\ jobs'[j] = [jobs[j] EXCEPT !.status = status]
        /\ jobs'[j].attempts = jobs[j].attempts /\ jobs'[j].status = status
    BY <1>2 DEF SetJob, AutomationInv, AutomationTypeOK
  <2>2. Queue!GiveBack(j) \/ Queue!Finish(j)
    BY <1>2, <2>1, OneItemChanges DEF AutomationInv
  <2> QED
    BY <2>2 DEF Queue!QueueNext
<1> QED
  BY <1>1, <1>2

LEMMA ThrewEnds ==
    ASSUME AutomationInv, AutomationInv', AutomationConstants, NEW r \in Requests, Threw(r)
    PROVE  [Queue!QueueNext]_<<JobItem, JobTries>>
<1>1. \/ req[r] \in EventSlot
      \/ JobSlot(req[r]) /\ InHand(req[r])
  BY AtStatement DEF Threw, AutomationInv
<1>2. CASE req[r] \in EventSlot
  BY <1>2, QueueStays DEF Threw, EventSlot
<1>3. CASE JobSlot(req[r]) /\ InHand(req[r])
  <2>1. PICK j \in Records : j = req[r].job
    BY <1>3 DEF JobSlot
  <2>2. PICK status \in {"pending", "failed"} :
           status = IF req[r].tried + 1 >= MaxJobTries THEN "failed" ELSE "pending"
    OBVIOUS
  <2>3. jobs' = SetJob(j, status) /\ j # None
    BY <2>1, <2>2 DEF Threw, AutomationConstants
  <2>4. /\ jobs[j].status \in {"deleted", "running"}
        /\ jobs[j].status = "running" => jobs[j].attempts = req[r].tried + 1
    BY <1>3, <2>1 DEF InHand
  <2>5. status = "pending" /\ jobs[j].status = "running" => jobs[j].attempts < MaxJobTries
    BY <1>3, <2>2, <2>4 DEF JobSlot, AutomationConstants
  <2> QED
    BY <2>3, <2>4, <2>5, SetJobEnds
<1> QED
  BY <1>1, <1>2, <1>3

\* A claim is a Take: the pass selected a job that waits.
LEMMA ClaimJobTakes ==
    ASSUME AutomationInv, AutomationInv', NEW r \in Requests, NEW j \in Records, ClaimJob(r, j)
    PROVE  [Queue!QueueNext]_<<JobItem, JobTries>>
<1>1. CASE jobs[j].status = "pending"
  <2>1. jobs' = [jobs EXCEPT ![j] = [status |-> "running", attempts |-> @.attempts + 1]]
    BY <1>1 DEF ClaimJob
  <2>2. /\ \A k \in Records \ {j} : jobs'[k] = jobs[k]
        /\ jobs'[j] = [status |-> "running", attempts |-> jobs[j].attempts + 1]
        /\ jobs[j].attempts < MaxJobTries
    BY <1>1, <2>1 DEF AutomationInv, AutomationTypeOK, JobsInv
  <2>3. Queue!Take(j)
    BY <1>1, <2>2, OneItemChanges DEF AutomationInv
  <2> QED
    BY <2>3 DEF Queue!QueueNext
<1>2. CASE jobs[j].status # "pending"
  BY <1>2, QueueStays DEF ClaimJob
<1> QED
  BY <1>1, <1>2

LEMMA ReadRuleEnds ==
    ASSUME AutomationInv, AutomationInv', NEW r \in Requests, ReadRule(r) \/ JobDone(r)
    PROVE  [Queue!QueueNext]_<<JobItem, JobTries>>
<1>1. JobSlot(req[r]) /\ InHand(req[r])
  BY AtStatement DEF ReadRule, JobDone, AutomationInv
<1>2. PICK j \in Records : j = req[r].job
  BY <1>1 DEF JobSlot
<1>3. jobs[j].status \in {"deleted", "running"}
  BY <1>1, <1>2 DEF InHand
<1>4. \/ jobs' = SetJob(j, "cancelled")
      \/ jobs' = SetJob(j, "done")
      \/ UNCHANGED jobs
  BY <1>2 DEF ReadRule, JobDone
<1>5. CASE jobs' = SetJob(j, "cancelled")
  BY <1>3, <1>5, SetJobEnds
<1>6. CASE jobs' = SetJob(j, "done")
  BY <1>3, <1>6, SetJobEnds
<1> QED
  BY <1>4, <1>5, <1>6, QueueStays

\* Deleting the rule withdraws all that is open.
LEMMA DeleteRuleWithdraws ==
    ASSUME AutomationInv, NEW r \in Requests, DeleteRule(r)
    PROVE  [Queue!QueueNext]_<<JobItem, JobTries>>
<1>1. jobs' = [j \in Records |-> IF jobs[j].status = "absent" THEN jobs[j]
                                 ELSE [jobs[j] EXCEPT !.status = "deleted"]]
  BY DEF DeleteRule
<1>2. ASSUME NEW j \in Records
      PROVE  /\ JobItem'[j] = IF JobItem[j] \in {"waiting", "taken"} THEN "finished" ELSE JobItem[j]
             /\ jobs'[j].attempts = jobs[j].attempts
  <2>1. jobs[j] \in [status : JobStatus, attempts : 0..MaxJobTries]
    BY DEF AutomationInv, AutomationTypeOK
  <2>2. CASE jobs[j].status = "absent"
    <3>1. JobItem[j] = "absent" /\ JobItem'[j] = "absent" /\ jobs'[j] = jobs[j]
      BY <1>1, <2>2 DEF JobItem
    <3> QED
      BY <3>1
  <2>3. CASE jobs[j].status # "absent"
    <3>1. jobs'[j].status = "deleted" /\ jobs'[j].attempts = jobs[j].attempts
      BY <1>1, <2>1, <2>3
    <3>2. JobItem'[j] = "finished"
      BY <3>1 DEF JobItem
    <3>3. JobItem[j] \in {"waiting", "taken", "finished"}
      BY <2>3 DEF JobItem
    <3> QED
      BY <3>1, <3>2, <3>3
  <2> QED
    BY <2>2, <2>3
<1>3. /\ JobItem' = [j \in Records |-> JobItem'[j]]
      /\ JobTries' = [j \in Records |-> jobs'[j].attempts]
      /\ JobTries = [j \in Records |-> jobs[j].attempts]
  BY DEF JobItem, JobTries
<1>4. /\ JobItem' = [j \in Records |-> IF JobItem[j] \in {"waiting", "taken"}
                                       THEN "finished" ELSE JobItem[j]]
      /\ JobTries' = JobTries
  BY <1>2, <1>3
<1> QED
  BY <1>4 DEF Queue!QueueNext, Queue!Withdraw

\* The promise of the outbox of jobs: claimed by one pass at a time, tried at most
\* MAX_ATTEMPTS times, never taken up again once done, given up or cancelled.
THEOREM QueueCorrect ==
    ASSUME OnePass
    PROVE  AutomationSpec => ImplementsQueue
<1>1. (\E slots \in SUBSET Requests, requests, stops \in Nat : ServerInit(slots, requests, stops))
        /\ AutomationInit => Queue!QueueInit
  BY DEF AutomationInit, Queue!QueueInit, JobItem, JobTries
<1>2. ASSUME AutomationInv, AutomationInv', [AutomationNext]_automationVars
      PROVE  [Queue!QueueNext]_<<JobItem, JobTries>>
  <2>1. ASSUME NEW r \in Requests, AutomationRequest(r)
        PROVE  [Queue!QueueNext]_<<JobItem, JobTries>>
    <3>1. ASSUME UNCHANGED jobs PROVE [Queue!QueueNext]_<<JobItem, JobTries>>
      BY <3>1, QueueStays
    <3> QED
      BY <1>2, <2>1, <3>1, DeleteRuleWithdraws
         DEF AutomationRequest, Event, RunDueJobs, PatchRule, automation
  <2>2. ASSUME NEW r \in Requests, AutomationStep(r)
        PROVE  [Queue!QueueNext]_<<JobItem, JobTries>>
    <3>1. ASSUME UNCHANGED jobs PROVE [Queue!QueueNext]_<<JobItem, JobTries>>
      BY <3>1, QueueStays
    <3>2. RecordSkipped(r) \/ (\E ok \in BOOLEAN : ExecuteActions(r, ok)) \/ BumpFired(r)
            \/ RecordFired(r) \/ EndPass(r) => UNCHANGED jobs
      BY DEF RecordSkipped, ExecuteActions, BumpFired, RecordFired, EndPass, automation
    <3> QED
      BY <1>2, <2>2, <3>1, <3>2, AutomationConstants, QueueJobAdds, ThrewEnds, ClaimJobTakes,
         ReadRuleEnds DEF AutomationStep
  <2>3. ASSUME UNCHANGED jobs PROVE [Queue!QueueNext]_<<JobItem, JobTries>>
    BY <2>3, QueueStays
  <2> QED
    BY <1>2, <2>1, <2>2, <2>3 DEF AutomationNext, automationVars, automation
<1> QED
  BY <1>1, <1>2, AutomationInvariant, PTL DEF AutomationSpec, ImplementsQueue, Queue!QueueSpec

-----------------------------------------------------------------------------
(***************************************************************************)
(* Broadcasts: the invariant                                               *)
(***************************************************************************)

BroadcastStatus == {"absent", "queued", "scheduled", "processing"} \cup Finished
RecipientRow == [status : {"absent", "pending", "sent", "failed"}, attempts : 0..MaxSends]
Counted == 0..Cardinality(Addresses)
BroadcastRow == [status : BroadcastStatus, sentCount : Counted, failedCount : Counted]

\* What a handler keeps: the addresses still to stage, the recipients it selected with
\* the attempts each had, the one it has just sent to, the counts it took.
BroadcastSlot(l) ==
    \/ l \in {Idle, Unused}
    \/ l \in [pc : {"deliver", "select"}]
    \/ l \in [pc : {"stage"}, left : Seq(Addresses), now : BOOLEAN]
    \/ l \in [pc : {"close"}, sent : Counted, dead : Counted, remaining : Nat]
    \/ /\ l.pc \in {"send", "note"} /\ DOMAIN l.to \subseteq Addresses
       /\ \A a \in DOMAIN l.to : l.to[a] \in 0..(MaxSends - 1)
       /\ l.pc = "note" => l.last \in DOMAIN l.to /\ l.ok \in BOOLEAN

\* A delivery that is alone has sent to those whose row says so, and to the one whose
\* row it is about to write; it selected nobody who was reached; its counts are those of
\* the rows; and once the broadcast is finished there is no delivery and nobody to try.
BroadcastAlone(l) ==
    /\ \A a \in Addresses :
         sends[a] = IF recipients[a].status = "sent" \/ (l.pc = "note" /\ l.ok /\ l.last = a) THEN 1 ELSE 0
    /\ l.pc \in {"send", "note"} => \A a \in DOMAIN l.to : recipients[a].status \in {"pending", "failed"}
    /\ l.pc = "close" => /\ l.sent = Cardinality(Sent) /\ l.dead = Cardinality(Dead)
                         /\ l.remaining = Cardinality(Unsent)
    /\ connected /\ broadcast.status \in Finished =>
         /\ l.pc \in {"idle", "unused"} /\ Unsent = {}
         /\ broadcast.sentCount = Cardinality(Sent) /\ broadcast.failedCount = Cardinality(Dead)

BroadcastInv ==
    /\ BroadcastTypeOK
    /\ ServerOK
    /\ \A r \in Requests : BroadcastSlot(req[r])
    /\ ~overlapped => (Quiescent => BroadcastAlone(Idle)) /\ \A r \in InFlight : BroadcastAlone(req[r])

-----------------------------------------------------------------------------
LEMMA BroadcastTypes ==
    BroadcastTypeOK <=>
      /\ broadcast \in BroadcastRow /\ recipients \in [Addresses -> RecipientRow]
      /\ connected \in BOOLEAN /\ sends \in [Addresses -> Nat]
BY DEF BroadcastTypeOK, BroadcastRow, BroadcastStatus, RecipientRow, Counted

LEMMA AddressesCount ==
    ASSUME NEW S, S \subseteq Addresses
    PROVE  Cardinality(S) \in Counted /\ Cardinality(S) \in Nat /\ (Cardinality(S) = 0 <=> S = {})
<1>1. IsFiniteSet(Addresses) /\ IsFiniteSet(S) /\ Cardinality(S) <= Cardinality(Addresses)
  BY BroadcastConstants, FS_Subset
<1>2. Cardinality(S) \in Nat /\ Cardinality(Addresses) \in Nat /\ (Cardinality(S) = 0 <=> S = {})
  BY <1>1, FS_CardinalityType, FS_EmptySet
<1> QED
  BY <1>1, <1>2 DEF Counted

\* What a handler keeps at each statement.
LEMMA BroadcastAt ==
    ASSUME NEW l, BroadcastSlot(l)
    PROVE  /\ l.pc \in {"stage", "deliver", "select", "send", "note", "close"} => l \notin {Idle, Unused}
           /\ l.pc = "stage" => l \in [pc : {"stage"}, left : Seq(Addresses), now : BOOLEAN]
           /\ l.pc = "close" => l \in [pc : {"close"}, sent : Counted, dead : Counted, remaining : Nat]
           /\ l.pc \in {"send", "note"} =>
                DOMAIN l.to \subseteq Addresses /\ \A a \in DOMAIN l.to : l.to[a] \in 0..(MaxSends - 1)
           /\ l.pc = "note" => l.last \in DOMAIN l.to /\ l.ok \in BOOLEAN
BY DEF BroadcastSlot, Idle, Unused

\* The one handler begins, or goes on, with l.
LEMMA BroadcastMoves ==
    ASSUME BroadcastInv, NEW r \in Requests, NEW l, BroadcastSlot(l),
           \/ Begin(r, l) \/ Fire(r, l)
           \/ req[r] \notin {Idle, Unused} /\ Continue(r, l),
           BroadcastTypeOK', ~overlapped' => BroadcastAlone(l)'
    PROVE  BroadcastInv'
<1>1. /\ ServerOK' /\ req'[r] = l /\ \A s \in Requests \ {r} : req'[s] = req[s]
      /\ ~overlapped' => \A s \in Requests \ {r} : req[s] \in {Idle, Unused}
  <2>1. CASE Begin(r, l) \/ Fire(r, l)
    BY <2>1, Begun DEF BroadcastInv
  <2>2. CASE req[r] \notin {Idle, Unused} /\ Continue(r, l)
    BY <2>2, Continued DEF BroadcastInv
  <2> QED
    BY <2>1, <2>2
<1>2. (\A s \in Requests : BroadcastSlot(req[s]))'
  BY <1>1 DEF BroadcastInv, BroadcastSlot
<1>3. ASSUME ~overlapped', NEW s \in InFlight' PROVE BroadcastAlone(req[s])'
  <2>1. s = r
    BY <1>1, <1>3 DEF InFlight
  <2> QED
    BY <1>1, <1>3, <2>1 DEF BroadcastAlone
<1>4. ASSUME ~overlapped', Quiescent' PROVE BroadcastAlone(Idle)'
  <2>1. l \in {Idle, Unused}
    BY <1>1, <1>4 DEF Quiescent, InFlight
  <2> QED
    BY <1>4, <2>1 DEF BroadcastAlone, Idle, Unused
<1> QED
  BY <1>1, <1>2, <1>3, <1>4 DEF BroadcastInv

\* What a handler that begins, or goes on, finds while it is alone.
LEMMA BroadcastFinds ==
    ASSUME BroadcastInv, NEW r \in Requests, NEW l,
           \/ Begin(r, l) \/ Fire(r, l)
           \/ req[r] \notin {Idle, Unused} /\ Continue(r, l),
           ~overlapped'
    PROVE  /\ BroadcastAlone(req[r])
           /\ connected /\ req[r] \notin {Idle, Unused} => broadcast.status \notin Finished
<1>1. CASE Begin(r, l) \/ Fire(r, l)
  <2>1. ~overlapped /\ (\A s \in Requests : req[s] \in {Idle, Unused}) /\ req[r] = Idle
    BY <1>1, Begun DEF BroadcastInv, ServerOK
  <2> QED
    BY <2>1 DEF BroadcastInv, Quiescent, InFlight
<1>2. CASE req[r] \notin {Idle, Unused} /\ Continue(r, l)
  <2>1. BroadcastAlone(req[r])
    BY <1>2 DEF BroadcastInv, InFlight, Continue
  <2>2. req[r].pc \notin {"idle", "unused"}
    BY <1>2 DEF BroadcastInv, BroadcastSlot
  <2> QED
    BY <2>1, <2>2 DEF BroadcastAlone
<1> QED
  BY <1>1, <1>2

LEMMA BroadcastReads ==
    ASSUME BroadcastInv, NEW r \in Requests, NEW l, BroadcastSlot(l),
           \/ Begin(r, l) \/ Fire(r, l)
           \/ req[r] \notin {Idle, Unused} /\ Continue(r, l),
           UNCHANGED broadcasting, ~overlapped' => BroadcastAlone(l)
    PROVE  BroadcastInv'
<1>1. UNCHANGED <<broadcast, recipients, connected, sends>>
  BY DEF broadcasting
<1>2. BroadcastTypeOK'
  BY <1>1 DEF BroadcastInv, BroadcastTypeOK
<1>3. BroadcastAlone(l) => BroadcastAlone(l)'
  BY <1>1 DEF BroadcastAlone, Sent, Dead, Unsent
<1> QED
  BY <1>2, <1>3, BroadcastMoves

-----------------------------------------------------------------------------
(***************************************************************************)
(* Broadcasts: the steps                                                   *)
(***************************************************************************)

LEMMA PostBroadcastStep ==
    ASSUME BroadcastInv, NEW r \in Requests, NEW audience \in Audiences,
           NEW status \in {"queued", "scheduled"}, PostBroadcast(r, audience, status)
    PROVE  BroadcastInv'
<1>1. PICK now : now = (status = "queued")
  OBVIOUS
<1>2. PICK l : l = [pc |-> "stage", left |-> audience, now |-> now]
  OBVIOUS
<1>3. /\ Begin(r, l) /\ broadcast' = [broadcast EXCEPT !.status = status]
      /\ UNCHANGED <<recipients, connected, sends>>
  BY <1>1, <1>2 DEF PostBroadcast
<1>4. audience \in Seq(Addresses) /\ now \in BOOLEAN
  BY <1>1, BroadcastConstants
<1>5. BroadcastSlot(l) /\ l.pc = "stage"
  BY <1>2, <1>4 DEF BroadcastSlot
<1>6. broadcast' \in BroadcastRow /\ broadcast'.status \notin Finished
  BY <1>3, BroadcastTypes DEF BroadcastInv, BroadcastRow, BroadcastStatus, Finished
<1>7. BroadcastTypeOK'
  BY <1>3, <1>6 DEF BroadcastInv, BroadcastTypeOK, BroadcastRow, BroadcastStatus, Counted
<1>8. ASSUME ~overlapped' PROVE BroadcastAlone(l)'
  <2>1. BroadcastAlone(req[r]) /\ req[r] = Idle
    BY <1>3, <1>8, BroadcastFinds, Begun DEF BroadcastInv
  <2> QED
    BY <1>3, <1>5, <1>6, <2>1 DEF BroadcastAlone, Idle
<1> QED
  BY <1>3, <1>5, <1>7, <1>8, BroadcastMoves

LEMMA StageRecipientStep ==
    ASSUME BroadcastInv, NEW r \in Requests, StageRecipient(r)
    PROVE  BroadcastInv'
<1>1. PICK was, a : was = req[r] /\ a = Head(was.left)
  OBVIOUS
<1>2. /\ was.pc = "stage" /\ was.left # <<>> /\ UNCHANGED <<broadcast, connected, sends>>
      /\ \/ /\ recipients[a].status = "absent"
            /\ recipients' = [recipients EXCEPT ![a].status = "pending"]
            /\ Continue(r, [was EXCEPT !.left = Tail(was.left)])
         \/ UNCHANGED recipients /\ Continue(r, Idle)
  BY <1>1 DEF StageRecipient, At, Return
<1>3. was \in [pc : {"stage"}, left : Seq(Addresses), now : BOOLEAN] /\ req[r] \notin {Idle, Unused}
  BY <1>1, <1>2, BroadcastAt DEF BroadcastInv
<1>4. a \in Addresses /\ Tail(was.left) \in Seq(Addresses)
  BY <1>1, <1>2, <1>3
<1>5. CASE /\ recipients[a].status = "absent"
           /\ recipients' = [recipients EXCEPT ![a].status = "pending"]
           /\ Continue(r, [was EXCEPT !.left = Tail(was.left)])
  <2>1. PICK l : l = [was EXCEPT !.left = Tail(was.left)]
    OBVIOUS
  <2>2. BroadcastSlot(l) /\ l.pc = "stage"
    BY <1>3, <1>4, <2>1 DEF BroadcastSlot
  <2>3. /\ recipients' \in [Addresses -> RecipientRow] /\ recipients'[a].status = "pending"
        /\ \A b \in Addresses \ {a} : recipients'[b] = recipients[b]
    BY <1>4, <1>5, BroadcastTypes DEF BroadcastInv, RecipientRow
  <2>4. BroadcastTypeOK'
    BY <1>2, <2>3 DEF BroadcastInv, BroadcastTypeOK, RecipientRow
  <2>5. ASSUME ~overlapped' PROVE BroadcastAlone(l)'
    <3>1. BroadcastAlone(req[r]) /\ (connected => broadcast.status \notin Finished)
      BY <1>3, <1>5, <2>5, BroadcastFinds
    <3> QED
      BY <1>1, <1>2, <1>5, <2>2, <2>3, <3>1 DEF BroadcastAlone
  <2> QED
    BY <1>3, <1>5, <2>1, <2>2, <2>4, <2>5, BroadcastMoves
<1>6. CASE UNCHANGED recipients /\ Continue(r, Idle)
  <2>1. BroadcastTypeOK'
    BY <1>2, <1>6 DEF BroadcastInv, BroadcastTypeOK
  <2>2. ASSUME ~overlapped' PROVE BroadcastAlone(Idle)'
    <3>1. BroadcastAlone(req[r]) /\ (connected => broadcast.status \notin Finished)
      BY <1>3, <1>6, <2>2, BroadcastFinds
    <3> QED
      BY <1>1, <1>2, <1>6, <3>1 DEF BroadcastAlone, Idle
  <2> QED
    BY <1>3, <1>6, <2>1, <2>2, BroadcastMoves DEF BroadcastSlot
<1> QED
  BY <1>2, <1>5, <1>6

LEMMA StagedStep ==
    ASSUME BroadcastInv, NEW r \in Requests, Staged(r)
    PROVE  BroadcastInv'
<1>1. PICK l : l = IF req[r].now THEN [pc |-> "deliver"] ELSE Idle
  OBVIOUS
<1>2. req[r].pc = "stage" /\ Continue(r, l) /\ UNCHANGED <<broadcast, recipients, connected, sends>>
  BY <1>1 DEF Staged, At
<1>3. BroadcastSlot(l) /\ l.pc \in {"deliver", "idle"}
  BY <1>1 DEF BroadcastSlot, Idle
<1>4. req[r] \notin {Idle, Unused} /\ BroadcastTypeOK'
  BY <1>2, BroadcastAt DEF BroadcastInv, BroadcastTypeOK
<1>5. ASSUME ~overlapped' PROVE BroadcastAlone(l)'
  <2>1. BroadcastAlone(req[r]) /\ (connected => broadcast.status \notin Finished)
    BY <1>2, <1>4, <1>5, BroadcastFinds
  <2> QED
    BY <1>2, <1>3, <2>1 DEF BroadcastAlone
<1> QED
  BY <1>2, <1>3, <1>4, <1>5, BroadcastMoves

LEMMA RunDueBroadcastsStep ==
    ASSUME BroadcastInv, NEW r \in Requests, RunDueBroadcasts(r)
    PROVE  BroadcastInv'
<1>1. PICK l : l = [pc |-> "deliver"]
  OBVIOUS
<1>2. Fire(r, l) /\ UNCHANGED broadcasting /\ broadcast.status \notin Finished
  BY <1>1 DEF RunDueBroadcasts, Finished
<1>3. BroadcastSlot(l) /\ l.pc = "deliver"
  BY <1>1 DEF BroadcastSlot
<1>4. ASSUME ~overlapped' PROVE BroadcastAlone(l)
  <2>1. BroadcastAlone(req[r]) /\ req[r] = Idle
    BY <1>2, <1>4, BroadcastFinds, Begun DEF BroadcastInv
  <2> QED
    BY <1>2, <1>3, <2>1 DEF BroadcastAlone, Idle
<1> QED
  BY <1>2, <1>3, <1>4, BroadcastReads

LEMMA SendNextStep ==
    ASSUME BroadcastInv, NEW r \in Requests, SendNext(r)
    PROVE  BroadcastInv'
<1>1. PICK l : l = IF connected THEN [pc |-> "select"] ELSE Idle
  OBVIOUS
<1>2. /\ req[r].pc = "deliver" /\ Continue(r, l) /\ UNCHANGED <<recipients, connected, sends>>
      /\ broadcast' = [broadcast EXCEPT !.status = IF connected THEN "processing" ELSE "failed"]
  BY <1>1 DEF SendNext, At
<1>3. BroadcastSlot(l) /\ l.pc \in {"select", "idle"}
  BY <1>1 DEF BroadcastSlot, Idle
<1>4. broadcast' \in BroadcastRow /\ (connected => broadcast'.status \notin Finished)
  BY <1>2, BroadcastTypes DEF BroadcastInv, BroadcastRow, BroadcastStatus, Finished
<1>5. req[r] \notin {Idle, Unused} /\ BroadcastTypeOK'
  BY <1>2, <1>4, BroadcastAt DEF BroadcastInv, BroadcastTypeOK, BroadcastRow, BroadcastStatus, Counted
<1>6. ASSUME ~overlapped' PROVE BroadcastAlone(l)'
  <2>1. BroadcastAlone(req[r])
    BY <1>2, <1>5, <1>6, BroadcastFinds
  <2> QED
    BY <1>2, <1>3, <1>4, <2>1 DEF BroadcastAlone
<1> QED
  BY <1>2, <1>3, <1>5, <1>6, BroadcastMoves

LEMMA SelectRecipientsStep ==
    ASSUME BroadcastInv, NEW r \in Requests, SelectRecipients(r)
    PROVE  BroadcastInv'
<1>1. PICK chosen \in SUBSET Unsent :
         Continue(r, [pc |-> "send", to |-> [a \in chosen |-> recipients[a].attempts]])
  BY DEF SelectRecipients
<1>2. PICK to : to = [a \in chosen |-> recipients[a].attempts]
  OBVIOUS
<1>3. PICK l : l = [pc |-> "send", to |-> to]
  OBVIOUS
<1>4. req[r].pc = "select" /\ Continue(r, l) /\ UNCHANGED broadcasting
  BY <1>1, <1>2, <1>3 DEF SelectRecipients, At
<1>5. /\ DOMAIN to = chosen /\ chosen \subseteq Addresses
      /\ \A a \in chosen : to[a] \in 0..(MaxSends - 1) /\ recipients[a].status \in {"pending", "failed"}
  <2>1. recipients \in [Addresses -> RecipientRow] /\ MaxSends \in Nat
    BY BroadcastTypes, BroadcastConstants DEF BroadcastInv
  <2>2. ASSUME NEW a \in chosen
        PROVE  /\ a \in Addresses /\ recipients[a].attempts \in 0..(MaxSends - 1)
               /\ recipients[a].status \in {"pending", "failed"}
    BY <2>1 DEF Unsent, RecipientRow
  <2> QED
    BY <1>2, <2>2
<1>6. BroadcastSlot(l) /\ l.pc = "send" /\ l.to = to
  BY <1>3, <1>5 DEF BroadcastSlot
<1>7. req[r] \notin {Idle, Unused}
  BY <1>4, BroadcastAt DEF BroadcastInv
<1>8. ASSUME ~overlapped' PROVE BroadcastAlone(l)
  <2>1. BroadcastAlone(req[r]) /\ (connected => broadcast.status \notin Finished)
    BY <1>4, <1>7, <1>8, BroadcastFinds
  <2> QED
    BY <1>4, <1>5, <1>6, <2>1 DEF BroadcastAlone
<1> QED
  BY <1>4, <1>6, <1>7, <1>8, BroadcastReads

LEMMA SendOneStep ==
    ASSUME BroadcastInv, NEW r \in Requests, NEW a \in Addresses, NEW accepted \in BOOLEAN,
           SendOne(r, a, accepted)
    PROVE  BroadcastInv'
<1>1. PICK to : to = req[r].to
  OBVIOUS
<1>2. PICK l : l = [pc |-> "note", to |-> to, last |-> a, ok |-> accepted]
  OBVIOUS
<1>3. /\ req[r].pc = "send" /\ a \in DOMAIN to /\ Continue(r, l)
      /\ UNCHANGED <<broadcast, recipients, connected>>
      /\ sends' = IF accepted THEN [sends EXCEPT ![a] = @ + 1] ELSE sends
  BY <1>1, <1>2 DEF SendOne, At
<1>4. /\ req[r] \notin {Idle, Unused} /\ DOMAIN to \subseteq Addresses
      /\ \A b \in DOMAIN to : to[b] \in 0..(MaxSends - 1)
  BY <1>1, <1>3, BroadcastAt DEF BroadcastInv
<1>5. BroadcastSlot(l) /\ l.pc = "note" /\ l.to = to /\ l.last = a /\ l.ok = accepted
  BY <1>2, <1>3, <1>4 DEF BroadcastSlot
<1>6. /\ sends' \in [Addresses -> Nat] /\ sends'[a] = sends[a] + (IF accepted THEN 1 ELSE 0)
      /\ \A b \in Addresses \ {a} : sends'[b] = sends[b]
  BY <1>3, BroadcastTypes DEF BroadcastInv
<1>7. BroadcastTypeOK'
  BY <1>3, <1>6 DEF BroadcastInv, BroadcastTypeOK
<1>8. ASSUME ~overlapped' PROVE BroadcastAlone(l)'
  <2>1. BroadcastAlone(req[r]) /\ (connected => broadcast.status \notin Finished)
    BY <1>3, <1>4, <1>8, BroadcastFinds
  <2>2. recipients[a].status # "sent" /\ \A b \in DOMAIN to : recipients[b].status \in {"pending", "failed"}
    BY <1>1, <1>3, <2>1 DEF BroadcastAlone
  <2>3. \A b \in Addresses : sends[b] = IF recipients[b].status = "sent" THEN 1 ELSE 0
    BY <1>3, <2>1 DEF BroadcastAlone
  <2>4. \A b \in Addresses :
          sends'[b] = IF recipients'[b].status = "sent" \/ (accepted /\ a = b) THEN 1 ELSE 0
    BY <1>3, <1>6, <2>2, <2>3
  <2> QED
    BY <1>3, <1>5, <2>1, <2>2, <2>4 DEF BroadcastAlone
<1> QED
  BY <1>3, <1>4, <1>5, <1>7, <1>8, BroadcastMoves

LEMMA NoteOutcomeStep ==
    ASSUME BroadcastInv, NEW r \in Requests, NoteOutcome(r)
    PROVE  BroadcastInv'
<1>1. PICK a, to, ok : a = req[r].last /\ to = req[r].to /\ ok = req[r].ok
  OBVIOUS
<1>2. PICK rest : rest = [b \in DOMAIN to \ {a} |-> to[b]]
  OBVIOUS
<1>3. PICK l : l = [pc |-> "send", to |-> rest]
  OBVIOUS
<1>4. PICK kept : kept = [status |-> IF ok THEN "sent" ELSE "failed", attempts |-> to[a] + 1]
  OBVIOUS
<1>5. /\ req[r].pc = "note" /\ Continue(r, l) /\ recipients' = [recipients EXCEPT ![a] = kept]
      /\ UNCHANGED <<broadcast, connected, sends>>
  BY <1>1, <1>2, <1>3, <1>4 DEF NoteOutcome, At
<1>6. /\ req[r] \notin {Idle, Unused} /\ a \in DOMAIN to /\ DOMAIN to \subseteq Addresses
      /\ ok \in BOOLEAN /\ \A b \in DOMAIN to : to[b] \in 0..(MaxSends - 1)
  BY <1>1, <1>5, BroadcastAt DEF BroadcastInv
<1>7. DOMAIN rest = DOMAIN to \ {a} /\ \A b \in DOMAIN rest : rest[b] = to[b]
  BY <1>2
<1>8. BroadcastSlot(l) /\ l.pc = "send" /\ l.to = rest
  BY <1>3, <1>6, <1>7 DEF BroadcastSlot
<1>9. /\ recipients' \in [Addresses -> RecipientRow] /\ recipients'[a].status = IF ok THEN "sent" ELSE "failed"
      /\ \A b \in Addresses \ {a} : recipients'[b] = recipients[b]
  <2>1. kept \in RecipientRow /\ kept.status = IF ok THEN "sent" ELSE "failed"
    BY <1>4, <1>6, BroadcastConstants DEF RecipientRow
  <2> QED
    BY <1>5, <1>6, <2>1, BroadcastTypes DEF BroadcastInv
<1>10. BroadcastTypeOK'
  BY <1>5, <1>9 DEF BroadcastInv, BroadcastTypeOK, RecipientRow
<1>11. ASSUME ~overlapped' PROVE BroadcastAlone(l)'
  <2>1. BroadcastAlone(req[r]) /\ (connected => broadcast.status \notin Finished)
    BY <1>5, <1>6, <1>11, BroadcastFinds
  <2>2. /\ \A b \in DOMAIN to : recipients[b].status \in {"pending", "failed"}
        /\ \A b \in Addresses : sends[b] = IF recipients[b].status = "sent" \/ (ok /\ a = b) THEN 1 ELSE 0
    BY <1>1, <1>5, <2>1 DEF BroadcastAlone
  <2>3. \A b \in Addresses : sends'[b] = IF recipients'[b].status = "sent" THEN 1 ELSE 0
    BY <1>5, <1>6, <1>9, <2>2
  <2>4. \A b \in DOMAIN rest : recipients'[b].status \in {"pending", "failed"}
    BY <1>6, <1>7, <1>9, <2>2
  <2> QED
    BY <1>5, <1>8, <2>1, <2>3, <2>4 DEF BroadcastAlone
<1> QED
  BY <1>5, <1>6, <1>8, <1>10, <1>11, BroadcastMoves

LEMMA TallyStep ==
    ASSUME BroadcastInv, NEW r \in Requests, Tally(r)
    PROVE  BroadcastInv'
<1>1. PICK l : l = [pc |-> "close", sent |-> Cardinality(Sent), dead |-> Cardinality(Dead),
                    remaining |-> Cardinality(Unsent)]
  OBVIOUS
<1>2. req[r].pc = "send" /\ Continue(r, l) /\ UNCHANGED broadcasting
  BY <1>1 DEF Tally, At
<1>3. Cardinality(Sent) \in Counted /\ Cardinality(Dead) \in Counted /\ Cardinality(Unsent) \in Nat
  BY AddressesCount DEF Sent, Dead, Unsent
<1>4. /\ BroadcastSlot(l) /\ l.pc = "close" /\ l.sent = Cardinality(Sent) /\ l.dead = Cardinality(Dead)
      /\ l.remaining = Cardinality(Unsent)
  BY <1>1, <1>3 DEF BroadcastSlot
<1>5. req[r] \notin {Idle, Unused}
  BY <1>2, BroadcastAt DEF BroadcastInv
<1>6. ASSUME ~overlapped' PROVE BroadcastAlone(l)
  <2>1. BroadcastAlone(req[r]) /\ (connected => broadcast.status \notin Finished)
    BY <1>2, <1>5, <1>6, BroadcastFinds
  <2> QED
    BY <1>2, <1>4, <2>1 DEF BroadcastAlone
<1> QED
  BY <1>2, <1>4, <1>5, <1>6, BroadcastReads

LEMMA CloseBroadcastStep ==
    ASSUME BroadcastInv, NEW r \in Requests, CloseBroadcast(r)
    PROVE  BroadcastInv'
<1>1. PICK sent, dead, remaining : sent = req[r].sent /\ dead = req[r].dead /\ remaining = req[r].remaining
  OBVIOUS
<1>2. /\ req[r].pc = "close" /\ Continue(r, Idle) /\ UNCHANGED <<recipients, connected, sends>>
      /\ broadcast' = [status |-> IF remaining > 0 THEN "processing" ELSE IF sent > 0 THEN "sent" ELSE "failed",
                       sentCount |-> sent, failedCount |-> dead]
  BY <1>1 DEF CloseBroadcast, At, Return
<1>3. req[r] \notin {Idle, Unused} /\ sent \in Counted /\ dead \in Counted /\ remaining \in Nat
  BY <1>1, <1>2, BroadcastAt DEF BroadcastInv
<1>4. broadcast' \in BroadcastRow
  BY <1>2, <1>3 DEF BroadcastRow, BroadcastStatus, Finished
<1>5. BroadcastTypeOK'
  BY <1>2, <1>4 DEF BroadcastInv, BroadcastTypeOK, BroadcastRow, BroadcastStatus, Counted
<1>6. ASSUME ~overlapped' PROVE BroadcastAlone(Idle)'
  <2>1. BroadcastAlone(req[r])
    BY <1>2, <1>3, <1>6, BroadcastFinds
  <2>2. sent = Cardinality(Sent) /\ dead = Cardinality(Dead) /\ remaining = Cardinality(Unsent)
    BY <1>1, <1>2, <2>1 DEF BroadcastAlone
  <2>3. /\ Sent' = Sent /\ Dead' = Dead /\ Unsent' = Unsent
        /\ broadcast'.sentCount = sent /\ broadcast'.failedCount = dead
    BY <1>2 DEF Sent, Dead, Unsent
  <2>4. broadcast'.status \in Finished => Unsent = {}
    <3>1. broadcast'.status \in Finished => ~(remaining > 0)
      BY <1>2 DEF Finished
    <3>2. Cardinality(Unsent) = 0 => Unsent = {}
      BY AddressesCount DEF Unsent
    <3> QED
      BY <1>3, <2>2, <3>1, <3>2
  <2> QED
    BY <1>2, <2>1, <2>2, <2>3, <2>4 DEF BroadcastAlone, Idle
<1> QED
  BY <1>2, <1>3, <1>5, <1>6, BroadcastMoves DEF BroadcastSlot

-----------------------------------------------------------------------------
(***************************************************************************)
(* Broadcasts: every step                                                  *)
(***************************************************************************)

LEMMA BroadcastStarts ==
    ASSUME BroadcastInit, NEW slots, NEW requests, NEW stops, ServerInit(slots, requests, stops)
    PROVE  BroadcastInv
<1>1. ServerOK /\ \A r \in Requests : req[r] \in {Idle, Unused}
  BY ServerStarts
<1>2. InFlight = {} /\ \A r \in Requests : BroadcastSlot(req[r])
  BY <1>1 DEF InFlight, BroadcastSlot
<1>3. 0 \in Counted /\ 0 \in 0..MaxSends
  BY AddressesCount, FS_EmptySet, BroadcastConstants DEF Counted
<1>4. BroadcastTypeOK
  BY <1>3 DEF BroadcastInit, BroadcastTypeOK, Counted
<1>5. BroadcastAlone(Idle)
  BY DEF BroadcastAlone, BroadcastInit, Idle, Finished
<1> QED
  BY <1>1, <1>2, <1>4, <1>5 DEF BroadcastInv

LEMMA BroadcastRestartStep ==
    ASSUME BroadcastInv, Restart, UNCHANGED broadcasting
    PROVE  BroadcastInv'
<1>1. ServerOK' /\ overlapped' /\ \A r \in Requests : req'[r] \in {Idle, Unused}
  BY Restarted DEF BroadcastInv
<1>2. BroadcastTypeOK' /\ (\A r \in Requests : BroadcastSlot(req[r]))'
  BY <1>1 DEF broadcasting, BroadcastInv, BroadcastTypeOK, BroadcastSlot
<1> QED
  BY <1>1, <1>2 DEF BroadcastInv

LEMMA BroadcastStutters ==
    ASSUME BroadcastInv, UNCHANGED broadcastVars
    PROVE  BroadcastInv'
<1>1. UNCHANGED <<broadcast, recipients, connected, sends>> /\ UNCHANGED <<req, arrivals, faults, overlapped>>
  BY DEF broadcastVars, broadcasting, server
<1>2. ServerOK' /\ InFlight' = InFlight /\ (Quiescent' <=> Quiescent)
  BY <1>1 DEF BroadcastInv, ServerOK, InFlight, Quiescent
<1>3. BroadcastTypeOK' /\ (\A r \in Requests : BroadcastSlot(req[r]))'
  BY <1>1 DEF BroadcastInv, BroadcastTypeOK, BroadcastSlot
<1>4. Sent' = Sent /\ Dead' = Dead /\ Unsent' = Unsent
  BY <1>1 DEF Sent, Dead, Unsent
<1>5. (~overlapped => /\ Quiescent => BroadcastAlone(Idle)
                      /\ \A r \in InFlight : BroadcastAlone(req[r]))'
  BY <1>1, <1>2, <1>4 DEF BroadcastInv, BroadcastAlone
<1> QED
  BY <1>2, <1>3, <1>5 DEF BroadcastInv

\* Every step of the broadcast keeps its invariant.
LEMMA BroadcastNextStep ==
    ASSUME BroadcastInv, [BroadcastNext]_broadcastVars
    PROVE  BroadcastInv'
<1>1. ASSUME NEW r \in Requests, BroadcastRequest(r) PROVE BroadcastInv'
  BY <1>1, PostBroadcastStep, RunDueBroadcastsStep DEF BroadcastRequest
<1>2. ASSUME NEW r \in Requests, BroadcastStep(r) PROVE BroadcastInv'
  BY <1>2, StageRecipientStep, StagedStep, SendNextStep, SelectRecipientsStep, SendOneStep, NoteOutcomeStep,
     TallyStep, CloseBroadcastStep DEF BroadcastStep
<1> QED
  BY <1>1, <1>2, BroadcastRestartStep, BroadcastStutters DEF BroadcastNext

\* What the invariant says of the broadcast.
LEMMA BroadcastInvHolds ==
    ASSUME BroadcastInv
    PROVE  BroadcastTypeOK /\ ReachedOnce /\ FinishedMeansTried
<1>1. ASSUME ~overlapped, NEW l, BroadcastAlone(l), BroadcastSlot(l)
      PROVE  /\ \A a \in Addresses : sends[a] <= 1
             /\ connected /\ broadcast.status \in Finished =>
                  /\ Unsent = {} /\ broadcast.failedCount = Cardinality(Dead)
                  /\ broadcast.sentCount = Cardinality({a \in Addresses : sends[a] > 0})
  <2>1. \A a \in Addresses : sends[a] <= 1
    BY <1>1 DEF BroadcastAlone
  <2>2. ASSUME connected, broadcast.status \in Finished
        PROVE  Sent = {a \in Addresses : sends[a] > 0}
    BY <1>1, <2>2 DEF BroadcastAlone, Sent
  <2> QED
    BY <1>1, <2>1, <2>2 DEF BroadcastAlone
<1>2. ~overlapped => \E l : BroadcastAlone(l) /\ BroadcastSlot(l)
  <2>1. CASE Quiescent
    BY <2>1 DEF BroadcastInv, BroadcastSlot
  <2>2. CASE ~Quiescent
    BY <2>2 DEF BroadcastInv, Quiescent, InFlight
  <2> QED
    BY <2>1, <2>2
<1> QED
  BY <1>1, <1>2 DEF BroadcastInv, ReachedOnce, FinishedMeansTried

-----------------------------------------------------------------------------
(***************************************************************************)
(* Calls: the invariant                                                    *)
(***************************************************************************)

CallStatus == {"absent"} \cup Live \cup Over
AgentCall == [status : CallStatus, known : BOOLEAN, hold : BOOLEAN, answered : BOOLEAN, ended : BOOLEAN,
              handled : BOOLEAN]
Presences == {"available", "busy", "on_call"}
Said == {"ringing", "in_progress", "completed", "no_answer"}

\* The calls the provider knows of.
Rung == {c \in CallIds : wire[c] # "none"}

\* What a handler keeps, with rung the calls the provider knew of or knows of by now.
RowsAsked(rung) == {x \in [call : CallIds, row : AgentCall] : x.row.known => x.call \in rung}
AskSlots(rung) == [pc : {"ask"}, rest : SUBSET RowsAsked(rung)]
ProcessSlots(rung) == [pc : {"process"}, call : CallIds, then : AskSlots(rung) \cup {Idle}]
PresenceSlots(rung) == [pc : {"presence"}, to : Presences, then : ProcessSlots(rung) \cup {Idle}]

Patches == {[hold |-> TRUE, status |-> "on_hold"], [hold |-> FALSE, status |-> "in_progress"],
            [status |-> "completed", ended |-> TRUE]}

CallSlots(rung) ==
    AskSlots(rung) \cup ProcessSlots(rung) \cup PresenceSlots(rung)
    \cup [pc : {"place", "refused"}, call : CallIds]
    \cup [pc : {"placed"}, call : rung]
    \cup [pc : {"apply"}, call : CallIds, row : AgentCall, says : Said, rest : SUBSET RowsAsked(rung)]
    \cup [pc : {"ingest"}, call : CallIds, then : PresenceSlots(rung)]
    \cup [pc : {"keep"}, call : CallIds, new : BOOLEAN, then : PresenceSlots(rung)]
    \cup [pc : {"rollUp"}, then : AskSlots(rung) \cup {Idle}]
    \cup [pc : {"control"}, call : CallIds, hangup : BOOLEAN, patch : Patches]
    \cup [pc : {"webhook"}, call : CallIds, row : AgentCall, says : Said]
    \cup [pc : {"tag"}, seen : Nat]

CallSlot(l) == l \in CallSlots(Rung) \cup {Idle, Unused}

\* A handler that is alone adds the first row of a recording and counts what it read.
CallAlone(l) ==
    /\ \A c \in CallIds : tape[c].rows <= 1
    /\ l.pc = "keep" /\ l.new => tape[l.call].rows = 0
    /\ tagUse = tagged
    /\ l.pc = "tag" => l.seen = tagUse

CallInv ==
    /\ CallTypeOK
    /\ ServerOK
    /\ EndedHasAnEnd
    /\ \A c \in CallIds : calls[c].known => c \in Rung
    /\ \A r \in Requests : CallSlot(req[r])
    /\ ~overlapped => (Quiescent => CallAlone(Idle)) /\ \A r \in InFlight : CallAlone(req[r])

-----------------------------------------------------------------------------
LEMMA CallTypes ==
    CallTypeOK <=>
      /\ calls \in [CallIds -> AgentCall] /\ wire \in [CallIds -> {"none", "ringing", "live", "ended", "unanswered"}]
      /\ tape \in [CallIds -> [rows : Nat, available : BOOLEAN]] /\ presence \in Presences
      /\ tagUse \in Nat /\ metrics \in [total : 0..MaxCalls, missed : 0..MaxCalls]
      /\ tagged \in Nat /\ processed \in [CallIds -> Nat]
<1>1. DOMAIN Says = {"ringing", "live", "ended", "unanswered"}
  BY DEF Says
<1> QED
  BY <1>1 DEF CallTypeOK, AgentCall, CallStatus, Presences

\* What the provider says of a call it knows.
LEMMA SaysOf ==
    ASSUME CallTypeOK, NEW c \in Rung
    PROVE  Says[wire[c]] \in Said
<1>1. wire[c] \in {"ringing", "live", "ended", "unanswered"}
  BY CallTypes DEF Rung
<1> QED
  BY <1>1 DEF Says, Said

LEMMA PlacedCounts ==
    ASSUME NEW S, S \subseteq CallIds
    PROVE  Cardinality(S) \in 0..MaxCalls
<1>1. IsFiniteSet(CallIds) /\ Cardinality(CallIds) = MaxCalls
  BY CallConstants, FS_Interval DEF CallIds
<1>2. IsFiniteSet(S) /\ Cardinality(S) <= Cardinality(CallIds)
  BY <1>1, FS_Subset
<1> QED
  BY <1>1, <1>2, FS_CardinalityType, CallConstants

\* The provider does not forget a call.
LEMMA MoreRung ==
    ASSUME NEW few, NEW many, few \subseteq many
    PROVE  /\ RowsAsked(few) \subseteq RowsAsked(many) /\ AskSlots(few) \subseteq AskSlots(many)
           /\ ProcessSlots(few) \subseteq ProcessSlots(many) /\ PresenceSlots(few) \subseteq PresenceSlots(many)
           /\ CallSlots(few) \subseteq CallSlots(many)
<1>1. RowsAsked(few) \subseteq RowsAsked(many)
  BY DEF RowsAsked
<1>2. SUBSET RowsAsked(few) \subseteq SUBSET RowsAsked(many)
  BY <1>1
<1>3. AskSlots(few) \subseteq AskSlots(many)
  BY <1>2 DEF AskSlots
<1>4. ProcessSlots(few) \subseteq ProcessSlots(many)
  BY <1>3 DEF ProcessSlots
<1>5. PresenceSlots(few) \subseteq PresenceSlots(many)
  BY <1>4 DEF PresenceSlots
<1>6. CallSlots(few) \subseteq CallSlots(many)
  <2> SUFFICES ASSUME NEW l \in CallSlots(few) PROVE l \in CallSlots(many)
    OBVIOUS
  <2>1. CASE l \in [pc : {"placed"}, call : few]
    BY <2>1 DEF CallSlots
  <2>2. CASE l \in [pc : {"apply"}, call : CallIds, row : AgentCall, says : Said, rest : SUBSET RowsAsked(few)]
    <3>1. l \in [pc : {"apply"}, call : CallIds, row : AgentCall, says : Said, rest : SUBSET RowsAsked(many)]
      BY <1>2, <2>2
    <3> QED
      BY <3>1 DEF CallSlots
  <2>3. CASE l \in [pc : {"ingest"}, call : CallIds, then : PresenceSlots(few)]
    <3>1. l \in [pc : {"ingest"}, call : CallIds, then : PresenceSlots(many)]
      BY <1>5, <2>3
    <3> QED
      BY <3>1 DEF CallSlots
  <2>4. CASE l \in [pc : {"keep"}, call : CallIds, new : BOOLEAN, then : PresenceSlots(few)]
    <3>1. l \in [pc : {"keep"}, call : CallIds, new : BOOLEAN, then : PresenceSlots(many)]
      BY <1>5, <2>4
    <3> QED
      BY <3>1 DEF CallSlots
  <2>5. CASE l \in [pc : {"rollUp"}, then : AskSlots(few) \cup {Idle}]
    <3>1. l \in [pc : {"rollUp"}, then : AskSlots(many) \cup {Idle}]
      BY <1>3, <2>5
    <3> QED
      BY <3>1 DEF CallSlots
  <2> QED
    BY <1>3, <1>4, <1>5, <2>1, <2>2, <2>3, <2>4, <2>5 DEF CallSlots
<1> QED
  BY <1>1, <1>3, <1>4, <1>5, <1>6

\* What a handler keeps at each statement.
LEMMA CallAt ==
    ASSUME NEW rung, NEW l \in CallSlots(rung) \cup {Idle, Unused}
    PROVE  /\ l \notin {Idle, Unused} => l \in CallSlots(rung)
           /\ l.pc \in {"ask", "process", "presence", "place", "refused", "placed", "apply", "ingest", "keep",
                        "rollUp", "control", "webhook", "tag"} => l \notin {Idle, Unused}
           /\ l.pc = "ask" => l.rest \in SUBSET RowsAsked(rung)
           /\ l.pc = "process" => l.call \in CallIds /\ l.then \in AskSlots(rung) \cup {Idle}
           /\ l.pc = "presence" => l.to \in Presences /\ l.then \in ProcessSlots(rung) \cup {Idle}
           /\ l.pc \in {"place", "refused"} => l.call \in CallIds
           /\ l.pc = "placed" => l.call \in rung
           /\ l.pc = "apply" => /\ l.call \in CallIds /\ l.row \in AgentCall /\ l.says \in Said
                                /\ l.rest \in SUBSET RowsAsked(rung)
           /\ l.pc = "ingest" => l.call \in CallIds /\ l.then \in PresenceSlots(rung)
           /\ l.pc = "keep" => l.call \in CallIds /\ l.new \in BOOLEAN /\ l.then \in PresenceSlots(rung)
           /\ l.pc = "rollUp" => l.then \in AskSlots(rung) \cup {Idle}
           /\ l.pc = "control" => l.call \in CallIds /\ l.hangup \in BOOLEAN /\ l.patch \in Patches
           /\ l.pc = "webhook" => l.call \in CallIds /\ l.row \in AgentCall /\ l.says \in Said
           /\ l.pc = "tag" => l.seen \in Nat
<1>1. Idle.pc = "idle" /\ Unused.pc = "unused"
  BY DEF Idle, Unused
<1>2. CASE l \in {Idle, Unused}
  BY <1>1, <1>2
<1>3. CASE l \in CallSlots(rung)
  <2> HIDE DEF Patches, Presences, Said
  <2>1. l \notin {Idle, Unused}
    BY <1>1, <1>3 DEF CallSlots, AskSlots, ProcessSlots, PresenceSlots
  <2>2. CASE l \in AskSlots(rung)
    BY <2>1, <2>2 DEF AskSlots, CallSlots
  <2>3. CASE l \in ProcessSlots(rung)
    BY <2>1, <2>3 DEF ProcessSlots, CallSlots
  <2>4. CASE l \in PresenceSlots(rung)
    BY <2>1, <2>4 DEF PresenceSlots, CallSlots
  <2>5. CASE l \notin AskSlots(rung) \cup ProcessSlots(rung) \cup PresenceSlots(rung)
    BY <1>3, <2>1, <2>5 DEF CallSlots
  <2> QED
    BY <2>2, <2>3, <2>4, <2>5
<1> QED
  BY <1>2, <1>3

\* The one handler begins, or goes on, with l.
LEMMA CallMoves ==
    ASSUME CallInv, NEW r \in Requests, NEW l, l \in CallSlots(Rung') \cup {Idle, Unused},
           \/ Begin(r, l) \/ Fire(r, l)
           \/ req[r] \notin {Idle, Unused} /\ Continue(r, l),
           Rung \subseteq Rung',
           CallTypeOK', EndedHasAnEnd', \A c \in CallIds : calls'[c].known => c \in Rung',
           ~overlapped' => CallAlone(l)'
    PROVE  CallInv'
<1>1. /\ ServerOK' /\ req'[r] = l /\ \A s \in Requests \ {r} : req'[s] = req[s]
      /\ ~overlapped' => \A s \in Requests \ {r} : req[s] \in {Idle, Unused}
  <2>1. CASE Begin(r, l) \/ Fire(r, l)
    BY <2>1, Begun DEF CallInv
  <2>2. CASE req[r] \notin {Idle, Unused} /\ Continue(r, l)
    BY <2>2, Continued DEF CallInv
  <2> QED
    BY <2>1, <2>2
<1>2. \A s \in Requests : CallSlot(req[s])'
  <2>1. \A s \in Requests : req[s] \in CallSlots(Rung') \cup {Idle, Unused}
    BY MoreRung DEF CallInv, CallSlot
  <2> QED
    BY <1>1, <2>1 DEF CallSlot
<1>3. ASSUME ~overlapped', NEW s \in InFlight' PROVE CallAlone(req[s])'
  <2>1. s = r
    BY <1>1, <1>3 DEF InFlight
  <2> QED
    BY <1>1, <1>3, <2>1 DEF CallAlone
<1>4. ASSUME ~overlapped', Quiescent' PROVE CallAlone(Idle)'
  <2>1. l \in {Idle, Unused}
    BY <1>1, <1>4 DEF Quiescent, InFlight
  <2> QED
    BY <1>4, <2>1 DEF CallAlone, Idle, Unused
<1>5. (\A c \in CallIds : calls[c].known => c \in Rung)'
  OBVIOUS
<1> QED
  BY <1>1, <1>2, <1>3, <1>4, <1>5 DEF CallInv

\* What a handler that begins, or goes on, finds while it is alone.
LEMMA CallFinds ==
    ASSUME CallInv, NEW r \in Requests, NEW l,
           \/ Begin(r, l) \/ Fire(r, l)
           \/ req[r] \notin {Idle, Unused} /\ Continue(r, l),
           ~overlapped'
    PROVE  CallAlone(Idle) /\ CallAlone(req[r])
<1>1. CASE Begin(r, l) \/ Fire(r, l)
  <2>1. ~overlapped /\ (\A s \in Requests : req[s] \in {Idle, Unused}) /\ req[r] = Idle
    BY <1>1, Begun DEF CallInv, ServerOK
  <2> QED
    BY <2>1 DEF CallInv, Quiescent, InFlight
<1>2. CASE req[r] \notin {Idle, Unused} /\ Continue(r, l)
  <2>1. CallAlone(req[r])
    BY <1>2 DEF CallInv, InFlight, Continue
  <2> QED
    BY <2>1 DEF CallAlone, Idle
<1> QED
  BY <1>1, <1>2

\* The steps that leave recordings and tags alone and do not go on to either.
LEMMA CallSteps1 ==
    ASSUME CallInv, NEW r \in Requests, NEW l, l \in CallSlots(Rung') \cup {Idle, Unused},
           \/ Begin(r, l) \/ Fire(r, l)
           \/ req[r] \notin {Idle, Unused} /\ Continue(r, l),
           Rung \subseteq Rung',
           CallTypeOK', EndedHasAnEnd', \A c \in CallIds : calls'[c].known => c \in Rung',
           UNCHANGED <<tape, tagUse, tagged>>, l.pc \notin {"keep", "tag"}
    PROVE  CallInv'
<1>1. ~overlapped' => CallAlone(l)'
  BY CallFinds DEF CallAlone
<1> QED
  BY <1>1, CallMoves

\* The steps that only read.
LEMMA CallReads ==
    ASSUME CallInv, NEW r \in Requests, NEW l, l \in CallSlots(Rung) \cup {Idle, Unused},
           \/ Begin(r, l) \/ Fire(r, l)
           \/ req[r] \notin {Idle, Unused} /\ Continue(r, l),
           UNCHANGED calling, ~overlapped' => CallAlone(l)
    PROVE  CallInv'
<1>1. UNCHANGED <<calls, wire, tape, presence, tagUse, metrics, tagged, processed>>
  BY DEF calling
<1>2. Rung' = Rung /\ CallTypeOK' /\ EndedHasAnEnd' /\ \A c \in CallIds : calls'[c].known => c \in Rung'
  BY <1>1 DEF Rung, CallInv, CallTypeOK, EndedHasAnEnd
<1>3. CallAlone(l) => CallAlone(l)'
  BY <1>1 DEF CallAlone
<1> QED
  BY <1>2, <1>3, CallMoves

-----------------------------------------------------------------------------
(***************************************************************************)
(* Calls: the steps                                                        *)
(***************************************************************************)

WireSays == {"none", "ringing", "live", "ended", "unanswered"}

\* A step that writes the row of one call, and what the provider says of it.
LEMMA CallWritten ==
    ASSUME CallInv, NEW c \in CallIds, NEW kept \in AgentCall, calls' = [calls EXCEPT ![c] = kept],
           kept.status \in Over => kept.ended, kept.known => c \in Rung',
           wire' \in [CallIds -> WireSays], Rung \subseteq Rung',
           UNCHANGED <<tape, presence, tagUse, metrics, tagged, processed>>
    PROVE  CallTypeOK' /\ EndedHasAnEnd' /\ \A d \in CallIds : calls'[d].known => d \in Rung'
<1>1. calls \in [CallIds -> AgentCall]
  BY CallTypes DEF CallInv
<1>2. /\ calls' \in [CallIds -> AgentCall] /\ calls'[c] = kept
      /\ \A d \in CallIds \ {c} : calls'[d] = calls[d]
  BY <1>1
<1>3. CallTypeOK'
  <2>1. /\ tape' \in [CallIds -> [rows : Nat, available : BOOLEAN]] /\ presence' \in Presences
        /\ tagUse' \in Nat /\ metrics' \in [total : 0..MaxCalls, missed : 0..MaxCalls]
        /\ tagged' \in Nat /\ processed' \in [CallIds -> Nat]
    BY CallTypes DEF CallInv
  <2>2. DOMAIN Says = {"ringing", "live", "ended", "unanswered"}
    BY DEF Says
  <2> QED
    BY <1>2, <2>1, <2>2 DEF CallTypeOK, AgentCall, CallStatus, WireSays, Presences
<1> QED
  BY <1>2, <1>3 DEF CallInv, EndedHasAnEnd

\* A step that leaves the rows of the calls and the provider alone.
LEMMA CallsKept ==
    ASSUME CallInv, UNCHANGED <<calls, wire>>,
           tape' \in [CallIds -> [rows : Nat, available : BOOLEAN]], presence' \in Presences,
           tagUse' \in Nat, metrics' \in [total : 0..MaxCalls, missed : 0..MaxCalls],
           tagged' \in Nat, processed' \in [CallIds -> Nat]
    PROVE  /\ CallTypeOK' /\ EndedHasAnEnd' /\ \A d \in CallIds : calls'[d].known => d \in Rung'
           /\ Rung' = Rung
BY DEF CallInv, CallTypeOK, EndedHasAnEnd, Rung, Presences

LEMMA CallRows ==
    ASSUME CallInv
    PROVE  /\ calls \in [CallIds -> AgentCall] /\ wire \in [CallIds -> WireSays]
           /\ tape \in [CallIds -> [rows : Nat, available : BOOLEAN]] /\ presence \in Presences
           /\ tagUse \in Nat /\ metrics \in [total : 0..MaxCalls, missed : 0..MaxCalls]
           /\ tagged \in Nat /\ processed \in [CallIds -> Nat]
BY CallTypes DEF CallInv, WireSays

\* A slot at a statement holds what that statement needs.
LEMMA CallHolds ==
    ASSUME CallInv, NEW r \in Requests
    PROVE  req[r] \in CallSlots(Rung) \cup {Idle, Unused}
BY DEF CallInv, CallSlot

\* An UPDATE of a call's row sets the columns it names and keeps the others.
CallColumns == {"status", "known", "hold", "answered", "ended", "handled"}

CallPatch(patch) ==
    /\ DOMAIN patch \subseteq CallColumns
    /\ "status" \in DOMAIN patch => patch["status"] \in CallStatus
    /\ "known" \in DOMAIN patch => patch["known"] \in BOOLEAN
    /\ "hold" \in DOMAIN patch => patch["hold"] \in BOOLEAN
    /\ "answered" \in DOMAIN patch => patch["answered"] \in BOOLEAN
    /\ "ended" \in DOMAIN patch => patch["ended"] \in BOOLEAN
    /\ "handled" \in DOMAIN patch => patch["handled"] \in BOOLEAN

LEMMA CallUpdated ==
    ASSUME NEW kept \in AgentCall, NEW patch, CallPatch(patch)
    PROVE  /\ Update(kept, patch) \in AgentCall
           /\ Update(kept, patch).status = IF "status" \in DOMAIN patch THEN patch["status"] ELSE kept.status
           /\ Update(kept, patch).known = IF "known" \in DOMAIN patch THEN patch["known"] ELSE kept.known
           /\ Update(kept, patch).ended = IF "ended" \in DOMAIN patch THEN patch["ended"] ELSE kept.ended
<1> DEFINE new == Update(kept, patch)
<1>1. DOMAIN kept = CallColumns
  BY DEF AgentCall, CallColumns
<1>2. new = [f \in CallColumns |-> IF f \in DOMAIN patch THEN patch[f] ELSE kept[f]]
  BY <1>1 DEF Update, CallPatch
<1> HIDE DEF new
<1>3. /\ kept["status"] \in CallStatus /\ kept["known"] \in BOOLEAN /\ kept["hold"] \in BOOLEAN
      /\ kept["answered"] \in BOOLEAN /\ kept["ended"] \in BOOLEAN /\ kept["handled"] \in BOOLEAN
  BY DEF AgentCall
<1>4. /\ new["status"] = IF "status" \in DOMAIN patch THEN patch["status"] ELSE kept["status"]
      /\ new["known"] = IF "known" \in DOMAIN patch THEN patch["known"] ELSE kept["known"]
      /\ new["hold"] = IF "hold" \in DOMAIN patch THEN patch["hold"] ELSE kept["hold"]
      /\ new["answered"] = IF "answered" \in DOMAIN patch THEN patch["answered"] ELSE kept["answered"]
      /\ new["ended"] = IF "ended" \in DOMAIN patch THEN patch["ended"] ELSE kept["ended"]
      /\ new["handled"] = IF "handled" \in DOMAIN patch THEN patch["handled"] ELSE kept["handled"]
  BY <1>2 DEF CallColumns
<1>5. /\ new["status"] \in CallStatus /\ new["known"] \in BOOLEAN /\ new["hold"] \in BOOLEAN
      /\ new["answered"] \in BOOLEAN /\ new["ended"] \in BOOLEAN /\ new["handled"] \in BOOLEAN
  BY <1>3, <1>4 DEF CallPatch
<1>6. new = [status |-> new["status"], known |-> new["known"], hold |-> new["hold"],
             answered |-> new["answered"], ended |-> new["ended"], handled |-> new["handled"]]
  BY <1>2 DEF CallColumns
<1>7. new \in AgentCall
  BY <1>5, <1>6 DEF AgentCall
<1> QED
  BY <1>4, <1>7 DEF new

LEMMA DialStep ==
    ASSUME CallInv, NEW r \in Requests, Dial(r)
    PROVE  CallInv'
<1>1. PICK c : c = Cardinality(Placed) + 1
  OBVIOUS
<1> DEFINE l == [pc |-> "place", call |-> c]
           kept == [NoRecord EXCEPT !.status = "initiated"]
<1>2. /\ c \in CallIds /\ calls' = [calls EXCEPT ![c] = kept] /\ Begin(r, l)
      /\ UNCHANGED <<wire, tape, presence, tagUse, metrics, tagged, processed>>
  BY <1>1 DEF Dial
<1>3. kept \in AgentCall /\ kept.status \notin Over /\ ~kept.known
  BY DEF NoRecord, AgentCall, CallStatus, Live, Over
<1>4. Rung' = Rung /\ wire' \in [CallIds -> WireSays]
  BY <1>2, CallRows DEF Rung
<1>5. l \in CallSlots(Rung') /\ l.pc = "place"
  BY <1>2 DEF CallSlots
<1> HIDE DEF l, kept
<1>6. CallTypeOK' /\ EndedHasAnEnd' /\ \A d \in CallIds : calls'[d].known => d \in Rung'
  BY <1>2, <1>3, <1>4, CallWritten
<1> QED
  BY <1>2, <1>4, <1>5, <1>6, CallSteps1

LEMMA PlaceCallStep ==
    ASSUME CallInv, NEW r \in Requests, NEW accepted \in BOOLEAN, PlaceCall(r, accepted)
    PROVE  CallInv'
<1>1. PICK c : c = req[r].call
  OBVIOUS
<1> DEFINE l == [pc |-> IF accepted THEN "placed" ELSE "refused", call |-> c]
<1>2. /\ req[r].pc = "place" /\ Continue(r, l)
      /\ wire' = IF accepted THEN [wire EXCEPT ![c] = "ringing"] ELSE wire
      /\ UNCHANGED <<calls, tape, presence, tagUse, metrics, tagged, processed>>
  BY <1>1 DEF PlaceCall, At
<1>3. req[r] \notin {Idle, Unused} /\ c \in CallIds
  BY <1>1, <1>2, CallHolds, CallAt
<1>4. wire' \in [CallIds -> WireSays] /\ Rung \subseteq Rung' /\ (accepted => c \in Rung')
  BY <1>2, <1>3, CallRows DEF Rung, WireSays
<1>5. l \in CallSlots(Rung') /\ l.pc \in {"placed", "refused"}
  BY <1>3, <1>4 DEF CallSlots
<1> HIDE DEF l
<1>6. CallTypeOK' /\ EndedHasAnEnd' /\ \A d \in CallIds : calls'[d].known => d \in Rung'
  <2>1. DOMAIN Says = {"ringing", "live", "ended", "unanswered"}
    BY DEF Says
  <2> QED
    BY <1>2, <1>4, <2>1 DEF CallInv, CallTypeOK, EndedHasAnEnd, WireSays
<1> QED
  BY <1>2, <1>3, <1>4, <1>5, <1>6, CallSteps1

LEMMA PlacingStep ==
    ASSUME CallInv, NEW r \in Requests, Placing(r)
    PROVE  CallInv'
<1>1. PICK c, rung : c = req[r].call /\ (rung <=> req[r].pc = "placed")
  OBVIOUS
<1> DEFINE l == IF rung THEN [pc |-> "presence", to |-> "on_call", then |-> Idle] ELSE Idle
           patch == IF rung THEN [status |-> "ringing", known |-> TRUE] ELSE [status |-> "failed", ended |-> TRUE]
           kept == Update(calls[c], patch)
<1>2. /\ req[r].pc \in {"placed", "refused"} /\ Continue(r, l)
      /\ UNCHANGED <<wire, tape, presence, tagUse, metrics, tagged, processed>>
  BY <1>1 DEF Placing, At
<1>3. calls' = [calls EXCEPT ![c] = Update(calls[c], patch)]
  BY <1>1 DEF Placing, At
<1>4. /\ req[r] \notin {Idle, Unused} /\ c \in CallIds /\ (rung => c \in Rung)
  <2>1. Rung \subseteq CallIds
    BY DEF Rung
  <2> QED
    BY <1>1, <1>2, <2>1, CallHolds, CallAt
<1>5. Rung' = Rung /\ wire' \in [CallIds -> WireSays]
  BY <1>2, CallRows DEF Rung
<1>6. calls[c] \in AgentCall /\ (calls[c].known => c \in Rung)
  BY <1>4, CallRows DEF CallInv
<1>7. /\ kept \in AgentCall /\ (kept.status \in Over => kept.ended) /\ (kept.known => c \in Rung)
  <2>1. CASE rung
    <3>1. kept \in AgentCall /\ kept.status = "ringing"
      <4>1. patch = [status |-> "ringing", known |-> TRUE]
        BY <2>1
      <4> HIDE DEF patch
      <4>2. CallPatch(patch) /\ "status" \in DOMAIN patch /\ patch["status"] = "ringing"
        BY <4>1 DEF CallPatch, CallColumns, CallStatus, Live
      <4> QED
        BY <1>6, <4>2, CallUpdated
    <3> QED
      BY <1>4, <2>1, <3>1 DEF Over
  <2>2. CASE ~rung
    <3>1. kept \in AgentCall /\ kept.ended /\ kept.known = calls[c].known
      <4>1. patch = [status |-> "failed", ended |-> TRUE]
        BY <2>2
      <4> HIDE DEF patch
      <4>2. CallPatch(patch) /\ "ended" \in DOMAIN patch /\ patch["ended"] /\ "known" \notin DOMAIN patch
        BY <4>1 DEF CallPatch, CallColumns, CallStatus, Over
      <4> QED
        BY <1>6, <4>2, CallUpdated
    <3> QED
      BY <1>6, <3>1
  <2> QED
    BY <2>1, <2>2
<1>8. l \in CallSlots(Rung') \cup {Idle} /\ l.pc \in {"presence", "idle"}
  BY DEF CallSlots, PresenceSlots, Presences, Idle
<1> HIDE DEF l, kept
<1>9. CallTypeOK' /\ EndedHasAnEnd' /\ \A d \in CallIds : calls'[d].known => d \in Rung'
  BY <1>2, <1>3, <1>4, <1>5, <1>7, CallWritten DEF kept
<1> QED
  BY <1>2, <1>4, <1>5, <1>8, <1>9, CallSteps1

LEMMA ConferenceStep ==
    ASSUME CallInv, NEW r \in Requests, NEW c \in CallIds, Conference(r, c)
    PROVE  CallInv'
<1>1. PICK leg : leg = Cardinality(Placed) + 1
  OBVIOUS
<1> DEFINE kept == [NoRecord EXCEPT !.status = "ringing", !.known = TRUE]
<1>2. /\ leg \in CallIds /\ calls' = [calls EXCEPT ![leg] = kept] /\ wire' = [wire EXCEPT ![leg] = "ringing"]
      /\ Begin(r, Idle) /\ UNCHANGED <<tape, presence, tagUse, metrics, tagged, processed>>
  BY <1>1 DEF Conference
<1>3. kept \in AgentCall /\ kept.status \notin Over
  BY DEF NoRecord, AgentCall, CallStatus, Live, Over
<1>4. wire' \in [CallIds -> WireSays] /\ Rung \subseteq Rung' /\ leg \in Rung'
  BY <1>2, CallRows DEF Rung, WireSays
<1> HIDE DEF kept
<1>5. CallTypeOK' /\ EndedHasAnEnd' /\ \A d \in CallIds : calls'[d].known => d \in Rung'
  BY <1>2, <1>3, <1>4, CallWritten
<1> QED
  BY <1>2, <1>4, <1>5, CallSteps1 DEF Idle

LEMMA SetPresenceStep ==
    ASSUME CallInv, NEW r \in Requests, SetPresence(r)
    PROVE  CallInv'
<1>1. PICK l : l = req[r].then
  OBVIOUS
<1>2. /\ req[r].pc = "presence" /\ Continue(r, l) /\ presence' = req[r].to
      /\ UNCHANGED <<calls, wire, tape, tagUse, metrics, tagged, processed>>
  BY <1>1 DEF SetPresence, At
<1>3. req[r] \notin {Idle, Unused} /\ presence' \in Presences /\ l \in ProcessSlots(Rung) \cup {Idle}
  BY <1>1, <1>2, CallHolds, CallAt
<1>4. l \in CallSlots(Rung) \cup {Idle} /\ l.pc \in {"process", "idle"}
  BY <1>3 DEF CallSlots, ProcessSlots, Idle
<1>5. /\ CallTypeOK' /\ EndedHasAnEnd' /\ (\A d \in CallIds : calls'[d].known => d \in Rung') /\ Rung' = Rung
  BY <1>2, <1>3, CallRows, CallsKept
<1> QED
  BY <1>2, <1>3, <1>4, <1>5, CallSteps1

LEMMA PostPresenceStep ==
    ASSUME CallInv, NEW r \in Requests, NEW p \in {"available", "busy"}, PostPresence(r, p)
    PROVE  CallInv'
<1>1. Begin(r, Idle) /\ presence' = p /\ UNCHANGED <<calls, wire, tape, tagUse, metrics, tagged, processed>>
  BY DEF PostPresence
<1>2. CallTypeOK' /\ EndedHasAnEnd' /\ (\A d \in CallIds : calls'[d].known => d \in Rung') /\ Rung' = Rung
  BY <1>1, CallRows, CallsKept DEF Presences
<1> QED
  BY <1>1, <1>2, CallSteps1 DEF Idle

LEMMA PollStep ==
    ASSUME CallInv, NEW r \in Requests, Poll(r)
    PROVE  CallInv'
<1> DEFINE asked == {[call |-> c, row |-> calls[c]] : c \in {d \in Placed : calls[d].status \in Live}}
<1>1. Fire(r, [pc |-> "ask", rest |-> asked]) /\ UNCHANGED calling
  BY DEF Poll
<1>2. asked \subseteq RowsAsked(Rung)
  BY CallRows DEF RowsAsked, Placed, CallInv
<1> HIDE DEF asked
<1>3. PICK l : l = [pc |-> "ask", rest |-> asked]
  OBVIOUS
<1>4. l \in CallSlots(Rung) /\ l.pc = "ask"
  BY <1>2, <1>3 DEF CallSlots, AskSlots
<1>5. ~overlapped' => CallAlone(l)
  BY <1>1, <1>3, <1>4, CallFinds DEF CallAlone
<1> QED
  BY <1>1, <1>3, <1>4, <1>5, CallReads

LEMMA AskStep ==
    ASSUME CallInv, NEW r \in Requests, NEW c \in CallIds, NEW answers \in BOOLEAN, Ask(r, c, answers)
    PROVE  CallInv'
<1>1. req[r].pc = "ask" /\ UNCHANGED calling
  BY DEF Ask, At
<1>2. PICK x \in req[r].rest :
         /\ x.call = c
         /\ Continue(r, IF x.row.known /\ answers /\ Says[wire[c]] # x.row.status
                        THEN [pc |-> "apply", call |-> c, row |-> x.row, says |-> Says[wire[c]], rest |-> req[r].rest \ {x}]
                        ELSE [pc |-> "ask", rest |-> req[r].rest \ {x}])
  BY DEF Ask
<1>3. /\ req[r] \notin {Idle, Unused} /\ req[r].rest \in SUBSET RowsAsked(Rung) /\ x \in RowsAsked(Rung)
  BY <1>1, CallHolds, CallAt
<1>4. PICK rest : rest = req[r].rest \ {x}
  OBVIOUS
<1>5. PICK says : says = Says[wire[c]]
  OBVIOUS
<1>6. rest \in SUBSET RowsAsked(Rung) /\ x.row \in AgentCall /\ (x.row.known => says \in Said)
  BY <1>2, <1>3, <1>4, <1>5, SaysOf DEF RowsAsked, CallInv
<1>7. PICK l : l = IF x.row.known /\ answers /\ says # x.row.status
                   THEN [pc |-> "apply", call |-> c, row |-> x.row, says |-> says, rest |-> rest]
                   ELSE [pc |-> "ask", rest |-> rest]
  OBVIOUS
<1>8. l \in CallSlots(Rung) /\ l.pc \in {"apply", "ask"}
  <2>1. CASE x.row.known /\ answers /\ says # x.row.status
    BY <1>6, <1>7, <2>1 DEF CallSlots
  <2>2. CASE ~(x.row.known /\ answers /\ says # x.row.status)
    BY <1>6, <1>7, <2>2 DEF CallSlots, AskSlots
  <2> QED
    BY <2>1, <2>2
<1>9. Continue(r, l)
  BY <1>2, <1>4, <1>5, <1>7
<1>10. ~overlapped' => CallAlone(l)
  BY <1>3, <1>8, <1>9, CallFinds DEF CallAlone
<1> QED
  BY <1>1, <1>3, <1>8, <1>9, <1>10, CallReads

LEMMA PollEndsStep ==
    ASSUME CallInv, NEW r \in Requests, PollEnds(r)
    PROVE  CallInv'
<1>1. req[r].pc = "ask" /\ Continue(r, Idle) /\ UNCHANGED calling
  BY DEF PollEnds, At, Return
<1>2. req[r] \notin {Idle, Unused}
  BY <1>1, CallHolds, CallAt
<1>3. ~overlapped' => CallAlone(Idle)
  BY <1>1, <1>2, CallFinds
<1> QED
  BY <1>1, <1>2, <1>3, CallReads

LEMMA ApplyUpdateStep ==
    ASSUME CallInv, NEW r \in Requests, ApplyUpdate(r)
    PROVE  CallInv'
<1>1. PICK c, says, rest : c = req[r].call /\ says = req[r].says /\ rest = req[r].rest
  OBVIOUS
<1>2. PICK seen : seen = (says = "in_progress" /\ ~req[r].row.answered)
  OBVIOUS
<1> DEFINE over == says \in Over
           next == [pc |-> "ask", rest |-> rest]
           process == [pc |-> "process", call |-> c, then |-> next]
           after == [pc |-> "presence", to |-> "available", then |-> process]
           l == IF says = "completed"
                THEN [pc |-> "ingest", call |-> c, then |-> IF over THEN after ELSE next]
                ELSE IF over THEN after ELSE next
           kept == [calls[c] EXCEPT !.status = says, !.ended = @ \/ over, !.answered = @ \/ seen]
<1>3. /\ req[r].pc = "apply" /\ UNCHANGED <<wire, tape, presence, tagUse, metrics, tagged, processed>>
      /\ calls' = [calls EXCEPT ![c] = kept] /\ Continue(r, l)
  BY <1>1, <1>2 DEF ApplyUpdate, At
<1>4. req[r] \notin {Idle, Unused} /\ c \in CallIds /\ says \in Said /\ rest \in SUBSET RowsAsked(Rung)
  BY <1>1, <1>3, CallHolds, CallAt
<1>5. Rung' = Rung /\ wire' \in [CallIds -> WireSays]
  BY <1>3, CallRows DEF Rung
<1>6. calls[c] \in AgentCall /\ (calls[c].known => c \in Rung) /\ seen \in BOOLEAN /\ over \in BOOLEAN
  BY <1>2, <1>4, CallRows DEF CallInv
<1>7. kept \in AgentCall /\ (kept.status \in Over => kept.ended) /\ (kept.known => c \in Rung)
  <2>1. says \in CallStatus
    BY <1>4 DEF Said, CallStatus, Live, Over
  <2>2. PICK before \in AgentCall : before = calls[c]
    BY <1>6
  <2>3. PICK ended, answered : ended = (before.ended \/ over) /\ answered = (before.answered \/ seen)
    OBVIOUS
  <2>4. ended \in BOOLEAN /\ answered \in BOOLEAN /\ (over => ended)
    BY <2>3
  <2>5. kept = [before EXCEPT !.status = says, !.ended = ended, !.answered = answered]
    BY <2>2, <2>3
  <2> HIDE DEF kept, over
  <2>6. kept \in AgentCall /\ kept.known = before.known /\ kept.ended = ended /\ kept.status = says
    BY <2>1, <2>4, <2>5 DEF AgentCall
  <2> QED
    BY <1>6, <2>2, <2>4, <2>6 DEF over
<1>8. next \in AskSlots(Rung)
  BY <1>4 DEF AskSlots
<1>9. after \in PresenceSlots(Rung)
  <2>1. process \in ProcessSlots(Rung)
    BY <1>4, <1>8 DEF ProcessSlots
  <2> QED
    BY <2>1 DEF PresenceSlots, Presences
<1>10. l \in CallSlots(Rung) /\ l.pc \in {"ask", "presence", "ingest"}
  <2>1. CASE says = "completed"
    <3>1. l = [pc |-> "ingest", call |-> c, then |-> after]
      BY <2>1 DEF Over
    <3> HIDE DEF after, l
    <3> QED
      BY <1>4, <1>9, <3>1 DEF CallSlots
  <2>2. CASE says # "completed"
    <3>1. l \in {after, next} /\ l.pc \in {"ask", "presence"}
      BY <2>2
    <3> HIDE DEF after, next, l
    <3> QED
      BY <1>8, <1>9, <3>1 DEF CallSlots
  <2> QED
    BY <2>1, <2>2
<1> HIDE DEF l, kept
<1>11. CallTypeOK' /\ EndedHasAnEnd' /\ \A d \in CallIds : calls'[d].known => d \in Rung'
  BY <1>3, <1>4, <1>5, <1>7, CallWritten
<1> QED
  BY <1>3, <1>4, <1>5, <1>10, <1>11, CallSteps1

LEMMA IngestStep ==
    ASSUME CallInv, NEW r \in Requests, Ingest(r)
    PROVE  CallInv'
<1>1. PICK c, t, rest, first : /\ c = req[r].call /\ t = tape[c] /\ rest = req[r].then
                              /\ first = (t.rows = 0)
  OBVIOUS
<1>2. PICK l : l = IF t.available THEN rest ELSE [pc |-> "keep", call |-> c, new |-> first, then |-> rest]
  OBVIOUS
<1>3. req[r].pc = "ingest" /\ Continue(r, l) /\ UNCHANGED calling
  BY <1>1, <1>2 DEF Ingest, At
<1>4. req[r] \notin {Idle, Unused} /\ c \in CallIds /\ rest \in PresenceSlots(Rung)
  BY <1>1, <1>3, CallHolds, CallAt
<1>5. first \in BOOLEAN /\ (first => tape[c].rows = 0)
  BY <1>1
<1>6. /\ l \in CallSlots(Rung)
      /\ l.pc = "presence" \/ (l.pc = "keep" /\ l.new = first /\ l.call = c)
  <2>1. CASE t.available
    <3>1. l = rest
      BY <1>2, <2>1
    <3>2. l.pc = "presence"
      BY <1>4, <3>1 DEF PresenceSlots
    <3> QED
      BY <1>4, <3>1, <3>2 DEF CallSlots
  <2>2. CASE ~t.available
    BY <1>2, <1>4, <1>5, <2>2 DEF CallSlots
  <2> QED
    BY <2>1, <2>2
<1>7. ~overlapped' => CallAlone(l)
  <2>1. ~overlapped' => CallAlone(Idle)
    BY <1>3, <1>4, CallFinds
  <2> QED
    BY <1>5, <1>6, <2>1 DEF CallAlone
<1> QED
  BY <1>3, <1>4, <1>6, <1>7, CallReads

LEMMA KeepRecordingStep ==
    ASSUME CallInv, NEW r \in Requests, NEW fetched \in BOOLEAN, KeepRecording(r, fetched)
    PROVE  CallInv'
<1>1. PICK c, l, before, available : /\ c = req[r].call /\ l = req[r].then /\ before = tape[c]
                                     /\ available = (before.available \/ fetched)
  OBVIOUS
<1>2. PICK more : more = IF req[r].new THEN 1 ELSE 0
  OBVIOUS
<1>3. /\ req[r].pc = "keep" /\ Continue(r, l)
      /\ tape' = [tape EXCEPT ![c] = [rows |-> before.rows + more, available |-> available]]
      /\ UNCHANGED <<calls, wire, presence, tagUse, metrics, tagged, processed>>
  BY <1>1, <1>2 DEF KeepRecording, At
<1>4. req[r] \notin {Idle, Unused} /\ c \in CallIds /\ l \in PresenceSlots(Rung) /\ req[r].new \in BOOLEAN
  BY <1>1, <1>3, CallHolds, CallAt
<1>5. /\ before.rows + more \in Nat /\ available \in BOOLEAN
      /\ tape \in [CallIds -> [rows : Nat, available : BOOLEAN]]
  BY <1>1, <1>2, <1>4, CallRows
<1>6. /\ tape' \in [CallIds -> [rows : Nat, available : BOOLEAN]]
      /\ tape'[c].rows = before.rows + more /\ \A d \in CallIds \ {c} : tape'[d] = tape[d]
  BY <1>3, <1>4, <1>5
<1>7. CallTypeOK' /\ EndedHasAnEnd' /\ (\A d \in CallIds : calls'[d].known => d \in Rung') /\ Rung' = Rung
  BY <1>3, <1>6, CallRows, CallsKept
<1>8. l \in CallSlots(Rung) /\ l.pc = "presence"
  BY <1>4 DEF CallSlots, PresenceSlots
<1>9. ASSUME ~overlapped' PROVE CallAlone(l)'
  <2>1. CallAlone(req[r])
    BY <1>3, <1>4, <1>9, CallFinds
  <2>2. tape'[c].rows <= 1
    BY <1>1, <1>2, <1>3, <1>4, <1>6, <2>1, CallRows DEF CallAlone
  <2>3. \A d \in CallIds : tape'[d].rows <= 1
    BY <1>6, <2>1, <2>2 DEF CallAlone
  <2> QED
    BY <1>3, <1>8, <2>1, <2>3 DEF CallAlone
<1> QED
  BY <1>3, <1>4, <1>7, <1>8, <1>9, CallMoves

LEMMA ProcessStep ==
    ASSUME CallInv, NEW r \in Requests, Process(r)
    PROVE  CallInv'
<1>1. PICK c, rest : c = req[r].call /\ rest = req[r].then
  OBVIOUS
<1>2. PICK l : l = [pc |-> "rollUp", then |-> rest]
  OBVIOUS
<1>3. /\ req[r].pc = "process" /\ Continue(r, l) /\ processed' = [processed EXCEPT ![c] = @ + 1]
      /\ UNCHANGED <<calls, wire, tape, presence, tagUse, metrics, tagged>>
  BY <1>1, <1>2 DEF Process, At
<1>4. req[r] \notin {Idle, Unused} /\ c \in CallIds /\ rest \in AskSlots(Rung) \cup {Idle}
  BY <1>1, <1>3, CallHolds, CallAt
<1>5. processed' \in [CallIds -> Nat]
  BY <1>3, <1>4, CallRows
<1>6. CallTypeOK' /\ EndedHasAnEnd' /\ (\A d \in CallIds : calls'[d].known => d \in Rung') /\ Rung' = Rung
  BY <1>3, <1>5, CallRows, CallsKept
<1>7. l \in CallSlots(Rung) /\ l.pc = "rollUp"
  BY <1>2, <1>4 DEF CallSlots
<1> QED
  BY <1>3, <1>4, <1>6, <1>7, CallSteps1

\* What a roll-up counts is at most every call.
LEMMA RolledUp ==
    ASSUME CallInv, NEW S, metrics' = [total |-> Cardinality(Placed), missed |-> Missed(S)],
           UNCHANGED <<calls, wire, tape, presence, tagUse, tagged, processed>>
    PROVE  CallTypeOK' /\ EndedHasAnEnd' /\ (\A d \in CallIds : calls'[d].known => d \in Rung') /\ Rung' = Rung
<1>1. Placed \subseteq CallIds /\ {c \in Placed : calls[c].status \in S} \subseteq CallIds
  BY DEF Placed
<1>2. Cardinality(Placed) \in 0..MaxCalls /\ Missed(S) \in 0..MaxCalls
  BY <1>1, PlacedCounts DEF Missed
<1>3. metrics' \in [total : 0..MaxCalls, missed : 0..MaxCalls]
  BY <1>2
<1> QED
  BY <1>3, CallRows, CallsKept

LEMMA RollUpDayStep ==
    ASSUME CallInv, NEW r \in Requests, RollUpDay(r)
    PROVE  CallInv'
<1>1. PICK l : l = req[r].then
  OBVIOUS
<1>2. /\ req[r].pc = "rollUp" /\ Continue(r, l)
      /\ metrics' = [total |-> Cardinality(Placed), missed |-> Missed({"no_answer"})]
      /\ UNCHANGED <<calls, wire, tape, presence, tagUse, tagged, processed>>
  BY <1>1 DEF RollUpDay, At
<1>3. req[r] \notin {Idle, Unused} /\ l \in AskSlots(Rung) \cup {Idle}
  BY <1>1, <1>2, CallHolds, CallAt
<1>4. l \in CallSlots(Rung) \cup {Idle} /\ l.pc \in {"ask", "idle"}
  BY <1>3 DEF CallSlots, AskSlots, Idle
<1> QED
  BY <1>2, <1>3, <1>4, RolledUp, CallSteps1

LEMMA RollUpCallMetricsStep ==
    ASSUME CallInv, NEW r \in Requests, RollUpCallMetrics(r)
    PROVE  CallInv'
<1>1. /\ Fire(r, Idle) /\ metrics' = [total |-> Cardinality(Placed), missed |-> Missed({"missed"})]
      /\ UNCHANGED <<calls, wire, tape, presence, tagUse, tagged, processed>>
  BY DEF RollUpCallMetrics
<1> QED
  BY <1>1, RolledUp, CallSteps1 DEF Idle

LEMMA ControlStep ==
    ASSUME CallInv, NEW r \in Requests, NEW c \in CallIds, NEW a \in {"hold", "resume", "hangup"},
           Control(r, c, a)
    PROVE  CallInv'
<1>1. PICK patch, hangup : /\ hangup = (a = "hangup")
                           /\ patch = CASE a = "hold" -> [hold |-> TRUE, status |-> "on_hold"]
                                        [] a = "resume" -> [hold |-> FALSE, status |-> "in_progress"]
                                        [] a = "hangup" -> [status |-> "completed", ended |-> TRUE]
  OBVIOUS
<1>2. PICK l : l = [pc |-> "control", call |-> c, hangup |-> hangup, patch |-> patch]
  OBVIOUS
<1>3. Begin(r, l) /\ UNCHANGED calling
  BY <1>1, <1>2 DEF Control
<1>4. hangup \in BOOLEAN /\ patch \in Patches
  BY <1>1 DEF Patches
<1>5. l \in CallSlots(Rung) /\ l.pc = "control"
  BY <1>2, <1>4 DEF CallSlots
<1>6. ~overlapped' => CallAlone(l)
  <2>1. ~overlapped' => CallAlone(Idle)
    BY <1>3, CallFinds
  <2> QED
    BY <1>5, <2>1 DEF CallAlone
<1> QED
  BY <1>3, <1>5, <1>6, CallReads

LEMMA WriteControlStep ==
    ASSUME CallInv, NEW r \in Requests, WriteControl(r)
    PROVE  CallInv'
<1>1. PICK c, patch : c = req[r].call /\ patch = req[r].patch
  OBVIOUS
<1> DEFINE process == [pc |-> "process", call |-> c, then |-> Idle]
           l == IF ~req[r].hangup THEN Idle ELSE [pc |-> "presence", to |-> "available", then |-> process]
           kept == Update(calls[c], patch)
<1>2. /\ req[r].pc = "control" /\ Continue(r, l) /\ calls' = [calls EXCEPT ![c] = kept]
      /\ wire' = wire \/ (wire[c] \in {"ringing", "live"} /\ wire' = [wire EXCEPT ![c] = "ended"])
      /\ UNCHANGED <<tape, presence, tagUse, metrics, tagged, processed>>
  <2>1. wire' = wire \/ (wire[c] \in {"ringing", "live"} /\ wire' = [wire EXCEPT ![c] = "ended"])
    BY <1>1 DEF WriteControl
  <2> QED
    BY <1>1, <2>1 DEF WriteControl, At
<1>3. req[r] \notin {Idle, Unused} /\ c \in CallIds /\ patch \in Patches
  BY <1>1, <1>2, CallHolds, CallAt
<1>4. Rung' = Rung /\ wire' \in [CallIds -> WireSays]
  BY <1>2, <1>3, CallRows DEF Rung, WireSays
<1>5. calls[c] \in AgentCall /\ (calls[c].known => c \in Rung)
  BY <1>3, CallRows DEF CallInv
<1>6. CallPatch(patch) /\ "known" \notin DOMAIN patch /\ "status" \in DOMAIN patch
  <2>1. CASE patch = [hold |-> TRUE, status |-> "on_hold"]
    BY <2>1 DEF CallPatch, CallColumns, CallStatus, Live
  <2>2. CASE patch = [hold |-> FALSE, status |-> "in_progress"]
    BY <2>2 DEF CallPatch, CallColumns, CallStatus, Live
  <2>3. CASE patch = [status |-> "completed", ended |-> TRUE]
    BY <2>3 DEF CallPatch, CallColumns, CallStatus, Over
  <2> QED
    BY <1>3, <2>1, <2>2, <2>3 DEF Patches
<1>7. patch["status"] \in Over => "ended" \in DOMAIN patch /\ patch["ended"]
  BY <1>3 DEF Patches, Over
<1>8. kept \in AgentCall /\ (kept.status \in Over => kept.ended) /\ (kept.known => c \in Rung)
  <2> HIDE DEF kept
  <2>1. /\ kept \in AgentCall /\ kept.status = patch["status"] /\ kept.known = calls[c].known
        /\ "ended" \in DOMAIN patch => kept.ended = patch["ended"]
    BY <1>5, <1>6, CallUpdated DEF kept
  <2> QED
    BY <1>5, <1>7, <2>1
<1>9. l \in CallSlots(Rung) \cup {Idle} /\ l.pc \in {"presence", "idle"}
  <2>1. process \in ProcessSlots(Rung)
    BY <1>3 DEF ProcessSlots
  <2> QED
    BY <2>1 DEF CallSlots, PresenceSlots, Presences, Idle
<1> HIDE DEF l, kept
<1>10. CallTypeOK' /\ EndedHasAnEnd' /\ \A d \in CallIds : calls'[d].known => d \in Rung'
  BY <1>2, <1>3, <1>4, <1>8, CallWritten
<1> QED
  BY <1>2, <1>3, <1>4, <1>9, <1>10, CallSteps1

LEMMA WebhookReadsStep ==
    ASSUME CallInv, NEW r \in Requests, NEW c \in CallIds, WebhookReads(r, c)
    PROVE  CallInv'
<1>1. PICK says : says = Says[wire[c]]
  OBVIOUS
<1>2. PICK l : l = [pc |-> "webhook", call |-> c, row |-> calls[c], says |-> says]
  OBVIOUS
<1>3. calls[c].known /\ Begin(r, l) /\ UNCHANGED calling
  BY <1>1, <1>2 DEF WebhookReads
<1>4. calls[c] \in AgentCall /\ says \in Said
  BY <1>1, <1>3, CallRows, SaysOf DEF CallInv
<1>5. l \in CallSlots(Rung) /\ l.pc = "webhook"
  BY <1>2, <1>4 DEF CallSlots
<1>6. ~overlapped' => CallAlone(l)
  <2>1. ~overlapped' => CallAlone(Idle)
    BY <1>3, CallFinds
  <2> QED
    BY <1>5, <2>1 DEF CallAlone
<1> QED
  BY <1>3, <1>5, <1>6, CallReads

LEMMA WebhookWritesStep ==
    ASSUME CallInv, NEW r \in Requests, WebhookWrites(r)
    PROVE  CallInv'
<1>1. PICK c, was, says : c = req[r].call /\ was = req[r].row /\ says = req[r].says
  OBVIOUS
<1>2. PICK answered, ended : /\ answered = (was.answered \/ says \in {"completed", "in_progress"})
                            /\ ended = (was.ended \/ says \in Over)
  OBVIOUS
<1>3. PICK patch : patch = [status |-> says, answered |-> answered, ended |-> ended]
  OBVIOUS
<1> DEFINE kept == Update(calls[c], patch)
<1>4. /\ req[r].pc = "webhook" /\ Continue(r, Idle) /\ calls' = [calls EXCEPT ![c] = kept]
      /\ UNCHANGED <<wire, tape, presence, tagUse, metrics, tagged, processed>>
  BY <1>1, <1>2, <1>3 DEF WebhookWrites, At, Return
<1>5. req[r] \notin {Idle, Unused} /\ c \in CallIds /\ says \in Said
  BY <1>1, <1>4, CallHolds, CallAt
<1>6. Rung' = Rung /\ wire' \in [CallIds -> WireSays]
  BY <1>4, CallRows DEF Rung
<1>7. calls[c] \in AgentCall /\ (calls[c].known => c \in Rung)
  BY <1>5, CallRows DEF CallInv
<1>8. says \in CallStatus /\ answered \in BOOLEAN /\ ended \in BOOLEAN /\ (says \in Over => ended)
  BY <1>2, <1>5 DEF Said, CallStatus, Live, Over
<1>9. /\ CallPatch(patch) /\ DOMAIN patch = {"status", "answered", "ended"}
      /\ patch["status"] = says /\ patch["ended"] = ended
  BY <1>3, <1>8 DEF CallPatch, CallColumns
<1>10. kept \in AgentCall /\ (kept.status \in Over => kept.ended) /\ (kept.known => c \in Rung)
  <2> HIDE DEF kept
  <2>1. kept \in AgentCall /\ kept.status = says /\ kept.ended = ended /\ kept.known = calls[c].known
    BY <1>7, <1>9, CallUpdated DEF kept
  <2> QED
    BY <1>7, <1>8, <2>1
<1> HIDE DEF kept
<1>11. CallTypeOK' /\ EndedHasAnEnd' /\ \A d \in CallIds : calls'[d].known => d \in Rung'
  BY <1>4, <1>5, <1>6, <1>10, CallWritten
<1> QED
  BY <1>4, <1>5, <1>6, <1>11, CallSteps1 DEF Idle

LEMMA DispositionStep ==
    ASSUME CallInv, NEW r \in Requests, NEW c \in CallIds, Disposition(r, c)
    PROVE  CallInv'
<1>1. PICK l : l = [pc |-> "tag", seen |-> tagUse]
  OBVIOUS
<1>2. Begin(r, l) /\ UNCHANGED calling
  BY <1>1 DEF Disposition
<1>3. l \in CallSlots(Rung) /\ l.pc = "tag" /\ l.seen = tagUse
  BY <1>1, CallRows DEF CallSlots
<1>4. ~overlapped' => CallAlone(l)
  <2>1. ~overlapped' => CallAlone(Idle)
    BY <1>2, CallFinds
  <2> QED
    BY <1>3, <2>1 DEF CallAlone
<1> QED
  BY <1>2, <1>3, <1>4, CallReads

LEMMA CountTagStep ==
    ASSUME CallInv, NEW r \in Requests, CountTag(r)
    PROVE  CallInv'
<1>1. /\ req[r].pc = "tag" /\ Continue(r, Idle) /\ tagUse' = req[r].seen + 1 /\ tagged' = tagged + 1
      /\ UNCHANGED <<calls, wire, tape, presence, metrics, processed>>
  BY DEF CountTag, At, Return
<1>2. req[r] \notin {Idle, Unused} /\ req[r].seen \in Nat
  BY <1>1, CallHolds, CallAt
<1>3. CallTypeOK' /\ EndedHasAnEnd' /\ (\A d \in CallIds : calls'[d].known => d \in Rung') /\ Rung' = Rung
  BY <1>1, <1>2, CallRows, CallsKept
<1>4. ASSUME ~overlapped' PROVE CallAlone(Idle)'
  <2>1. CallAlone(req[r])
    BY <1>1, <1>2, <1>4, CallFinds
  <2>2. tagUse' = tagged'
    BY <1>1, <2>1 DEF CallAlone
  <2> QED
    BY <1>1, <2>1, <2>2 DEF CallAlone, Idle
<1> QED
  BY <1>1, <1>2, <1>3, <1>4, CallMoves

LEMMA HandleMissedStep ==
    ASSUME CallInv, NEW r \in Requests, NEW c \in CallIds, HandleMissed(r, c)
    PROVE  CallInv'
<1> DEFINE kept == [calls[c] EXCEPT !.handled = TRUE]
<1>1. /\ calls' = [calls EXCEPT ![c] = kept] /\ Begin(r, Idle)
      /\ UNCHANGED <<wire, tape, presence, tagUse, metrics, tagged, processed>>
  BY DEF HandleMissed
<1>2. calls[c] \in AgentCall /\ (calls[c].known => c \in Rung) /\ (calls[c].status \in Over => calls[c].ended)
  BY CallRows DEF CallInv, EndedHasAnEnd
<1>3. kept \in AgentCall /\ kept.status = calls[c].status /\ kept.ended = calls[c].ended /\ kept.known = calls[c].known
  BY <1>2 DEF AgentCall
<1>4. Rung' = Rung /\ wire' \in [CallIds -> WireSays]
  BY <1>1, CallRows DEF Rung
<1> HIDE DEF kept
<1>5. CallTypeOK' /\ EndedHasAnEnd' /\ \A d \in CallIds : calls'[d].known => d \in Rung'
  BY <1>1, <1>2, <1>3, <1>4, CallWritten
<1> QED
  BY <1>1, <1>4, <1>5, CallSteps1 DEF Idle

\* What the provider says moves on under every handler: it forgets no call.
LEMMA WireMovesStep ==
    ASSUME CallInv, NEW c \in CallIds, WireMoves(c)
    PROVE  CallInv'
<1>1. /\ UNCHANGED <<calls, tape, presence, tagUse, metrics, tagged, processed>>
      /\ UNCHANGED <<req, arrivals, faults, overlapped>>
      /\ \E w \in {"live", "unanswered", "ended"} : wire' = [wire EXCEPT ![c] = w]
      /\ c \in Rung
  BY DEF WireMoves, server, Rung
<1>2. wire' \in [CallIds -> WireSays] /\ Rung' = Rung
  BY <1>1, CallRows DEF WireSays, Rung
<1>3. CallTypeOK'
  <2>1. DOMAIN Says = {"ringing", "live", "ended", "unanswered"}
    BY DEF Says
  <2> QED
    BY <1>1, <1>2, <2>1 DEF CallInv, CallTypeOK, WireSays
<1>4. /\ EndedHasAnEnd' /\ (\A d \in CallIds : calls'[d].known => d \in Rung')
      /\ (\A r \in Requests : CallSlot(req[r]))'
  BY <1>1, <1>2 DEF CallInv, EndedHasAnEnd, CallSlot
<1>5. ServerOK' /\ InFlight' = InFlight /\ (Quiescent' <=> Quiescent)
  BY <1>1 DEF CallInv, ServerOK, InFlight, Quiescent
<1>6. (~overlapped => (Quiescent => CallAlone(Idle)) /\ \A r \in InFlight : CallAlone(req[r]))'
  BY <1>1, <1>5 DEF CallInv, CallAlone
<1> QED
  BY <1>3, <1>4, <1>5, <1>6 DEF CallInv

-----------------------------------------------------------------------------
(***************************************************************************)
(* Calls: the theorem                                                      *)
(***************************************************************************)

LEMMA CallRowsFirst ==
    ASSUME CallInit
    PROVE  CallTypeOK /\ EndedHasAnEnd /\ \A c \in CallIds : calls[c].known => c \in Rung
<1>1. /\ NoRecord \in AgentCall /\ NoRecord.status \notin Over /\ ~NoRecord.known
  BY DEF NoRecord, AgentCall, CallStatus, Live, Over
<1>2. 0 \in 0..MaxCalls
  BY CallConstants
<1> HIDE DEF NoRecord
<1>3. CallTypeOK
  BY <1>1, <1>2, CallTypes DEF CallInit, Presences
<1> QED
  BY <1>1, <1>3 DEF CallInit, EndedHasAnEnd

LEMMA CallStarts ==
    ASSUME CallInit, NEW slots, NEW requests, NEW stops, ServerInit(slots, requests, stops)
    PROVE  CallInv
<1>1. ServerOK /\ \A r \in Requests : req[r] \in {Idle, Unused}
  BY ServerStarts
<1>2. InFlight = {} /\ \A r \in Requests : CallSlot(req[r])
  BY <1>1 DEF InFlight, CallSlot
<1>3. CallAlone(Idle)
  BY DEF CallInit, CallAlone, Idle
<1> QED
  BY <1>1, <1>2, <1>3, CallRowsFirst DEF CallInv

LEMMA CallRestartStep ==
    ASSUME CallInv, Restart, UNCHANGED calling
    PROVE  CallInv'
<1>1. ServerOK' /\ overlapped' /\ \A r \in Requests : req'[r] \in {Idle, Unused}
  BY Restarted DEF CallInv
<1>2. UNCHANGED <<calls, wire, tape, presence, tagUse, metrics, tagged, processed>>
  BY DEF calling
<1>3. CallTypeOK' /\ EndedHasAnEnd' /\ \A c \in CallIds : calls'[c].known => c \in Rung'
  BY <1>2 DEF CallInv, CallTypeOK, EndedHasAnEnd, Rung
<1>4. (\A r \in Requests : CallSlot(req[r]))'
  BY <1>1 DEF CallSlot
<1> QED
  BY <1>1, <1>3, <1>4 DEF CallInv

LEMMA CallStutters ==
    ASSUME CallInv, UNCHANGED callVars
    PROVE  CallInv'
<1>1. /\ UNCHANGED <<calls, wire, tape, presence, tagUse, metrics, tagged, processed>>
      /\ UNCHANGED <<req, arrivals, faults, overlapped>>
  BY DEF callVars, calling, server
<1>2. InFlight' = InFlight /\ (Quiescent' <=> Quiescent) /\ Rung' = Rung /\ ServerOK'
  BY <1>1 DEF InFlight, Quiescent, Rung, CallInv, ServerOK
<1>3. CallTypeOK' /\ EndedHasAnEnd' /\ \A c \in CallIds : calls'[c].known => c \in Rung'
  BY <1>1, <1>2 DEF CallInv, CallTypeOK, EndedHasAnEnd
<1>4. (\A r \in Requests : CallSlot(req[r]))'
  BY <1>1, <1>2 DEF CallInv, CallSlot
<1>5. (~overlapped => (Quiescent => CallAlone(Idle)) /\ \A r \in InFlight : CallAlone(req[r]))'
  BY <1>1, <1>2 DEF CallInv, CallAlone
<1> QED
  BY <1>2, <1>3, <1>4, <1>5 DEF CallInv

\* Every step of the calls keeps their invariant.
LEMMA CallNextStep ==
    ASSUME CallInv, [CallNext]_callVars
    PROVE  CallInv'
<1>1. ASSUME NEW r \in Requests, CallRequest(r) PROVE CallInv'
  BY <1>1, DialStep, PollStep, RollUpCallMetricsStep, PostPresenceStep, ConferenceStep, DispositionStep,
     HandleMissedStep, WebhookReadsStep, ControlStep DEF CallRequest
<1>2. ASSUME NEW r \in Requests, CallStep(r) PROVE CallInv'
  BY <1>2, PlaceCallStep, KeepRecordingStep, AskStep, PollEndsStep, PlacingStep, SetPresenceStep,
     ApplyUpdateStep, IngestStep, ProcessStep, RollUpDayStep, WriteControlStep, WebhookWritesStep,
     CountTagStep DEF CallStep
<1> QED
  BY <1>1, <1>2, WireMovesStep, CallRestartStep, CallStutters DEF CallNext

\* What the invariant says of the calls.
LEMMA CallInvHolds ==
    ASSUME CallInv
    PROVE  CallTypeOK /\ EndedHasAnEnd /\ CallBooksAgree
<1>1. ASSUME ~overlapped PROVE /\ \A c \in CallIds : tape[c].rows <= 1
                               /\ Quiescent => tagUse = tagged
  <2>1. CASE Quiescent
    BY <1>1, <2>1 DEF CallInv, CallAlone
  <2>2. CASE ~Quiescent
    BY <1>1, <2>2 DEF CallInv, CallAlone, Quiescent
  <2> QED
    BY <2>1, <2>2
<1> QED
  BY <1>1 DEF CallInv, CallBooksAgree

-----------------------------------------------------------------------------
(***************************************************************************)
(* Jobs, broadcasts and calls beside one another                           *)
(***************************************************************************)

\* The tables of a component that is not followed are as they were first.
MessagesInv ==
    /\ IF focus = "automation" THEN AutomationInv ELSE AutomationInit
    /\ IF focus = "broadcasts" THEN BroadcastInv ELSE BroadcastInit
    /\ IF focus = "calls" THEN CallInv ELSE CallInit

\* Tables that are as they were first hold what is claimed of them.
LEMMA AutomationFirst ==
    ASSUME AutomationInit
    PROVE  AutomationTypeOK /\ JobRunsOnce /\ FireCountAgrees
BY AutomationConstants
   DEF AutomationInit, AutomationTypeOK, JobRunsOnce, FireCountAgrees, JobStatus, RunStatus,
       AutomationConstants

LEMMA BroadcastFirst ==
    ASSUME BroadcastInit
    PROVE  BroadcastTypeOK /\ ReachedOnce /\ FinishedMeansTried
<1>1. 0 \in Counted /\ 0 \in 0..MaxSends
  BY AddressesCount, FS_EmptySet, BroadcastConstants DEF Counted
<1>2. BroadcastTypeOK
  BY <1>1 DEF BroadcastInit, BroadcastTypeOK, Counted
<1>3. broadcast.status \notin Finished /\ \A a \in Addresses : sends[a] <= 1
  BY DEF BroadcastInit, Finished
<1> QED
  BY <1>2, <1>3 DEF ReachedOnce, FinishedMeansTried

LEMMA CallFirst ==
    ASSUME CallInit
    PROVE  CallTypeOK /\ EndedHasAnEnd /\ CallBooksAgree
BY CallRowsFirst DEF CallInit, CallBooksAgree

LEMMA MessagesImply ==
    ASSUME MessagesInv
    PROVE  OutgoingHolds
<1>1. AutomationTypeOK /\ JobRunsOnce /\ FireCountAgrees
  BY AutomationFirst DEF MessagesInv, AutomationInv, JobsInv, JobRunsOnce, CountInv, FireCountAgrees
<1>2. BroadcastTypeOK /\ ReachedOnce /\ FinishedMeansTried
  BY BroadcastFirst, BroadcastInvHolds DEF MessagesInv
<1>3. CallTypeOK /\ EndedHasAnEnd /\ CallBooksAgree
  BY CallFirst, CallInvHolds DEF MessagesInv
<1> QED
  BY <1>1, <1>2, <1>3 DEF OutgoingHolds

LEMMA MessagesSteps ==
    ASSUME OnePass, MessagesInv, [Next]_messagesVars
    PROVE  MessagesInv'
<1>1. UNCHANGED automation /\ AutomationInit => AutomationInit'
  BY DEF automation, AutomationInit
<1>2. UNCHANGED broadcasting /\ BroadcastInit => BroadcastInit'
  BY DEF broadcasting, BroadcastInit
<1>3. UNCHANGED calling /\ CallInit => CallInit'
  BY DEF calling, CallInit
<1>4. focus' = focus
  BY DEF Next, On, messagesVars
<1>5. CASE focus = "automation"
  <2>1. [AutomationNext]_automationVars /\ UNCHANGED broadcasting /\ UNCHANGED calling
    BY <1>5 DEF Next, On, messagesVars, automationVars
  <2> QED
    BY <1>2, <1>3, <1>4, <1>5, <2>1, AutomationInvStep, AutomationConstants DEF MessagesInv
<1>6. CASE focus = "broadcasts"
  <2>1. [BroadcastNext]_broadcastVars /\ UNCHANGED automation /\ UNCHANGED calling
    BY <1>6 DEF Next, On, messagesVars, broadcastVars
  <2> QED
    BY <1>1, <1>3, <1>4, <1>6, <2>1, BroadcastNextStep DEF MessagesInv
<1>7. CASE focus = "calls"
  <2>1. [CallNext]_callVars /\ UNCHANGED automation /\ UNCHANGED broadcasting
    BY <1>7 DEF Next, On, messagesVars, callVars
  <2> QED
    BY <1>1, <1>2, <1>4, <1>7, <2>1, CallNextStep DEF MessagesInv
<1>8. CASE focus \notin {"automation", "broadcasts", "calls"}
  <2>1. UNCHANGED automation /\ UNCHANGED broadcasting /\ UNCHANGED calling
    BY <1>8 DEF Next, On, messagesVars
  <2> QED
    BY <1>1, <1>2, <1>3, <1>4, <1>8, <2>1 DEF MessagesInv
<1> QED
  BY <1>5, <1>6, <1>7, <1>8

\* services/automation.js, services/broadcasts.js and modules/calls.js: a job completes at
\* most once, and a call that is over has its end, whatever overlaps and wherever the
\* process stops; nobody is sent a broadcast twice, its counters are those of its rows,
\* a call has one recording and a tag counts its dispositions, until two handlers have
\* overlapped; for any jobs, audiences, batches, attempts, calls and handlers, while a
\* pass of the jobs ends before the next one fires.
THEOREM OutgoingCorrect ==
    ASSUME OnePass
    PROVE  MessagesSpec => []OutgoingHolds
<1>1. (\E slots \in SUBSET Requests, requests, stops \in Nat : ServerInit(slots, requests, stops))
         /\ AutomationInit /\ BroadcastInit /\ CallInit => MessagesInv
  BY AutomationStarts, BroadcastStarts, CallStarts, AutomationConstants DEF MessagesInv
<1>2. MessagesInv /\ [Next]_messagesVars => MessagesInv'
  BY MessagesSteps
<1> QED
  BY <1>1, <1>2, MessagesImply, PTL DEF MessagesSpec

-----------------------------------------------------------------------------
(***************************************************************************)
(* Webhooks, forms and e-sign: the invariant                               *)
(***************************************************************************)

CallRow == [status : {"absent", "initiated", "ringing", "in_progress", "completed"},
            answered : BOOLEAN, ended : BOOLEAN, recordings : Nat]

\* What a handler keeps between two statements.
HookSlot ==
    [pc : {"store", "repeat"}, event : Events, valid : BOOLEAN]
    \cup [pc : {"apply"}, event : Events]
    \cup [pc : {"inbound", "recording", "addRecording"}, event : DOMAIN CallEvents]
    \cup [pc : {"writeCall"}, event : DOMAIN CallEvents, row : CallRow]
    \cup [pc : {"signer"}, event : {"declined", "failed"}]
    \cup [pc : {"finish"}, event : Events, outcome : {"processed", "ignored", "failed"}]
    \cup [pc : {"sign"}, answer : {"none", "accepted", "refused"}]
    \cup [pc : {"lead", "countForm"}, seen : Nat]

\* The handler that stored an event's row, until it has written the outcome.
Working(l) ==
    l.pc \in {"apply", "inbound", "writeCall", "recording", "addRecording", "signer", "finish"}

\* What it knows of the event: not applied before its own write, applied once after.
Knows(l) ==
    /\ Working(l) => hooks[l.event] # "absent"
    /\ l.pc \in {"apply", "inbound", "writeCall"} => applied[l.event] = 0
    /\ l.pc \in {"recording", "addRecording", "signer"} => applied[l.event] = 1
    /\ l.pc = "finish" /\ l.outcome = "processed" => applied[l.event] = 1
    /\ l.pc = "signer" => esign.known

\* What it has read of a call is still so, while it is alone.
ReadsHold(l) ==
    /\ l.pc = "writeCall" => l.row = call[CallEvents[l.event].call]
    /\ l.pc = "addRecording" => call[CallEvents[l.event].call].recordings = 0

SlotsOK ==
    /\ \A r \in Requests : req[r] \in {Idle, Unused} \cup HookSlot /\ Knows(req[r])
    /\ \A r, s \in Requests :
          Working(req[r]) /\ Working(req[s]) /\ req[r].event = req[s].event => r = s

EventsOK == \A e \in Events : /\ applied[e] <= 1
                              /\ hooks[e] = "absent" => applied[e] = 0
                              /\ hooks[e] = "processed" => applied[e] = 1

CallsOK ==
    /\ call["out"].status # "absent"
    /\ ~overlapped =>
         /\ OutcomesAreKept
         /\ \A r \in Requests : ReadsHold(req[r])

HookInv ==
    /\ HookTypeOK /\ secret \in BOOLEAN
    /\ ServerOK
    /\ SlotsOK
    /\ EventsOK
    /\ CallsOK
    /\ SentMeansAccepted

-----------------------------------------------------------------------------
(***************************************************************************)
(* What every step needs                                                   *)
(***************************************************************************)

LEMMA EventFacts ==
    /\ DOMAIN CallEvents = {"inRing", "outAnswer", "outEnd", "outTape"}
    /\ Events = DOMAIN CallEvents \cup {"delivered", "seen", "signed", "declined", "failed",
                                        "message", "leadgen"}
    /\ \A e \in DOMAIN CallEvents :
          /\ CallEvents[e].call = IF e = "inRing" THEN "in" ELSE "out"
          /\ CallEvents[e].status \in {"ringing", "in_progress", "completed"}
    /\ CallEvents["outAnswer"].status = "in_progress" /\ CallEvents["outEnd"].status = "completed"
    /\ \A e \in DOMAIN DeliveryEvents : DeliveryEvents[e] \in {"delivered", "read"}
    /\ DOMAIN DeliveryEvents = {"delivered", "seen"}
    /\ DOMAIN SignEvents = {"signed", "declined", "failed"}
    /\ SignEvents["signed"] = "completed" /\ SignEvents["declined"] = "declined"
    /\ SignEvents["failed"] = "failed"
  BY DEF CallEvents, DeliveryEvents, SignEvents, Events

\* What a slot at a statement is.
LEMMA SlotKinds ==
    ASSUME NEW l \in HookSlot
    PROVE  /\ l \notin {Idle, Unused}
           /\ l.pc \in {"store", "repeat"} => l.event \in Events /\ ~Working(l)
           /\ Working(l) => l.event \in Events
           /\ l.pc \in {"inbound", "recording", "addRecording", "writeCall"}
                 => l.event \in DOMAIN CallEvents
           /\ l.pc = "writeCall" => l.row \in CallRow
           /\ l.pc = "signer" => l.event \in {"declined", "failed"}
           /\ l.pc = "finish" => l.outcome \in {"processed", "ignored", "failed"}
           /\ l.pc \in {"lead", "countForm"} => l.seen \in Nat
<1>1. DOMAIN CallEvents \subseteq Events /\ {"declined", "failed"} \subseteq Events
  BY EventFacts
<1> HIDE DEF CallRow
<1> QED
  BY <1>1 DEF HookSlot, Working, Idle, Unused

LEMMA HookAtStatement ==
    ASSUME SlotsOK, NEW r \in Requests, req[r].pc \notin {"idle", "unused"}
    PROVE  req[r] \in HookSlot /\ Knows(req[r])
  BY DEF SlotsOK, Idle, Unused

\* A handler that moves on, or a new one, disturbs no other: it alone works on its event.
LEMMA HookSlotMoves ==
    ASSUME SlotsOK, NEW r \in Requests, NEW l,
           req'[r] = l, \A s \in Requests \ {r} : req'[s] = req[s],
           l \in {Idle, Unused} \cup HookSlot, Knows(req[r])',
           Working(l) => \/ Working(req[r]) /\ l.event = req[r].event
                         \/ hooks[l.event] = "absent",
           \A e \in Events : hooks[e] # "absent" => hooks'[e] # "absent",
           esign.known => esign'.known,
           \A e \in Events : applied'[e] = applied[e] \/ (Working(req[r]) /\ req[r].event = e)
    PROVE  SlotsOK'
<1>1. \A s \in Requests : req'[s] \in {Idle, Unused} \cup HookSlot
  BY DEF SlotsOK
<1>2. ASSUME NEW s \in Requests \ {r} PROVE Knows(req[s])'
  <2>1. Knows(req[s]) /\ req'[s] = req[s] /\ req[s] \in {Idle, Unused} \cup HookSlot
    BY DEF SlotsOK
  <2>2. Working(req[s]) => req[s].event \in Events /\ hooks[req[s].event] # "absent"
    BY <2>1, SlotKinds DEF Working, Idle, Unused, Knows
  <2>3. Working(req[s]) => applied'[req[s].event] = applied[req[s].event]
    BY <2>2 DEF SlotsOK
  <2> QED
    BY <2>1, <2>2, <2>3 DEF Knows, Working
<1>3. ASSUME NEW s \in Requests, NEW t \in Requests,
             Working(req'[s]), Working(req'[t]), req'[s].event = req'[t].event
      PROVE  s = t
  <2>1. \A u \in Requests \ {r} : Working(req[u]) => hooks[req[u].event] # "absent"
    BY DEF SlotsOK, Knows
  <2> QED
    BY <1>3, <2>1 DEF SlotsOK
<1>4. \A s \in Requests : Knows(req[s])'
  BY <1>2
<1> QED
  BY <1>1, <1>3, <1>4 DEF SlotsOK, Working

\* What is known of the calls, after a step of a handler in flight ...
LEMMA CallsContinue ==
    ASSUME HookInv, NEW r \in Requests, req[r] \in HookSlot, NEW l, Continue(r, l),
           call'["out"].status # "absent",
           ~overlapped /\ OutcomesAreKept /\ ReadsHold(req[r]) => OutcomesAreKept' /\ ReadsHold(req[r])'
    PROVE  CallsOK'
<1>1. /\ req'[r] = l /\ overlapped' = overlapped
      /\ \A s \in Requests \ {r} : req'[s] = req[s]
      /\ ~overlapped => \A s \in Requests \ {r} : req[s] \in {Idle, Unused}
  BY Continued, SlotKinds DEF HookInv
<1>2. ~overlapped => \A s \in Requests \ {r} : ReadsHold(req[s])'
  BY <1>1 DEF ReadsHold, Idle, Unused
<1> QED
  BY <1>1, <1>2 DEF HookInv, CallsOK

LEMMA CallsStay ==
    ASSUME HookInv, NEW r \in Requests, req[r] \in HookSlot, NEW l, Continue(r, l),
           UNCHANGED <<call, applied>>, l.pc \notin {"writeCall", "addRecording"}
    PROVE  CallsOK'
<1>1. req'[r] = l /\ overlapped' = overlapped
  BY Continued, SlotKinds DEF HookInv
<1>2. OutcomesAreKept => OutcomesAreKept'
  BY <1>1 DEF OutcomesAreKept
<1>3. ReadsHold(req[r])'
  BY <1>1 DEF ReadsHold
<1>4. call'["out"].status # "absent"
  BY DEF HookInv, CallsOK
<1> QED
  BY <1>2, <1>3, <1>4, CallsContinue

\* ... and after the arrival of one.
LEMMA CallsBegin ==
    ASSUME HookInv, NEW r \in Requests, NEW l, Begin(r, l),
           UNCHANGED <<call, applied>>, l.pc \notin {"writeCall", "addRecording"}
    PROVE  CallsOK'
<1>1. /\ req'[r] = l /\ (overlapped => overlapped')
      /\ \A s \in Requests \ {r} : req'[s] = req[s]
      /\ ~overlapped' => \A s \in Requests : req[s] \in {Idle, Unused}
  BY Begun DEF HookInv
<1>2. ~overlapped' => \A s \in Requests : ReadsHold(req[s])'
  BY <1>1 DEF ReadsHold, Idle, Unused
<1>3. ~overlapped' => OutcomesAreKept'
  BY <1>1 DEF HookInv, CallsOK, OutcomesAreKept
<1> QED
  BY <1>2, <1>3 DEF HookInv, CallsOK

\* A handler in flight moves on to l, in order, and the tables are in order after it.
LEMMA HandlerMoves ==
    ASSUME HookInv, NEW r \in Requests, req[r] \in HookSlot, NEW l, Continue(r, l),
           l \in {Idle} \cup HookSlot,
           Working(l) => \/ Working(req[r]) /\ l.event = req[r].event
                         \/ hooks[l.event] = "absent",
           req'[r] = l => Knows(req[r])',
           \A e \in Events : hooks[e] # "absent" => hooks'[e] # "absent",
           esign.known => esign'.known,
           \A e \in Events : applied'[e] = applied[e] \/ (Working(req[r]) /\ req[r].event = e),
           HookTypeOK', EventsOK', CallsOK', SentMeansAccepted', UNCHANGED secret
    PROVE  HookInv'
<1>1. ServerOK' /\ req'[r] = l /\ \A s \in Requests \ {r} : req'[s] = req[s]
  BY Continued, SlotKinds DEF HookInv
<1>2. SlotsOK'
  BY <1>1, HookSlotMoves DEF HookInv
<1> QED
  BY <1>1, <1>2 DEF HookInv

\* A step that only reads, or only writes what no property is about.
LEMMA HandlerReads ==
    ASSUME HookInv, NEW r \in Requests, req[r] \in HookSlot, NEW l, Continue(r, l),
           l \in {Idle} \cup HookSlot, l.pc \notin {"writeCall", "addRecording"},
           Working(l) => Working(req[r]) /\ l.event = req[r].event,
           req'[r] = l => Knows(req[r])',
           UNCHANGED <<hooks, secret, call, esign, applied>>, HookTypeOK'
    PROVE  HookInv'
<1>1. CallsOK'
  BY CallsStay
<1>2. EventsOK' /\ SentMeansAccepted'
  BY DEF HookInv, EventsOK, SentMeansAccepted
<1> QED
  BY <1>1, <1>2, HandlerMoves

\* A request arrives: its handler works on no event yet.
LEMMA HandlerArrives ==
    ASSUME HookInv, NEW r \in Requests, NEW l, Begin(r, l), l \in HookSlot, ~Working(l),
           UNCHANGED <<hooks, secret, call, applied>>,
           esign'.known = esign.known, HookTypeOK', SentMeansAccepted'
    PROVE  HookInv'
<1>1. ServerOK' /\ req'[r] = l /\ \A s \in Requests \ {r} : req'[s] = req[s]
  BY Begun DEF HookInv
<1>2. CallsOK'
  BY CallsBegin DEF Working
<1>3. Knows(req[r])'
  BY <1>1 DEF Knows, Working
<1>4. SlotsOK'
  BY <1>1, <1>3, HookSlotMoves DEF HookInv
<1>5. EventsOK'
  BY DEF HookInv, EventsOK
<1> QED
  BY <1>1, <1>2, <1>4, <1>5 DEF HookInv

-----------------------------------------------------------------------------
(***************************************************************************)
(* The events' rows                                                        *)
(***************************************************************************)

LEMMA DeliverStep ==
    ASSUME HookInv, NEW r \in Requests, NEW e \in Events, Deliver(r, e)
    PROVE  HookInv'
<1> DEFINE l == [pc |-> IF hooks[e] = "absent" THEN "store" ELSE "repeat", event |-> e, valid |-> secret]
<1>1. Begin(r, l) /\ UNCHANGED webhooks
  BY DEF Deliver
<1>2. l \in HookSlot /\ ~Working(l)
  BY DEF HookSlot, HookInv, Working
<1>3. HookTypeOK' /\ SentMeansAccepted'
  BY <1>1 DEF HookInv, HookTypeOK, SentMeansAccepted, webhooks
<1> HIDE DEF l
<1> QED
  BY <1>1, <1>2, <1>3, HandlerArrives DEF webhooks

LEMMA RepeatStep ==
    ASSUME HookInv, NEW r \in Requests, Repeat(r)
    PROVE  HookInv'
<1>1. req[r] \in HookSlot /\ req[r].event \in Events /\ ~Working(req[r])
  BY HookAtStatement, SlotKinds DEF Repeat, At, HookInv
<1>2. /\ Continue(r, Idle) /\ hooks' = [hooks EXCEPT ![req[r].event] = "duplicate"]
      /\ UNCHANGED <<secret, call, delivery, esign, form, applied, submitted>>
  BY DEF Repeat, Return
<1>3. /\ hooks' \in [Events -> {"absent", "received", "processed", "ignored", "failed", "duplicate"}]
      /\ \A e \in Events : hooks'[e] = hooks[e] \/ hooks'[e] = "duplicate"
  BY <1>1, <1>2 DEF HookInv, HookTypeOK
<1>4. HookTypeOK' /\ SentMeansAccepted' /\ EventsOK'
  BY <1>2, <1>3 DEF HookInv, HookTypeOK, SentMeansAccepted, EventsOK
<1>5. CallsOK'
  BY <1>1, <1>2, CallsStay DEF Idle
<1>6. ~Working(Idle) /\ (req'[r] = Idle => Knows(req[r])')
  BY DEF Working, Knows, Idle
<1> QED
  BY <1>1, <1>2, <1>3, <1>4, <1>5, <1>6, HandlerMoves

\* (source, event_id) is unique: the handler that inserts the row is alone with it.
LEMMA StoreStep ==
    ASSUME HookInv, NEW r \in Requests, Store(r)
    PROVE  HookInv'
<1> DEFINE e == req[r].event
           l == IF req[r].valid THEN [pc |-> "apply", event |-> e]
                ELSE [pc |-> "finish", event |-> e, outcome |-> "failed"]
<1>1. req[r] \in HookSlot /\ e \in Events /\ ~Working(req[r])
  BY HookAtStatement, SlotKinds DEF Store, At, HookInv
<1>2. UNCHANGED <<secret, call, delivery, esign, form, applied, submitted>>
  BY DEF Store
<1>3. CASE hooks[e] # "absent"
  <2>1. Continue(r, Idle) /\ UNCHANGED hooks
    BY <1>3 DEF Store, Return
  <2>2. HookTypeOK'
    BY <1>2, <2>1 DEF HookInv, HookTypeOK
  <2>3. ~Working(Idle) /\ Idle.pc = "idle" /\ (req'[r] = Idle => Knows(req[r])')
    BY DEF Working, Knows, Idle
  <2> QED
    BY <1>1, <1>2, <2>1, <2>2, <2>3, HandlerReads
<1>4. CASE hooks[e] = "absent"
  <2>1. Continue(r, l) /\ hooks' = [hooks EXCEPT ![e] = "received"]
    BY <1>4 DEF Store
  <2>2. /\ hooks' \in [Events -> {"absent", "received", "processed", "ignored", "failed", "duplicate"}]
        /\ \A f \in Events : hooks'[f] = IF f = e THEN "received" ELSE hooks[f]
    BY <1>1, <2>1 DEF HookInv, HookTypeOK
  <2>3. HookTypeOK' /\ SentMeansAccepted' /\ EventsOK'
    BY <1>2, <2>2 DEF HookInv, HookTypeOK, SentMeansAccepted, EventsOK
  <2>4. l \in HookSlot /\ l.event = e /\ l.pc \in {"apply", "finish"}
          /\ (l.pc = "finish" => l.outcome = "failed")
    BY <1>1 DEF HookSlot
  <2>5. applied[e] = 0
    BY <1>1, <1>4 DEF HookInv, EventsOK
  <2> HIDE DEF l, e
  <2>6. CallsOK'
    BY <1>1, <1>2, <2>1, <2>4, CallsStay
  <2>7. req'[r] = l => Knows(req[r])'
    BY <1>1, <1>2, <2>2, <2>4, <2>5 DEF Knows, Working
  <2> QED
    BY <1>1, <1>2, <1>4, <2>1, <2>2, <2>3, <2>4, <2>6, <2>7, HandlerMoves
<1> QED
  BY <1>3, <1>4

LEMMA FinishStep ==
    ASSUME HookInv, NEW r \in Requests, Finish(r)
    PROVE  HookInv'
<1> DEFINE e == req[r].event
<1>1. /\ req[r] \in HookSlot /\ e \in Events /\ req[r].outcome \in {"processed", "ignored", "failed"}
      /\ Knows(req[r]) /\ req[r].pc = "finish"
  BY HookAtStatement, SlotKinds DEF Finish, At, HookInv, Working
<1>2. /\ Continue(r, Idle) /\ hooks' = [hooks EXCEPT ![e] = req[r].outcome]
      /\ UNCHANGED <<secret, call, delivery, esign, form, applied, submitted>>
  BY DEF Finish, Return
<1>3. /\ hooks' \in [Events -> {"absent", "received", "processed", "ignored", "failed", "duplicate"}]
      /\ \A f \in Events : hooks'[f] = IF f = e THEN req[r].outcome ELSE hooks[f]
  BY <1>1, <1>2 DEF HookInv, HookTypeOK
<1>4. HookTypeOK' /\ SentMeansAccepted' /\ EventsOK'
  BY <1>1, <1>2, <1>3 DEF HookInv, HookTypeOK, SentMeansAccepted, EventsOK, Knows
<1>5. CallsOK'
  BY <1>1, <1>2, CallsStay DEF Idle
<1>6. ~Working(Idle) /\ (req'[r] = Idle => Knows(req[r])')
  BY DEF Working, Knows, Idle
<1> QED
  BY <1>1, <1>2, <1>3, <1>4, <1>5, <1>6, HandlerMoves

-----------------------------------------------------------------------------
(***************************************************************************)
(* The calls                                                               *)
(***************************************************************************)

\* A handler that does no more with its event, or only writes its outcome down, from
\* a state in which the event has not been applied or was applied by it.
LEMMA SettledSlot ==
    ASSUME NEW e \in Events, NEW outcome \in {"processed", "ignored", "failed"}
    PROVE  /\ Settled(e, outcome) \in HookSlot
           /\ Settled(e, outcome).pc = "finish" /\ Settled(e, outcome).event = e
           /\ Settled(e, outcome).outcome = outcome
           /\ Working(Settled(e, outcome))
  BY DEF Settled, HookSlot, Working

LEMMA IdleSlot ==
    /\ ~Working(Idle) /\ Idle.pc = "idle"
    /\ \A r \in Requests : req'[r] = Idle => Knows(req[r])'
  BY DEF Working, Knows, Idle

LEMMA ApplyCallStep ==
    ASSUME HookInv, NEW r \in Requests, NEW shown \in BOOLEAN, ApplyCall(r, shown)
    PROVE  HookInv'
<1> DEFINE e == req[r].event
           c == CallEvents[e].call
<1>1. /\ req[r] \in HookSlot /\ e \in DOMAIN CallEvents /\ e \in Events /\ Knows(req[r])
      /\ Working(req[r]) /\ req[r].pc = "apply"
  BY HookAtStatement, EventFacts DEF ApplyCall, At, HookInv, Working
<1>2. UNCHANGED webhooks /\ HookTypeOK'
  BY DEF ApplyCall, HookInv, HookTypeOK, webhooks
<1>3. CASE call[c].status = "absent" /\ shown
  <2>1. Continue(r, Idle)
    BY <1>3 DEF ApplyCall
  <2> QED
    BY <1>1, <1>2, <2>1, IdleSlot, HandlerReads DEF webhooks
<1>4. CASE call[c].status = "absent" /\ ~shown
  <2> DEFINE l == [pc |-> "inbound", event |-> e]
  <2>1. Continue(r, l)
    BY <1>4 DEF ApplyCall
  <2>2. l \in HookSlot /\ l.pc = "inbound" /\ l.event = e
    BY <1>1 DEF HookSlot
  <2> HIDE DEF l
  <2>3. req'[r] = l => Knows(req[r])'
    BY <1>1, <1>2, <2>2 DEF Knows, Working, webhooks
  <2> QED
    BY <1>1, <1>2, <2>1, <2>2, <2>3, HandlerReads DEF webhooks
<1>5. CASE call[c].status # "absent"
  <2> DEFINE l == [pc |-> "writeCall", event |-> e, row |-> call[c]]
  <2>1. Continue(r, l)
    BY <1>5 DEF ApplyCall
  <2>2. call[c] \in CallRow
    BY <1>1, EventFacts DEF HookInv, HookTypeOK, CallRow
  <2>3. l \in HookSlot /\ l.pc = "writeCall" /\ l.event = e /\ l.row = call[c]
    BY <1>1, <2>2 DEF HookSlot
  <2> HIDE DEF l
  <2>4. req'[r] = l => Knows(req[r])'
    BY <1>1, <1>2, <2>3 DEF Knows, Working, webhooks
  <2>5. req'[r] = l
    BY <1>1, <2>1, Continued, SlotKinds DEF HookInv
  <2>6. OutcomesAreKept /\ ~overlapped => OutcomesAreKept' /\ ReadsHold(req[r])'
    BY <1>1, <1>2, <2>3, <2>5 DEF OutcomesAreKept, ReadsHold, webhooks
  <2>7. CallsOK'
    BY <1>1, <1>2, <2>1, <2>6, CallsContinue DEF HookInv, CallsOK, webhooks
  <2>8. EventsOK' /\ SentMeansAccepted'
    BY <1>2 DEF HookInv, EventsOK, SentMeansAccepted, webhooks
  <2> QED
    BY <1>1, <1>2, <2>1, <2>3, <2>4, <2>7, <2>8, HandlerMoves DEF webhooks
<1> QED
  BY <1>3, <1>4, <1>5

\* An event takes effect: the handler that applies it is alone with it.
LEMMA Applied ==
    ASSUME HookInv, NEW e \in Events, applied[e] = 0, hooks[e] # "absent",
           applied' = [applied EXCEPT ![e] = @ + 1], UNCHANGED hooks
    PROVE  /\ applied' \in [Events -> Nat]
           /\ applied'[e] = 1 /\ \A f \in Events \ {e} : applied'[f] = applied[f]
           /\ EventsOK'
<1>1. /\ applied' \in [Events -> Nat]
      /\ applied'[e] = 1 /\ \A f \in Events \ {e} : applied'[f] = applied[f]
  BY DEF HookInv, HookTypeOK
<1> QED
  BY <1>1 DEF HookInv, EventsOK

LEMMA InsertInboundStep ==
    ASSUME HookInv, NEW r \in Requests, InsertInbound(r)
    PROVE  HookInv'
<1> DEFINE e == req[r].event
           c == CallEvents[e].call
<1>1. /\ req[r] \in HookSlot /\ e \in DOMAIN CallEvents /\ e \in Events
      /\ Working(req[r]) /\ applied[e] = 0 /\ hooks[e] # "absent"
  BY HookAtStatement, EventFacts, SlotKinds DEF InsertInbound, At, HookInv, Working, Knows
<1>2. UNCHANGED <<hooks, secret, delivery, esign, form, submitted>>
  BY DEF InsertInbound
<1>3. CASE call[c].status # "absent"
  <2>1. Continue(r, Idle) /\ UNCHANGED <<call, applied>>
    BY <1>3 DEF InsertInbound
  <2>2. HookTypeOK'
    BY <1>2, <2>1 DEF HookInv, HookTypeOK
  <2> QED
    BY <1>1, <1>2, <2>1, <2>2, IdleSlot, HandlerReads
<1>4. CASE call[c].status = "absent"
  <2>1. /\ Continue(r, Settled(e, "processed"))
        /\ call' = [call EXCEPT ![c].status = CallEvents[e].status]
        /\ applied' = [applied EXCEPT ![e] = @ + 1]
    BY <1>4 DEF InsertInbound
  <2>2. c = "in" /\ e = "inRing" /\ CallEvents[e].status \in {"ringing", "in_progress", "completed"}
    BY <1>1, <1>4, EventFacts DEF HookInv, CallsOK
  <2>3. /\ call' \in [{"in", "out"} -> CallRow] /\ call'["out"] = call["out"]
    BY <2>1, <2>2 DEF HookInv, HookTypeOK, CallRow
  <2> HIDE DEF e, c
  <2>4. /\ applied' \in [Events -> Nat] /\ applied'[e] = 1 /\ EventsOK'
        /\ \A f \in Events \ {e} : applied'[f] = applied[f]
    BY <1>1, <1>2, <2>1, Applied
  <2>5. HookTypeOK' /\ SentMeansAccepted'
    BY <1>2, <2>3, <2>4 DEF HookInv, HookTypeOK, CallRow, SentMeansAccepted
  <2>6. req'[r] = Settled(e, "processed") => Knows(req[r])' /\ ReadsHold(req[r])'
    BY <1>1, <1>2, <2>4, SettledSlot DEF Knows, ReadsHold, Working
  <2>7. req'[r] = Settled(e, "processed") /\ overlapped' = overlapped
    BY <1>1, <2>1, Continued, SlotKinds DEF HookInv
  <2>8. OutcomesAreKept => OutcomesAreKept'
    BY <2>2, <2>3, <2>4, <2>7, EventFacts DEF OutcomesAreKept
  <2>9. CallsOK'
    BY <1>1, <2>1, <2>3, <2>6, <2>7, <2>8, CallsContinue DEF HookInv, CallsOK
  <2> QED
    BY <1>1, <1>2, <2>1, <2>4, <2>5, <2>6, <2>9, SettledSlot, HandlerMoves DEF e
<1> QED
  BY <1>3, <1>4

\* The columns a call's event writes.
LEMMA WrittenCall ==
    ASSUME NEW kept \in CallRow, NEW says \in {"ringing", "in_progress", "completed"},
           NEW a \in BOOLEAN, NEW b \in BOOLEAN
    PROVE  Update(kept, [status |-> says, answered |-> a, ended |-> b])
             = [status |-> says, answered |-> a, ended |-> b, recordings |-> kept.recordings]
  BY DEF Update, CallRow

LEMMA TapedCall ==
    ASSUME NEW kept \in CallRow
    PROVE  LET new == [kept EXCEPT !.recordings = @ + 1]
           IN /\ new \in CallRow /\ new.recordings = kept.recordings + 1 /\ new.status = kept.status
              /\ new.answered = kept.answered /\ new.ended = kept.ended
<1>1. kept.recordings \in Nat /\ DOMAIN kept = {"status", "answered", "ended", "recordings"}
  BY DEF CallRow
<1> QED
  BY <1>1 DEF CallRow

\* A call's event writes the whole row from what it read, which is what the row still
\* is while the handler is alone.
LEMMA WriteCallStep ==
    ASSUME HookInv, NEW r \in Requests, WriteCall(r)
    PROVE  HookInv'
<1> DEFINE e == req[r].event
           c == CallEvents[e].call
           says == CallEvents[e].status
           a == req[r].row.answered \/ says \in {"completed", "in_progress"}
           b == req[r].row.ended \/ says = "completed"
           l == IF CallEvents[e].url THEN [pc |-> "recording", event |-> e] ELSE Settled(e, "processed")
<1>1. /\ req[r] \in HookSlot /\ e \in DOMAIN CallEvents /\ e \in Events /\ req[r].row \in CallRow
      /\ Working(req[r]) /\ applied[e] = 0 /\ hooks[e] # "absent" /\ req[r].pc = "writeCall"
  BY HookAtStatement, EventFacts, SlotKinds DEF WriteCall, At, HookInv, Working, Knows
<1>2. /\ UNCHANGED <<hooks, secret, delivery, esign, form, submitted>>
      /\ Continue(r, l) /\ applied' = [applied EXCEPT ![e] = @ + 1]
      /\ call' = [call EXCEPT ![c] = Update(@, [status |-> says, answered |-> a, ended |-> b])]
  BY DEF WriteCall
<1>3. /\ c \in {"in", "out"} /\ says \in {"ringing", "in_progress", "completed"}
      /\ a \in BOOLEAN /\ b \in BOOLEAN /\ call[c] \in CallRow
  BY <1>1, EventFacts DEF HookInv, HookTypeOK, CallRow
<1> DEFINE new == [status |-> says, answered |-> a, ended |-> b, recordings |-> call[c].recordings]
<1>4. Update(call[c], [status |-> says, answered |-> a, ended |-> b]) = new
  <2> HIDE DEF c, says, a, b
  <2> QED
    BY <1>3, WrittenCall
<1>5. new \in CallRow
  BY <1>3 DEF CallRow
<1>6. call' = [call EXCEPT ![c] = new]
  BY <1>2, <1>4
<1>7. call' \in [{"in", "out"} -> CallRow] /\ call'[c] = new
        /\ \A d \in {"in", "out"} \ {c} : call'[d] = call[d]
  <2>1. call \in [{"in", "out"} -> CallRow]
    BY DEF HookInv, HookTypeOK, CallRow
  <2> HIDE DEF c, new, CallRow
  <2> QED
    BY <1>3, <1>5, <1>6, <2>1
<1>8. /\ applied' \in [Events -> Nat] /\ applied'[e] = 1 /\ EventsOK'
      /\ \A f \in Events \ {e} : applied'[f] = applied[f]
  BY <1>1, <1>2, Applied
<1>9. HookTypeOK' /\ SentMeansAccepted'
  BY <1>2, <1>7, <1>8 DEF HookInv, HookTypeOK, CallRow, SentMeansAccepted
<1>10. /\ l \in HookSlot /\ l.event = e /\ Working(l) /\ l.pc \in {"recording", "finish"}
  BY <1>1, SettledSlot DEF HookSlot, Working
<1>11. req'[r] = l => Knows(req[r])' /\ ReadsHold(req[r])'
  <2> HIDE DEF c, says, a, b, l, e
  <2>1. l.pc \notin {"writeCall", "addRecording"}
    BY <1>10
  <2>2. req'[r] = l => ReadsHold(req[r])'
    BY <2>1 DEF ReadsHold
  <2>3. req'[r] = l => Knows(req[r])'
    BY <1>1, <1>2, <1>8, <1>10 DEF Knows, Working
  <2> QED
    BY <2>2, <2>3
<1>12. req'[r] = l /\ overlapped' = overlapped
  BY <1>1, <1>2, Continued, SlotKinds DEF HookInv
<1>13. ASSUME ~overlapped, OutcomesAreKept, ReadsHold(req[r]) PROVE OutcomesAreKept'
  <2>1. req[r].row = call[c]
    BY <1>1, <1>13 DEF ReadsHold
  <2>2. /\ call[c].answered => call'[c].answered
        /\ call[c].ended => call'[c].ended
        /\ call'[c].recordings = call[c].recordings
        /\ e = "outAnswer" => call'[c].answered
        /\ e = "outEnd" => call'[c].answered /\ call'[c].ended
    <3>1. call'[c].answered = a /\ call'[c].ended = b /\ call'[c].recordings = call[c].recordings
      BY <1>7
    <3>2. /\ e = "outAnswer" => says = "in_progress"
          /\ e = "outEnd" => says = "completed"
      BY EventFacts
    <3>3. /\ call[c].answered => a
          /\ call[c].ended => b
          /\ says = "in_progress" => a
          /\ says = "completed" => a /\ b
      BY <2>1
    <3> HIDE DEF a, b, c, e, says
    <3> QED
      BY <3>1, <3>2, <3>3
  <2>3. c = IF e = "inRing" THEN "in" ELSE "out"
    BY <1>1, EventFacts
  <2>4. /\ applied'["outAnswer"] = IF e = "outAnswer" THEN 1 ELSE applied["outAnswer"]
        /\ applied'["outEnd"] = IF e = "outEnd" THEN 1 ELSE applied["outEnd"]
    BY <1>8, EventFacts
  <2>5. applied["outAnswer"] \in Nat /\ applied["outEnd"] \in Nat
    BY EventFacts DEF HookInv, HookTypeOK
  <2>6. ~overlapped'
    BY <1>12, <1>13
  <2> HIDE DEF c, e, a, b, says, new, l
  <2>7. CASE c = "in"
    <3>1. e = "inRing" /\ call'["out"] = call["out"]
      BY <1>7, <2>3, <2>7
    <3> QED
      BY <1>13, <2>4, <2>6, <3>1 DEF OutcomesAreKept
  <2>8. CASE c = "out"
    BY <1>13, <2>2, <2>4, <2>5, <2>6, <2>8 DEF OutcomesAreKept
  <2> QED
    BY <1>3, <2>7, <2>8
<1>14. call'["out"].status # "absent"
  BY <1>3, <1>7 DEF HookInv, CallsOK
<1> HIDE DEF c, e, a, b, says, new, l
<1>15. CallsOK'
  BY <1>1, <1>2, <1>11, <1>12, <1>13, <1>14, CallsContinue
<1> QED
  BY <1>1, <1>2, <1>8, <1>9, <1>10, <1>11, <1>15, HandlerMoves DEF e

LEMMA CheckRecordingStep ==
    ASSUME HookInv, NEW r \in Requests, CheckRecording(r)
    PROVE  HookInv'
<1> DEFINE e == req[r].event
           c == CallEvents[e].call
<1>1. /\ req[r] \in HookSlot /\ e \in DOMAIN CallEvents /\ e \in Events
      /\ Working(req[r]) /\ applied[e] = 1 /\ hooks[e] # "absent"
  BY HookAtStatement, EventFacts, SlotKinds DEF CheckRecording, At, HookInv, Working, Knows
<1>2. UNCHANGED webhooks /\ HookTypeOK'
  BY DEF CheckRecording, HookInv, HookTypeOK, webhooks
<1>3. CASE call[c].recordings > 0
  <2>1. Continue(r, Settled(e, "processed"))
    BY <1>3 DEF CheckRecording
  <2>2. req'[r] = Settled(e, "processed") => Knows(req[r])'
    BY <1>1, <1>2, SettledSlot DEF Knows, Working, webhooks
  <2> HIDE DEF e
  <2> QED
    BY <1>1, <1>2, <2>1, <2>2, SettledSlot, HandlerReads DEF e, webhooks
<1>4. CASE ~(call[c].recordings > 0)
  <2> DEFINE l == [pc |-> "addRecording", event |-> e]
  <2>1. Continue(r, l)
    BY <1>4 DEF CheckRecording
  <2>2. c \in {"in", "out"}
    BY <1>1, EventFacts
  <2>3. call[c].recordings = 0
    BY <1>4, <2>2 DEF HookInv, HookTypeOK
  <2>4. l \in HookSlot /\ l.pc = "addRecording" /\ l.event = e
    BY <1>1 DEF HookSlot
  <2> HIDE DEF l
  <2>5. req'[r] = l => Knows(req[r])'
    BY <1>1, <1>2, <2>4 DEF Knows, Working, webhooks
  <2>6. req'[r] = l
    BY <1>1, <2>1, Continued, SlotKinds DEF HookInv
  <2>7. OutcomesAreKept /\ ~overlapped => OutcomesAreKept' /\ ReadsHold(req[r])'
    BY <1>1, <1>2, <2>3, <2>4, <2>6 DEF OutcomesAreKept, ReadsHold, webhooks
  <2>8. CallsOK'
    BY <1>1, <1>2, <2>1, <2>7, CallsContinue DEF HookInv, CallsOK, webhooks
  <2>9. EventsOK' /\ SentMeansAccepted'
    BY <1>2 DEF HookInv, EventsOK, SentMeansAccepted, webhooks
  <2> QED
    BY <1>1, <1>2, <2>1, <2>4, <2>5, <2>8, <2>9, HandlerMoves DEF webhooks
<1> QED
  BY <1>3, <1>4

LEMMA AddRecordingStep ==
    ASSUME HookInv, NEW r \in Requests, AddRecording(r)
    PROVE  HookInv'
<1> DEFINE e == req[r].event
           c == CallEvents[e].call
<1>1. /\ req[r] \in HookSlot /\ e \in DOMAIN CallEvents /\ e \in Events
      /\ Working(req[r]) /\ applied[e] = 1 /\ hooks[e] # "absent" /\ req[r].pc = "addRecording"
  BY HookAtStatement, EventFacts, SlotKinds DEF AddRecording, At, HookInv, Working, Knows
<1>2. /\ UNCHANGED <<hooks, secret, delivery, esign, form, applied, submitted>>
      /\ Continue(r, Settled(e, "processed"))
      /\ call' = [call EXCEPT ![c].recordings = @ + 1]
  BY DEF AddRecording
<1>3. c \in {"in", "out"}
  BY <1>1, EventFacts
<1>4. /\ call' \in [{"in", "out"} -> CallRow]
      /\ call'[c].recordings = call[c].recordings + 1
      /\ \A d \in {"in", "out"} : /\ call'[d].status = call[d].status
                                  /\ call'[d].answered = call[d].answered
                                  /\ call'[d].ended = call[d].ended
                                  /\ d # c => call'[d] = call[d]
  <2>1. call \in [{"in", "out"} -> CallRow] /\ call[c] \in CallRow
    BY <1>3 DEF HookInv, HookTypeOK, CallRow
  <2> DEFINE new == [call[c] EXCEPT !.recordings = @ + 1]
  <2>2. /\ new \in CallRow /\ new.recordings = call[c].recordings + 1
        /\ new.status = call[c].status /\ new.answered = call[c].answered
        /\ new.ended = call[c].ended
    BY <2>1, TapedCall
  <2>3. call' = [call EXCEPT ![c] = new]
    BY <1>2
  <2> HIDE DEF new, c, CallRow
  <2>4. call' \in [{"in", "out"} -> CallRow] /\ call'[c] = new
          /\ \A d \in {"in", "out"} \ {c} : call'[d] = call[d]
    BY <1>3, <2>1, <2>2, <2>3
  <2> QED
    BY <2>2, <2>4
<1>5. HookTypeOK' /\ SentMeansAccepted' /\ EventsOK'
  BY <1>2, <1>4 DEF HookInv, HookTypeOK, CallRow, SentMeansAccepted, EventsOK
<1> HIDE DEF e, c
<1>6. req'[r] = Settled(e, "processed") => Knows(req[r])' /\ ReadsHold(req[r])'
  BY <1>1, <1>2, SettledSlot DEF Knows, ReadsHold, Working
<1>7. req'[r] = Settled(e, "processed") /\ overlapped' = overlapped
  BY <1>1, <1>2, Continued, SlotKinds DEF HookInv
<1>8. OutcomesAreKept /\ ~overlapped /\ ReadsHold(req[r]) => OutcomesAreKept'
  <2> SUFFICES ASSUME OutcomesAreKept, ~overlapped, ReadsHold(req[r]) PROVE OutcomesAreKept'
    OBVIOUS
  <2>1. call[c].recordings = 0
    BY <1>1 DEF ReadsHold, e, c
  <2>2. call'["out"].answered = call["out"].answered /\ call'["out"].ended = call["out"].ended
    BY <1>4
  <2>3. call'["out"].recordings <= 1
    <3>1. CASE c = "out"
      BY <1>4, <2>1, <3>1
    <3>2. CASE c # "out"
      <4>1. call'["out"] = call["out"]
        BY <1>4, <3>2
      <4> QED
        BY <4>1 DEF OutcomesAreKept
    <3> QED
      BY <3>1, <3>2
  <2> QED
    BY <1>2, <2>2, <2>3 DEF OutcomesAreKept
<1>9. CallsOK'
  BY <1>1, <1>2, <1>4, <1>6, <1>7, <1>8, CallsContinue DEF HookInv, CallsOK
<1> QED
  BY <1>1, <1>2, <1>5, <1>6, <1>9, SettledSlot, HandlerMoves DEF e

-----------------------------------------------------------------------------
(***************************************************************************)
(* Delivery reports, messages and e-sign reports                           *)
(***************************************************************************)

LEMMA ApplyDeliveryStep ==
    ASSUME HookInv, NEW r \in Requests, ApplyDelivery(r)
    PROVE  HookInv'
<1> DEFINE e == req[r].event
<1>1. /\ req[r] \in HookSlot /\ e \in DOMAIN DeliveryEvents /\ e \in Events
      /\ Working(req[r]) /\ applied[e] = 0 /\ hooks[e] # "absent"
  BY HookAtStatement, EventFacts DEF ApplyDelivery, At, HookInv, Working, Knows
<1>2. /\ UNCHANGED <<hooks, secret, call, esign, form, submitted>>
      /\ Continue(r, Settled(e, "processed")) /\ applied' = [applied EXCEPT ![e] = @ + 1]
      /\ delivery' \in {"delivered", "read"}
  BY <1>1, EventFacts DEF ApplyDelivery
<1> HIDE DEF e
<1>3. /\ applied' \in [Events -> Nat] /\ applied'[e] = 1 /\ EventsOK'
      /\ \A f \in Events \ {e} : applied'[f] = applied[f]
  BY <1>1, <1>2, Applied
<1>4. HookTypeOK' /\ SentMeansAccepted'
  BY <1>2, <1>3 DEF HookInv, HookTypeOK, SentMeansAccepted
<1>5. req'[r] = Settled(e, "processed") => Knows(req[r])' /\ ReadsHold(req[r])'
  BY <1>1, <1>2, <1>3, SettledSlot DEF Knows, ReadsHold, Working
<1>6. req'[r] = Settled(e, "processed") /\ overlapped' = overlapped
  BY <1>1, <1>2, Continued, SlotKinds DEF HookInv
<1>7. applied'["outAnswer"] = applied["outAnswer"] /\ applied'["outEnd"] = applied["outEnd"]
  BY <1>1, <1>3, EventFacts
<1>8. OutcomesAreKept => OutcomesAreKept'
  BY <1>2, <1>6, <1>7 DEF OutcomesAreKept
<1>9. CallsOK'
  BY <1>1, <1>2, <1>5, <1>6, <1>8, CallsContinue DEF HookInv, CallsOK
<1> QED
  BY <1>1, <1>2, <1>3, <1>4, <1>5, <1>9, SettledSlot, HandlerMoves DEF e

LEMMA ApplyMessageStep ==
    ASSUME HookInv, NEW r \in Requests, NEW ours \in BOOLEAN,
           ApplyMessage(r, ours) \/ ApplyLeadgen(r, ours)
    PROVE  HookInv'
<1> DEFINE e == req[r].event
<1>1. req[r] \in HookSlot /\ e \in Events /\ Working(req[r]) /\ hooks[e] # "absent"
  BY HookAtStatement, EventFacts DEF ApplyMessage, ApplyLeadgen, At, HookInv, Working, Knows
<1>2. UNCHANGED webhooks /\ HookTypeOK'
  BY DEF ApplyMessage, ApplyLeadgen, HookInv, HookTypeOK, webhooks
<1>3. CASE ours
  <2>1. Continue(r, Idle)
    BY <1>3 DEF ApplyMessage, ApplyLeadgen
  <2> QED
    BY <1>1, <1>2, <2>1, IdleSlot, HandlerReads DEF webhooks
<1>4. CASE ~ours
  <2>1. Continue(r, Settled(e, "ignored"))
    BY <1>4 DEF ApplyMessage, ApplyLeadgen
  <2> HIDE DEF e
  <2>2. req'[r] = Settled(e, "ignored") => Knows(req[r])'
    BY <1>1, <1>2, SettledSlot DEF Knows, Working, webhooks
  <2> QED
    BY <1>1, <1>2, <2>1, <2>2, SettledSlot, HandlerReads DEF e, webhooks
<1> QED
  BY <1>3, <1>4

\* A report of the provider finds the request by the provider's id, which it has only
\* once the provider accepted it.
LEMMA ApplySignStep ==
    ASSUME HookInv, NEW r \in Requests, ApplySign(r)
    PROVE  HookInv'
<1> DEFINE e == req[r].event
<1>1. /\ req[r] \in HookSlot /\ e \in DOMAIN SignEvents /\ e \in Events
      /\ Working(req[r]) /\ applied[e] = 0 /\ hooks[e] # "absent"
  BY HookAtStatement, EventFacts DEF ApplySign, At, HookInv, Working, Knows
<1>2. UNCHANGED <<hooks, secret, call, delivery, form, submitted>>
  BY DEF ApplySign
<1>3. CASE ~esign.known
  <2>1. Continue(r, Settled(e, "ignored")) /\ UNCHANGED <<esign, applied>>
    BY <1>3 DEF ApplySign
  <2>2. HookTypeOK'
    BY <1>2, <2>1 DEF HookInv, HookTypeOK
  <2> HIDE DEF e
  <2>3. req'[r] = Settled(e, "ignored") => Knows(req[r])'
    BY <1>1, <1>2, SettledSlot DEF Knows, Working
  <2> QED
    BY <1>1, <1>2, <2>1, <2>2, <2>3, SettledSlot, HandlerReads DEF e
<1>4. CASE esign.known /\ SignEvents[e] = "completed"
  <2>1. Continue(r, Idle) /\ UNCHANGED <<esign, applied>>
    BY <1>4 DEF ApplySign
  <2>2. HookTypeOK'
    BY <1>2, <2>1 DEF HookInv, HookTypeOK
  <2> QED
    BY <1>1, <1>2, <2>1, <2>2, IdleSlot, HandlerReads
<1>5. CASE esign.known /\ SignEvents[e] # "completed"
  <2> DEFINE l == [pc |-> "signer", event |-> e]
  <2>1. /\ Continue(r, l) /\ applied' = [applied EXCEPT ![e] = @ + 1]
        /\ esign' = [esign EXCEPT !.status = SignEvents[e]]
    BY <1>5 DEF ApplySign
  <2>2. e \in {"declined", "failed"} /\ SignEvents[e] \in {"declined", "failed"}
    BY <1>1, <1>5, EventFacts
  <2>3. l \in HookSlot /\ l.pc = "signer" /\ l.event = e
    BY <2>2 DEF HookSlot
  <2>4. esign'.known /\ esign' \in [status : {"absent", "draft", "sent", "declined", "failed"},
                                    known : BOOLEAN, signer : {"absent", "pending", "declined"}]
    BY <1>5, <2>1, <2>2 DEF HookInv, HookTypeOK
  <2> HIDE DEF e, l
  <2>5. /\ applied' \in [Events -> Nat] /\ applied'[e] = 1 /\ EventsOK'
        /\ \A f \in Events \ {e} : applied'[f] = applied[f]
    BY <1>1, <1>2, <2>1, Applied
  <2>6. HookTypeOK' /\ SentMeansAccepted'
    BY <1>2, <2>4, <2>5 DEF HookInv, HookTypeOK, SentMeansAccepted
  <2>7. req'[r] = l => Knows(req[r])' /\ ReadsHold(req[r])'
    BY <1>1, <1>2, <2>3, <2>4, <2>5 DEF Knows, ReadsHold, Working
  <2>8. req'[r] = l /\ overlapped' = overlapped
    BY <1>1, <2>1, Continued, SlotKinds DEF HookInv
  <2>9. applied'["outAnswer"] = applied["outAnswer"] /\ applied'["outEnd"] = applied["outEnd"]
    BY <2>2, <2>5, EventFacts
  <2>10. OutcomesAreKept => OutcomesAreKept'
    BY <1>2, <2>8, <2>9 DEF OutcomesAreKept
  <2>11. CallsOK'
    BY <1>1, <1>2, <2>1, <2>7, <2>8, <2>10, CallsContinue DEF HookInv, CallsOK
  <2> QED
    BY <1>1, <1>2, <2>1, <2>3, <2>4, <2>5, <2>6, <2>7, <2>11, HandlerMoves DEF e
<1> QED
  BY <1>3, <1>4, <1>5

\* A step that writes the e-sign request, and no event.
LEMMA EsignWritten ==
    ASSUME HookInv, NEW r \in Requests, req[r] \in HookSlot, NEW l, Continue(r, l),
           l \in {Idle} \cup HookSlot, l.pc \notin {"writeCall", "addRecording"},
           Working(l) => Working(req[r]) /\ l.event = req[r].event,
           req'[r] = l => Knows(req[r])',
           UNCHANGED <<hooks, secret, call, delivery, form, applied, submitted>>,
           esign' \in [status : {"absent", "draft", "sent", "declined", "failed"},
                       known : BOOLEAN, signer : {"absent", "pending", "declined"}],
           esign.known => esign'.known, SentMeansAccepted'
    PROVE  HookInv'
<1>1. CallsOK'
  BY CallsStay
<1>2. HookTypeOK' /\ EventsOK'
  BY DEF HookInv, HookTypeOK, EventsOK
<1> QED
  BY <1>1, <1>2, HandlerMoves

LEMMA WriteSignerStep ==
    ASSUME HookInv, NEW r \in Requests, WriteSigner(r)
    PROVE  HookInv'
<1> DEFINE e == req[r].event
<1>1. /\ req[r] \in HookSlot /\ e \in {"declined", "failed"} /\ e \in Events
      /\ Working(req[r]) /\ applied[e] = 1 /\ hooks[e] # "absent" /\ esign.known
  BY HookAtStatement, EventFacts, SlotKinds DEF WriteSigner, At, HookInv, Working, Knows
<1>2. UNCHANGED <<hooks, secret, call, delivery, form, applied, submitted>>
  BY DEF WriteSigner
<1>3. CASE e = "failed"
  <2>1. Continue(r, Idle) /\ UNCHANGED esign
    BY <1>3, EventFacts DEF WriteSigner
  <2>2. HookTypeOK'
    BY <1>2, <2>1 DEF HookInv, HookTypeOK
  <2> QED
    BY <1>1, <1>2, <2>1, <2>2, IdleSlot, HandlerReads
<1>4. CASE e = "declined"
  <2>1. Continue(r, Settled(e, "processed")) /\ esign' = [esign EXCEPT !.signer = "declined"]
    BY <1>4, EventFacts DEF WriteSigner
  <2>2. /\ esign'.known
        /\ esign' \in [status : {"absent", "draft", "sent", "declined", "failed"},
                       known : BOOLEAN, signer : {"absent", "pending", "declined"}]
    BY <1>1, <2>1 DEF HookInv, HookTypeOK
  <2> HIDE DEF e
  <2>3. req'[r] = Settled(e, "processed") => Knows(req[r])'
    BY <1>1, <1>2, SettledSlot DEF Knows, Working
  <2>4. SentMeansAccepted'
    BY <2>2 DEF SentMeansAccepted
  <2> QED
    BY <1>1, <1>2, <2>1, <2>2, <2>3, <2>4, SettledSlot, EsignWritten DEF e
<1> QED
  BY <1>1, <1>3, <1>4

-----------------------------------------------------------------------------
(***************************************************************************)
(* POST /esign, the forms, and the server                                  *)
(***************************************************************************)

LEMMA PostEsignStep ==
    ASSUME HookInv, NEW r \in Requests, PostEsign(r)
    PROVE  HookInv'
<1> DEFINE l == [pc |-> "sign", answer |-> "none"]
<1>1. /\ Begin(r, l) /\ esign' = [esign EXCEPT !.status = "draft"]
      /\ UNCHANGED <<hooks, secret, call, delivery, form, applied, submitted>>
  BY DEF PostEsign
<1>2. l \in HookSlot /\ ~Working(l)
  BY DEF HookSlot, Working
<1>3. HookTypeOK' /\ SentMeansAccepted' /\ esign'.known = esign.known
  BY <1>1 DEF HookInv, HookTypeOK, SentMeansAccepted
<1> HIDE DEF l
<1> QED
  BY <1>1, <1>2, <1>3, HandlerArrives

LEMMA AddSignerStep ==
    ASSUME HookInv, NEW r \in Requests, AddSigner(r)
    PROVE  HookInv'
<1>1. req[r] \in HookSlot
  BY HookAtStatement DEF AddSigner, At, HookInv
<1>2. PICK a \in {"accepted", "refused"} : Continue(r, [pc |-> "sign", answer |-> a])
  BY DEF AddSigner
<1>3. /\ esign' = [esign EXCEPT !.signer = "pending"]
      /\ UNCHANGED <<hooks, secret, call, delivery, form, applied, submitted>>
  BY DEF AddSigner
<1> DEFINE l == [pc |-> "sign", answer |-> a]
<1>4. l \in HookSlot /\ l.pc = "sign" /\ ~Working(l)
  BY DEF HookSlot, Working
<1>5. /\ esign'.known = esign.known /\ SentMeansAccepted'
      /\ esign' \in [status : {"absent", "draft", "sent", "declined", "failed"},
                     known : BOOLEAN, signer : {"absent", "pending", "declined"}]
  BY <1>3 DEF HookInv, HookTypeOK, SentMeansAccepted
<1> HIDE DEF l
<1>6. req'[r] = l => Knows(req[r])'
  BY <1>4 DEF Knows, Working
<1> QED
  BY <1>1, <1>2, <1>3, <1>4, <1>5, <1>6, EsignWritten DEF l

\* "Draft until the provider accepts it."
LEMMA RecordAnswerStep ==
    ASSUME HookInv, NEW r \in Requests, RecordAnswer(r)
    PROVE  HookInv'
<1>1. req[r] \in HookSlot
  BY HookAtStatement DEF RecordAnswer, At, HookInv
<1>2. /\ Continue(r, Idle)
      /\ UNCHANGED <<hooks, secret, call, delivery, form, applied, submitted>>
  BY DEF RecordAnswer, Return
<1>3. /\ esign.known => esign'.known
      /\ esign' \in [status : {"absent", "draft", "sent", "declined", "failed"},
                     known : BOOLEAN, signer : {"absent", "pending", "declined"}]
      /\ SentMeansAccepted'
  BY DEF RecordAnswer, HookInv, HookTypeOK, SentMeansAccepted
<1> QED
  BY <1>1, <1>2, <1>3, IdleSlot, EsignWritten

LEMMA FormStep ==
    ASSUME HookInv, NEW r \in Requests, PostForm(r) \/ InsertFormLead(r) \/ CountForm(r)
    PROVE  HookInv'
<1>1. CASE PostForm(r)
  <2> DEFINE l == [pc |-> "lead", seen |-> form.count]
  <2>1. Begin(r, l) /\ UNCHANGED webhooks
    BY <1>1 DEF PostForm
  <2>2. l \in HookSlot /\ ~Working(l)
    BY DEF HookSlot, Working, HookInv, HookTypeOK
  <2>3. HookTypeOK' /\ SentMeansAccepted'
    BY <2>1 DEF HookInv, HookTypeOK, SentMeansAccepted, webhooks
  <2> HIDE DEF l
  <2> QED
    BY <2>1, <2>2, <2>3, HandlerArrives DEF webhooks
<1>2. CASE InsertFormLead(r)
  <2> DEFINE l == [pc |-> "countForm", seen |-> req[r].seen]
  <2>1. /\ req[r] \in HookSlot /\ req[r].seen \in Nat
        /\ UNCHANGED <<hooks, secret, call, delivery, esign, applied>>
    BY <1>2, HookAtStatement, SlotKinds DEF InsertFormLead, At, HookInv
  <2>2. HookTypeOK'
    BY <1>2 DEF InsertFormLead, HookInv, HookTypeOK
  <2>3. Continue(r, l) \/ Continue(r, Idle)
    BY <1>2 DEF InsertFormLead
  <2>4. l \in HookSlot /\ l.pc = "countForm" /\ ~Working(l)
    BY <2>1 DEF HookSlot, Working
  <2> HIDE DEF l
  <2>5. req'[r] = l => Knows(req[r])'
    BY <2>4 DEF Knows, Working
  <2> QED
    BY <2>1, <2>2, <2>3, <2>4, <2>5, IdleSlot, HandlerReads
<1>3. CASE CountForm(r)
  <2>1. /\ req[r] \in HookSlot /\ req[r].seen \in Nat
        /\ UNCHANGED <<hooks, secret, call, delivery, esign, applied>> /\ Continue(r, Idle)
    BY <1>3, HookAtStatement, SlotKinds DEF CountForm, At, HookInv, Return
  <2>2. HookTypeOK'
    BY <1>3, <2>1 DEF CountForm, HookInv, HookTypeOK
  <2> QED
    BY <2>1, <2>2, IdleSlot, HandlerReads
<1> QED
  BY <1>1, <1>2, <1>3

\* The secret is given, the process is started again, or nothing happens.
LEMMA HooksStay ==
    ASSUME HookInv,
           \/ ConfigureSecret
           \/ Restart /\ UNCHANGED webhooks
           \/ UNCHANGED hookVars
    PROVE  HookInv'
<1>1. /\ UNCHANGED <<hooks, call, delivery, esign, form, applied, submitted>>
      /\ secret' \in BOOLEAN
  BY DEF ConfigureSecret, hookVars, webhooks, HookInv
<1>2. HookTypeOK' /\ EventsOK' /\ SentMeansAccepted' /\ call'["out"].status # "absent"
  BY <1>1 DEF HookInv, HookTypeOK, EventsOK, SentMeansAccepted, CallsOK
<1>3. CASE Restart
  <2>1. ServerOK' /\ overlapped' /\ \A r \in Requests : req'[r] \in {Idle, Unused}
    BY <1>3, Restarted DEF HookInv
  <2>2. SlotsOK'
    BY <2>1 DEF SlotsOK, Knows, Working, Idle, Unused
  <2>3. CallsOK'
    BY <1>2, <2>1 DEF CallsOK
  <2> QED
    BY <1>1, <1>2, <2>1, <2>2, <2>3 DEF HookInv
<1>4. CASE UNCHANGED server
  <2>1. ServerOK'
    BY <1>4 DEF HookInv, ServerOK, InFlight, server
  <2>2. SlotsOK'
    BY <1>1, <1>4 DEF HookInv, SlotsOK, Knows, Working, server
  <2>3. CallsOK'
    BY <1>1, <1>4 DEF HookInv, CallsOK, OutcomesAreKept, ReadsHold, server
  <2> QED
    BY <1>1, <1>2, <2>1, <2>2, <2>3 DEF HookInv
<1> QED
  BY <1>3, <1>4 DEF ConfigureSecret, hookVars

LEMMA HooksStart ==
    ASSUME NEW slots, NEW requests, NEW stops, ServerInit(slots, requests, stops), HookInit
    PROVE  HookInv
<1>1. ServerOK /\ \A r \in Requests : req[r] \in {Idle, Unused}
  BY ServerStarts
<1>2. SlotsOK
  BY <1>1 DEF SlotsOK, Knows, Working, Idle, Unused
<1>3. HookTypeOK /\ secret \in BOOLEAN /\ EventsOK /\ SentMeansAccepted
  <2>1. NoCall \in CallRow /\ [NoCall EXCEPT !.status = "initiated"] \in CallRow
    BY DEF NoCall, CallRow
  <2>2. call \in [{"in", "out"} -> CallRow]
    BY <2>1 DEF HookInit
  <2>3. /\ hooks \in [Events -> {"absent", "received", "processed", "ignored", "failed", "duplicate"}]
        /\ applied \in [Events -> Nat]
        /\ delivery \in {"sent", "delivered", "read"} /\ submitted \in Nat
        /\ form \in [count : Nat, leads : 0..1]
        /\ esign \in [status : {"absent", "draft", "sent", "declined", "failed"}, known : BOOLEAN,
                      signer : {"absent", "pending", "declined"}]
    BY DEF HookInit
  <2>4. EventsOK /\ SentMeansAccepted /\ secret \in BOOLEAN
    BY DEF HookInit, EventsOK, SentMeansAccepted
  <2> QED
    BY <2>2, <2>3, <2>4 DEF HookTypeOK, CallRow
<1>4. /\ applied["outAnswer"] = 0 /\ applied["outEnd"] = 0
      /\ call["out"].status = "initiated" /\ call["out"].recordings = 0
  BY EventFacts DEF HookInit, NoCall
<1>5. \A r \in Requests : ReadsHold(req[r])
  BY <1>1 DEF ReadsHold, Idle, Unused
<1>6. CallsOK
  BY <1>4, <1>5 DEF CallsOK, OutcomesAreKept
<1> QED
  BY <1>1, <1>2, <1>3, <1>6 DEF HookInv

LEMMA HookInvStep ==
    ASSUME HookInv, [HookNext]_hookVars
    PROVE  HookInv'
<1>1. ASSUME NEW r \in Requests, HookRequest(r) PROVE HookInv'
  BY <1>1, DeliverStep, PostEsignStep, FormStep DEF HookRequest
<1>2. ASSUME NEW r \in Requests, HookStep(r) PROVE HookInv'
  BY <1>2, RepeatStep, StoreStep, FinishStep, ApplyCallStep, ApplyMessageStep, InsertInboundStep,
     WriteCallStep, CheckRecordingStep, AddRecordingStep, ApplyDeliveryStep, ApplySignStep,
     WriteSignerStep, AddSignerStep, RecordAnswerStep, FormStep DEF HookStep
<1> QED
  BY <1>1, <1>2, HooksStay DEF HookNext

\* "Delivery is at-least-once, so every handler is idempotent", and "Nothing is 'sent' on
\* our say-so": whatever providers deliver, as often and in whatever order, with whatever
\* restarts, an event takes effect at most once; what a call's events wrote is kept while
\* no two handlers have overlapped; and no report moves a request that was not accepted.
THEOREM HooksCorrect == HookSpec => []HooksHold
<1>1. (\E slots \in SUBSET Requests, requests, stops \in Nat : ServerInit(slots, requests, stops))
        /\ HookInit => HookInv
  BY HooksStart
<1>2. HookInv /\ [HookNext]_hookVars => HookInv'
  BY HookInvStep
<1>3. HookInv => HooksHold
  BY DEF HookInv, HooksHold, EventsOK, AppliedOnce, CallsOK, OutcomesAreKept
<1> QED
  BY <1>1, <1>2, <1>3, PTL DEF HookSpec

-----------------------------------------------------------------------------
(***************************************************************************)
(* Visibility: what the roles grant                                        *)
(***************************************************************************)

\* What the table of roles says of each, and which roles there are.
LEMMA RoleGrants ==
    /\ RoleDefinitions["auditor"].permissions = AuditorRole
    /\ RoleDefinitions["client"].permissions = ClientRole
    /\ RoleDefinitions["accountant"].permissions = Accountant
    /\ RoleDefinitions["finance_executive"].permissions = FinanceExecutive
    /\ RoleDefinitions["finance_manager"].permissions = FinanceManager
    /\ RoleDefinitions["admin"].permissions = AdminRole
    /\ RoleDefinitions["super_admin"].permissions = {Everything}
    /\ RoleKeys = {"super_admin", "admin", "finance_manager", "finance_executive", "accountant",
         "auditor", "client"}
  BY DEF RoleDefinitions, RoleKeys

\* Which roles grant the permissions that the ways to a row ask for.
WhoMay(roles) ==
    LET May(p, holders) == p \in PermissionsForRoles(roles) <=> roles \cap holders # {}
    IN
       /\ May("approvals.view", {"finance_manager", "auditor"})
       /\ May("calls.recordings.listen", {"finance_manager", "finance_executive", "auditor"})
       /\ May("calls.view", {"finance_manager", "finance_executive", "auditor"})
       /\ May("calls.view.own", {"finance_manager", "finance_executive", "accountant", "client"})
       /\ May("clients.view", {"finance_manager", "finance_executive", "accountant", "auditor"})
       /\ May("clients.view.assigned", {"finance_manager", "finance_executive"})
       /\ May("clients.view.own", {"client"})
       /\ May("companies.view", {"finance_manager", "finance_executive", "accountant", "auditor", "client"})
       /\ May("documents.download", {"finance_manager", "finance_executive", "accountant", "auditor", "client"})
       /\ May("documents.verify", {"finance_manager", "finance_executive"})
       /\ May("documents.view", {"finance_manager", "finance_executive", "accountant", "auditor"})
       /\ May("documents.view.own", {"client"})
       /\ May("invoices.view", {"finance_manager", "accountant", "auditor"})
       /\ May("invoices.view.own", {"client"})
       /\ May("payments.view", {"finance_manager", "accountant", "auditor", "client"})
       /\ May("queries.view", {"finance_manager", "finance_executive", "accountant", "auditor"})
       /\ May("queries.view.own", {"client"})
       /\ May("reports.view", {"finance_manager", "finance_executive", "accountant", "auditor"})
       /\ May("reports.view.own", {"client"})
       /\ May("support.view", {"finance_manager", "finance_executive", "accountant"})
       /\ May("support.view.own", {"client"})
       /\ May("tasks.view", {"finance_manager", "finance_executive", "accountant"})
       /\ May("tax.view", {"finance_manager", "finance_executive", "accountant", "auditor"})
       /\ May("voicenotes.create", {"finance_manager", "finance_executive", "accountant", "client"})

\* The table, read off the lists of the roles.
LEMMA TableOfRoles == \A roles \in SUBSET Readers : WhoMay(roles)
<1> SUFFICES ASSUME NEW roles \in SUBSET Readers PROVE WhoMay(roles)
  OBVIOUS
<1>1. /\ {"approvals.view", "calls.recordings.listen", "calls.view", "calls.view.own",
          "clients.view", "clients.view.assigned", "companies.view",
          "documents.download", "documents.verify", "documents.view", "invoices.view",
          "payments.view", "queries.view", "reports.view", "support.view", "tasks.view",
          "tax.view", "voicenotes.create"}
         \subseteq FinanceManager
      /\ {"clients.view.own", "documents.view.own", "invoices.view.own", "queries.view.own",
          "reports.view.own", "support.view.own"} \cap FinanceManager = {}
  BY DEF FinanceManager, FinanceExecutive
<1>2. /\ {"calls.recordings.listen", "calls.view", "calls.view.own", "clients.view",
          "clients.view.assigned", "companies.view", "documents.download",
          "documents.verify", "documents.view", "queries.view", "reports.view",
          "support.view", "tasks.view", "tax.view", "voicenotes.create"}
         \subseteq FinanceExecutive
      /\ {"approvals.view", "clients.view.own", "documents.view.own", "invoices.view",
          "invoices.view.own", "payments.view", "queries.view.own", "reports.view.own",
          "support.view.own"} \cap FinanceExecutive = {}
  BY DEF FinanceExecutive
<1>3. /\ {"calls.view.own", "clients.view", "companies.view", "documents.download",
          "documents.view", "invoices.view", "payments.view", "queries.view",
          "reports.view", "support.view", "tasks.view", "tax.view", "voicenotes.create"}
         \subseteq Accountant
      /\ {"approvals.view", "calls.recordings.listen", "calls.view", "clients.view.assigned",
          "clients.view.own", "documents.verify", "documents.view.own",
          "invoices.view.own", "queries.view.own", "reports.view.own",
          "support.view.own"} \cap Accountant = {}
  BY DEF Accountant
<1>4. /\ {"approvals.view", "calls.recordings.listen", "calls.view", "clients.view",
          "companies.view", "documents.download", "documents.view", "invoices.view",
          "payments.view", "queries.view", "reports.view", "tax.view"}
         \subseteq AuditorRole
      /\ {"calls.view.own", "clients.view.assigned", "clients.view.own", "documents.verify",
          "documents.view.own", "invoices.view.own", "queries.view.own",
          "reports.view.own", "support.view", "support.view.own", "tasks.view",
          "voicenotes.create"} \cap AuditorRole = {}
  BY DEF AuditorRole
<1>5. /\ {"calls.view.own", "clients.view.own", "companies.view", "documents.download",
          "documents.view.own", "invoices.view.own", "payments.view",
          "queries.view.own", "reports.view.own", "support.view.own",
          "voicenotes.create"}
         \subseteq ClientRole
      /\ {"approvals.view", "calls.recordings.listen", "calls.view", "clients.view",
          "clients.view.assigned", "documents.verify", "documents.view",
          "invoices.view", "queries.view", "reports.view", "support.view", "tasks.view",
          "tax.view"} \cap ClientRole = {}
  BY DEF ClientRole
<1>6. \A p : p \in PermissionsForRoles(roles) <=> \E role \in roles : p \in RoleDefinitions[role].permissions
  BY DEF PermissionsForRoles
<1>7. roles \subseteq {"finance_manager", "finance_executive", "accountant", "auditor", "client"}
  BY RoleGrants DEF Readers
<1> QED
  BY <1>1, <1>2, <1>3, <1>4, <1>5, <1>6, <1>7, RoleGrants DEF WhoMay

-----------------------------------------------------------------------------
(***************************************************************************)
(* Visibility: the invariant                                               *)
(***************************************************************************)

\* What every state says: what roles, overrides, contacts and rows may be, that nobody but a
\* client is a contact, and that a row is the caller's own only where it has an owner.
VisibilityInv ==
    /\ caller \in [roles : (SUBSET Readers) \ {{}}, denied : SUBSET Deniable]
    /\ people \in [contactOf : SUBSET Customers, assigned : SUBSET Customers, companies : SUBSET Customers,
                   archived : SUBSET Customers]
    /\ ~IsClient => people.contactOf = {}
    /\ row = [kind |-> row.kind, client |-> row.client, status |-> row.status, mine |-> row.mine,
              shared |-> row.shared, deleted |-> row.deleted]
    /\ row.kind \in Kinds /\ row.client \in Customers /\ row.status \in StatusesOf(row.kind)
    /\ row.mine \in BOOLEAN /\ row.shared \in BOOLEAN /\ row.deleted \in BOOLEAN
    /\ row.mine => row.kind \in Owned
    /\ row.mine /\ row.kind = "call" => Has("calls.view.own")
    /\ changes \in 0..MaxChanges

\* It is so to begin with,
LEMMA VisibilityStarts == VisibilityInit => VisibilityInv
<1> SUFFICES ASSUME VisibilityInit PROVE VisibilityInv
  OBVIOUS
<1>1. PICK roles \in (SUBSET Readers) \ {{}} : caller = [roles |-> roles, denied |-> {}]
  BY DEF VisibilityInit
<1>2. PICK k \in Customers :
         people = [contactOf |-> IF IsClient THEN {k} ELSE {}, assigned |-> {k}, companies |-> {k},
           archived |-> {}]
  BY DEF VisibilityInit
<1>3. PICK kind \in Kinds, c \in Customers : \E s \in StatusesOf(kind) :
         row = [kind |-> kind, client |-> c, status |-> s, mine |-> FALSE, shared |-> FALSE, deleted |-> FALSE]
  BY DEF VisibilityInit
<1> QED
  BY <1>1, <1>2, <1>3, VisibilityConstants DEF VisibilityInit, VisibilityInv

\* and every change of a permission, of the people or of the row keeps it.
LEMMA VisibilitySteps == VisibilityInv /\ [VisibilityNext]_visibilityVars => VisibilityInv'
<1> SUFFICES ASSUME VisibilityInv, [VisibilityNext]_visibilityVars PROVE VisibilityInv'
  OBVIOUS
<1>1. ASSUME NEW p \in Deniable, Deny(p) PROVE VisibilityInv'
  <2>1. /\ caller' = [caller EXCEPT !.denied = @ \cup {p}] /\ people' = people /\ row' = row
        /\ changes < MaxChanges /\ changes' = changes + 1
    BY <1>1 DEF Deny, Change
  <2>2. p # "calls.view.own"
    BY DEF Deniable
  <2> QED
    BY <2>1, <2>2, VisibilityConstants DEF VisibilityInv, IsClient, Has
<1>2. ASSUME NEW field \in {"contactOf", "assigned", "companies", "archived"}, NEW k \in Customers,
             Rearrange(field, k)
      PROVE  VisibilityInv'
  <2>1. /\ people' = [people EXCEPT ![field] = IF k \in @ THEN @ \ {k} ELSE @ \cup {k}]
        /\ field = "contactOf" => IsClient
        /\ caller' = caller /\ row' = row /\ changes < MaxChanges /\ changes' = changes + 1
    BY <1>2 DEF Rearrange, Change
  <2> QED
    BY <2>1, VisibilityConstants DEF VisibilityInv, IsClient, Has
<1>3. ASSUME RowChanges PROVE VisibilityInv'
  <2>1. caller' = caller /\ people' = people /\ changes < MaxChanges /\ changes' = changes + 1
    BY <1>3 DEF RowChanges, Change
  <2>2. row = [kind |-> row.kind, client |-> row.client, status |-> row.status, mine |-> row.mine,
               shared |-> row.shared, deleted |-> row.deleted]
    BY DEF VisibilityInv
  <2>3. ASSUME NEW s \in StatusesOf(row.kind), row' = [row EXCEPT !.status = s] PROVE VisibilityInv'
    <3>1. /\ row' = [kind |-> row.kind, client |-> row.client, status |-> s, mine |-> row.mine,
                     shared |-> row.shared, deleted |-> row.deleted]
      BY <2>2, <2>3
    <3> QED
      BY <2>1, <3>1, VisibilityConstants DEF VisibilityInv, IsClient, Has
  <2>4. ASSUME row.kind \in Owned, row.kind = "call" => Has("calls.view.own"), row' = [row EXCEPT !.mine = ~@]
        PROVE  VisibilityInv'
    <3>1. /\ row' = [kind |-> row.kind, client |-> row.client, status |-> row.status, mine |-> ~row.mine,
                     shared |-> row.shared, deleted |-> row.deleted]
      BY <2>2, <2>4
    <3> QED
      BY <2>1, <2>4, <3>1, VisibilityConstants DEF VisibilityInv, IsClient, Has
  <2>5. ASSUME row' = [row EXCEPT !.shared = ~@] PROVE VisibilityInv'
    <3>1. /\ row' = [kind |-> row.kind, client |-> row.client, status |-> row.status, mine |-> row.mine,
                     shared |-> ~row.shared, deleted |-> row.deleted]
      BY <2>2, <2>5
    <3> QED
      BY <2>1, <3>1, VisibilityConstants DEF VisibilityInv, IsClient, Has
  <2>6. ASSUME row' = [row EXCEPT !.deleted = TRUE] PROVE VisibilityInv'
    <3>1. /\ row' = [kind |-> row.kind, client |-> row.client, status |-> row.status, mine |-> row.mine,
                     shared |-> row.shared, deleted |-> TRUE]
      BY <2>2, <2>6
    <3> QED
      BY <2>1, <3>1, VisibilityConstants DEF VisibilityInv, IsClient, Has
  <2> QED
    BY <1>3, <2>3, <2>4, <2>5, <2>6 DEF RowChanges
<1>4. CASE UNCHANGED visibilityVars
  BY <1>4 DEF visibilityVars, visibility, VisibilityInv, IsClient, Has
<1> QED
  BY <1>1, <1>2, <1>3, <1>4 DEF VisibilityNext

\* The caller has the role.
Holds(role) == role \in caller.roles

\* What the caller may, in terms of roles held and permissions denied.
LEMMA CallerMay ==
    ASSUME VisibilityInv
    PROVE  /\ Has("approvals.view") <=> (Holds("finance_manager") \/ Holds("auditor"))
           /\ Has("calls.recordings.listen")
                <=> (Holds("finance_manager") \/ Holds("finance_executive") \/ Holds("auditor"))
           /\ Has("calls.view")
                <=> "calls.view" \notin caller.denied
                  /\ (Holds("finance_manager") \/ Holds("finance_executive") \/ Holds("auditor"))
           /\ Has("calls.view.own")
                <=> (Holds("finance_manager") \/ Holds("finance_executive") \/ Holds("accountant")
                  \/ Holds("client"))
           /\ Has("clients.view")
                <=> "clients.view" \notin caller.denied
                  /\ (Holds("finance_manager") \/ Holds("finance_executive") \/ Holds("accountant")
                       \/ Holds("auditor"))
           /\ Has("clients.view.assigned") <=> (Holds("finance_manager") \/ Holds("finance_executive"))
           /\ Has("clients.view.own") <=> (Holds("client"))
           /\ Has("companies.view")
                <=> "companies.view" \notin caller.denied
                  /\ (Holds("finance_manager") \/ Holds("finance_executive") \/ Holds("accountant")
                       \/ Holds("auditor") \/ Holds("client"))
           /\ Has("documents.download")
                <=> (Holds("finance_manager") \/ Holds("finance_executive") \/ Holds("accountant")
                  \/ Holds("auditor") \/ Holds("client"))
           /\ Has("documents.verify") <=> (Holds("finance_manager") \/ Holds("finance_executive"))
           /\ Has("documents.view")
                <=> "documents.view" \notin caller.denied
                  /\ (Holds("finance_manager") \/ Holds("finance_executive") \/ Holds("accountant")
                       \/ Holds("auditor"))
           /\ Has("documents.view.own") <=> (Holds("client"))
           /\ Has("invoices.view")
                <=> "invoices.view" \notin caller.denied
                  /\ (Holds("finance_manager") \/ Holds("accountant") \/ Holds("auditor"))
           /\ Has("invoices.view.own") <=> (Holds("client"))
           /\ Has("payments.view")
                <=> (Holds("finance_manager") \/ Holds("accountant") \/ Holds("auditor") \/ Holds("client"))
           /\ Has("queries.view")
                <=> "queries.view" \notin caller.denied
                  /\ (Holds("finance_manager") \/ Holds("finance_executive") \/ Holds("accountant")
                       \/ Holds("auditor"))
           /\ Has("queries.view.own") <=> (Holds("client"))
           /\ Has("reports.view")
                <=> "reports.view" \notin caller.denied
                  /\ (Holds("finance_manager") \/ Holds("finance_executive") \/ Holds("accountant")
                       \/ Holds("auditor"))
           /\ Has("reports.view.own") <=> (Holds("client"))
           /\ Has("support.view")
                <=> "support.view" \notin caller.denied
                  /\ (Holds("finance_manager") \/ Holds("finance_executive") \/ Holds("accountant"))
           /\ Has("support.view.own") <=> (Holds("client"))
           /\ Has("tasks.view")
                <=> (Holds("finance_manager") \/ Holds("finance_executive") \/ Holds("accountant"))
           /\ Has("tax.view")
                <=> (Holds("finance_manager") \/ Holds("finance_executive") \/ Holds("accountant")
                  \/ Holds("auditor"))
           /\ Has("voicenotes.create")
                <=> (Holds("finance_manager") \/ Holds("finance_executive") \/ Holds("accountant")
                  \/ Holds("client"))
<1>1. WhoMay(caller.roles)
  BY TableOfRoles DEF VisibilityInv
<1>2. caller.denied \subseteq Deniable
  BY DEF VisibilityInv
<1> QED
  BY <1>1, <1>2 DEF WhoMay, Has, Deniable, Holds

\* Everybody has a role, and those without the role of a client are nobody's contact.
LEMMA SomeRole ==
    ASSUME VisibilityInv
    PROVE  /\ \/ Holds("finance_manager") \/ Holds("finance_executive") \/ Holds("accountant")
              \/ Holds("auditor") \/ Holds("client")
           /\ IsClient <=> Holds("client")
           /\ caller.roles = {"client"} <=>
                /\ Holds("client") /\ ~Holds("finance_manager") /\ ~Holds("finance_executive")
                /\ ~Holds("accountant") /\ ~Holds("auditor")
           /\ ~IsClient => ClientIds = {}
  BY RoleGrants DEF VisibilityInv, Readers, ClientIds, IsClient, Holds

\* The parts of EveryWayAgrees that say more than what the variables may be.
WaysAgree ==
    /\ ListsAndReadsAgree
    /\ FoundMeansOpens
    /\ BytesFollowTheRecord
    /\ PortalShowsOwnRecords

\* They follow from the table of roles, kind by kind.
LEMMA EveryWay == VisibilityInv => WaysAgree
<1> SUFFICES ASSUME VisibilityInv PROVE WaysAgree
  OBVIOUS
<1>1. CASE row.kind = "client"
  <2>1. (Listed <=> ListsClient(row) \/ ExportsClient(row))
          /\ (Opened <=> OpensClient(row)) /\ (Found <=> FindsClient(row))
    BY <1>1 DEF Listed, Opened, Found
  <2> QED
    BY <1>1, <2>1, CallerMay, SomeRole
    DEF VisibilityInv, WaysAgree, ListsAndReadsAgree, FoundMeansOpens, BytesFollowTheRecord,
        PortalShowsOwnRecords,
        HasAny, ClientVisible, ExportsClient, FindsClient, ListsClient, MayReadClients, OpensClient
<1>2. CASE row.kind = "company"
  <2>1. (Listed <=> ListsCompany(row)) /\ (Opened <=> OpensCompany(row)) /\ (Found <=> FALSE)
    BY <1>2 DEF Listed, Opened, Found
  <2> QED
    BY <1>2, <2>1, CallerMay, SomeRole
    DEF VisibilityInv, WaysAgree, ListsAndReadsAgree, FoundMeansOpens, BytesFollowTheRecord,
        PortalShowsOwnRecords,
        HasAny, ListsCompany, OpensCompany, SwitchesToCompany
<1>3. CASE row.kind = "document"
  <2>1. (Listed <=> ListsDocument(row)) /\ (Opened <=> OpensDocument(row)) /\ (Found <=> FindsDocument(row))
    BY <1>3 DEF Listed, Opened, Found
  <2> QED
    BY <1>3, <2>1, CallerMay, SomeRole
    DEF VisibilityInv, WaysAgree, ListsAndReadsAgree, FoundMeansOpens, BytesFollowTheRecord,
        PortalShowsOwnRecords,
        HasAny, DownloadsDocument, FindsDocument, ListsDocument, OpensDocument, Own, QueuesDocument,
          ServesDocument
<1>4. CASE row.kind = "query"
  <2>1. (Listed <=> ListsQuery(row)) /\ (Opened <=> OpensQuery(row)) /\ (Found <=> FindsQuery(row))
    BY <1>4 DEF Listed, Opened, Found
  <2> QED
    BY <1>4, <2>1, CallerMay, SomeRole
    DEF VisibilityInv, WaysAgree, ListsAndReadsAgree, FoundMeansOpens, BytesFollowTheRecord,
        PortalShowsOwnRecords,
        HasAny, FindsQuery, ListsQuery, OpensQuery, Own
<1>5. CASE row.kind = "report"
  <2>1. (Listed <=> ListsReport(row)) /\ (Opened <=> OpensReport(row)) /\ (Found <=> FindsReport(row))
    BY <1>5 DEF Listed, Opened, Found
  <2> QED
    BY <1>5, <2>1, CallerMay, SomeRole
    DEF VisibilityInv, WaysAgree, ListsAndReadsAgree, FoundMeansOpens, BytesFollowTheRecord,
        PortalShowsOwnRecords,
        HasAny, FindsReport, ListsReport, OpensReport, Reached, StatusesOf
<1>6. CASE row.kind = "invoice"
  <2>1. (Listed <=> ListsInvoice(row)) /\ (Opened <=> OpensInvoice(row)) /\ (Found <=> FindsInvoice(row))
    BY <1>6 DEF Listed, Opened, Found
  <2> QED
    BY <1>6, <2>1, CallerMay, SomeRole
    DEF VisibilityInv, WaysAgree, ListsAndReadsAgree, FoundMeansOpens, BytesFollowTheRecord,
        PortalShowsOwnRecords,
        HasAny, FindsInvoice, ListsInvoice, OpensInvoice
<1>7. CASE row.kind = "payment"
  <2>1. (Listed <=> ListsPayment(row)) /\ (Opened <=> OpensPayment(row)) /\ (Found <=> FALSE)
    BY <1>7 DEF Listed, Opened, Found
  <2> QED
    BY <1>7, <2>1, CallerMay, SomeRole
    DEF VisibilityInv, WaysAgree, ListsAndReadsAgree, FoundMeansOpens, BytesFollowTheRecord,
        PortalShowsOwnRecords,
        HasAny, ListsPayment, OpensPayment, StatusesOf
<1>8. CASE row.kind = "ticket"
  <2>1. (Listed <=> ListsTicket(row)) /\ (Opened <=> OpensTicket(row)) /\ (Found <=> FALSE)
    BY <1>8 DEF Listed, Opened, Found
  <2> QED
    BY <1>8, <2>1, CallerMay, SomeRole
    DEF VisibilityInv, WaysAgree, ListsAndReadsAgree, FoundMeansOpens, BytesFollowTheRecord,
        PortalShowsOwnRecords,
        HasAny, ListsTicket, MayReadTickets, OpensTicket
<1>9. CASE row.kind = "call"
  <2>1. (Listed <=> ListsCall(row))
          /\ (Opened <=> OpensCall(row)) /\ (Found <=> FindsCall(row) \/ SearchesRecording(row))
    BY <1>9 DEF Listed, Opened, Found
  <2> QED
    BY <1>9, <2>1, CallerMay, SomeRole
    DEF VisibilityInv, WaysAgree, ListsAndReadsAgree, FoundMeansOpens, BytesFollowTheRecord,
        PortalShowsOwnRecords,
        HasAny, FindsCall, ListensToCall, ListsCall, MayReadCalls, OpensCall, SearchesRecording
<1>10. CASE row.kind = "activity"
  <2>1. (Listed <=> ListsActivity(row)) /\ (Opened <=> OpensActivity(row)) /\ (Found <=> FALSE)
    BY <1>10 DEF Listed, Opened, Found
  <2> QED
    BY <1>10, <2>1, CallerMay, SomeRole
    DEF VisibilityInv, WaysAgree, ListsAndReadsAgree, FoundMeansOpens, BytesFollowTheRecord,
        PortalShowsOwnRecords,
        HasAny, ClientVisible, ListsActivity, MayReadClients, OpensActivity, OpensClient
<1>11. CASE row.kind = "voice_note"
  <2>1. (Listed <=> ListsVoiceNote(row)) /\ (Opened <=> OpensVoiceNote(row)) /\ (Found <=> FALSE)
    BY <1>11 DEF Listed, Opened, Found
  <2> QED
    BY <1>11, <2>1, CallerMay, SomeRole
    DEF VisibilityInv, WaysAgree, ListsAndReadsAgree, FoundMeansOpens, BytesFollowTheRecord,
        PortalShowsOwnRecords,
        HasAny, ListsVoiceNote, MayHear, OpensVoiceNote
<1>12. CASE row.kind = "approval"
  <2>1. (Listed <=> ListsApproval(row)) /\ (Opened <=> FALSE) /\ (Found <=> FALSE)
    BY <1>12 DEF Listed, Opened, Found
  <2> QED
    BY <1>12, <2>1, CallerMay, SomeRole
    DEF VisibilityInv, WaysAgree, ListsAndReadsAgree, FoundMeansOpens, BytesFollowTheRecord,
        PortalShowsOwnRecords,
        HasAny, ListsApproval
<1>13. CASE row.kind = "computation"
  <2>1. (Listed <=> ListsComputation(row)) /\ (Opened <=> OpensComputation(row)) /\ (Found <=> FALSE)
    BY <1>13 DEF Listed, Opened, Found
  <2> QED
    BY <1>13, <2>1, CallerMay, SomeRole
    DEF VisibilityInv, WaysAgree, ListsAndReadsAgree, FoundMeansOpens, BytesFollowTheRecord,
        PortalShowsOwnRecords,
        HasAny, ListsComputation, OpensComputation
<1>14. CASE row.kind = "task"
  <2>1. (Listed <=> ListsTask(row)) /\ (Opened <=> FALSE) /\ (Found <=> FALSE)
    BY <1>14 DEF Listed, Opened, Found
  <2> QED
    BY <1>14, <2>1, CallerMay, SomeRole
    DEF VisibilityInv, WaysAgree, ListsAndReadsAgree, FoundMeansOpens, BytesFollowTheRecord,
        PortalShowsOwnRecords,
        HasAny, ListsTask
<1> QED
  BY <1>1, <1>2, <1>3, <1>4, <1>5, <1>6, <1>7, <1>8, <1>9, <1>10, <1>11, <1>12, <1>13,
     <1>14 DEF VisibilityInv, Kinds

\* Every way to a row asks the same question, for any customers, any combination of the roles, any
\* permissions denied by overrides, and whatever becomes of the row, of the contacts and of the
\* assignments: lists, opened records, search, exports and downloads (clients.js, documents.js,
\* queries.js, reports.js, billing.js, tickets.js, calls.js and the others' visibility clauses).
THEOREM VisibilityCorrect == VisibilitySpec => []EveryWayAgrees
<1>1. VisibilityInit => VisibilityInv
  BY VisibilityStarts
<1>2. VisibilityInv /\ [VisibilityNext]_visibilityVars => VisibilityInv'
  BY VisibilitySteps
<1>3. VisibilityInv => EveryWayAgrees
  <2>1. VisibilityInv => VisibilityTypeOK
    BY DEF VisibilityInv, VisibilityTypeOK
  <2> QED
    BY <2>1, EveryWay DEF WaysAgree, EveryWayAgrees
<1> QED
  BY <1>1, <1>2, <1>3, PTL DEF VisibilitySpec

-----------------------------------------------------------------------------
(***************************************************************************)
(* The browser: whom each route opens for                                  *)
(***************************************************************************)

\* The server gives everything the screen of a route must have.
Opens(P, route) == \A ask \in ScreenAt(route).must : Allowed(P, DemandOf(ask))

\* Whom each route opens for.
WhoOpens(P) ==
    /\ Opens(P, "/admin/dashboard")
    /\ Opens(P, "/manager/dashboard")
    /\ Opens(P, "/finance/dashboard")
    /\ Opens(P, "/auditor/dashboard")
    /\ Opens(P, "/client/dashboard")
    /\ Opens(P, "/clients") <=> Allowed(P, {"clients.view", "clients.view.assigned", "clients.view.own"})
    /\ Opens(P, "/clients/:id") <=> Allowed(P, {"clients.view", "clients.view.assigned", "clients.view.own"})
    /\ Opens(P, "/documents") <=> Allowed(P, {"documents.view", "documents.view.own"})
    /\ Opens(P, "/documents/:id") <=> Allowed(P, {"documents.view", "documents.view.own"})
    /\ Opens(P, "/verification") <=> Allowed(P, {"documents.verify"})
    /\ Opens(P, "/verification/:id") <=> Allowed(P, {"documents.verify"})
    /\ Opens(P, "/queries") <=> Allowed(P, {"queries.view", "queries.view.own"})
    /\ Opens(P, "/queries/:id") <=> Allowed(P, {"queries.view", "queries.view.own"})
    /\ Opens(P, "/tax") <=> Allowed(P, {"tax.view"})
    /\ Opens(P, "/tax/:id") <=> Allowed(P, {"tax.view"})
    /\ Opens(P, "/tax/reconciliation")
    /\ Opens(P, "/reports") <=> Allowed(P, {"reports.view", "reports.view.own"})
    /\ Opens(P, "/reports/:id") <=> Allowed(P, {"reports.view", "reports.view.own"})
    /\ Opens(P, "/approvals") <=> Allowed(P, {"approvals.view"})
    /\ Opens(P, "/tasks") <=> Allowed(P, {"tasks.view"})
    /\ Opens(P, "/activity") <=> Allowed(P, {"clients.view", "clients.view.assigned", "clients.view.own"})
    /\ Opens(P, "/billing/subscription") <=> Allowed(P, {"billing.view"})
    /\ Opens(P, "/billing/invoices") <=> Allowed(P, {"invoices.view", "invoices.view.own"})
    /\ Opens(P, "/billing/invoices/:id") <=> Allowed(P, {"invoices.view", "invoices.view.own"})
    /\ Opens(P, "/billing/payments") <=> Allowed(P, {"payments.view"})
    /\ Opens(P, "/marketplace") <=> Allowed(P, {"addons.view"})
    /\ Opens(P, "/calls")
         <=> Allowed(P, {"calls.configure", "calls.view", "calls.view.own"})
             /\ Allowed(P, {"calls.view", "calls.view.own"})
    /\ Opens(P, "/calls/:id") <=> Allowed(P, {"calls.view", "calls.view.own"})
    /\ Opens(P, "/messaging/inbox") <=> Allowed(P, {"messaging.view"})
    /\ Opens(P, "/automation") <=> Allowed(P, {"automation.manage", "settings.view"})
    /\ Opens(P, "/leads") <=> Allowed(P, {"leads.view"})
    /\ Opens(P, "/voice-notes") <=> Allowed(P, {"voicenotes.create", "clients.view", "clients.view.assigned"})
    /\ Opens(P, "/support") <=> Allowed(P, {"support.view", "support.view.own"})
    /\ Opens(P, "/support/:id") <=> Allowed(P, {"support.view", "support.view.own"})
    /\ Opens(P, "/calendar") <=> Allowed(P, {"calendar.view"})
    /\ Opens(P, "/ai/assistant") <=> Allowed(P, {"ai.ocr", "ai.assistant", "ai.insights"})
    /\ Opens(P, "/ai/insights") <=> Allowed(P, {"ai.insights"})
    /\ Opens(P, "/ai/ocr") <=> Allowed(P, {"ai.ocr", "ai.assistant", "ai.insights"}) /\ Allowed(P, {"ai.ocr"})
    /\ Opens(P, "/analytics") <=> Allowed(P, {"analytics.view"})
    /\ Opens(P, "/analytics/builder") <=> Allowed(P, {"analytics.view"})
    /\ Opens(P, "/attendance") <=> Allowed(P, {"attendance.self"})
    /\ Opens(P, "/team") <=> Allowed(P, {"users.view"})
    /\ Opens(P, "/team/performance")
    /\ Opens(P, "/companies") <=> Allowed(P, {"companies.view"})
    /\ Opens(P, "/settings/users") <=> Allowed(P, {"users.view"})
    /\ Opens(P, "/settings/users/:id") <=> Allowed(P, {"users.view"})
    /\ Opens(P, "/settings")
    /\ Opens(P, "/settings/profile")
    /\ Opens(P, "/settings/password")
    /\ Opens(P, "/settings/security")
    /\ Opens(P, "/settings/integrations") <=> Allowed(P, {"integrations.view"})
    /\ Opens(P, "/settings/branding") <=> Allowed(P, {"settings.view"})
    /\ Opens(P, "/settings/branches") <=> Allowed(P, {"branches.view"})
    /\ Opens(P, "/settings/api") <=> Allowed(P, {"api.view"})
    /\ Opens(P, "/settings/backup") <=> Allowed(P, {"backup.view"})
    /\ Opens(P, "/audit") <=> Allowed(P, {"audit.view"})
    /\ Opens(P, "/client/upload")
         <=> Allowed(P, {"clients.view", "clients.view.assigned", "clients.view.own"})
             /\ Allowed(P, {"documents.view", "documents.view.own", "documents.upload"})
    /\ Opens(P, "/client/filings") <=> Allowed(P, {"clients.view", "clients.view.assigned", "clients.view.own"})
    /\ Opens(P, "/client/queries") <=> Allowed(P, {"queries.view", "queries.view.own"})
    /\ Opens(P, "/client/reports") <=> Allowed(P, {"reports.view", "reports.view.own"})
    /\ Opens(P, "/client/payments") <=> Allowed(P, {"payments.view"})
    /\ Opens(P, "/client/invoices") <=> Allowed(P, {"invoices.view", "invoices.view.own"})
    /\ Opens(P, "/platform/organisations") <=> Allowed(P, {"tenants.view"})
    /\ Opens(P, "/platform/organisations/:id") <=> Allowed(P, {"tenants.view"})
    /\ Opens(P, "/platform/franchises") <=> Allowed(P, {"franchises.view"})
    /\ Opens(P, "/platform/plans") <=> Allowed(P, {"plans.manage"})
    /\ Opens(P, "/platform/revenue") <=> Allowed(P, {"platform.analytics"})
    /\ Opens(P, "/platform/logs") <=> Allowed(P, {"platform.logs.view"})

\* The table, read off the screens and what the server demands for their calls.
LEMMA WhoOpensWhat == \A P : WhoOpens(P)
<1> SUFFICES ASSUME NEW P PROVE WhoOpens(P)
  OBVIOUS
<1>0. \A d : d = {} => Allowed(P, d)
  BY DEF Allowed
<1>1. Opens(P, "/admin/dashboard")
  <2>1. ScreenAt("/admin/dashboard").must = {"GET /dashboard"}
    BY DEF ScreenAt, PublicPaths, DashboardScreen, Screen
  <2>2. DemandOf("GET /dashboard") = {}
    BY DEF DemandOf
  <2> QED
    BY <1>0, <2>1, <2>2 DEF Opens
<1>2. Opens(P, "/manager/dashboard")
  <2>1. ScreenAt("/manager/dashboard").must = {"GET /dashboard"}
    BY DEF ScreenAt, PublicPaths, DashboardScreen, Screen
  <2>2. DemandOf("GET /dashboard") = {}
    BY DEF DemandOf
  <2> QED
    BY <1>0, <2>1, <2>2 DEF Opens
<1>3. Opens(P, "/finance/dashboard")
  <2>1. ScreenAt("/finance/dashboard").must = {"GET /dashboard"}
    BY DEF ScreenAt, PublicPaths, DashboardScreen, Screen
  <2>2. DemandOf("GET /dashboard") = {}
    BY DEF DemandOf
  <2> QED
    BY <1>0, <2>1, <2>2 DEF Opens
<1>4. Opens(P, "/auditor/dashboard")
  <2>1. ScreenAt("/auditor/dashboard").must = {"GET /dashboard"}
    BY DEF ScreenAt, PublicPaths, DashboardScreen, Screen
  <2>2. DemandOf("GET /dashboard") = {}
    BY DEF DemandOf
  <2> QED
    BY <1>0, <2>1, <2>2 DEF Opens
<1>5. Opens(P, "/client/dashboard")
  <2>1. ScreenAt("/client/dashboard").must = {"GET /dashboard"}
    BY DEF ScreenAt, PublicPaths, PortalDashboard, Screen
  <2>2. DemandOf("GET /dashboard") = {}
    BY DEF DemandOf
  <2> QED
    BY <1>0, <2>1, <2>2 DEF Opens
<1>6. Opens(P, "/clients") <=> Allowed(P, {"clients.view", "clients.view.assigned", "clients.view.own"})
  <2>1. ScreenAt("/clients").must = {"GET /clients"}
    BY DEF ScreenAt, PublicPaths, ClientsScreen, Screen
  <2>2. DemandOf("GET /clients") = {"clients.view", "clients.view.assigned", "clients.view.own"}
    BY DEF DemandOf
  <2> QED
    BY <1>0, <2>1, <2>2 DEF Opens
<1>7. Opens(P, "/clients/:id") <=> Allowed(P, {"clients.view", "clients.view.assigned", "clients.view.own"})
  <2>1. ScreenAt("/clients/:id").must = {"GET /clients/:id"}
    BY DEF ScreenAt, PublicPaths, ClientScreen, Screen
  <2>2. DemandOf("GET /clients/:id") = {"clients.view", "clients.view.assigned", "clients.view.own"}
    BY DEF DemandOf
  <2> QED
    BY <1>0, <2>1, <2>2 DEF Opens
<1>8. Opens(P, "/documents") <=> Allowed(P, {"documents.view", "documents.view.own"})
  <2>1. ScreenAt("/documents").must = {"GET /documents"}
    BY DEF ScreenAt, PublicPaths, DocumentsScreen, Screen
  <2>2. DemandOf("GET /documents") = {"documents.view", "documents.view.own"}
    BY DEF DemandOf
  <2> QED
    BY <1>0, <2>1, <2>2 DEF Opens
<1>9. Opens(P, "/documents/:id") <=> Allowed(P, {"documents.view", "documents.view.own"})
  <2>1. ScreenAt("/documents/:id").must = {"GET /documents/:id"}
    BY DEF ScreenAt, PublicPaths, DocumentScreen, Screen
  <2>2. DemandOf("GET /documents/:id") = {"documents.view", "documents.view.own"}
    BY DEF DemandOf
  <2> QED
    BY <1>0, <2>1, <2>2 DEF Opens
<1>10. Opens(P, "/verification") <=> Allowed(P, {"documents.verify"})
  <2>1. ScreenAt("/verification").must = {"GET /verification/queue"}
    BY DEF ScreenAt, PublicPaths, QueueScreen, Screen
  <2>2. DemandOf("GET /verification/queue") = {"documents.verify"}
    BY DEF DemandOf
  <2> QED
    BY <1>0, <2>1, <2>2 DEF Opens
<1>11. Opens(P, "/verification/:id") <=> Allowed(P, {"documents.verify"})
  <2>1. ScreenAt("/verification/:id").must = {"GET /verification/:id"}
    BY DEF ScreenAt, PublicPaths, WorkspaceScreen, Screen
  <2>2. DemandOf("GET /verification/:id") = {"documents.verify"}
    BY DEF DemandOf
  <2> QED
    BY <1>0, <2>1, <2>2 DEF Opens
<1>12. Opens(P, "/queries") <=> Allowed(P, {"queries.view", "queries.view.own"})
  <2>1. ScreenAt("/queries").must = {"GET /queries"}
    BY DEF ScreenAt, PublicPaths, QueriesScreen, Screen
  <2>2. DemandOf("GET /queries") = {"queries.view", "queries.view.own"}
    BY DEF DemandOf
  <2> QED
    BY <1>0, <2>1, <2>2 DEF Opens
<1>13. Opens(P, "/queries/:id") <=> Allowed(P, {"queries.view", "queries.view.own"})
  <2>1. ScreenAt("/queries/:id").must = {"GET /queries/:id"}
    BY DEF ScreenAt, PublicPaths, ThreadScreen, Screen
  <2>2. DemandOf("GET /queries/:id") = {"queries.view", "queries.view.own"}
    BY DEF DemandOf
  <2> QED
    BY <1>0, <2>1, <2>2 DEF Opens
<1>14. Opens(P, "/tax") <=> Allowed(P, {"tax.view"})
  <2>1. ScreenAt("/tax").must = {"GET /tax/computations"}
    BY DEF ScreenAt, PublicPaths, TaxScreen, Screen
  <2>2. DemandOf("GET /tax/computations") = {"tax.view"}
    BY DEF DemandOf
  <2> QED
    BY <1>0, <2>1, <2>2 DEF Opens
<1>15. Opens(P, "/tax/:id") <=> Allowed(P, {"tax.view"})
  <2>1. ScreenAt("/tax/:id").must = {"GET /tax/computations/:id"}
    BY DEF ScreenAt, PublicPaths, ComputationScreen, Screen
  <2>2. DemandOf("GET /tax/computations/:id") = {"tax.view"}
    BY DEF DemandOf
  <2> QED
    BY <1>0, <2>1, <2>2 DEF Opens
<1>16. Opens(P, "/tax/reconciliation")
  BY DEF Opens, ScreenAt, PublicPaths, ReconciliationScreen, Screen
<1>17. Opens(P, "/reports") <=> Allowed(P, {"reports.view", "reports.view.own"})
  <2>1. ScreenAt("/reports").must = {"GET /reports"}
    BY DEF ScreenAt, PublicPaths, ReportsScreen, Screen
  <2>2. DemandOf("GET /reports") = {"reports.view", "reports.view.own"}
    BY DEF DemandOf
  <2> QED
    BY <1>0, <2>1, <2>2 DEF Opens
<1>18. Opens(P, "/reports/:id") <=> Allowed(P, {"reports.view", "reports.view.own"})
  <2>1. ScreenAt("/reports/:id").must = {"GET /reports/:id"}
    BY DEF ScreenAt, PublicPaths, ReportScreen, Screen
  <2>2. DemandOf("GET /reports/:id") = {"reports.view", "reports.view.own"}
    BY DEF DemandOf
  <2> QED
    BY <1>0, <2>1, <2>2 DEF Opens
<1>19. Opens(P, "/approvals") <=> Allowed(P, {"approvals.view"})
  <2>1. ScreenAt("/approvals").must = {"GET /approvals"}
    BY DEF ScreenAt, PublicPaths, ApprovalsScreen, Screen
  <2>2. DemandOf("GET /approvals") = {"approvals.view"}
    BY DEF DemandOf
  <2> QED
    BY <1>0, <2>1, <2>2 DEF Opens
<1>20. Opens(P, "/tasks") <=> Allowed(P, {"tasks.view"})
  <2>1. ScreenAt("/tasks").must = {"GET /tasks"}
    BY DEF ScreenAt, PublicPaths, TasksScreen, Screen
  <2>2. DemandOf("GET /tasks") = {"tasks.view"}
    BY DEF DemandOf
  <2> QED
    BY <1>0, <2>1, <2>2 DEF Opens
<1>21. Opens(P, "/activity") <=> Allowed(P, {"clients.view", "clients.view.assigned", "clients.view.own"})
  <2>1. ScreenAt("/activity").must = {"GET /activity"}
    BY DEF ScreenAt, PublicPaths, ActivityScreen, Screen
  <2>2. DemandOf("GET /activity") = {"clients.view", "clients.view.assigned", "clients.view.own"}
    BY DEF DemandOf
  <2> QED
    BY <1>0, <2>1, <2>2 DEF Opens
<1>22. Opens(P, "/billing/subscription") <=> Allowed(P, {"billing.view"})
  <2>1. ScreenAt("/billing/subscription").must = {"GET /billing/subscription", "GET /billing/plans"}
    BY DEF ScreenAt, PublicPaths, SubscriptionScreen, Screen
  <2>2. DemandOf("GET /billing/subscription") = {"billing.view"} /\ DemandOf("GET /billing/plans") = {}
    BY DEF DemandOf
  <2> QED
    BY <1>0, <2>1, <2>2 DEF Opens
<1>23. Opens(P, "/billing/invoices") <=> Allowed(P, {"invoices.view", "invoices.view.own"})
  <2>1. ScreenAt("/billing/invoices").must = {"GET /billing/invoices"}
    BY DEF ScreenAt, PublicPaths, InvoicesScreen, Screen
  <2>2. DemandOf("GET /billing/invoices") = {"invoices.view", "invoices.view.own"}
    BY DEF DemandOf
  <2> QED
    BY <1>0, <2>1, <2>2 DEF Opens
<1>24. Opens(P, "/billing/invoices/:id") <=> Allowed(P, {"invoices.view", "invoices.view.own"})
  <2>1. ScreenAt("/billing/invoices/:id").must = {"GET /billing/invoices/:id"}
    BY DEF ScreenAt, PublicPaths, InvoiceScreen, Screen
  <2>2. DemandOf("GET /billing/invoices/:id") = {"invoices.view", "invoices.view.own"}
    BY DEF DemandOf
  <2> QED
    BY <1>0, <2>1, <2>2 DEF Opens
<1>25. Opens(P, "/billing/payments") <=> Allowed(P, {"payments.view"})
  <2>1. ScreenAt("/billing/payments").must = {"GET /billing/payments"}
    BY DEF ScreenAt, PublicPaths, PaymentsScreen, Screen
  <2>2. DemandOf("GET /billing/payments") = {"payments.view"}
    BY DEF DemandOf
  <2> QED
    BY <1>0, <2>1, <2>2 DEF Opens
<1>26. Opens(P, "/marketplace") <=> Allowed(P, {"addons.view"})
  <2>1. ScreenAt("/marketplace").must = {"GET /addons"}
    BY DEF ScreenAt, PublicPaths, MarketplaceScreen, Screen
  <2>2. DemandOf("GET /addons") = {"addons.view"}
    BY DEF DemandOf
  <2> QED
    BY <1>0, <2>1, <2>2 DEF Opens
<1>27. Opens(P, "/calls")
         <=> Allowed(P, {"calls.configure", "calls.view", "calls.view.own"})
             /\ Allowed(P, {"calls.view", "calls.view.own"})
  <2>1. ScreenAt("/calls").must = {"GET /calls/settings", "GET /calls"}
    BY DEF ScreenAt, PublicPaths, CallsScreen, Screen
  <2>2. DemandOf("GET /calls/settings") = {"calls.configure", "calls.view", "calls.view.own"}
          /\ DemandOf("GET /calls") = {"calls.view", "calls.view.own"}
    BY DEF DemandOf
  <2> QED
    BY <1>0, <2>1, <2>2 DEF Opens
<1>28. Opens(P, "/calls/:id") <=> Allowed(P, {"calls.view", "calls.view.own"})
  <2>1. ScreenAt("/calls/:id").must = {"GET /calls/:id"}
    BY DEF ScreenAt, PublicPaths, CallScreen, Screen
  <2>2. DemandOf("GET /calls/:id") = {"calls.view", "calls.view.own"}
    BY DEF DemandOf
  <2> QED
    BY <1>0, <2>1, <2>2 DEF Opens
<1>29. Opens(P, "/messaging/inbox") <=> Allowed(P, {"messaging.view"})
  <2>1. ScreenAt("/messaging/inbox").must = {"GET /messaging/threads"}
    BY DEF ScreenAt, PublicPaths, InboxScreen, Screen
  <2>2. DemandOf("GET /messaging/threads") = {"messaging.view"}
    BY DEF DemandOf
  <2> QED
    BY <1>0, <2>1, <2>2 DEF Opens
<1>30. Opens(P, "/automation") <=> Allowed(P, {"automation.manage", "settings.view"})
  <2>1. ScreenAt("/automation").must = {"GET /automation"}
    BY DEF ScreenAt, PublicPaths, AutomationScreen, Screen
  <2>2. DemandOf("GET /automation") = {"automation.manage", "settings.view"}
    BY DEF DemandOf
  <2> QED
    BY <1>0, <2>1, <2>2 DEF Opens
<1>31. Opens(P, "/leads") <=> Allowed(P, {"leads.view"})
  <2>1. ScreenAt("/leads").must = {"GET /leads"}
    BY DEF ScreenAt, PublicPaths, LeadsScreen, Screen
  <2>2. DemandOf("GET /leads") = {"leads.view"}
    BY DEF DemandOf
  <2> QED
    BY <1>0, <2>1, <2>2 DEF Opens
<1>32. Opens(P, "/voice-notes") <=> Allowed(P, {"voicenotes.create", "clients.view", "clients.view.assigned"})
  <2>1. ScreenAt("/voice-notes").must = {"GET /voice-notes"}
    BY DEF ScreenAt, PublicPaths, VoiceNotesScreen, Screen
  <2>2. DemandOf("GET /voice-notes") = {"voicenotes.create", "clients.view", "clients.view.assigned"}
    BY DEF DemandOf
  <2> QED
    BY <1>0, <2>1, <2>2 DEF Opens
<1>33. Opens(P, "/support") <=> Allowed(P, {"support.view", "support.view.own"})
  <2>1. ScreenAt("/support").must = {"GET /support"}
    BY DEF ScreenAt, PublicPaths, TicketsScreen, Screen
  <2>2. DemandOf("GET /support") = {"support.view", "support.view.own"}
    BY DEF DemandOf
  <2> QED
    BY <1>0, <2>1, <2>2 DEF Opens
<1>34. Opens(P, "/support/:id") <=> Allowed(P, {"support.view", "support.view.own"})
  <2>1. ScreenAt("/support/:id").must = {"GET /support/:id"}
    BY DEF ScreenAt, PublicPaths, TicketScreen, Screen
  <2>2. DemandOf("GET /support/:id") = {"support.view", "support.view.own"}
    BY DEF DemandOf
  <2> QED
    BY <1>0, <2>1, <2>2 DEF Opens
<1>35. Opens(P, "/calendar") <=> Allowed(P, {"calendar.view"})
  <2>1. ScreenAt("/calendar").must = {"GET /calendar"}
    BY DEF ScreenAt, PublicPaths, CalendarScreen, Screen
  <2>2. DemandOf("GET /calendar") = {"calendar.view"}
    BY DEF DemandOf
  <2> QED
    BY <1>0, <2>1, <2>2 DEF Opens
<1>36. Opens(P, "/ai/assistant") <=> Allowed(P, {"ai.ocr", "ai.assistant", "ai.insights"})
  <2>1. ScreenAt("/ai/assistant").must = {"GET /ai/status"}
    BY DEF ScreenAt, PublicPaths, AssistantScreen, Screen
  <2>2. DemandOf("GET /ai/status") = {"ai.ocr", "ai.assistant", "ai.insights"}
    BY DEF DemandOf
  <2> QED
    BY <1>0, <2>1, <2>2 DEF Opens
<1>37. Opens(P, "/ai/insights") <=> Allowed(P, {"ai.insights"})
  <2>1. ScreenAt("/ai/insights").must = {"GET /ai/insights"}
    BY DEF ScreenAt, PublicPaths, InsightsScreen, Screen
  <2>2. DemandOf("GET /ai/insights") = {"ai.insights"}
    BY DEF DemandOf
  <2> QED
    BY <1>0, <2>1, <2>2 DEF Opens
<1>38. Opens(P, "/ai/ocr") <=> Allowed(P, {"ai.ocr", "ai.assistant", "ai.insights"}) /\ Allowed(P, {"ai.ocr"})
  <2>1. ScreenAt("/ai/ocr").must = {"GET /ai/status", "GET /ai/ocr"}
    BY DEF ScreenAt, PublicPaths, OcrScreen, Screen
  <2>2. DemandOf("GET /ai/status") = {"ai.ocr", "ai.assistant", "ai.insights"}
          /\ DemandOf("GET /ai/ocr") = {"ai.ocr"}
    BY DEF DemandOf
  <2> QED
    BY <1>0, <2>1, <2>2 DEF Opens
<1>39. Opens(P, "/analytics") <=> Allowed(P, {"analytics.view"})
  <2>1. ScreenAt("/analytics").must = {"GET /analytics/trends"}
    BY DEF ScreenAt, PublicPaths, AnalyticsScreen, Screen
  <2>2. DemandOf("GET /analytics/trends") = {"analytics.view"}
    BY DEF DemandOf
  <2> QED
    BY <1>0, <2>1, <2>2 DEF Opens
<1>40. Opens(P, "/analytics/builder") <=> Allowed(P, {"analytics.view"})
  <2>1. ScreenAt("/analytics/builder").must = {"GET /analytics/datasets"}
    BY DEF ScreenAt, PublicPaths, BuilderScreen, Screen
  <2>2. DemandOf("GET /analytics/datasets") = {"analytics.view"}
    BY DEF DemandOf
  <2> QED
    BY <1>0, <2>1, <2>2 DEF Opens
<1>41. Opens(P, "/attendance") <=> Allowed(P, {"attendance.self"})
  <2>1. ScreenAt("/attendance").must = {"GET /attendance/today"}
    BY DEF ScreenAt, PublicPaths, AttendanceScreen, Screen
  <2>2. DemandOf("GET /attendance/today") = {"attendance.self"}
    BY DEF DemandOf
  <2> QED
    BY <1>0, <2>1, <2>2 DEF Opens
<1>42. Opens(P, "/team") <=> Allowed(P, {"users.view"})
  <2>1. ScreenAt("/team").must = {"GET /users"}
    BY DEF ScreenAt, PublicPaths, TeamScreen, Screen
  <2>2. DemandOf("GET /users") = {"users.view"}
    BY DEF DemandOf
  <2> QED
    BY <1>0, <2>1, <2>2 DEF Opens
<1>43. Opens(P, "/team/performance")
  BY DEF Opens, ScreenAt, PublicPaths, PerformanceScreen, Screen
<1>44. Opens(P, "/companies") <=> Allowed(P, {"companies.view"})
  <2>1. ScreenAt("/companies").must = {"GET /companies"}
    BY DEF ScreenAt, PublicPaths, CompaniesScreen, Screen
  <2>2. DemandOf("GET /companies") = {"companies.view"}
    BY DEF DemandOf
  <2> QED
    BY <1>0, <2>1, <2>2 DEF Opens
<1>45. Opens(P, "/settings/users") <=> Allowed(P, {"users.view"})
  <2>1. ScreenAt("/settings/users").must = {"GET /users"}
    BY DEF ScreenAt, PublicPaths, TeamScreen, Screen
  <2>2. DemandOf("GET /users") = {"users.view"}
    BY DEF DemandOf
  <2> QED
    BY <1>0, <2>1, <2>2 DEF Opens
<1>46. Opens(P, "/settings/users/:id") <=> Allowed(P, {"users.view"})
  <2>1. ScreenAt("/settings/users/:id").must = {"GET /users/:id"}
    BY DEF ScreenAt, PublicPaths, PersonScreen, Screen
  <2>2. DemandOf("GET /users/:id") = {"users.view"}
    BY DEF DemandOf
  <2> QED
    BY <1>0, <2>1, <2>2 DEF Opens
<1>47. Opens(P, "/settings")
  BY DEF Opens, ScreenAt, PublicPaths, SettingsScreen, Screen
<1>48. Opens(P, "/settings/profile")
  BY DEF Opens, ScreenAt, PublicPaths, ProfileScreen, Screen
<1>49. Opens(P, "/settings/password")
  BY DEF Opens, ScreenAt, PublicPaths, PasswordScreen, Screen
<1>50. Opens(P, "/settings/security")
  <2>1. ScreenAt("/settings/security").must = {"GET /auth/sessions"}
    BY DEF ScreenAt, PublicPaths, SecurityScreen, Screen
  <2>2. DemandOf("GET /auth/sessions") = {}
    BY DEF DemandOf
  <2> QED
    BY <1>0, <2>1, <2>2 DEF Opens
<1>51. Opens(P, "/settings/integrations") <=> Allowed(P, {"integrations.view"})
  <2>1. ScreenAt("/settings/integrations").must = {"GET /integrations"}
    BY DEF ScreenAt, PublicPaths, IntegrationsScreen, Screen
  <2>2. DemandOf("GET /integrations") = {"integrations.view"}
    BY DEF DemandOf
  <2> QED
    BY <1>0, <2>1, <2>2 DEF Opens
<1>52. Opens(P, "/settings/branding") <=> Allowed(P, {"settings.view"})
  <2>1. ScreenAt("/settings/branding").must = {"GET /branding"}
    BY DEF ScreenAt, PublicPaths, BrandingScreen, Screen
  <2>2. DemandOf("GET /branding") = {"settings.view"}
    BY DEF DemandOf
  <2> QED
    BY <1>0, <2>1, <2>2 DEF Opens
<1>53. Opens(P, "/settings/branches") <=> Allowed(P, {"branches.view"})
  <2>1. ScreenAt("/settings/branches").must = {"GET /branches"}
    BY DEF ScreenAt, PublicPaths, BranchesScreen, Screen
  <2>2. DemandOf("GET /branches") = {"branches.view"}
    BY DEF DemandOf
  <2> QED
    BY <1>0, <2>1, <2>2 DEF Opens
<1>54. Opens(P, "/settings/api") <=> Allowed(P, {"api.view"})
  <2>1. ScreenAt("/settings/api").must = {"GET /api-keys"}
    BY DEF ScreenAt, PublicPaths, KeysScreen, Screen
  <2>2. DemandOf("GET /api-keys") = {"api.view"}
    BY DEF DemandOf
  <2> QED
    BY <1>0, <2>1, <2>2 DEF Opens
<1>55. Opens(P, "/settings/backup") <=> Allowed(P, {"backup.view"})
  <2>1. ScreenAt("/settings/backup").must = {"GET /backups"}
    BY DEF ScreenAt, PublicPaths, BackupScreen, Screen
  <2>2. DemandOf("GET /backups") = {"backup.view"}
    BY DEF DemandOf
  <2> QED
    BY <1>0, <2>1, <2>2 DEF Opens
<1>56. Opens(P, "/audit") <=> Allowed(P, {"audit.view"})
  <2>1. ScreenAt("/audit").must = {"GET /audit"}
    BY DEF ScreenAt, PublicPaths, AuditScreen, Screen
  <2>2. DemandOf("GET /audit") = {"audit.view"}
    BY DEF DemandOf
  <2> QED
    BY <1>0, <2>1, <2>2 DEF Opens
<1>57. Opens(P, "/client/upload")
         <=> Allowed(P, {"clients.view", "clients.view.assigned", "clients.view.own"})
             /\ Allowed(P, {"documents.view", "documents.view.own", "documents.upload"})
  <2>1. ScreenAt("/client/upload").must = {"GET /clients", "GET /documents/types/list"}
    BY DEF ScreenAt, PublicPaths, UploadScreen, Screen
  <2>2. DemandOf("GET /clients") = {"clients.view", "clients.view.assigned", "clients.view.own"}
          /\ DemandOf("GET /documents/types/list") = {"documents.view", "documents.view.own",
               "documents.upload"}
    BY DEF DemandOf
  <2> QED
    BY <1>0, <2>1, <2>2 DEF Opens
<1>58. Opens(P, "/client/filings") <=> Allowed(P, {"clients.view", "clients.view.assigned", "clients.view.own"})
  <2>1. ScreenAt("/client/filings").must = {"GET /clients", "GET /clients/:id/periods"}
    BY DEF ScreenAt, PublicPaths, FilingsScreen, Screen
  <2>2. DemandOf("GET /clients") = {"clients.view", "clients.view.assigned", "clients.view.own"}
          /\ DemandOf("GET /clients/:id/periods") = {"clients.view", "clients.view.assigned",
               "clients.view.own"}
    BY DEF DemandOf
  <2> QED
    BY <1>0, <2>1, <2>2 DEF Opens
<1>59. Opens(P, "/client/queries") <=> Allowed(P, {"queries.view", "queries.view.own"})
  <2>1. ScreenAt("/client/queries").must = {"GET /queries"}
    BY DEF ScreenAt, PublicPaths, QueriesScreen, Screen
  <2>2. DemandOf("GET /queries") = {"queries.view", "queries.view.own"}
    BY DEF DemandOf
  <2> QED
    BY <1>0, <2>1, <2>2 DEF Opens
<1>60. Opens(P, "/client/reports") <=> Allowed(P, {"reports.view", "reports.view.own"})
  <2>1. ScreenAt("/client/reports").must = {"GET /reports"}
    BY DEF ScreenAt, PublicPaths, ReportsScreen, Screen
  <2>2. DemandOf("GET /reports") = {"reports.view", "reports.view.own"}
    BY DEF DemandOf
  <2> QED
    BY <1>0, <2>1, <2>2 DEF Opens
<1>61. Opens(P, "/client/payments") <=> Allowed(P, {"payments.view"})
  <2>1. ScreenAt("/client/payments").must = {"GET /billing/payments"}
    BY DEF ScreenAt, PublicPaths, PaymentsScreen, Screen
  <2>2. DemandOf("GET /billing/payments") = {"payments.view"}
    BY DEF DemandOf
  <2> QED
    BY <1>0, <2>1, <2>2 DEF Opens
<1>62. Opens(P, "/client/invoices") <=> Allowed(P, {"invoices.view", "invoices.view.own"})
  <2>1. ScreenAt("/client/invoices").must = {"GET /billing/invoices"}
    BY DEF ScreenAt, PublicPaths, InvoicesScreen, Screen
  <2>2. DemandOf("GET /billing/invoices") = {"invoices.view", "invoices.view.own"}
    BY DEF DemandOf
  <2> QED
    BY <1>0, <2>1, <2>2 DEF Opens
<1>63. Opens(P, "/platform/organisations") <=> Allowed(P, {"tenants.view"})
  <2>1. ScreenAt("/platform/organisations").must = {"GET /platform/tenants"}
    BY DEF ScreenAt, PublicPaths, TenantsScreen, Screen
  <2>2. DemandOf("GET /platform/tenants") = {"tenants.view"}
    BY DEF DemandOf
  <2> QED
    BY <1>0, <2>1, <2>2 DEF Opens
<1>64. Opens(P, "/platform/organisations/:id") <=> Allowed(P, {"tenants.view"})
  <2>1. ScreenAt("/platform/organisations/:id").must = {"GET /platform/tenants/:id"}
    BY DEF ScreenAt, PublicPaths, TenantScreen, Screen
  <2>2. DemandOf("GET /platform/tenants/:id") = {"tenants.view"}
    BY DEF DemandOf
  <2> QED
    BY <1>0, <2>1, <2>2 DEF Opens
<1>65. Opens(P, "/platform/franchises") <=> Allowed(P, {"franchises.view"})
  <2>1. ScreenAt("/platform/franchises").must = {"GET /platform/franchises"}
    BY DEF ScreenAt, PublicPaths, FranchisesScreen, Screen
  <2>2. DemandOf("GET /platform/franchises") = {"franchises.view"}
    BY DEF DemandOf
  <2> QED
    BY <1>0, <2>1, <2>2 DEF Opens
<1>66. Opens(P, "/platform/plans") <=> Allowed(P, {"plans.manage"})
  <2>1. ScreenAt("/platform/plans").must = {"GET /platform/plans"}
    BY DEF ScreenAt, PublicPaths, PlansScreen, Screen
  <2>2. DemandOf("GET /platform/plans") = {"plans.manage"}
    BY DEF DemandOf
  <2> QED
    BY <1>0, <2>1, <2>2 DEF Opens
<1>67. Opens(P, "/platform/revenue") <=> Allowed(P, {"platform.analytics"})
  <2>1. ScreenAt("/platform/revenue").must = {"GET /platform/revenue"}
    BY DEF ScreenAt, PublicPaths, RevenueScreen, Screen
  <2>2. DemandOf("GET /platform/revenue") = {"platform.analytics"}
    BY DEF DemandOf
  <2> QED
    BY <1>0, <2>1, <2>2 DEF Opens
<1>68. Opens(P, "/platform/logs") <=> Allowed(P, {"platform.logs.view"})
  <2>1. ScreenAt("/platform/logs").must = {"GET /platform/logs"}
    BY DEF ScreenAt, PublicPaths, LogsScreen, Screen
  <2>2. DemandOf("GET /platform/logs") = {"platform.logs.view"}
    BY DEF DemandOf
  <2> QED
    BY <1>0, <2>1, <2>2 DEF Opens
<1> QED
  BY <1>1, <1>2, <1>3, <1>4, <1>5, <1>6, <1>7, <1>8, <1>9, <1>10, <1>11, <1>12, <1>13, <1>14, <1>15, <1>16,
     <1>17, <1>18, <1>19, <1>20, <1>21, <1>22, <1>23, <1>24, <1>25, <1>26, <1>27, <1>28, <1>29, <1>30, <1>31,
     <1>32, <1>33, <1>34, <1>35, <1>36, <1>37, <1>38, <1>39, <1>40, <1>41, <1>42, <1>43, <1>44, <1>45, <1>46,
     <1>47, <1>48, <1>49, <1>50, <1>51, <1>52, <1>53, <1>54, <1>55, <1>56, <1>57, <1>58, <1>59, <1>60, <1>61,
     <1>62, <1>63, <1>64, <1>65, <1>66, <1>67, <1>68
  DEF WhoOpens

-----------------------------------------------------------------------------
(***************************************************************************)
(* The browser: what the sidebar, the controls and the rows lead to        *)
(***************************************************************************)

\* An entry of the sidebar leads to a route there is, and one that opens for whom it is shown.
GoodEntry(P, item) ==
    /\ item.path \in Paths
    /\ item.key \in WiderThanTheScreen \/ (Allowed(P, item.anyOf) => Opens(P, item.path))

\* The entries of the group platform.
LEMMA PlatformEntries == \A P : \A item \in Nav.platform : GoodEntry(P, item)
<1> SUFFICES ASSUME NEW P PROVE \A item \in Nav.platform : GoodEntry(P, item)
  OBVIOUS
<1>1. {"/admin/dashboard", "/platform/organisations", "/platform/franchises", "/platform/plans",
        "/platform/revenue", "/platform/logs"} \subseteq Paths
  BY DEF Paths
<1>2. /\ GoodEntry(P, Item("platform_dashboard", "/admin/dashboard", {"platform.analytics"}))
      /\ GoodEntry(P, Item("organisations", "/platform/organisations", {"tenants.view"}))
      /\ GoodEntry(P, Locked("franchise", Item("franchises", "/platform/franchises", {"franchises.view"})))
      /\ GoodEntry(P, Item("plans", "/platform/plans", {"plans.manage"}))
      /\ GoodEntry(P, Item("platform_revenue", "/platform/revenue", {"platform.analytics"}))
      /\ GoodEntry(P, Item("system_logs", "/platform/logs", {"platform.logs.view"}))
  BY <1>1, WhoOpensWhat DEF WhoOpens, GoodEntry, Allowed, Item, Locked
<1> QED
  BY <1>2 DEF Nav

\* The entries of the group workspace.
LEMMA WorkspaceEntries == \A P : \A item \in Nav.workspace : GoodEntry(P, item)
<1> SUFFICES ASSUME NEW P PROVE \A item \in Nav.workspace : GoodEntry(P, item)
  OBVIOUS
<1>1. {"/admin/dashboard", "/companies", "/settings/users", "/billing/subscription", "/billing/payments",
        "/analytics", "/audit", "/settings/backup"} \subseteq Paths
  BY DEF Paths
<1>2. /\ GoodEntry(P, Among({"super_admin", "admin"}, Item("dashboard", "/admin/dashboard",
           {"platform.analytics", "analytics.view"})))
      /\ GoodEntry(P, Item("companies", "/companies", {"companies.view"}))
      /\ GoodEntry(P, Item("users_roles", "/settings/users", {"users.view"}))
      /\ GoodEntry(P, Item("subscriptions", "/billing/subscription", {"billing.view"}))
      /\ GoodEntry(P, Item("payments", "/billing/payments", {"payments.view"}))
      /\ GoodEntry(P, Item("analytics", "/analytics", {"analytics.view"}))
      /\ GoodEntry(P, Locked("audit_logs", Item("audit_logs", "/audit", {"audit.view"})))
      /\ GoodEntry(P, Item("backup", "/settings/backup", {"backup.view"}))
  BY <1>1, WhoOpensWhat DEF WhoOpens, GoodEntry, Allowed, Item, Among, Locked
<1> QED
  BY <1>2 DEF Nav

\* The entries of the group finance.
LEMMA FinanceEntries == \A P : \A item \in Nav.finance : GoodEntry(P, item)
<1> SUFFICES ASSUME NEW P PROVE \A item \in Nav.finance : GoodEntry(P, item)
  OBVIOUS
<1>1. {"/finance/dashboard", "/clients", "/verification", "/tax", "/tax/reconciliation", "/tasks", "/reports",
        "/activity"} \subseteq Paths
  BY DEF Paths
<1>2. /\ GoodEntry(P, Among({"finance_executive", "accountant"}, Item("finance_dashboard",
           "/finance/dashboard", {"documents.verify", "tax.calculate"})))
      /\ GoodEntry(P, Item("clients", "/clients", {"clients.view", "clients.view.assigned"}))
      /\ GoodEntry(P, Item("verification", "/verification", {"documents.verify"}))
      /\ GoodEntry(P, Item("tax", "/tax", {"tax.view"}))
      /\ GoodEntry(P, Item("reconciliation", "/tax/reconciliation", {"tax.reconcile"}))
      /\ GoodEntry(P, Item("tasks", "/tasks", {"tasks.view"}))
      /\ GoodEntry(P, Item("reports", "/reports", {"reports.view", "reports.view.own"}))
      /\ GoodEntry(P, Item("activity", "/activity", {"clients.view", "clients.view.assigned"}))
  BY <1>1, WhoOpensWhat DEF WhoOpens, GoodEntry, Allowed, Item, Among
<1> QED
  BY <1>2 DEF Nav

\* The entries of the group manager.
LEMMA ManagerEntries == \A P : \A item \in Nav.manager : GoodEntry(P, item)
<1> SUFFICES ASSUME NEW P PROVE \A item \in Nav.manager : GoodEntry(P, item)
  OBVIOUS
<1>1. {"/manager/dashboard", "/approvals", "/team", "/team/performance", "/billing/payments"} \subseteq Paths
  BY DEF Paths
<1>2. /\ GoodEntry(P, Among({"finance_manager"}, Item("manager_dashboard", "/manager/dashboard",
           {"approvals.view"})))
      /\ GoodEntry(P, Item("approvals", "/approvals", {"approvals.view"}))
      /\ GoodEntry(P, Among({"finance_manager", "admin", "super_admin"}, Item("team", "/team", {"users.view"})))
      /\ GoodEntry(P, Among({"finance_manager", "admin", "super_admin"}, Item("performance",
           "/team/performance", {"analytics.view"})))
  BY <1>1, WhoOpensWhat DEF WhoOpens, GoodEntry, Allowed, Item, Among
<1>3. GoodEntry(P, Among({"finance_manager", "admin", "super_admin"}, Item("revenue",
        "/billing/payments", {"billing.view"})))
  BY <1>1 DEF GoodEntry, WiderThanTheScreen, Item, Among
<1> QED
  BY <1>2, <1>3 DEF Nav

\* The entries of the group client.
LEMMA ClientEntries == \A P : \A item \in Nav.client : GoodEntry(P, item)
<1> SUFFICES ASSUME NEW P PROVE \A item \in Nav.client : GoodEntry(P, item)
  OBVIOUS
<1>1. {"/client/dashboard", "/client/upload", "/client/filings", "/client/queries", "/client/reports",
        "/client/payments", "/client/invoices", "/support"} \subseteq Paths
  BY DEF Paths
<1>2. /\ GoodEntry(P, Item("client_dashboard", "/client/dashboard", {"portal.access"}))
      /\ GoodEntry(P, Item("client_queries", "/client/queries", {"queries.view.own"}))
      /\ GoodEntry(P, Item("client_reports", "/client/reports", {"reports.view.own"}))
      /\ GoodEntry(P, Item("client_payments", "/client/payments", {"payments.view"}))
      /\ GoodEntry(P, Item("client_invoices", "/client/invoices", {"invoices.view.own"}))
      /\ GoodEntry(P, Item("client_support", "/support", {"support.view.own", "support.view"}))
  BY <1>1, WhoOpensWhat DEF WhoOpens, GoodEntry, Allowed, Item
<1>3. /\ GoodEntry(P, Item("upload", "/client/upload", {"documents.upload"}))
      /\ GoodEntry(P, Item("filing_status", "/client/filings", {"portal.access"}))
  BY <1>1 DEF GoodEntry, WiderThanTheScreen, Item
<1> QED
  BY <1>2, <1>3 DEF Nav

\* The entries of the group auditor.
LEMMA AuditorEntries == \A P : \A item \in Nav.auditor : GoodEntry(P, item)
<1> SUFFICES ASSUME NEW P PROVE \A item \in Nav.auditor : GoodEntry(P, item)
  OBVIOUS
<1>1. {"/auditor/dashboard", "/documents", "/audit", "/reports"} \subseteq Paths
  BY DEF Paths
<1>2. /\ GoodEntry(P, Among({"auditor"}, Item("auditor_dashboard", "/auditor/dashboard", {"audit.view"})))
      /\ GoodEntry(P, Among({"auditor"}, Item("verified_docs", "/documents", {"documents.view"})))
      /\ GoodEntry(P, Among({"auditor"}, Item("auditor_logs", "/audit", {"audit.view"})))
      /\ GoodEntry(P, Among({"auditor"}, Item("auditor_reports", "/reports", {"reports.view"})))
  BY <1>1, WhoOpensWhat DEF WhoOpens, GoodEntry, Allowed, Item, Among
<1> QED
  BY <1>2 DEF Nav

\* The entries of the group communication.
LEMMA CommunicationEntries == \A P : \A item \in Nav.communication : GoodEntry(P, item)
<1> SUFFICES ASSUME NEW P PROVE \A item \in Nav.communication : GoodEntry(P, item)
  OBVIOUS
<1>1. {"/calls", "/messaging/inbox", "/automation", "/leads", "/voice-notes", "/calendar",
        "/support"} \subseteq Paths
  BY DEF Paths
<1>2. /\ GoodEntry(P, Locked("cloud_telephony", Item("calls", "/calls", {"calls.view", "calls.view.own"})))
      /\ GoodEntry(P, Locked("whatsapp_integration", Item("inbox", "/messaging/inbox", {"messaging.view"})))
      /\ GoodEntry(P, Locked("email_automation", Item("automation", "/automation", {"automation.manage"})))
      /\ GoodEntry(P, Locked("meta_lead_ads", Item("leads", "/leads", {"leads.view"})))
      /\ GoodEntry(P, Locked("voice_notes", Item("voice_notes", "/voice-notes", {"voicenotes.create"})))
      /\ GoodEntry(P, Item("support", "/support", {"support.view"}))
  BY <1>1, WhoOpensWhat DEF WhoOpens, GoodEntry, Allowed, Item, Locked
<1>3. GoodEntry(P, Locked("calendar_sync", Item("calendar", "/calendar", {"tasks.view"})))
  BY <1>1 DEF GoodEntry, WiderThanTheScreen, Item, Locked
<1> QED
  BY <1>2, <1>3 DEF Nav

\* The entries of the group intelligence.
LEMMA IntelligenceEntries == \A P : \A item \in Nav.intelligence : GoodEntry(P, item)
<1> SUFFICES ASSUME NEW P PROVE \A item \in Nav.intelligence : GoodEntry(P, item)
  OBVIOUS
<1>1. {"/ai/assistant", "/ai/insights", "/ai/ocr", "/analytics/builder"} \subseteq Paths
  BY DEF Paths
<1>2. /\ GoodEntry(P, Locked("ai_tax_assistant", Item("ai_assistant", "/ai/assistant", {"ai.assistant"})))
      /\ GoodEntry(P, Locked("ai_business_insights", Item("ai_insights", "/ai/insights", {"ai.insights"})))
      /\ GoodEntry(P, Locked("ocr_ai", Item("ai_ocr", "/ai/ocr", {"ai.ocr"})))
  BY <1>1, WhoOpensWhat DEF WhoOpens, GoodEntry, Allowed, Item, Locked
<1>3. GoodEntry(P, Locked("advanced_reports", Item("report_builder", "/analytics/builder",
        {"analytics.build"})))
  BY <1>1 DEF GoodEntry, WiderThanTheScreen, Item, Locked
<1> QED
  BY <1>2, <1>3 DEF Nav

\* The entries of the group field.
LEMMA FieldEntries == \A P : \A item \in Nav.field : GoodEntry(P, item)
<1> SUFFICES ASSUME NEW P PROVE \A item \in Nav.field : GoodEntry(P, item)
  OBVIOUS
<1>1. {"/attendance"} \subseteq Paths
  BY DEF Paths
<1>2. GoodEntry(P, Locked("gps_attendance",
        Item("attendance", "/attendance", {"attendance.self", "attendance.view"})))
  BY <1>1 DEF GoodEntry, WiderThanTheScreen, Item, Locked
<1> QED
  BY <1>2 DEF Nav

\* The entries of the group configure.
LEMMA ConfigureEntries == \A P : \A item \in Nav.configure : GoodEntry(P, item)
<1> SUFFICES ASSUME NEW P PROVE \A item \in Nav.configure : GoodEntry(P, item)
  OBVIOUS
<1>1. {"/marketplace", "/settings/integrations", "/settings/branding", "/settings/branches", "/settings/api",
        "/settings/security", "/settings"} \subseteq Paths
  BY DEF Paths
<1>2. /\ GoodEntry(P, Item("marketplace", "/marketplace", {"addons.view"}))
      /\ GoodEntry(P, Item("integrations", "/settings/integrations", {"integrations.view"}))
      /\ GoodEntry(P, Locked("multi_branch", Item("branches", "/settings/branches", {"branches.view"})))
      /\ GoodEntry(P, Locked("api_access", Item("api", "/settings/api", {"api.view"})))
      /\ GoodEntry(P, Item("security", "/settings/security", {"security.view"}))
      /\ GoodEntry(P, Item("settings", "/settings", {"settings.view"}))
  BY <1>1, WhoOpensWhat DEF WhoOpens, GoodEntry, Allowed, Item, Locked
<1>3. GoodEntry(P, Locked("white_label", Item("branding", "/settings/branding", {"whitelabel.manage"})))
  BY <1>1 DEF GoodEntry, WiderThanTheScreen, Item, Locked
<1> QED
  BY <1>2, <1>3 DEF Nav

\* A control that is shown to those the server accepts the call from, apart from the exceptions.
Accepted(o) ==
    \/ o.gate = {} \/ o.after = "keep" \/ o.call \in AskedOtherwise
    \/ DemandOf(o.call) = {} \/ o.gate \subseteq DemandOf(o.call)

\* One that leaves the session alone.
Ordinary(o) == Accepted(o) /\ o.after # "session"

\* One that nobody uses by the role of a client alone.
NotForClients(o) == Accepted(o) /\ DemandOf(o.call) # {} /\ DemandOf(o.call) \cap ClientRole = {}

\* What the controls of each screen are.
LEMMA ControlsOfScreens ==
    /\ \A o \in ClientsScreen.offers : Ordinary(o)
    /\ \A o \in ClientScreen.offers : Ordinary(o)
    /\ \A o \in DocumentsScreen.offers : Ordinary(o)
    /\ \A o \in DocumentScreen.offers : Ordinary(o)
    /\ \A o \in QueueScreen.offers : Ordinary(o)
    /\ \A o \in WorkspaceScreen.offers : Ordinary(o)
    /\ \A o \in QueriesScreen.offers : Ordinary(o)
    /\ \A o \in ThreadScreen.offers : Ordinary(o)
    /\ \A o \in TaxScreen.offers : Ordinary(o)
    /\ \A o \in ComputationScreen.offers : Ordinary(o)
    /\ \A o \in ReconciliationScreen.offers : Ordinary(o)
    /\ \A o \in ReportsScreen.offers : Ordinary(o)
    /\ \A o \in ReportScreen.offers : Ordinary(o)
    /\ \A o \in ApprovalsScreen.offers : Ordinary(o)
    /\ \A o \in TasksScreen.offers : Ordinary(o)
    /\ \A o \in ActivityScreen.offers : Ordinary(o)
    /\ \A o \in DashboardScreen.offers : Ordinary(o)
    /\ \A o \in SubscriptionScreen.offers : Ordinary(o) \/ NotForClients(o)
    /\ \A o \in InvoicesScreen.offers : Ordinary(o)
    /\ \A o \in InvoiceScreen.offers : Ordinary(o)
    /\ \A o \in PaymentsScreen.offers : Ordinary(o)
    /\ \A o \in MarketplaceScreen.offers : Ordinary(o) \/ NotForClients(o)
    /\ \A o \in CallsScreen.offers : Ordinary(o)
    /\ \A o \in CallScreen.offers : Ordinary(o)
    /\ \A o \in InboxScreen.offers : Ordinary(o)
    /\ \A o \in AutomationScreen.offers : Ordinary(o)
    /\ \A o \in LeadsScreen.offers : Ordinary(o)
    /\ \A o \in VoiceNotesScreen.offers : Ordinary(o)
    /\ \A o \in TicketsScreen.offers : Ordinary(o)
    /\ \A o \in TicketScreen.offers : Ordinary(o)
    /\ \A o \in CalendarScreen.offers : Ordinary(o)
    /\ \A o \in AssistantScreen.offers : Ordinary(o)
    /\ \A o \in InsightsScreen.offers : Ordinary(o)
    /\ \A o \in OcrScreen.offers : Ordinary(o)
    /\ \A o \in AnalyticsScreen.offers : Ordinary(o)
    /\ \A o \in BuilderScreen.offers : Ordinary(o)
    /\ \A o \in AttendanceScreen.offers : Ordinary(o)
    /\ \A o \in TeamScreen.offers : Ordinary(o)
    /\ \A o \in PersonScreen.offers : Ordinary(o)
    /\ \A o \in PerformanceScreen.offers : Ordinary(o)
    /\ \A o \in CompaniesScreen.offers : Ordinary(o)
    /\ \A o \in SettingsScreen.offers : Ordinary(o)
    /\ \A o \in ProfileScreen.offers : Accepted(o)
    /\ \A o \in PasswordScreen.offers : Accepted(o)
    /\ \A o \in SecurityScreen.offers : Accepted(o)
    /\ \A o \in NotificationsScreen.offers : Ordinary(o)
    /\ \A o \in IntegrationsScreen.offers : Ordinary(o)
    /\ \A o \in BrandingScreen.offers : Ordinary(o) \/ NotForClients(o)
    /\ \A o \in BranchesScreen.offers : Ordinary(o)
    /\ \A o \in KeysScreen.offers : Ordinary(o)
    /\ \A o \in BackupScreen.offers : Ordinary(o)
    /\ \A o \in AuditScreen.offers : Ordinary(o)
    /\ \A o \in PortalDashboard.offers : Ordinary(o)
    /\ \A o \in UploadScreen.offers : Ordinary(o)
    /\ \A o \in FilingsScreen.offers : Ordinary(o)
    /\ \A o \in TenantsScreen.offers : Ordinary(o)
    /\ \A o \in TenantScreen.offers : Ordinary(o)
    /\ \A o \in FranchisesScreen.offers : Ordinary(o)
    /\ \A o \in PlansScreen.offers : Ordinary(o)
    /\ \A o \in RevenueScreen.offers : Ordinary(o)
    /\ \A o \in LogsScreen.offers : Ordinary(o)
    /\ \A o \in SignedOut.offers : Ordinary(o)
<1>1. \A o \in ClientsScreen.offers : Ordinary(o)
  <2>1. Ordinary(Offer({}, "GET /clients/export/csv", "keep"))
    BY DEF Ordinary, Accepted, Offer
  <2>2. Ordinary(Offer({"clients.create"}, "POST /clients", "reload"))
    BY DEF Ordinary, Accepted, DemandOf, Offer
  <2> QED
    BY <2>1, <2>2 DEF ClientsScreen, Screen, ClientsControls
<1>2. \A o \in ClientScreen.offers : Ordinary(o)
  <2>1. /\ Ordinary(Given("cloud_telephony", Offer({}, "POST /calls/dial", "keep")))
        /\ Ordinary(Offer({}, "GET /clients/:id/periods/:periodId", "keep"))
        /\ Ordinary(Offer({"clients.assign"}, "GET /users", "keep"))
    BY DEF Ordinary, Accepted, Offer, Given
  <2>2. /\ Ordinary(Offer({"clients.assign"}, "POST /clients/:id/assign", "reload"))
        /\ Ordinary(Offer({"clients.update"}, "PATCH /clients/:id", "reload"))
    BY DEF Ordinary, Accepted, DemandOf, Offer
  <2>3. /\ Ordinary(Offer({"clients.update"}, "POST /clients/:id/periods", "reload"))
        /\ Ordinary(Offer({"clients.update"}, "POST /clients/:id/contacts", "reload"))
    BY DEF Ordinary, Accepted, DemandOf, Offer
  <2>4. Ordinary(Offer({"clients.update"}, "DELETE /clients/:id/contacts/:contactId", "reload"))
    BY DEF Ordinary, Accepted, DemandOf, Offer
  <2> QED
    BY <2>1, <2>2, <2>3, <2>4 DEF ClientScreen, Screen, ClientHeader, ClientPeriods, ClientDialogs
<1>3. \A o \in DocumentsScreen.offers : Ordinary(o)
  <2>1. Ordinary(Offer({"documents.verify"}, "POST /verification/bulk", "reload"))
    BY DEF Ordinary, Accepted, DemandOf, Offer
  <2> QED
    BY <2>1 DEF DocumentsScreen, Screen, DocumentsControls
<1>4. \A o \in DocumentScreen.offers : Ordinary(o)
  <2>1. /\ Ordinary(Offer({"documents.download"}, "GET /documents/:id/download", "keep"))
        /\ Ordinary(Offer({"documents.download"}, "POST /documents/:id/share-link", "keep"))
        /\ Ordinary(Offer({}, "GET /documents/:id/download", "keep"))
        /\ Ordinary(Offer({"documents.comment"}, "POST /documents/:id/comments", "reload"))
    BY DEF Ordinary, Accepted, AskedOtherwise, Offer
  <2>2. /\ Ordinary(Offer({"documents.lock"}, "POST /documents/:id/lock", "reload"))
        /\ Ordinary(Offer({"documents.replace"}, "POST /documents/:id/versions", "reload"))
    BY DEF Ordinary, Accepted, DemandOf, Offer
  <2> QED
    BY <2>1, <2>2 DEF DocumentScreen, Screen, DocumentActions, DocumentVersions, DocumentTalk
<1>5. \A o \in QueueScreen.offers : Ordinary(o)
  <2>1. Ordinary(Offer({"documents.verify"}, "POST /verification/bulk", "reload"))
    BY DEF Ordinary, Accepted, DemandOf, Offer
  <2> QED
    BY <2>1 DEF QueueScreen, Screen, QueueControls
<1>6. \A o \in WorkspaceScreen.offers : Ordinary(o)
  <2>1. /\ Ordinary(Offer({}, "GET /documents/:id/download", "keep"))
        /\ Ordinary(Offer({"documents.note.internal"}, "POST /documents/:id/comments", "reload"))
    BY DEF Ordinary, Accepted, AskedOtherwise, Offer
  <2>2. Ordinary(Offer({"documents.verify"}, "POST /verification/:id/decision", "reload"))
    BY DEF Ordinary, Accepted, DemandOf, Offer
  <2> QED
    BY <2>1, <2>2 DEF WorkspaceScreen, Screen, Decision, WorkspaceTalk, WorkspacePreview
<1>7. \A o \in QueriesScreen.offers : Ordinary(o)
  <2>1. Ordinary(Staff(Offer({"queries.create"}, "POST /queries", "reload")))
    BY DEF Ordinary, Accepted, DemandOf, Offer, Staff
  <2> QED
    BY <2>1 DEF QueriesScreen, Screen, QueriesControls
<1>8. \A o \in ThreadScreen.offers : Ordinary(o)
  <2>1. /\ Ordinary(Offer({"queries.reply"}, "POST /queries/:id/replies", "reload"))
        /\ Ordinary(Offer({"documents.replace"}, "POST /documents/:id/versions", "reload"))
    BY DEF Ordinary, Accepted, DemandOf, Offer
  <2>2. /\ Ordinary(Offer({"queries.resolve"}, "POST /queries/:id/resolve", "reload"))
        /\ Ordinary(Offer({"queries.resolve"}, "POST /queries/:id/reopen", "reload"))
    BY DEF Ordinary, Accepted, DemandOf, Offer
  <2> QED
    BY <2>1, <2>2 DEF ThreadScreen, Screen, ThreadReply, ThreadControls
<1>9. \A o \in TaxScreen.offers : Ordinary(o)
  <2>1. Ordinary(Offer({"tax.calculate"}, "GET /clients/:id/periods", "keep"))
    BY DEF Ordinary, Accepted, Offer
  <2>2. Ordinary(Offer({"tax.calculate"}, "POST /tax/computations/run", "reload"))
    BY DEF Ordinary, Accepted, DemandOf, Offer
  <2> QED
    BY <2>1, <2>2 DEF TaxScreen, Screen, TaxControls
<1>10. \A o \in ComputationScreen.offers : Ordinary(o)
  <2>1. Ordinary(Offer({"tax.calculate"}, "POST /tax/computations/:id/finalise", "reload"))
    BY DEF Ordinary, Accepted, AskedOtherwise, Offer
  <2> QED
    BY <2>1 DEF ComputationScreen, Screen, ComputationControls
<1>11. \A o \in ReconciliationScreen.offers : Ordinary(o)
  <2>1. Ordinary(Offer({}, "GET /tax/reconciliation", "keep"))
    BY DEF Ordinary, Accepted, Offer
  <2> QED
    BY <2>1 DEF ReconciliationScreen, Screen, ReconciliationControls
<1>12. \A o \in ReportsScreen.offers : Ordinary(o)
  <2>1. Ordinary(Offer({"reports.create"}, "POST /reports", "reload"))
    BY DEF Ordinary, Accepted, DemandOf, Offer
  <2> QED
    BY <2>1 DEF ReportsScreen, Screen, ReportsControls
<1>13. \A o \in ReportScreen.offers : Ordinary(o)
  <2>1. Ordinary(Offer({"reports.export"}, "GET /reports/:id/export", "keep"))
    BY DEF Ordinary, Accepted, Offer
  <2>2. /\ Ordinary(Offer({"reports.create"}, "POST /reports", "reload"))
        /\ Ordinary(Offer({"reports.submit"}, "POST /reports/:id/submit", "reload"))
    BY DEF Ordinary, Accepted, DemandOf, Offer
  <2>3. /\ Ordinary(Offer({"reports.approve"}, "POST /reports/:id/decision", "reload"))
        /\ Ordinary(Offer({"reports.signoff"}, "POST /reports/:id/sign-off", "reload"))
    BY DEF Ordinary, Accepted, DemandOf, Offer
  <2> QED
    BY <2>1, <2>2, <2>3 DEF ReportScreen, Screen, ReportControls
<1>14. \A o \in ApprovalsScreen.offers : Ordinary(o)
  <2>1. Ordinary(Offer({"approvals.decide"}, "POST /approvals/:id/decide", "reload"))
    BY DEF Ordinary, Accepted, DemandOf, Offer
  <2> QED
    BY <2>1 DEF ApprovalsScreen, Screen, ApprovalsControls
<1>15. \A o \in TasksScreen.offers : Ordinary(o)
  <2>1. /\ Ordinary(Offer({"tasks.manage"}, "PATCH /tasks/:id", "reload"))
        /\ Ordinary(Offer({"tasks.manage"}, "DELETE /tasks/:id", "reload"))
    BY DEF Ordinary, Accepted, DemandOf, Offer
  <2>2. Ordinary(Offer({"tasks.manage"}, "POST /tasks", "reload"))
    BY DEF Ordinary, Accepted, DemandOf, Offer
  <2> QED
    BY <2>1, <2>2 DEF TasksScreen, Screen, TasksBoard, TasksControls
<1>16. \A o \in ActivityScreen.offers : Ordinary(o)
  BY DEF ActivityScreen, Screen
<1>17. \A o \in DashboardScreen.offers : Ordinary(o)
  BY DEF DashboardScreen, Screen
<1>18. \A o \in SubscriptionScreen.offers : Ordinary(o) \/ NotForClients(o)
  <2>1. NotForClients(Offer({"subscriptions.manage"}, "POST /billing/subscription/change-plan", "session"))
    BY DEF NotForClients, Accepted, ClientRole, DemandOf, Offer
  <2>2. /\ Ordinary(Offer({"subscriptions.manage"}, "POST /billing/subscription/cancel", "reload"))
        /\ Ordinary(Offer({"subscriptions.manage"}, "POST /billing/subscription/resume", "reload"))
    BY DEF Ordinary, Accepted, DemandOf, Offer
  <2> QED
    BY <2>1, <2>2 DEF SubscriptionScreen, Screen, SubscriptionControls
<1>19. \A o \in InvoicesScreen.offers : Ordinary(o)
  <2>1. Ordinary(Offer({"invoices.create"}, "POST /billing/invoices", "reload"))
    BY DEF Ordinary, Accepted, DemandOf, Offer
  <2> QED
    BY <2>1 DEF InvoicesScreen, Screen, InvoicesControls
<1>20. \A o \in InvoiceScreen.offers : Ordinary(o)
  <2>1. /\ Ordinary(Offer({}, "GET /billing/invoices/:id/pdf", "keep"))
        /\ Ordinary(Offer({}, "POST /billing/payments/checkout", "reload"))
        /\ Ordinary(Offer({}, "GET /billing/payments/:id/receipt", "keep"))
    BY DEF Ordinary, Accepted, Offer
  <2>2. /\ Ordinary(Offer({"payments.record"}, "POST /billing/payments/record", "reload"))
        /\ Ordinary(Offer({"invoices.void"}, "POST /billing/invoices/:id/void", "reload"))
    BY DEF Ordinary, Accepted, DemandOf, Offer
  <2> QED
    BY <2>1, <2>2 DEF InvoiceScreen, Screen, InvoiceControls, InvoiceReceipts
<1>21. \A o \in PaymentsScreen.offers : Ordinary(o)
  <2>1. Ordinary(Offer({}, "GET /billing/payments/:id/receipt", "keep"))
    BY DEF Ordinary, Accepted, Offer
  <2>2. Ordinary(Offer({"payments.refund"}, "POST /billing/payments/:id/refund", "reload"))
    BY DEF Ordinary, Accepted, DemandOf, Offer
  <2> QED
    BY <2>1, <2>2 DEF PaymentsScreen, Screen, PaymentsControls
<1>22. \A o \in MarketplaceScreen.offers : Ordinary(o) \/ NotForClients(o)
  <2>1. NotForClients(Offer({"addons.activate"}, "POST /addons/:key/activate", "session"))
    BY DEF NotForClients, Accepted, ClientRole, DemandOf, Offer
  <2>2. NotForClients(Offer({"addons.activate"}, "POST /addons/:key/deactivate", "session"))
    BY DEF NotForClients, Accepted, ClientRole, DemandOf, Offer
  <2>3. NotForClients(Offer({"addons.activate"}, "POST /addons/bundles/:plan", "session"))
    BY DEF NotForClients, Accepted, ClientRole, DemandOf, Offer
  <2> QED
    BY <2>1, <2>2, <2>3 DEF MarketplaceScreen, Screen, AddOnControls
<1>23. \A o \in CallsScreen.offers : Ordinary(o)
  <2>1. /\ Ordinary(Offer({}, "POST /calls/dial", "keep"))
        /\ Ordinary(Offer({}, "POST /calls/presence", "keep"))
        /\ Ordinary(Offer({}, "POST /calls/:id/control", "reload"))
        /\ Ordinary(Offer({}, "GET /calls/voicemails", "keep"))
        /\ Ordinary(Offer({}, "POST /calls/voicemails/:id/status", "keep"))
        /\ Ordinary(Offer({}, "GET /calls/analytics/overview", "keep"))
        /\ Ordinary(Offer({"calls.configure"}, "POST /calls/settings/test", "keep"))
    BY DEF Ordinary, Accepted, Offer
  <2>2. Ordinary(Offer({"calls.configure"}, "PATCH /calls/settings", "reload"))
    BY DEF Ordinary, Accepted, DemandOf, Offer
  <2> QED
    BY <2>1, <2>2 DEF CallsScreen, Screen, DialPad, LiveCalls, CallPanes, CallSettings
<1>24. \A o \in CallScreen.offers : Ordinary(o)
  <2>1. /\ Ordinary(Offer({"calls.recordings.download"}, "GET /calls/:id/recording", "keep"))
        /\ Ordinary(Offer({"calls.notes"}, "GET /calls/settings", "keep"))
        /\ Ordinary(Given("cloud_telephony", Offer({}, "POST /calls/dial", "keep")))
    BY DEF Ordinary, Accepted, Offer, Given
  <2>2. /\ Ordinary(Offer({"calls.notes"}, "POST /calls/:id/notes", "reload"))
        /\ Ordinary(Offer({"calls.notes"}, "POST /calls/:id/disposition", "reload"))
    BY DEF Ordinary, Accepted, DemandOf, Offer
  <2>3. Ordinary(Offer({"calls.notes"}, "POST /calls/:id/missed/handle", "reload"))
    BY DEF Ordinary, Accepted, DemandOf, Offer
  <2> QED
    BY <2>1, <2>2, <2>3 DEF CallScreen, Screen, CallRecording, CallNotes, CallOutcome
<1>25. \A o \in InboxScreen.offers : Ordinary(o)
  <2>1. /\ Ordinary(Offer({}, "GET /messaging/threads/:id", "keep"))
        /\ Ordinary(Offer({}, "POST /messaging/threads/:id/reply", "reload"))
        /\ Ordinary(Offer({"messaging.templates"}, "GET /messaging/flows", "keep"))
        /\ Ordinary(Offer({"messaging.templates"}, "POST /messaging/flows/:id/simulate", "keep"))
        /\ Ordinary(Offer({"messaging.broadcast"}, "GET /messaging/templates", "keep"))
        /\ Ordinary(Offer({"messaging.broadcast"}, "POST /messaging/broadcasts", "keep"))
    BY DEF Ordinary, Accepted, Offer
  <2>2. /\ Ordinary(Offer({"messaging.templates"}, "PATCH /messaging/flows/:id", "reload"))
        /\ Ordinary(Offer({"messaging.templates"}, "POST /messaging/flows", "reload"))
    BY DEF Ordinary, Accepted, DemandOf, Offer
  <2>3. Ordinary(Offer({"messaging.templates"}, "DELETE /messaging/flows/:id", "reload"))
    BY DEF Ordinary, Accepted, DemandOf, Offer
  <2> QED
    BY <2>1, <2>2, <2>3 DEF InboxScreen, Screen, InboxThread, InboxFlows, InboxBroadcast
<1>26. \A o \in AutomationScreen.offers : Ordinary(o)
  <2>1. Ordinary(Offer({"automation.manage"}, "POST /automation/:id/preview", "keep"))
    BY DEF Ordinary, Accepted, Offer
  <2>2. /\ Ordinary(Offer({"automation.manage"}, "POST /automation", "reload"))
        /\ Ordinary(Offer({"automation.manage"}, "PATCH /automation/:id", "reload"))
    BY DEF Ordinary, Accepted, DemandOf, Offer
  <2>3. Ordinary(Offer({"automation.manage"}, "DELETE /automation/:id", "reload"))
    BY DEF Ordinary, Accepted, DemandOf, Offer
  <2> QED
    BY <2>1, <2>2, <2>3 DEF AutomationScreen, Screen, RuleControls
<1>27. \A o \in LeadsScreen.offers : Ordinary(o)
  <2>1. Ordinary(Given("cloud_telephony", Offer({"leads.manage"}, "POST /calls/dial", "keep")))
    BY DEF Ordinary, Accepted, Offer, Given
  <2>2. /\ Ordinary(Offer({"leads.manage"}, "PATCH /leads/:id", "reload"))
        /\ Ordinary(Offer({"leads.manage"}, "POST /leads/:id/convert", "reload"))
    BY DEF Ordinary, Accepted, DemandOf, Offer
  <2>3. Ordinary(Offer({"leads.manage"}, "POST /leads", "reload"))
    BY DEF Ordinary, Accepted, DemandOf, Offer
  <2> QED
    BY <2>1, <2>2, <2>3 DEF LeadsScreen, Screen, LeadDialog, LeadControls
<1>28. \A o \in VoiceNotesScreen.offers : Ordinary(o)
  <2>1. /\ Ordinary(Offer({}, "POST /voice-notes", "reload"))
        /\ Ordinary(Offer({}, "GET /voice-notes/:id/audio", "keep"))
    BY DEF Ordinary, Accepted, Offer
  <2>2. /\ Ordinary(Offer({"voicenotes.create"}, "POST /voice-notes/:id/transcribe", "reload"))
        /\ Ordinary(Offer({"clients.assign"}, "DELETE /voice-notes/:id", "reload"))
    BY DEF Ordinary, Accepted, DemandOf, Offer
  <2> QED
    BY <2>1, <2>2 DEF VoiceNotesScreen, Screen, Recorder, NoteControls
<1>29. \A o \in TicketsScreen.offers : Ordinary(o)
  <2>1. /\ Ordinary(Staff(Offer({}, "GET /clients", "keep")))
        /\ Ordinary(Staff(Offer({"support.view"}, "GET /support/stats/overview", "keep")))
    BY DEF Ordinary, Accepted, Offer, Staff
  <2>2. Ordinary(Offer({"support.create"}, "POST /support", "reload"))
    BY DEF Ordinary, Accepted, DemandOf, Offer
  <2> QED
    BY <2>1, <2>2 DEF TicketsScreen, Screen, TicketsControls
<1>30. \A o \in TicketScreen.offers : Ordinary(o)
  <2>1. /\ Ordinary(Offer({}, "POST /support/:id/reply", "reload"))
        /\ Ordinary(Staff(Offer({"support.manage"}, "GET /users", "keep")))
        /\ Ordinary(Offer({}, "POST /support/:id/rate", "reload"))
    BY DEF Ordinary, Accepted, Offer, Staff
  <2>2. Ordinary(Staff(Offer({"support.manage"}, "PATCH /support/:id", "reload")))
    BY DEF Ordinary, Accepted, DemandOf, Offer, Staff
  <2> QED
    BY <2>1, <2>2 DEF TicketScreen, Screen, TicketReply, TicketControls
<1>31. \A o \in CalendarScreen.offers : Ordinary(o)
  <2>1. Ordinary(Offer({}, "GET /clients", "keep"))
    BY DEF Ordinary, Accepted, Offer
  <2>2. /\ Ordinary(Offer({"calendar.manage"}, "DELETE /calendar/:id", "reload"))
        /\ Ordinary(Offer({"calendar.manage"}, "PATCH /calendar/:id", "reload"))
    BY DEF Ordinary, Accepted, DemandOf, Offer
  <2>3. Ordinary(Offer({"calendar.manage"}, "POST /calendar", "reload"))
    BY DEF Ordinary, Accepted, DemandOf, Offer
  <2> QED
    BY <2>1, <2>2, <2>3 DEF CalendarScreen, Screen, EventControls
<1>32. \A o \in AssistantScreen.offers : Ordinary(o)
  <2>1. /\ Ordinary(Offer({}, "GET /ai/conversations/:id", "keep"))
        /\ Ordinary(Offer({}, "POST /ai/ask", "reload"))
    BY DEF Ordinary, Accepted, Offer
  <2> QED
    BY <2>1 DEF AssistantScreen, Screen, AssistantControls
<1>33. \A o \in InsightsScreen.offers : Ordinary(o)
  <2>1. /\ Ordinary(Offer({"ai.insights"}, "POST /ai/insights/refresh", "reload"))
        /\ Ordinary(Offer({"ai.insights"}, "POST /ai/insights/:id/acknowledge", "reload"))
    BY DEF Ordinary, Accepted, DemandOf, Offer
  <2> QED
    BY <2>1 DEF InsightsScreen, Screen, InsightControls
<1>34. \A o \in OcrScreen.offers : Ordinary(o)
  <2>1. Ordinary(Offer({"ai.ocr"}, "POST /ai/ocr/:id/review", "reload"))
    BY DEF Ordinary, Accepted, DemandOf, Offer
  <2> QED
    BY <2>1 DEF OcrScreen, Screen, OcrControls
<1>35. \A o \in AnalyticsScreen.offers : Ordinary(o)
  BY DEF AnalyticsScreen, Screen
<1>36. \A o \in BuilderScreen.offers : Ordinary(o)
  <2>1. /\ Ordinary(Offer({}, "DELETE /analytics/dashboards/:id", "reload"))
        /\ Ordinary(Offer({}, "POST /analytics/dashboards", "reload"))
    BY DEF Ordinary, Accepted, Offer
  <2> QED
    BY <2>1 DEF BuilderScreen, Screen, BuilderControls, BuilderSave
<1>37. \A o \in AttendanceScreen.offers : Ordinary(o)
  <2>1. /\ Ordinary(Offer({}, "POST /attendance/check-in", "reload"))
        /\ Ordinary(Offer({}, "POST /attendance/check-out", "reload"))
        /\ Ordinary(Offer({}, "GET /clients", "keep"))
        /\ Ordinary(Offer({}, "POST /attendance/visits", "reload"))
        /\ Ordinary(Offer({}, "POST /attendance/visits/:id/complete", "reload"))
    BY DEF Ordinary, Accepted, Offer
  <2> QED
    BY <2>1 DEF AttendanceScreen, Screen, AttendanceControls
<1>38. \A o \in TeamScreen.offers : Ordinary(o)
  <2>1. Ordinary(Offer({"users.create"}, "POST /users", "reload"))
    BY DEF Ordinary, Accepted, DemandOf, Offer
  <2> QED
    BY <2>1 DEF TeamScreen, Screen, TeamControls
<1>39. \A o \in PersonScreen.offers : Ordinary(o)
  <2>1. /\ Ordinary(Offer({"users.update"}, "GET /branches", "keep"))
        /\ Ordinary(Offer({"users.update"}, "GET /companies", "keep"))
        /\ Ordinary(Offer({"users.update"}, "POST /users/:id/reset-password", "keep"))
        /\ Ordinary(Offer({"users.update"}, "PUT /users/:id/roles", "reload"))
        /\ Ordinary(Offer({"users.update"}, "PUT /users/:id/permissions", "reload"))
    BY DEF Ordinary, Accepted, AskedOtherwise, Offer
  <2>2. /\ Ordinary(Offer({"users.update"}, "PATCH /users/:id", "reload"))
        /\ Ordinary(Offer({"users.update"}, "PUT /users/:id/companies", "reload"))
    BY DEF Ordinary, Accepted, DemandOf, Offer
  <2>3. /\ Ordinary(Offer({"users.update"}, "DELETE /users/:id/sessions/:sessionId", "reload"))
        /\ Ordinary(Offer({"users.delete"}, "DELETE /users/:id", "go"))
    BY DEF Ordinary, Accepted, DemandOf, Offer
  <2> QED
    BY <2>1, <2>2, <2>3 DEF PersonScreen, Screen, PersonControls, PersonAccess
<1>40. \A o \in PerformanceScreen.offers : Ordinary(o)
  BY DEF PerformanceScreen, Screen
<1>41. \A o \in CompaniesScreen.offers : Ordinary(o)
  <2>1. Ordinary(Offer({}, "GET /branches", "keep"))
    BY DEF Ordinary, Accepted, Offer
  <2>2. /\ Ordinary(Offer({"companies.create"}, "POST /companies", "reload"))
        /\ Ordinary(Offer({"companies.update"}, "PATCH /companies/:id", "reload"))
    BY DEF Ordinary, Accepted, DemandOf, Offer
  <2>3. Ordinary(Offer({"companies.delete"}, "DELETE /companies/:id", "reload"))
    BY DEF Ordinary, Accepted, DemandOf, Offer
  <2> QED
    BY <2>1, <2>2, <2>3 DEF CompaniesScreen, Screen, CompanyControls
<1>42. \A o \in SettingsScreen.offers : Ordinary(o)
  <2>1. Ordinary(Offer({"settings.manage"}, "PUT /settings", "keep"))
    BY DEF Ordinary, Accepted, Offer
  <2> QED
    BY <2>1 DEF SettingsScreen, Screen, OrganisationControls
<1>43. \A o \in ProfileScreen.offers : Accepted(o)
  <2>1. Accepted(Offer({}, "PATCH /auth/profile", "session"))
    BY DEF Accepted, Offer
  <2> QED
    BY <2>1 DEF ProfileScreen, Screen, ProfileControls
<1>44. \A o \in PasswordScreen.offers : Accepted(o)
  <2>1. Accepted(Offer({}, "POST /auth/change-password", "session"))
    BY DEF Accepted, Offer
  <2> QED
    BY <2>1 DEF PasswordScreen, Screen, PasswordControls
<1>45. \A o \in SecurityScreen.offers : Accepted(o)
  <2>1. /\ Accepted(Offer({}, "POST /auth/2fa/setup", "keep"))
        /\ Accepted(Offer({}, "POST /auth/2fa/enable", "session"))
        /\ Accepted(Offer({}, "POST /auth/2fa/backup-codes", "keep"))
        /\ Accepted(Offer({}, "POST /auth/2fa/disable", "session"))
        /\ Accepted(Offer({}, "DELETE /auth/sessions/:id", "reload"))
        /\ Accepted(Offer({}, "POST /auth/sessions/revoke-others", "reload"))
    BY DEF Accepted, Offer
  <2>2. /\ Accepted(Offer({"settings.manage"}, "PATCH /settings/security", "reload"))
        /\ Accepted(Offer({"settings.manage"}, "POST /settings/security/ip-allowlist", "reload"))
    BY DEF Accepted, DemandOf, Offer
  <2>3. Accepted(Offer({"settings.manage"}, "DELETE /settings/security/ip-allowlist/:id", "reload"))
    BY DEF Accepted, DemandOf, Offer
  <2> QED
    BY <2>1, <2>2, <2>3 DEF SecurityScreen, Screen, SecondFactor, OwnSessions, PolicyControls
<1>46. \A o \in NotificationsScreen.offers : Ordinary(o)
  <2>1. /\ Ordinary(Offer({}, "PUT /notifications/preferences", "reload"))
        /\ Ordinary(Offer({"settings.manage"}, "POST /notifications/test", "keep"))
        /\ Ordinary(Offer({"settings.manage"}, "GET /notifications/templates", "keep"))
        /\ Ordinary(Offer({"settings.manage"}, "PUT /notifications/templates/:triggerKey/:channel", "keep"))
    BY DEF Ordinary, Accepted, Offer
  <2> QED
    BY <2>1 DEF NotificationsScreen, Screen, PreferenceControls
<1>47. \A o \in IntegrationsScreen.offers : Ordinary(o)
  <2>1. Ordinary(Offer({"integrations.view"}, "POST /integrations/:key/test", "reload"))
    BY DEF Ordinary, Accepted, AskedOtherwise, Offer
  <2>2. /\ Ordinary(Offer({"integrations.manage"}, "POST /integrations/storage/folders", "reload"))
        /\ Ordinary(Offer({"integrations.manage"}, "DELETE /integrations/storage/folders/:id", "reload"))
    BY DEF Ordinary, Accepted, DemandOf, Offer
  <2>3. /\ Ordinary(Offer({"integrations.manage"}, "POST /integrations/:key/oauth/start", "go"))
        /\ Ordinary(Offer({"integrations.manage"}, "DELETE /integrations/:key/oauth", "reload"))
    BY DEF Ordinary, Accepted, DemandOf, Offer
  <2> QED
    BY <2>1, <2>2, <2>3 DEF IntegrationsScreen, Screen, StorageFolders, ConnectionControls
<1>48. \A o \in BrandingScreen.offers : Ordinary(o) \/ NotForClients(o)
  <2>1. /\ Ordinary(Offer({"settings.manage"}, "PATCH /branding", "reload"))
        /\ Ordinary(Offer({"settings.manage"}, "POST /branding/domain", "reload"))
        /\ Ordinary(Offer({"settings.manage"}, "POST /branding/domain/verify", "reload"))
    BY DEF Ordinary, Accepted, AskedOtherwise, Offer
  <2>2. NotForClients(Offer({"settings.manage"}, "POST /branding/logo", "session"))
    BY DEF NotForClients, Accepted, AskedOtherwise, ClientRole, DemandOf, Offer
  <2> QED
    BY <2>1, <2>2 DEF BrandingScreen, Screen, BrandingControls, LogoAndDomain
<1>49. \A o \in BranchesScreen.offers : Ordinary(o)
  <2>1. Ordinary(Offer({}, "GET /users", "keep"))
    BY DEF Ordinary, Accepted, Offer
  <2>2. /\ Ordinary(Offer({"branches.manage"}, "POST /branches", "reload"))
        /\ Ordinary(Offer({"branches.manage"}, "PATCH /branches/:id", "reload"))
    BY DEF Ordinary, Accepted, DemandOf, Offer
  <2>3. Ordinary(Offer({"branches.manage"}, "DELETE /branches/:id", "reload"))
    BY DEF Ordinary, Accepted, DemandOf, Offer
  <2> QED
    BY <2>1, <2>2, <2>3 DEF BranchesScreen, Screen, BranchControls
<1>50. \A o \in KeysScreen.offers : Ordinary(o)
  <2>1. Ordinary(Offer({"api.manage"}, "GET /api-keys/:id/usage", "keep"))
    BY DEF Ordinary, Accepted, Offer
  <2>2. /\ Ordinary(Offer({"api.manage"}, "POST /api-keys", "reload"))
        /\ Ordinary(Offer({"api.manage"}, "DELETE /api-keys/:id", "reload"))
    BY DEF Ordinary, Accepted, DemandOf, Offer
  <2> QED
    BY <2>1, <2>2 DEF KeysScreen, Screen, KeyControls
<1>51. \A o \in BackupScreen.offers : Ordinary(o)
  <2>1. /\ Ordinary(Offer({"settings.manage"}, "GET /backups/:id/download", "keep"))
        /\ Ordinary(Offer({"settings.manage"}, "POST /backups", "reload"))
        /\ Ordinary(Offer({"settings.manage"}, "POST /backups/:id/verify", "reload"))
    BY DEF Ordinary, Accepted, AskedOtherwise, Offer
  <2> QED
    BY <2>1 DEF BackupScreen, Screen, BackupControls
<1>52. \A o \in AuditScreen.offers : Ordinary(o)
  <2>1. /\ Ordinary(Offer({"audit.export"}, "GET /audit/export/csv", "keep"))
        /\ Ordinary(Offer({}, "GET /audit/verify", "keep"))
        /\ Ordinary(Offer({}, "GET /audit/:id", "keep"))
    BY DEF Ordinary, Accepted, Offer
  <2> QED
    BY <2>1 DEF AuditScreen, Screen, AuditControls
<1>53. \A o \in PortalDashboard.offers : Ordinary(o)
  BY DEF PortalDashboard, Screen
<1>54. \A o \in UploadScreen.offers : Ordinary(o)
  <2>1. Ordinary(Offer({}, "POST /documents/upload", "keep"))
    BY DEF Ordinary, Accepted, Offer
  <2> QED
    BY <2>1 DEF UploadScreen, Screen, UploadControls
<1>55. \A o \in FilingsScreen.offers : Ordinary(o)
  BY DEF FilingsScreen, Screen
<1>56. \A o \in TenantsScreen.offers : Ordinary(o)
  <2>1. Ordinary(Offer({"tenants.create"}, "POST /platform/tenants", "reload"))
    BY DEF Ordinary, Accepted, DemandOf, Offer
  <2> QED
    BY <2>1 DEF TenantsScreen, Screen, TenantsControls
<1>57. \A o \in TenantScreen.offers : Ordinary(o)
  <2>1. /\ Ordinary(Offer({"tenants.update"}, "POST /platform/tenants/:id/plan", "reload"))
        /\ Ordinary(Offer({"tenants.suspend"}, "PATCH /platform/tenants/:id", "reload"))
    BY DEF Ordinary, Accepted, DemandOf, Offer
  <2>2. /\ Ordinary(Offer({"users.impersonate"}, "POST /platform/tenants/:id/impersonate", "go"))
        /\ Ordinary(Offer({"tenants.update"}, "PATCH /platform/tenants/:id", "reload"))
    BY DEF Ordinary, Accepted, DemandOf, Offer
  <2>3. /\ Ordinary(Offer({"tenants.update"}, "PATCH /platform/tenants/:id/subscription", "reload"))
        /\ Ordinary(Offer({"tenants.update"}, "POST /platform/tenants/:id/payments", "reload"))
    BY DEF Ordinary, Accepted, DemandOf, Offer
  <2>4. Ordinary(Offer({"tenants.update"}, "POST /platform/tenants/:id/notify", "reload"))
    BY DEF Ordinary, Accepted, DemandOf, Offer
  <2> QED
    BY <2>1, <2>2, <2>3, <2>4 DEF TenantScreen, Screen, TenantActions, TenantControls
<1>58. \A o \in FranchisesScreen.offers : Ordinary(o)
  <2>1. /\ Ordinary(Offer({"franchises.manage"}, "POST /platform/franchises", "reload"))
        /\ Ordinary(Offer({"franchises.manage"}, "PATCH /platform/franchises/:id", "reload"))
    BY DEF Ordinary, Accepted, DemandOf, Offer
  <2> QED
    BY <2>1 DEF FranchisesScreen, Screen, FranchiseControls
<1>59. \A o \in PlansScreen.offers : Ordinary(o)
  <2>1. Ordinary(Offer({"plans.manage"}, "PATCH /platform/plans/:key", "reload"))
    BY DEF Ordinary, Accepted, DemandOf, Offer
  <2> QED
    BY <2>1 DEF PlansScreen, Screen, PlanControls
<1>60. \A o \in RevenueScreen.offers : Ordinary(o)
  BY DEF RevenueScreen, Screen
<1>61. \A o \in LogsScreen.offers : Ordinary(o)
  BY DEF LogsScreen, Screen
<1>62. \A o \in SignedOut.offers : Ordinary(o)
  BY DEF SignedOut, Screen
<1> QED
  BY <1>1, <1>2, <1>3, <1>4, <1>5, <1>6, <1>7, <1>8, <1>9, <1>10, <1>11, <1>12, <1>13, <1>14, <1>15, <1>16,
     <1>17, <1>18, <1>19, <1>20, <1>21, <1>22, <1>23, <1>24, <1>25, <1>26, <1>27, <1>28, <1>29, <1>30, <1>31,
     <1>32, <1>33, <1>34, <1>35, <1>36, <1>37, <1>38, <1>39, <1>40, <1>41, <1>42, <1>43, <1>44, <1>45, <1>46,
     <1>47, <1>48, <1>49, <1>50, <1>51, <1>52, <1>53, <1>54, <1>55, <1>56, <1>57, <1>58, <1>59, <1>60, <1>61,
     <1>62

\* Where the rows of each screen lead.
LEMMA RowsOfScreens ==
    /\ ClientsScreen.row = "/clients/:id"
    /\ DocumentsScreen.row = "/documents/:id"
    /\ QueueScreen.row = "/verification/:id"
    /\ QueriesScreen.row = "/queries/:id"
    /\ TaxScreen.row = "/tax/:id"
    /\ ReportsScreen.row = "/reports/:id"
    /\ ApprovalsScreen.row = "/reports/:id"
    /\ InvoicesScreen.row = "/billing/invoices/:id"
    /\ CallsScreen.row = "/calls/:id"
    /\ TicketsScreen.row = "/support/:id"
    /\ TeamScreen.row = "/settings/users/:id"
    /\ TenantsScreen.row = "/platform/organisations/:id"
    /\ ClientScreen.row = None
    /\ DocumentScreen.row = None
    /\ WorkspaceScreen.row = None
    /\ ThreadScreen.row = None
    /\ ComputationScreen.row = None
    /\ ReconciliationScreen.row = None
    /\ ReportScreen.row = None
    /\ TasksScreen.row = None
    /\ ActivityScreen.row = None
    /\ DashboardScreen.row = None
    /\ SubscriptionScreen.row = None
    /\ InvoiceScreen.row = None
    /\ PaymentsScreen.row = None
    /\ MarketplaceScreen.row = None
    /\ CallScreen.row = None
    /\ InboxScreen.row = None
    /\ AutomationScreen.row = None
    /\ LeadsScreen.row = None
    /\ VoiceNotesScreen.row = None
    /\ TicketScreen.row = None
    /\ CalendarScreen.row = None
    /\ AssistantScreen.row = None
    /\ InsightsScreen.row = None
    /\ OcrScreen.row = None
    /\ AnalyticsScreen.row = None
    /\ BuilderScreen.row = None
    /\ AttendanceScreen.row = None
    /\ PersonScreen.row = None
    /\ PerformanceScreen.row = None
    /\ CompaniesScreen.row = None
    /\ SettingsScreen.row = None
    /\ ProfileScreen.row = None
    /\ PasswordScreen.row = None
    /\ SecurityScreen.row = None
    /\ NotificationsScreen.row = None
    /\ IntegrationsScreen.row = None
    /\ BrandingScreen.row = None
    /\ BranchesScreen.row = None
    /\ KeysScreen.row = None
    /\ BackupScreen.row = None
    /\ AuditScreen.row = None
    /\ PortalDashboard.row = None
    /\ UploadScreen.row = None
    /\ FilingsScreen.row = None
    /\ TenantScreen.row = None
    /\ FranchisesScreen.row = None
    /\ PlansScreen.row = None
    /\ RevenueScreen.row = None
    /\ LogsScreen.row = None
    /\ SignedOut.row = None
  BY DEF Screen, ClientsScreen, ClientScreen, DocumentsScreen, DocumentScreen, QueueScreen, WorkspaceScreen,
     QueriesScreen, ThreadScreen, TaxScreen, ComputationScreen, ReconciliationScreen, ReportsScreen,
     ReportScreen, ApprovalsScreen, TasksScreen, ActivityScreen, DashboardScreen, SubscriptionScreen,
     InvoicesScreen, InvoiceScreen, PaymentsScreen, MarketplaceScreen, CallsScreen, CallScreen, InboxScreen,
     AutomationScreen, LeadsScreen, VoiceNotesScreen, TicketsScreen, TicketScreen, CalendarScreen,
     AssistantScreen, InsightsScreen, OcrScreen, AnalyticsScreen, BuilderScreen, AttendanceScreen, TeamScreen,
     PersonScreen, PerformanceScreen, CompaniesScreen, SettingsScreen, ProfileScreen, PasswordScreen,
     SecurityScreen, NotificationsScreen, IntegrationsScreen, BrandingScreen, BranchesScreen, KeysScreen,
     BackupScreen, AuditScreen, PortalDashboard, UploadScreen, FilingsScreen, TenantsScreen, TenantScreen,
     FranchisesScreen, PlansScreen, RevenueScreen, LogsScreen, SignedOut

\* Which screen a path shows.
LEMMA ScreensOfPaths ==
    /\ ScreenAt("/admin/dashboard") = DashboardScreen
    /\ ScreenAt("/manager/dashboard") = DashboardScreen
    /\ ScreenAt("/finance/dashboard") = DashboardScreen
    /\ ScreenAt("/auditor/dashboard") = DashboardScreen
    /\ ScreenAt("/client/dashboard") = PortalDashboard
    /\ ScreenAt("/clients") = ClientsScreen
    /\ ScreenAt("/clients/:id") = ClientScreen
    /\ ScreenAt("/documents") = DocumentsScreen
    /\ ScreenAt("/documents/:id") = DocumentScreen
    /\ ScreenAt("/verification") = QueueScreen
    /\ ScreenAt("/verification/:id") = WorkspaceScreen
    /\ ScreenAt("/queries") = QueriesScreen
    /\ ScreenAt("/queries/:id") = ThreadScreen
    /\ ScreenAt("/tax") = TaxScreen
    /\ ScreenAt("/tax/:id") = ComputationScreen
    /\ ScreenAt("/tax/reconciliation") = ReconciliationScreen
    /\ ScreenAt("/reports") = ReportsScreen
    /\ ScreenAt("/reports/:id") = ReportScreen
    /\ ScreenAt("/approvals") = ApprovalsScreen
    /\ ScreenAt("/tasks") = TasksScreen
    /\ ScreenAt("/activity") = ActivityScreen
    /\ ScreenAt("/billing/subscription") = SubscriptionScreen
    /\ ScreenAt("/billing/invoices") = InvoicesScreen
    /\ ScreenAt("/billing/invoices/:id") = InvoiceScreen
    /\ ScreenAt("/billing/payments") = PaymentsScreen
    /\ ScreenAt("/marketplace") = MarketplaceScreen
    /\ ScreenAt("/calls") = CallsScreen
    /\ ScreenAt("/calls/:id") = CallScreen
    /\ ScreenAt("/messaging/inbox") = InboxScreen
    /\ ScreenAt("/automation") = AutomationScreen
    /\ ScreenAt("/leads") = LeadsScreen
    /\ ScreenAt("/voice-notes") = VoiceNotesScreen
    /\ ScreenAt("/support") = TicketsScreen
    /\ ScreenAt("/support/:id") = TicketScreen
    /\ ScreenAt("/calendar") = CalendarScreen
    /\ ScreenAt("/ai/assistant") = AssistantScreen
    /\ ScreenAt("/ai/insights") = InsightsScreen
    /\ ScreenAt("/ai/ocr") = OcrScreen
    /\ ScreenAt("/analytics") = AnalyticsScreen
    /\ ScreenAt("/analytics/builder") = BuilderScreen
    /\ ScreenAt("/attendance") = AttendanceScreen
    /\ ScreenAt("/team") = TeamScreen
    /\ ScreenAt("/team/performance") = PerformanceScreen
    /\ ScreenAt("/companies") = CompaniesScreen
    /\ ScreenAt("/settings/users") = TeamScreen
    /\ ScreenAt("/settings/users/:id") = PersonScreen
    /\ ScreenAt("/settings") = SettingsScreen
    /\ ScreenAt("/settings/profile") = ProfileScreen
    /\ ScreenAt("/settings/password") = PasswordScreen
    /\ ScreenAt("/settings/security") = SecurityScreen
    /\ ScreenAt("/settings/notifications") = NotificationsScreen
    /\ ScreenAt("/settings/integrations") = IntegrationsScreen
    /\ ScreenAt("/settings/branding") = BrandingScreen
    /\ ScreenAt("/settings/branches") = BranchesScreen
    /\ ScreenAt("/settings/api") = KeysScreen
    /\ ScreenAt("/settings/backup") = BackupScreen
    /\ ScreenAt("/audit") = AuditScreen
    /\ ScreenAt("/client/upload") = UploadScreen
    /\ ScreenAt("/client/filings") = FilingsScreen
    /\ ScreenAt("/client/queries") = QueriesScreen
    /\ ScreenAt("/client/reports") = ReportsScreen
    /\ ScreenAt("/client/payments") = PaymentsScreen
    /\ ScreenAt("/client/invoices") = InvoicesScreen
    /\ ScreenAt("/platform/organisations") = TenantsScreen
    /\ ScreenAt("/platform/organisations/:id") = TenantScreen
    /\ ScreenAt("/platform/franchises") = FranchisesScreen
    /\ ScreenAt("/platform/plans") = PlansScreen
    /\ ScreenAt("/platform/revenue") = RevenueScreen
    /\ ScreenAt("/platform/logs") = LogsScreen
    /\ \A route \in PublicPaths : ScreenAt(route) = SignedOut
  BY DEF ScreenAt, PublicPaths

\* What every route leads to: a row of a list leads to a route there is, and it opens where the list
\* opened, approvals apart; and the controls are as each screen has them.
LEMMA RowsLead ==
    ASSUME NEW P, NEW route \in PublicPaths \cup Paths, ScreenAt(route).row # None
    PROVE  /\ ScreenAt(route).row \in Paths
           /\ route # "/approvals" /\ Opens(P, route) => Opens(P, ScreenAt(route).row)
<1>1. route \in {"/clients", "/documents", "/verification", "/queries", "/tax", "/reports", "/approvals",
      "/billing/invoices", "/calls", "/support", "/team", "/settings/users", "/client/queries",
      "/client/reports", "/client/invoices", "/platform/organisations"}
  BY ScreensOfPaths, RowsOfScreens DEF Paths
<1>2. ScreenAt(route).row \in Paths
  BY <1>1, ScreensOfPaths, RowsOfScreens DEF Paths
<1> QED
  BY <1>1, <1>2, ScreensOfPaths, RowsOfScreens, WhoOpensWhat DEF WhoOpens, Allowed

\* Wherever a control is: what it is shown for is enough, and one that changes the session is on a
\* screen without rows, which is open to everybody or is not a client's.
LEMMA ControlsOfPaths ==
    ASSUME NEW route \in PublicPaths \cup Paths, NEW o \in ScreenAt(route).offers
    PROVE  /\ Accepted(o)
           /\ o.after = "session" => ScreenAt(route).row = None
           /\ o.after = "session" => NotForClients(o) \/ \A P : Opens(P, route)
<1>1. \/ Ordinary(o)
      \/ route \in {"/billing/subscription", "/marketplace", "/settings/branding"} /\ NotForClients(o)
      \/ route \in {"/settings/profile", "/settings/password", "/settings/security"} /\ Accepted(o)
  BY ScreensOfPaths, ControlsOfScreens DEF Paths
<1>2. Accepted(o)
  BY <1>1 DEF Ordinary, NotForClients
<1>3. \A P : route \in {"/settings/profile", "/settings/password", "/settings/security"} => Opens(P, route)
  BY WhoOpensWhat DEF WhoOpens
<1>4. route \in {"/billing/subscription", "/marketplace", "/settings/profile", "/settings/password",
                 "/settings/security", "/settings/branding"} => ScreenAt(route).row = None
  BY ScreensOfPaths, RowsOfScreens
<1>5. o.after = "session" => ~Ordinary(o)
  BY DEF Ordinary
<1> QED
  BY <1>1, <1>2, <1>3, <1>4, <1>5

\* Where the sidebar of a client and its rows lead.
ClientPaths == {"/client/dashboard", "/client/upload", "/client/filings", "/client/queries", "/client/reports",
    "/client/payments", "/client/invoices", "/support", "/calls", "/messaging/inbox", "/automation", "/leads",
    "/voice-notes", "/calendar", "/marketplace", "/settings/integrations", "/settings/branding",
    "/settings/branches", "/settings/api", "/settings/security", "/settings", "/queries/:id", "/reports/:id",
    "/billing/invoices/:id", "/calls/:id", "/support/:id", "/admin/dashboard"}

\* What a screen of a client reads besides, for somebody with at least the permissions of a client.
LEMMA PortalReads ==
    ASSUME NEW P, ClientRole \subseteq P, "settings.manage" \notin P, Everything \notin P,
           NEW route \in ClientPaths \cup PublicPaths, Opens(P, route),
           NEW a \in ScreenAt(route).may, Allowed(P, a.gate), ~a.staff
    PROVE  Allowed(P, DemandOf(a.call))
<1> DEFINE Answered(b) == Allowed(P, b.gate) /\ ~b.staff => Allowed(P, DemandOf(b.call))
<1>1. /\ DemandOf("GET /dashboard") = {}
      /\ DemandOf("GET /documents/limits") = {"documents.upload", "documents.view", "documents.view.own"}
      /\ DemandOf("GET /clients/:id/periods/:periodId") = {"clients.view", "clients.view.assigned",
           "clients.view.own"}
      /\ DemandOf("GET /reports/types") = {"reports.view", "reports.view.own"}
      /\ DemandOf("GET /calls/live") = {"calls.view", "calls.view.own"}
      /\ DemandOf("GET /clients") = {"clients.view", "clients.view.assigned", "clients.view.own"}
      /\ DemandOf("GET /integrations/storage/folders") = {"integrations.view"}
      /\ DemandOf("GET /branches/performance") = {"branches.view"}
      /\ DemandOf("GET /settings/security") = {"settings.view"}
      /\ DemandOf("GET /settings") = {"settings.view"}
      /\ DemandOf("GET /calls/:id/recording") = {"calls.recordings.listen"}
  BY DEF DemandOf
<1>2. {"calls.view.own", "clients.view.own", "documents.upload", "documents.view.own",
        "reports.view.own"} \subseteq P
  BY DEF ClientRole
<1>3. route = "/settings/integrations" => Allowed(P, {"integrations.view"})
  BY WhoOpensWhat DEF WhoOpens
<1>4. /\ Answered(Extra({}, "GET /dashboard"))
      /\ Answered(Extra({}, "GET /documents/limits"))
      /\ Answered(Extra({}, "GET /clients/:id/periods/:periodId"))
      /\ Answered(Staff(Extra({"clients.view", "clients.view.assigned"}, "GET /clients")))
      /\ Answered(Extra({}, "GET /reports/types"))
      /\ Answered(Staff(Extra({}, "GET /billing/gateways")))
      /\ Answered(Extra({}, "GET /calls/live"))
      /\ Answered(Extra({}, "GET /clients"))
      /\ route = "/settings/integrations" => Answered(Extra({}, "GET /integrations/storage/folders"))
      /\ Answered(Extra({"branches.view"}, "GET /branches/performance"))
      /\ Answered(Extra({"settings.manage"}, "GET /settings/security"))
      /\ Answered(Extra({"settings.view"}, "GET /settings"))
      /\ Answered(Extra({"calls.recordings.listen"}, "GET /calls/:id/recording"))
  BY <1>1, <1>2, <1>3 DEF Allowed, Covers, Extra, Staff
<1> HIDE DEF Answered
<1>5. \A b \in UploadScreen.may : Answered(b)
  BY <1>4 DEF UploadScreen, Screen
<1>6. \A b \in FilingsScreen.may : Answered(b)
  BY <1>4 DEF FilingsScreen, Screen
<1>7. \A b \in QueriesScreen.may : Answered(b)
  BY <1>4 DEF QueriesScreen, Screen
<1>8. \A b \in ReportsScreen.may : Answered(b)
  BY <1>4 DEF ReportsScreen, Screen
<1>9. \A b \in PaymentsScreen.may : Answered(b)
  BY <1>4 DEF PaymentsScreen, Screen
<1>10. \A b \in InvoicesScreen.may : Answered(b)
  BY <1>4 DEF InvoicesScreen, Screen
<1>11. \A b \in CallsScreen.may : Answered(b)
  BY <1>4 DEF CallsScreen, Screen
<1>12. \A b \in VoiceNotesScreen.may : Answered(b)
  BY <1>4 DEF VoiceNotesScreen, Screen
<1>13. route = "/settings/integrations" => \A b \in IntegrationsScreen.may : Answered(b)
  BY <1>4 DEF IntegrationsScreen, Screen
<1>14. \A b \in BranchesScreen.may : Answered(b)
  BY <1>4 DEF BranchesScreen, Screen
<1>15. \A b \in SecurityScreen.may : Answered(b)
  BY <1>4 DEF SecurityScreen, Screen
<1>16. \A b \in SettingsScreen.may : Answered(b)
  BY <1>4 DEF SettingsScreen, Screen
<1>17. \A b \in CallScreen.may : Answered(b)
  BY <1>4 DEF CallScreen, Screen
<1>18. ThreadScreen.may = {} /\ ReportScreen.may = {} /\ DashboardScreen.may = {} /\ InvoiceScreen.may = {} /\
      MarketplaceScreen.may = {} /\ InboxScreen.may = {} /\ AutomationScreen.may = {} /\ LeadsScreen.may = {} /\
      TicketsScreen.may = {} /\ TicketScreen.may = {} /\ CalendarScreen.may = {} /\ BrandingScreen.may = {} /\
      KeysScreen.may = {} /\ PortalDashboard.may = {} /\ SignedOut.may = {}
  BY DEF Screen, ThreadScreen, ReportScreen, DashboardScreen, InvoiceScreen, MarketplaceScreen, InboxScreen,
     AutomationScreen, LeadsScreen, TicketsScreen, TicketScreen, CalendarScreen, BrandingScreen, KeysScreen,
     PortalDashboard, SignedOut
<1>19. Answered(a)
  BY <1>5, <1>6, <1>7, <1>8, <1>9, <1>10, <1>11, <1>12, <1>13, <1>14, <1>15, <1>16, <1>17, <1>18, ScreensOfPaths
  DEF ClientPaths
<1> QED
  BY <1>19 DEF Answered

\* The strongest role of anybody is a role they hold, and lands on a dashboard.
LEMMA Landings ==
    /\ LandingPathFor({"client"}) = "/client/dashboard"
    /\ \A roles \in SUBSET RoleKeys :
          LandingPathFor(roles) \in {"/admin/dashboard", "/manager/dashboard", "/finance/dashboard",
                                     "/auditor/dashboard", "/client/dashboard"}
<1> DEFINE Level(role) == RoleDefinitions[role].level
<1>1. /\ Level("super_admin") = 100 /\ Level("admin") = 80 /\ Level("finance_manager") = 65
      /\ Level("finance_executive") = 50 /\ Level("accountant") = 45 /\ Level("auditor") = 30
      /\ Level("client") = 20
  BY DEF RoleDefinitions
<1>2. /\ \A role \in RoleKeys :
            RoleDefinitions[role].landing \in {"/admin/dashboard", "/manager/dashboard", "/finance/dashboard",
                                               "/auditor/dashboard", "/client/dashboard"}
      /\ RoleDefinitions["client"].landing = "/client/dashboard"
  BY DEF RoleDefinitions, RoleKeys
<1>3. RoleKeys = {"super_admin", "admin", "finance_manager", "finance_executive", "accountant",
        "auditor", "client"}
  BY DEF RoleKeys, RoleDefinitions
<1> HIDE DEF Level
<1>4. ASSUME NEW roles \in SUBSET RoleKeys, roles # {}
      PROVE  \E role \in roles : Level(role) = HighestLevel(roles)
  <2>1. \E top \in roles : \A role \in roles : Level(role) <= Level(top)
    <3>1. CASE "super_admin" \in roles
      BY <1>1, <1>3, <3>1
    <3>2. CASE "super_admin" \notin roles /\ "admin" \in roles
      BY <1>1, <1>3, <3>2
    <3>3. CASE roles \cap {"super_admin", "admin"} = {} /\ "finance_manager" \in roles
      BY <1>1, <1>3, <3>3
    <3>4. CASE roles \cap {"super_admin", "admin", "finance_manager"} = {} /\ "finance_executive" \in roles
      BY <1>1, <1>3, <3>4
    <3>5. CASE roles \subseteq {"accountant", "auditor", "client"} /\ "accountant" \in roles
      BY <1>1, <3>5
    <3>6. CASE roles \subseteq {"auditor", "client"} /\ "auditor" \in roles
      BY <1>1, <3>6
    <3>7. CASE roles \subseteq {"client"}
      <4>1. "client" \in roles
        BY <1>4, <3>7
      <4> QED
        BY <1>1, <3>7, <4>1
    <3> QED
      BY <1>3, <1>4, <3>1, <3>2, <3>3, <3>4, <3>5, <3>6, <3>7
  <2>2. PICK top \in roles : \A role \in roles : Level(role) <= Level(top)
    BY <2>1
  <2> DEFINE Levels == {0} \cup {Level(role) : role \in roles}
  <2>3. Level(top) \in Levels /\ \A role \in roles : Level(role) <= Level(top)
    BY <2>2
  <2>4. HighestLevel(roles) = CHOOSE l \in Levels : \A role \in roles : Level(role) <= l
    BY DEF HighestLevel, Level
  <2> HIDE DEF Levels
  <2>5. HighestLevel(roles) \in Levels /\ \A role \in roles : Level(role) <= HighestLevel(roles)
    BY <2>3, <2>4
  <2>6. Level(top) \in {100, 80, 65, 50, 45, 30, 20}
    BY <1>1, <1>3, <2>2
  <2>7. HighestLevel(roles) # 0
    BY <2>2, <2>5, <2>6
  <2> QED
    BY <2>5, <2>7 DEF Levels
<1>5. ASSUME NEW roles \in SUBSET RoleKeys
      PROVE  \/ roles = {} /\ LandingPathFor(roles) = "/client/dashboard"
             \/ \E role \in roles : LandingPathFor(roles) = RoleDefinitions[role].landing
  <2>1. CASE roles = {}
    BY <2>1 DEF LandingPathFor
  <2>2. CASE roles # {}
    <3> DEFINE strongest == CHOOSE role \in roles : RoleDefinitions[role].level = HighestLevel(roles)
    <3>1. strongest \in roles
      BY <1>4, <2>2 DEF Level
    <3>2. LandingPathFor(roles) = RoleDefinitions[strongest].landing
      BY <2>2 DEF LandingPathFor
    <3> HIDE DEF strongest
    <3> QED
      BY <3>1, <3>2
  <2> QED
    BY <2>1, <2>2
<1> QED
  BY <1>2, <1>3, <1>5

\* The groups of everybody's sidebar are groups there are.
LEMMA GroupsThereAre ==
    /\ PrimaryRole({"client"}) = "client"
    /\ \A roles : GroupOrder[PrimaryRole(roles)] \subseteq DOMAIN Nav
    /\ "platform" \in DOMAIN Nav
    /\ GroupOrder["client"] = {"client", "communication", "configure"}
<1>1. DOMAIN Nav = {"platform", "workspace", "finance", "manager", "client", "auditor", "communication",
                    "intelligence", "field", "configure"}
  BY DEF Nav
<1> DEFINE strength == <<"super_admin", "admin", "finance_manager", "finance_executive", "accountant",
                         "auditor">>
           among(roles) == {i \in 1..6 : strength[i] \in roles}
<1>2. \A i \in 1..6 : strength[i] \in {"super_admin", "admin", "finance_manager", "finance_executive",
                                      "accountant", "auditor"}
  OBVIOUS
<1>3. \A roles : PrimaryRole(roles) = IF among(roles) = {} THEN "client"
                                     ELSE strength[CHOOSE i \in among(roles) : \A j \in among(roles) : i <= j]
  BY DEF PrimaryRole
<1>4. among({"client"}) = {}
  BY <1>2
<1>5. ASSUME NEW roles, among(roles) # {}
      PROVE  (CHOOSE i \in among(roles) : \A j \in among(roles) : i <= j) \in 1..6
  <2> DEFINE A == among(roles)
  <2>1. A \subseteq 1..6 /\ A # {}
    BY <1>5
  <2> HIDE DEF A
  <2>2. \E i \in A : \A j \in A : i <= j
    <3>1. CASE 1 \in A
      BY <2>1, <3>1
    <3>2. CASE 1 \notin A /\ 2 \in A
      BY <2>1, <3>2
    <3>3. CASE A \subseteq 3..6 /\ 3 \in A
      BY <3>3
    <3>4. CASE A \subseteq 4..6 /\ 4 \in A
      BY <3>4
    <3>5. CASE A \subseteq 5..6 /\ 5 \in A
      BY <3>5
    <3>6. CASE A \subseteq 6..6
      <4>1. PICK i \in A : TRUE
        BY <2>1
      <4>2. \A j \in A : j = 6
        BY <3>6
      <4> QED
        BY <4>1, <4>2
    <3> QED
      BY <2>1, <3>1, <3>2, <3>3, <3>4, <3>5, <3>6
  <2>3. (CHOOSE i \in A : \A j \in A : i <= j) \in A
    BY <2>2
  <2> QED
    BY <2>1, <2>3 DEF A
<1> HIDE DEF strength, among
<1>6. \A roles : PrimaryRole(roles) \in {"super_admin", "admin", "finance_manager", "finance_executive",
                                        "accountant", "auditor", "client"}
  BY <1>2, <1>3, <1>5
<1>7. \A role \in {"super_admin", "admin", "finance_manager", "finance_executive", "accountant", "auditor",
                   "client"} : GroupOrder[role] \subseteq DOMAIN Nav
  BY <1>1 DEF GroupOrder
<1>8. GroupOrder["client"] = {"client", "communication", "configure"}
  BY DEF GroupOrder
<1> QED
  BY <1>1, <1>3, <1>4, <1>6, <1>7, <1>8

\* Every entry of everybody's sidebar is one of the ten groups'.
LEMMA SidebarEntries ==
    ASSUME NEW P, NEW copy, NEW item \in NavigationFor(copy)
    PROVE  GoodEntry(P, item) /\ Allowed(copy.permissions, item.anyOf)
<1>1. PICK g \in DOMAIN Nav : item \in Nav[g] /\ Allowed(copy.permissions, item.anyOf)
  BY GroupsThereAre DEF NavigationFor
<1>2. g \in {"platform", "workspace", "finance", "manager", "client", "auditor", "communication",
             "intelligence", "field", "configure"}
  BY DEF Nav
<1> QED
  BY <1>1, <1>2, PlatformEntries, WorkspaceEntries, FinanceEntries, ManagerEntries, ClientEntries,
     AuditorEntries, CommunicationEntries, IntelligenceEntries, FieldEntries, ConfigureEntries

\* The sidebar of a client leads to a client's paths.
LEMMA ClientSidebar ==
    ASSUME NEW copy, copy.roles = {"client"},
           ~copy.tenant => copy.permissions = PermissionsForRoles({"client"}),
           NEW item \in NavigationFor(copy)
    PROVE  item.path \in ClientPaths
<1>1. /\ \A i \in Nav.client : i.path \in ClientPaths
      /\ \A i \in Nav.communication : i.path \in ClientPaths
      /\ \A i \in Nav.configure : i.path \in ClientPaths
  BY DEF Nav, Item, Locked, ClientPaths
<1>2. CASE copy.tenant
  BY <1>1, <1>2, GroupsThereAre DEF NavigationFor
<1>3. CASE ~copy.tenant
  <2>1. item \in Nav.platform /\ Allowed(copy.permissions, item.anyOf)
    BY <1>3 DEF NavigationFor
  <2>0. PermissionsForRoles({"client"}) = ClientRole
    BY RoleGrants DEF PermissionsForRoles
  <2>2. \A i \in Nav.platform : i.anyOf \cap {"platform.analytics", "tenants.view", "franchises.view",
                                             "plans.manage", "platform.logs.view"} # {} /\ i.anyOf \subseteq
                               {"platform.analytics", "tenants.view", "franchises.view", "plans.manage",
                                "platform.logs.view"}
    BY DEF Nav, Item, Locked
  <2>3. ClientRole \cap {Everything, "platform.analytics", "tenants.view", "franchises.view", "plans.manage",
                         "platform.logs.view"} = {}
    BY DEF ClientRole, Everything
  <2> QED
    BY <1>3, <2>0, <2>1, <2>2, <2>3 DEF Allowed, Covers
<1> QED
  BY <1>2, <1>3

\* So do its rows.
LEMMA ClientRows ==
    ASSUME NEW route \in ClientPaths \cup PublicPaths, ScreenAt(route).row # None
    PROVE  ScreenAt(route).row \in ClientPaths
  BY ScreensOfPaths, RowsOfScreens DEF ClientPaths

-----------------------------------------------------------------------------
(***************************************************************************)
(* The browser: the invariant.  A copy of the session is believed as long  *)
(* as no answer of an earlier session has come late; what it says of roles *)
(* is then so, what it says of overrides until they lapse.                 *)
(***************************************************************************)

\* Where the address bar may be.
Routed == PublicPaths \cup Paths

\* What the account's rows may hold.
AccountRows ==
    [roles : (SUBSET RoleKeys) \ {{}}, tenant : BOOLEAN, granted : SUBSET Exceptions,
     denied : SUBSET Exceptions, features : SUBSET PlanFeatures, live : BOOLEAN]

\* The loads are those of the tickets there were, the last of them of the address bar's path.
LoadsFollow ==
    \A l \in loads : l.ticket \in 1..ticket /\ l.route \in Routed /\ (l.ticket = ticket => l.route = url)

\* The account has an override.
Overridden == account.granted \cup account.denied # {}

\* What a copy of a session may hold.
IsCopy(c) == c.user \in BOOLEAN /\ c.roles \subseteq RoleKeys /\ c.features \subseteq PlanFeatures

\* What the variables may be.
BrowserTypes ==
    /\ account \in AccountRows
    /\ account.granted \cap account.denied = {}
    /\ IsCopy(held) /\ IsCopy(me.copy) /\ me.era \in Nat
    /\ page.route \in Routed /\ page.phase \in {"shown", "refused", "blank"}
    /\ url \in Routed /\ ticket \in Nat /\ era \in Nat
    /\ \A l \in loads : l.ticket \in 1..ticket /\ l.route \in Routed

\* The address bar names the screen that loads last, and the outlet shows it or waits for it.
RouterFollows ==
    /\ \A l \in loads : l.ticket = ticket => l.route = url
    /\ page.route = url \/ \E l \in loads : l.ticket = ticket
    /\ ~held.user => url \in PublicPaths
    /\ account.live => held.user

\* An answer of /auth/me on its way, of the session that is.
Pending == me.copy.user /\ me.era = era

\* The roles of a session are those of its copies: other roles end it.
RolesKnown ==
    /\ me.copy.user => me.era <= era
    /\ ~late /\ account.live => held.roles = account.roles
    /\ ~late /\ Pending => held.user /\ me.copy.roles = held.roles

\* So do overrides, until they lapse.
OverridesKnown ==
    account.live /\ ~late /\ Overridden =>
        /\ held.permissions = Effective(account)
        /\ Pending => me.copy.permissions = Effective(account)

\* Overrides are given inside an organisation.
OutsideOrganisations ==
    /\ ~account.tenant => ~Overridden
    /\ held.user /\ ~held.tenant => held.permissions = PermissionsForRoles(held.roles)
    /\ me.copy.user /\ ~me.copy.tenant => me.copy.permissions = PermissionsForRoles(me.copy.roles)

\* The page was shown before overrides lapsed, and no copy of the session knows.
ShownBefore ==
    /\ held.permissions # Effective(account)
    /\ Pending => me.copy.permissions # Effective(account)

\* The page has a control the server takes that loads the session again.
SessionScreen ==
    /\ ~Overridden
    /\ \E o \in ScreenAt(page.route).offers : o.after = "session" /\ Admits(account, o.call)

\* What the outlet shows, the server gave: to the account as it is, or before its overrides lapsed,
\* or it can load the session again from there.
PageWasAdmitted ==
    account.live /\ ~late /\ page.phase = "shown" =>
        Opens(Effective(account), page.route) \/ ShownBefore \/ SessionScreen

\* A client's sidebar and rows lead to the client's paths and nowhere else.
PortalStaysClosed ==
    ~late /\ held.user /\ held.roles = {"client"} =>
        url \in ClientPaths /\ page.route \in ClientPaths \cup PublicPaths

\* What every state says of the window and the session.
BrowserInv ==
    /\ BrowserTypes /\ RouterFollows /\ BrowserCopyIsCurrent
    /\ RolesKnown /\ OverridesKnown /\ OutsideOrganisations /\ PageWasAdmitted /\ PortalStaysClosed

\* The public paths are none of the others, and the paths named apart are among them.
LEMMA PathsApart ==
    /\ PublicPaths \cap Paths = {} /\ ClientPaths \subseteq Paths
    /\ PlatformOwnerPaths \subseteq Paths
    /\ {"/login"} \subseteq PublicPaths
    /\ {"/admin/dashboard", "/manager/dashboard", "/finance/dashboard", "/auditor/dashboard",
        "/client/dashboard"} \subseteq Paths
    /\ {"/admin/dashboard", "/client/dashboard"} \subseteq ClientPaths
  BY DEF PublicPaths, Paths, ClientPaths, PlatformOwnerPaths

\* Where a visit goes: past the guard, to a path of the visitor, with a load of the new ticket.
LEMMA VisitGoes ==
    ASSUME BrowserTypes, NEW copy, IsCopy(copy), NEW path \in Routed, NEW others, others \subseteq loads,
           Visit(copy, path, others)
    PROVE  /\ url' \in Routed /\ ticket' \in Nat
           /\ copy.user => url' \in Paths
           /\ ~copy.user => url' \in PublicPaths
           /\ LoadsFollow'
           /\ \E l \in loads' : l.ticket = ticket'
           /\ copy.user /\ copy.roles = {"client"} /\ path \in ClientPaths \cup PublicPaths
                => url' \in ClientPaths
<1>1. /\ url' = Guard(copy, path) /\ ticket' = ticket + 1
      /\ loads' = others \cup {[ticket |-> ticket + 1, route |-> url']}
  BY DEF Visit
<1>2. /\ Guard(copy, path) \in Routed
      /\ copy.user => Guard(copy, path) \in Paths
      /\ ~copy.user => Guard(copy, path) \in PublicPaths
      /\ copy.user /\ copy.roles = {"client"} /\ path \in ClientPaths \cup PublicPaths
            => Guard(copy, path) \in ClientPaths
  <2>1. CASE ~copy.user
    BY <2>1, PathsApart DEF Guard, Routed
  <2>2. CASE copy.user /\ path \in PublicPaths
    BY <2>2, PathsApart, Landings DEF Guard, Routed, IsCopy
  <2>3. CASE copy.user /\ path \notin PublicPaths
    BY <2>3, PathsApart DEF Guard, Routed, IsCopy
  <2> QED
    BY <2>1, <2>2, <2>3 DEF IsCopy
<1>3. \A l \in loads : l.ticket \in 1..ticket /\ l.route \in Routed
  BY DEF BrowserTypes
<1>4. ticket \in Nat
  BY DEF BrowserTypes
<1>5. LoadsFollow'
  <2> SUFFICES ASSUME NEW l \in loads'
               PROVE  l.ticket \in 1..ticket' /\ l.route \in Routed /\ (l.ticket = ticket' => l.route = url')
    BY DEF LoadsFollow
  <2>1. CASE l \in others
    BY <1>1, <1>3, <1>4, <2>1
  <2>2. CASE l = [ticket |-> ticket + 1, route |-> url']
    BY <1>1, <1>2, <1>4, <2>2
  <2> QED
    BY <1>1, <2>1, <2>2
<1>6. \E l \in loads' : l.ticket = ticket'
  <2>1. [ticket |-> ticket + 1, route |-> url'] \in loads'
    BY <1>1
  <2> QED
    BY <1>1, <2>1
<1> QED
  BY <1>1, <1>2, <1>4, <1>5, <1>6

\* What a copy of the account holds: its roles, the permissions they come to, and its plan's features.
LEMMA CopyOf ==
    ASSUME BrowserTypes
    PROVE  /\ IsCopy(Copy(account)) /\ IsCopy(NoOne)
           /\ Copy(account).user /\ Copy(account).roles = account.roles
           /\ Copy(account).permissions = Effective(account) /\ Copy(account).tenant = account.tenant
           /\ NoOne.user = FALSE
           /\ ~Overridden => Effective(account) = PermissionsForRoles(account.roles)
  BY DEF BrowserTypes, Copy, NoOne, IsCopy, Effective, Overridden, AccountRows

\* It is so to begin with.
LEMMA BrowserStarts ==
    ASSUME BrowsingInit
    PROVE  BrowserInv
<1>1. PICK a \in Accounts, f \in {{}, PlanFeatures} :
         account = [roles |-> a[1], tenant |-> a[2], granted |-> {}, denied |-> {}, features |-> f,
           live |-> FALSE]
  BY DEF BrowsingInit
<1>2. a[1] \in (SUBSET RoleKeys) \ {{}} /\ a[2] \in BOOLEAN
  BY <1>1, BrowsingConstants
<1>3. BrowserTypes
  BY <1>1, <1>2, PathsApart DEF BrowsingInit, BrowserTypes, IsCopy, NoOne, Routed, AccountRows
<1>4. ~held.user /\ ~account.live /\ ~me.copy.user
  BY <1>1 DEF BrowsingInit, NoOne
<1> QED
  BY <1>1, <1>3, <1>4, PathsApart
  DEF BrowsingInit, BrowserInv, RouterFollows, BrowserCopyIsCurrent, RolesKnown, OverridesKnown, Pending,
      Overridden,
      OutsideOrganisations, PageWasAdmitted, PortalStaysClosed

\* SignOut, and what a lost session comes to.
LEMMA Forgotten ==
    ASSUME BrowserInv, held' = NoOne, era' = era + 1, ~account'.live, NEW others, others \subseteq loads,
           Visit(NoOne, "/login", others),
           account' \in AccountRows,
           account'.granted \cap account'.denied = {}, ~account'.tenant => ~Overridden',
           UNCHANGED <<me, page, late>>
    PROVE  BrowserInv'
<1>1. BrowserTypes
  BY DEF BrowserInv
<1>2. IsCopy(NoOne) /\ "/login" \in Routed /\ NoOne.user = FALSE
  BY <1>1, CopyOf, PathsApart DEF Routed
<1> DEFINE R == /\ url' \in Routed /\ ticket' \in Nat /\ url' \in PublicPaths
                /\ LoadsFollow'
                /\ \E l \in loads' : l.ticket = ticket'
<1>3. R
  BY <1>1, <1>2, VisitGoes
<1>4. BrowserTypes'
  BY <1>1, <1>2, <1>3 DEF BrowserTypes, IsCopy, LoadsFollow
<1>5. RouterFollows' /\ BrowserCopyIsCurrent'
  BY <1>2, <1>3 DEF RouterFollows, BrowserCopyIsCurrent, LoadsFollow
<1>6. RolesKnown' /\ OverridesKnown'
  BY <1>1, <1>2 DEF BrowserInv, BrowserTypes, RolesKnown, OverridesKnown, Pending
<1>7. OutsideOrganisations' /\ PageWasAdmitted' /\ PortalStaysClosed'
  BY <1>2 DEF BrowserInv, OutsideOrganisations, PageWasAdmitted, PortalStaysClosed
<1> QED
  BY <1>4, <1>5, <1>6, <1>7 DEF BrowserInv

-----------------------------------------------------------------------------
(***************************************************************************)
(* The browser: every step keeps it                                        *)
(***************************************************************************)

\* While the window stays as it is: the parts that look at the window alone.
LEMMA WindowStays ==
    ASSUME BrowserInv, UNCHANGED <<held, me, page, url, ticket, loads, era, late>>,
           account' \in AccountRows,
           account'.granted \cap account'.denied = {}, account'.live => account.live
    PROVE  BrowserTypes' /\ RouterFollows' /\ PortalStaysClosed'
<1>1. BrowserTypes'
  BY DEF BrowserInv, BrowserTypes, IsCopy
<1>2. RouterFollows' /\ PortalStaysClosed'
  BY DEF BrowserInv, RouterFollows, PortalStaysClosed
<1> QED
  BY <1>1, <1>2

\* Nothing is known of a session that is over.
LEMMA SessionOver ==
    ASSUME BrowserInv, UNCHANGED <<held, me, page, url, ticket, loads, era, late>>,
           account' \in AccountRows,
           account'.granted \cap account'.denied = {}, ~account'.live, account'.tenant
    PROVE  BrowserInv'
<1>1. BrowserTypes' /\ RouterFollows' /\ PortalStaysClosed'
  BY WindowStays
<1>2. BrowserCopyIsCurrent' /\ OverridesKnown' /\ PageWasAdmitted'
  BY DEF BrowserCopyIsCurrent, OverridesKnown, PageWasAdmitted
<1>3. RolesKnown' /\ OutsideOrganisations'
  BY DEF BrowserInv, RolesKnown, Pending, OutsideOrganisations
<1> QED
  BY <1>1, <1>2, <1>3 DEF BrowserInv

\* New roles end the session.
LEMMA PutRolesKeeps ==
    ASSUME BrowserInv, PutRoles
    PROVE  BrowserInv'
<1>1. PICK a \in Accounts : account' = RevokeSessions([account EXCEPT !.roles = a[1]])
  BY DEF PutRoles
<1>2. a[1] \in (SUBSET RoleKeys) \ {{}}
  BY <1>1, BrowsingConstants
<1>3. /\ account' \in AccountRows
      /\ account'.granted \cap account'.denied = {} /\ ~account'.live /\ account'.tenant
  BY <1>1, <1>2 DEF PutRoles, RevokeSessions, BrowserInv, BrowserTypes, AccountRows
<1> QED
  BY <1>3, SessionOver DEF PutRoles

\* So does an override.
LEMMA PutPermissionKeeps ==
    ASSUME BrowserInv, PutPermission
    PROVE  BrowserInv'
<1>1. PICK p \in Exceptions :
         account' = RevokeSessions(
             IF p \in Effective(account)
             THEN [account EXCEPT !.denied = @ \cup {p}, !.granted = @ \ {p}]
             ELSE [account EXCEPT !.granted = @ \cup {p}, !.denied = @ \ {p}])
  BY DEF PutPermission
<1>2. /\ account' \in AccountRows
      /\ account'.granted \cap account'.denied = {} /\ ~account'.live /\ account'.tenant
  <2>1. CASE p \in Effective(account)
    BY <1>1, <2>1 DEF PutPermission, RevokeSessions, BrowserInv, BrowserTypes, AccountRows
  <2>2. CASE p \notin Effective(account)
    BY <1>1, <2>2 DEF PutPermission, RevokeSessions, BrowserInv, BrowserTypes, AccountRows
  <2> QED
    BY <2>1, <2>2
<1> QED
  BY <1>2, SessionOver DEF PutPermission

\* Overrides that lapse leave the session: a page that was shown by their grace stays, and the
\* copies it was shown by differ from what the account may now.
LEMMA OverridesLapseKeeps ==
    ASSUME BrowserInv, OverridesLapse
    PROVE  BrowserInv'
<1>1. /\ account' \in AccountRows
      /\ account'.granted = {} /\ account'.denied = {}
      /\ account'.live = account.live /\ account'.roles = account.roles /\ account'.tenant = account.tenant
  BY DEF OverridesLapse, BrowserInv, BrowserTypes, AccountRows
<1>2. UNCHANGED <<held, me, page, url, ticket, loads, era, late>> /\ drifted' = TRUE /\ Overridden
  BY DEF OverridesLapse, Overridden
<1>3. BrowserTypes' /\ RouterFollows' /\ PortalStaysClosed'
  BY <1>1, <1>2, WindowStays
<1>4. BrowserCopyIsCurrent' /\ OverridesKnown' /\ RolesKnown' /\ OutsideOrganisations'
  BY <1>1, <1>2
  DEF BrowserInv, BrowserCopyIsCurrent, OverridesKnown, RolesKnown, OutsideOrganisations, Pending, Overridden
<1>5. PageWasAdmitted'
  <2> SUFFICES ASSUME account'.live, ~late', page'.phase = "shown"
               PROVE  Opens(Effective(account'), page'.route) \/ ShownBefore'
    BY DEF PageWasAdmitted
  <2>1. CASE Effective(account') = Effective(account)
    BY <1>1, <1>2, <2>1 DEF BrowserInv, PageWasAdmitted, ShownBefore, SessionScreen, Pending
  <2>2. CASE Effective(account') # Effective(account)
    BY <1>1, <1>2, <2>2 DEF BrowserInv, OverridesKnown, ShownBefore, Pending
  <2> QED
    BY <2>1, <2>2
<1> QED
  BY <1>3, <1>4, <1>5 DEF BrowserInv

\* A change of the plan alone leaves rights and session.
LEMMA PlanAlone ==
    ASSUME BrowserTypes, NEW f \in SUBSET PlanFeatures, account' = [account EXCEPT !.features = f]
    PROVE  /\ account' \in AccountRows
           /\ account'.granted = account.granted /\ account'.denied = account.denied
           /\ account'.live = account.live /\ account'.roles = account.roles /\ account'.tenant = account.tenant
           /\ account'.features = f
           /\ Effective(account') = Effective(account)
           /\ \A ask : Admits(account', ask) <=> Admits(account, ask)
<1>1. /\ account' \in AccountRows
      /\ account'.granted = account.granted /\ account'.denied = account.denied
      /\ account'.live = account.live /\ account'.roles = account.roles /\ account'.tenant = account.tenant
      /\ account'.features = f
  BY DEF BrowserTypes, AccountRows
<1>2. Effective(account') = Effective(account)
  BY <1>1 DEF Effective
<1> QED
  BY <1>1, <1>2 DEF Admits

\* A plan changed elsewhere leaves rights and session.
LEMMA PlanChangesKeeps ==
    ASSUME BrowserInv, PlanChanges
    PROVE  BrowserInv'
<1>1. BrowserTypes /\ account' = [account EXCEPT !.features = PlanFeatures \ account.features]
  BY DEF BrowserInv, PlanChanges, BrowserTypes
<1> DEFINE Same == /\ account' \in AccountRows
           /\ account'.granted = account.granted /\ account'.denied = account.denied
           /\ account'.live = account.live /\ account'.roles = account.roles /\ account'.tenant = account.tenant
           /\ Effective(account') = Effective(account)
           /\ \A ask : Admits(account', ask) <=> Admits(account, ask)
<1>2. Same
  BY <1>1, PlanAlone
<1>3. UNCHANGED <<held, me, page, url, ticket, loads, era, late>> /\ drifted' = TRUE
  BY DEF PlanChanges
<1>4. BrowserTypes' /\ RouterFollows' /\ PortalStaysClosed'
  BY <1>1, <1>2, <1>3, WindowStays DEF BrowserTypes
<1>5. BrowserCopyIsCurrent' /\ OverridesKnown' /\ RolesKnown' /\ OutsideOrganisations'
  BY <1>2, <1>3
  DEF BrowserInv, BrowserCopyIsCurrent, OverridesKnown, RolesKnown, OutsideOrganisations, Pending, Overridden
<1>6. PageWasAdmitted'
  BY <1>2, <1>3 DEF BrowserInv, PageWasAdmitted, ShownBefore, SessionScreen, Pending, Overridden
<1> QED
  BY <1>4, <1>5, <1>6 DEF BrowserInv

\* Signing out forgets the copy.
LEMMA SignOutKeeps ==
    ASSUME BrowserInv, SignOut
    PROVE  BrowserInv'
<1>1. /\ account' \in AccountRows
      /\ account'.granted = account.granted /\ account'.denied = account.denied
      /\ ~account'.live /\ account'.tenant = account.tenant
  BY DEF SignOut, BrowserInv, BrowserTypes, AccountRows
<1>2. account'.granted \cap account'.denied = {} /\ (~account'.tenant => ~Overridden')
  BY <1>1 DEF BrowserInv, BrowserTypes, OutsideOrganisations, Overridden
<1> QED
  BY <1>1, <1>2, Forgotten DEF SignOut

\* A link of the sidebar or of a row leads to a path there is, a client's to a client's path.
LEMMA FollowKeeps ==
    ASSUME BrowserInv, Follow
    PROVE  BrowserInv'
<1>1. BrowserTypes /\ IsCopy(held) /\ held.user
  BY DEF BrowserInv, BrowserTypes, Follow
<1>2. UNCHANGED <<account, held, me, page, era, drifted, late>>
  BY DEF Follow
<1>3. PICK path \in Paths :
         /\ Visit(held, path, loads)
         /\ \/ \E item \in NavigationFor(held) : path = item.path
            \/ ScreenAt(page.route).row # None /\ path = ScreenAt(page.route).row
  <2>1. ASSUME NEW item \in NavigationFor(held), Visit(held, item.path, loads)
        PROVE  item.path \in Paths
    BY <2>1, SidebarEntries DEF GoodEntry
  <2>2. ScreenAt(page.route).row # None => ScreenAt(page.route).row \in Paths
    BY <1>1, RowsLead DEF BrowserTypes, Routed
  <2> QED
    BY <2>1, <2>2 DEF Follow
<1>4. ~late /\ held.roles = {"client"} => path \in ClientPaths
  <2> SUFFICES ASSUME ~late, held.roles = {"client"}
               PROVE  path \in ClientPaths
    OBVIOUS
  <2>1. ~held.tenant => held.permissions = PermissionsForRoles({"client"})
    BY <1>1 DEF BrowserInv, OutsideOrganisations
  <2>2. \A item \in NavigationFor(held) : item.path \in ClientPaths
    BY <2>1, ClientSidebar
  <2>3. page.route \in ClientPaths \cup PublicPaths
    BY <1>1 DEF BrowserInv, PortalStaysClosed
  <2>4. ScreenAt(page.route).row # None => ScreenAt(page.route).row \in ClientPaths
    BY <2>3, ClientRows
  <2> QED
    BY <1>3, <2>2, <2>4
<1>5. /\ url' \in Paths /\ ticket' \in Nat
      /\ LoadsFollow'
      /\ \E l \in loads' : l.ticket = ticket'
      /\ ~late /\ held.roles = {"client"} => url' \in ClientPaths
  BY <1>1, <1>3, <1>4, VisitGoes DEF Routed
<1>6. BrowserTypes' /\ RouterFollows'
  BY <1>1, <1>2, <1>5 DEF BrowserInv, BrowserTypes, IsCopy, RouterFollows, Routed, LoadsFollow
<1>7. BrowserCopyIsCurrent' /\ OverridesKnown' /\ RolesKnown' /\ OutsideOrganisations'
  BY <1>2
  DEF BrowserInv, BrowserCopyIsCurrent, OverridesKnown, RolesKnown, OutsideOrganisations, Pending, Overridden
<1>8. PageWasAdmitted' /\ PortalStaysClosed'
  BY <1>2, <1>5 DEF BrowserInv, PageWasAdmitted, ShownBefore, SessionScreen, Pending, Overridden,
     PortalStaysClosed
<1> QED
  BY <1>6, <1>7, <1>8 DEF BrowserInv

\* Signing in makes a copy of the account and goes where its strongest role lands.
LEMMA EnterAppKeeps ==
    ASSUME BrowserInv, EnterApp
    PROVE  BrowserInv'
<1>1. BrowserTypes /\ IsCopy(Copy(account))
  BY CopyOf DEF BrowserInv
<1>2. /\ account' \in AccountRows
      /\ account'.granted = account.granted /\ account'.denied = account.denied
      /\ account'.features = account.features
      /\ account'.live /\ account'.tenant = account.tenant /\ account'.roles = account.roles
  BY <1>1 DEF EnterApp, BrowserTypes, AccountRows
<1>3. Effective(account') = Effective(account)
  BY <1>2 DEF Effective
<1>4. /\ held' = Copy(account') /\ held'.user /\ held'.roles = account'.roles
      /\ held'.permissions = Effective(account') /\ held'.tenant = account'.tenant
  BY <1>2, <1>3 DEF EnterApp, Copy
<1>5. /\ LandingPathFor(account.roles) \in Paths
      /\ account.roles = {"client"} => LandingPathFor(account.roles) \in ClientPaths
  BY <1>1, Landings, PathsApart DEF BrowserTypes, AccountRows
<1>6. Visit(Copy(account), LandingPathFor(account.roles), {})
  BY DEF EnterApp
<1>7. /\ url' \in Paths /\ ticket' \in Nat
      /\ LoadsFollow'
      /\ \E l \in loads' : l.ticket = ticket'
      /\ account.roles = {"client"} => url' \in ClientPaths
  BY <1>1, <1>5, <1>6, VisitGoes, CopyOf DEF Routed
<1>8. /\ page.route = "/login" /\ page.route \in PublicPaths /\ era' = era + 1 /\ drifted' = FALSE
      /\ UNCHANGED <<me, page, late>>
  BY PathsApart DEF EnterApp
<1>9. BrowserTypes' /\ RouterFollows'
  <2>1. held' = Copy(account) /\ me'.copy = me.copy /\ me'.era = me.era
    BY <1>8 DEF EnterApp
  <2>2. IsCopy(held)' /\ IsCopy(me.copy)'
    BY <1>1, <2>1 DEF BrowserTypes, IsCopy
  <2>3. BrowserTypes'
    BY <1>1, <1>2, <1>7, <1>8, <2>1, <2>2 DEF BrowserTypes, Routed, LoadsFollow
  <2> QED
    BY <1>4, <1>7, <2>3 DEF RouterFollows, LoadsFollow
<1>10. BrowserCopyIsCurrent' /\ OverridesKnown' /\ RolesKnown'
  BY <1>1, <1>4, <1>8 DEF BrowserInv, BrowserTypes, BrowserCopyIsCurrent, OverridesKnown, RolesKnown, Pending
<1>11. OutsideOrganisations'
  <2>1. ~account'.tenant => ~Overridden' /\ Effective(account') = PermissionsForRoles(account'.roles)
    BY <1>2 DEF BrowserInv, OutsideOrganisations, Overridden, Effective
  <2> QED
    BY <1>4, <1>8, <2>1 DEF BrowserInv, OutsideOrganisations
<1>12. PageWasAdmitted' /\ PortalStaysClosed'
  <2>1. \A P : Opens(P, "/login")
    BY PathsApart, ScreensOfPaths DEF Opens, SignedOut, Screen
  <2> QED
    BY <1>4, <1>2, <1>7, <1>8, <2>1 DEF PageWasAdmitted, PortalStaysClosed
<1> QED
  BY <1>9, <1>10, <1>11, <1>12 DEF BrowserInv

\* A reloaded window asks who it is, and takes the address bar up again.
LEMMA BootKeeps ==
    ASSUME BrowserInv, Boot
    PROVE  BrowserInv'
<1> DEFINE copy == IF account.live THEN Copy(account) ELSE NoOne
<1>1. BrowserTypes /\ IsCopy(copy) /\ (copy.user <=> account.live)
  BY CopyOf DEF BrowserInv, BrowserTypes
<1>2. /\ held' = copy /\ era' = (IF copy.user THEN era ELSE era + 1) /\ Visit(copy, url, {})
      /\ drifted' = FALSE /\ me' = [copy |-> NoOne, era |-> 0]
      /\ page' = [route |-> "/login", phase |-> "blank"] /\ account' = account /\ late' = late
  BY DEF Boot
<1>3. account.live => /\ held' = Copy(account) /\ held'.roles = account.roles
                      /\ held'.permissions = Effective(account) /\ held'.tenant = account.tenant
  BY <1>1, <1>2, CopyOf
<1>4. ~late /\ account.live => held.user /\ held.roles = account.roles
  BY DEF BrowserInv, RouterFollows, RolesKnown
<1>5. url \in Routed
  BY <1>1 DEF BrowserTypes
<1>6. account.live /\ ~late /\ account.roles = {"client"} => url \in ClientPaths
  BY <1>4 DEF BrowserInv, PortalStaysClosed
<1>7. account.live => copy = Copy(account)
  OBVIOUS
<1> HIDE DEF copy
<1>8. /\ url' \in Routed /\ ticket' \in Nat
      /\ LoadsFollow'
      /\ \E l \in loads' : l.ticket = ticket'
      /\ ~copy.user => url' \in PublicPaths
      /\ copy.user /\ copy.roles = {"client"} /\ url \in ClientPaths => url' \in ClientPaths
  BY <1>1, <1>2, <1>5, VisitGoes
<1>9. BrowserTypes'
  <2>1. IsCopy(held)' /\ IsCopy(me.copy)' /\ me'.era = 0
    BY <1>1, <1>2, CopyOf DEF IsCopy
  <2>2. page'.route = "/login" /\ page'.phase = "blank" /\ "/login" \in Routed
    BY <1>2, PathsApart DEF Routed
  <2>3. era' \in Nat
    BY <1>1, <1>2 DEF BrowserTypes
  <2> QED
    BY <1>1, <1>2, <1>8, <2>1, <2>2, <2>3 DEF BrowserTypes, LoadsFollow
<1>10. RouterFollows' /\ BrowserCopyIsCurrent'
  BY <1>1, <1>2, <1>7, <1>8, PathsApart DEF RouterFollows, BrowserCopyIsCurrent, LoadsFollow
<1>11. ~me'.copy.user
  BY <1>1, <1>2, CopyOf
<1>12. RolesKnown' /\ OverridesKnown'
  BY <1>2, <1>3, <1>11 DEF RolesKnown, OverridesKnown, Pending
<1>13. OutsideOrganisations'
  <2>1. ~account.tenant => ~Overridden /\ Effective(account) = PermissionsForRoles(account.roles)
    BY <1>1, CopyOf DEF BrowserInv, OutsideOrganisations
  <2>2. Overridden' <=> Overridden
    BY <1>2 DEF Overridden
  <2> QED
    BY <1>1, <1>2, <1>3, <1>11, <2>1, <2>2 DEF OutsideOrganisations
<1>14. PageWasAdmitted'
  BY <1>2 DEF PageWasAdmitted
<1>15. PortalStaysClosed'
  BY <1>1, <1>2, <1>3, <1>6, <1>7, <1>8, PathsApart DEF PortalStaysClosed
<1> QED
  BY <1>9, <1>10, <1>12, <1>13, <1>14, <1>15 DEF BrowserInv

\* An answer of the server is shown when its ticket is the last; a session that is over is left.
LEMMA AnswerKeeps ==
    ASSUME BrowserInv, Answer
    PROVE  BrowserInv'
<1> DEFINE ended(l) == ~account.live /\ Reads(l.route) # {}
           lacking(l) == \E ask \in ScreenAt(l.route).must : ~Admits(account, ask)
<1>1. PICK l \in loads :
         /\ IF ended(l) THEN Lost(loads \ {l})
            ELSE loads' = loads \ {l} /\ UNCHANGED <<held, era, drifted, url, ticket>>
         /\ page' = IF ended(l) \/ Superseded(l) THEN page
                    ELSE [route |-> l.route, phase |-> IF lacking(l) THEN "refused" ELSE "shown"]
         /\ UNCHANGED <<account, me, late, moves>>
  BY DEF Answer
<1>2. BrowserTypes /\ RouterFollows
  BY DEF BrowserInv
<1>3. CASE ended(l) /\ held.user
  <2>1. held' = NoOne /\ era' = era + 1 /\ Visit(NoOne, "/login", loads \ {l})
    BY <1>1, <1>3 DEF Lost
  <2>2. UNCHANGED <<account, me, page, late>> /\ ~account'.live
    BY <1>1, <1>3
  <2>3. ~account'.tenant => ~Overridden'
    BY <2>2 DEF BrowserInv, OutsideOrganisations, Overridden
  <2>4. /\ account' \in AccountRows
        /\ account'.granted \cap account'.denied = {}
    BY <1>2, <2>2 DEF BrowserTypes
  <2> QED
    BY <2>1, <2>2, <2>3, <2>4, Forgotten
<1>4. CASE ~(ended(l) /\ held.user)
  <2>1. /\ loads' = loads \ {l}
        /\ UNCHANGED <<account, me, late, held, era, drifted, url, ticket>>
    BY <1>1, <1>4 DEF Lost
  <2>2. CASE ended(l) \/ Superseded(l)
    <3>1. page' = page
      BY <1>1, <2>2
    <3>2. l.ticket # ticket
      <4>1. CASE Superseded(l)
        BY <4>1 DEF Superseded
      <4>2. CASE ended(l)
        <5>1. ~held.user /\ url \in PublicPaths
          BY <1>2, <1>4, <4>2 DEF RouterFollows
        <5>2. Reads(url) = {}
          BY <5>1, ScreensOfPaths DEF Reads, SignedOut, Screen
        <5> QED
          BY <1>2, <4>2, <5>2 DEF RouterFollows
      <4> QED
        BY <2>2, <4>1, <4>2
    <3>3. BrowserTypes' /\ RouterFollows'
      BY <1>2, <2>1, <3>1, <3>2 DEF BrowserTypes, IsCopy, RouterFollows
    <3>4. BrowserCopyIsCurrent' /\ OverridesKnown' /\ RolesKnown' /\ OutsideOrganisations'
      BY <2>1
      DEF BrowserInv, BrowserCopyIsCurrent, OverridesKnown, RolesKnown, OutsideOrganisations, Pending,
          Overridden
    <3>5. PageWasAdmitted' /\ PortalStaysClosed'
      BY <2>1, <3>1
      DEF BrowserInv, PageWasAdmitted, ShownBefore, SessionScreen, Pending, Overridden, PortalStaysClosed
    <3> QED
      BY <3>3, <3>4, <3>5 DEF BrowserInv
  <2>3. CASE ~ended(l) /\ ~Superseded(l)
    <3>1. l.route = url
      BY <1>2, <2>3 DEF RouterFollows, Superseded
    <3>2. page'.route = url /\ page'.phase = IF lacking(l) THEN "refused" ELSE "shown"
      BY <1>1, <2>3, <3>1
    <3>3. BrowserTypes' /\ RouterFollows'
      BY <1>2, <2>1, <3>2 DEF BrowserTypes, IsCopy, RouterFollows
    <3>4. BrowserCopyIsCurrent' /\ OverridesKnown' /\ RolesKnown' /\ OutsideOrganisations'
      BY <2>1
      DEF BrowserInv, BrowserCopyIsCurrent, OverridesKnown, RolesKnown, OutsideOrganisations, Pending,
          Overridden
    <3>5. PageWasAdmitted'
      BY <2>1, <3>1, <3>2 DEF PageWasAdmitted, Opens, Admits
    <3>6. PortalStaysClosed'
      BY <2>1, <3>2 DEF BrowserInv, PortalStaysClosed
    <3> QED
      BY <3>3, <3>4, <3>5, <3>6 DEF BrowserInv
  <2> QED
    BY <2>2, <2>3
<1> QED
  BY <1>3, <1>4

\* An answer of /auth/me replaces the copy and visits the path again.
LEMMA RefreshKeeps ==
    ASSUME BrowserInv, Refresh
    PROVE  BrowserInv'
<1>1. BrowserTypes /\ IsCopy(me.copy) /\ me.copy.user /\ url \in Routed
  BY DEF BrowserInv, BrowserTypes, Refresh
<1>2. /\ held' = me.copy /\ me' = [copy |-> NoOne, era |-> 0] /\ late' = (late \/ me.era # era)
      /\ drifted' = (me.copy # Copy(account)) /\ Visit(me.copy, url, loads)
      /\ UNCHANGED <<account, page, era, moves>>
  BY DEF Refresh
<1>3. ~late' => ~late /\ Pending /\ held.user /\ me.copy.roles = held.roles
  BY <1>1, <1>2 DEF BrowserInv, RolesKnown, Pending
<1>4. /\ url' \in Paths /\ ticket' \in Nat
      /\ LoadsFollow'
      /\ \E l \in loads' : l.ticket = ticket'
      /\ me.copy.roles = {"client"} /\ url \in ClientPaths => url' \in ClientPaths
  BY <1>1, <1>2, VisitGoes
<1>5. ~me'.copy.user /\ IsCopy(me'.copy) /\ me'.era = 0
  BY <1>1, <1>2, CopyOf
<1>6. BrowserTypes' /\ RouterFollows'
  <2>1. IsCopy(held)' /\ IsCopy(me.copy)'
    BY <1>1, <1>2, <1>5 DEF IsCopy
  <2> QED
    BY <1>1, <1>2, <1>4, <1>5, <2>1 DEF BrowserTypes, RouterFollows, Routed, LoadsFollow
<1>7. BrowserCopyIsCurrent'
  BY <1>2 DEF BrowserCopyIsCurrent, Copy
<1>8. RolesKnown' /\ OverridesKnown'
  BY <1>2, <1>3, <1>5 DEF BrowserInv, RolesKnown, OverridesKnown, Pending, Overridden
<1>9. OutsideOrganisations'
  BY <1>1, <1>2, <1>5 DEF BrowserInv, OutsideOrganisations, Overridden
<1>10. PageWasAdmitted'
  BY <1>2, <1>3, <1>5 DEF BrowserInv, PageWasAdmitted, ShownBefore, SessionScreen, Pending, Overridden
<1>11. PortalStaysClosed'
  BY <1>2, <1>3, <1>4 DEF BrowserInv, PortalStaysClosed
<1> QED
  BY <1>6, <1>7, <1>8, <1>9, <1>10, <1>11 DEF BrowserInv

\* A control that the server accepts reloads, goes on or asks who it is again.
LEMMA PressKeeps ==
    ASSUME BrowserInv, Press
    PROVE  BrowserInv'
<1>1. BrowserTypes /\ RouterFollows
  BY DEF BrowserInv
<1>2. CASE ~account.live
  <2>1. Lost(loads) /\ UNCHANGED <<account, me, page, late>>
    BY <1>2 DEF Press
  <2>2. CASE held.user
    <3>1. held' = NoOne /\ era' = era + 1 /\ Visit(NoOne, "/login", loads)
      BY <2>1, <2>2 DEF Lost
    <3>2. ~account'.tenant => ~Overridden'
      BY <2>1 DEF BrowserInv, OutsideOrganisations, Overridden
    <3>3. /\ account' \in AccountRows
          /\ account'.granted \cap account'.denied = {} /\ ~account'.live
      BY <1>1, <1>2, <2>1 DEF BrowserTypes
    <3> QED
      BY <2>1, <3>1, <3>2, <3>3, Forgotten
  <2>3. CASE ~held.user
    <3>1. UNCHANGED <<account, me, page, late, loads, held, era, drifted, url, ticket>>
      BY <2>1, <2>3 DEF Lost
    <3>2. BrowserTypes' /\ RouterFollows' /\ BrowserCopyIsCurrent'
      BY <1>1, <2>3, <3>1 DEF BrowserTypes, IsCopy, RouterFollows, BrowserCopyIsCurrent
    <3>3. RolesKnown' /\ OverridesKnown' /\ OutsideOrganisations'
      BY <3>1 DEF BrowserInv, OverridesKnown, RolesKnown, OutsideOrganisations, Pending, Overridden
    <3>4. PageWasAdmitted' /\ PortalStaysClosed'
      BY <1>2, <2>3, <3>1 DEF PageWasAdmitted, PortalStaysClosed
    <3> QED
      BY <3>2, <3>3, <3>4 DEF BrowserInv
  <2> QED
    BY <2>2, <2>3
<1>3. CASE account.live
  <2>1. PICK o \in OffersOn(page.route) :
           /\ Admits(account, o.call)
           /\ account' = IF o.call \in PlanCalls
                         THEN [account EXCEPT !.features = PlanFeatures \ account.features] ELSE account
           /\ drifted' = (drifted \/ account'.features # account.features)
           /\ me' = IF o.after = "session" THEN [copy |-> Copy(account'), era |-> era] ELSE me
           /\ CASE o.after = "reload" -> Visit(held, url, loads)
                [] o.after = "go" -> Visit(held, LandingPathFor(held.roles), loads)
                [] OTHER -> UNCHANGED <<url, ticket, loads>>
           /\ UNCHANGED <<held, era>>
    BY <1>3 DEF Press
  <2>2. UNCHANGED <<held, era, page, late>> /\ page.phase = "shown" /\ o \in ScreenAt(page.route).offers
    BY <2>1 DEF Press, OffersOn
  <2> DEFINE Same == /\ account' \in AccountRows
             /\ account'.granted = account.granted /\ account'.denied = account.denied
             /\ account'.live = account.live /\ account'.roles = account.roles
                  /\ account'.tenant = account.tenant
             /\ Effective(account') = Effective(account)
             /\ \A ask : Admits(account', ask) <=> Admits(account, ask)
  <2>3. Same
    <3>1. CASE o.call \in PlanCalls
      <4>1. account' = [account EXCEPT !.features = PlanFeatures \ account.features]
        BY <2>1, <3>1
      <4> QED
        BY <1>1, <4>1, PlanAlone
    <3>2. CASE o.call \notin PlanCalls
      <4>1. account' = account
        BY <2>1, <3>2
      <4> QED
        BY <1>1, <4>1 DEF BrowserTypes
    <3> QED
      BY <3>1, <3>2
  <2>4. account'.granted \cap account'.denied = {} /\ (Overridden' <=> Overridden)
    BY <1>1, <2>3 DEF BrowserTypes, Overridden
  <2>5. /\ held.user
        /\ ~late => held.roles = account.roles
        /\ ~late /\ held.roles = {"client"} => url \in ClientPaths
             /\ page.route \in ClientPaths \cup PublicPaths
        /\ Overridden /\ ~late => held.permissions = Effective(account)
    BY <1>3 DEF BrowserInv, RouterFollows, RolesKnown, PortalStaysClosed, OverridesKnown
  <2>6. \/ me' = me /\ o.after # "session"
        \/ /\ o.after = "session" /\ me'.era = era /\ me'.copy.user /\ me'.copy.roles = account.roles
           /\ me'.copy.permissions = Effective(account) /\ me'.copy.tenant = account.tenant
           /\ IsCopy(me'.copy)
    BY <2>1, <2>3 DEF Copy, IsCopy, AccountRows
  <2>7. /\ url' \in Paths \/ url' = url
        /\ ticket' \in Nat /\ url' \in Routed
        /\ LoadsFollow'
        /\ page.route = url' \/ \E l \in loads' : l.ticket = ticket'
        /\ ~late /\ held.roles = {"client"} => url' \in ClientPaths
    <3>1. CASE o.after = "reload"
      <4>1. Visit(held, url, loads) /\ url \in Routed /\ IsCopy(held)
        BY <1>1, <2>1, <3>1 DEF BrowserTypes
      <4> QED
        BY <1>1, <2>5, <4>1, VisitGoes
    <3>2. CASE o.after = "go"
      <4>1. Visit(held, LandingPathFor(held.roles), loads) /\ IsCopy(held)
        BY <1>1, <2>1, <3>2 DEF BrowserTypes
      <4>2. /\ LandingPathFor(held.roles) \in Routed
            /\ held.roles = {"client"} => LandingPathFor(held.roles) \in ClientPaths
        BY <4>1, Landings, PathsApart DEF IsCopy, Routed
      <4> QED
        BY <1>1, <2>5, <4>1, <4>2, VisitGoes
    <3>3. CASE o.after # "reload" /\ o.after # "go"
      <4>1. UNCHANGED <<url, ticket, loads>>
        BY <2>1, <3>3
      <4> QED
        BY <1>1, <2>5, <4>1 DEF BrowserTypes, RouterFollows, LoadsFollow
    <3> QED
      BY <3>1, <3>2, <3>3
  <2>8. BrowserTypes' /\ RouterFollows'
    <3>1. IsCopy(held)' /\ IsCopy(me.copy)' /\ me'.era \in Nat
      BY <1>1, <2>2, <2>6 DEF BrowserTypes, IsCopy
    <3>2. BrowserTypes'
      BY <1>1, <2>2, <2>3, <2>4, <2>7, <3>1 DEF BrowserTypes, LoadsFollow
    <3> QED
      BY <2>2, <2>5, <2>7, <3>2 DEF RouterFollows, LoadsFollow
  <2>9. BrowserCopyIsCurrent'
    <3> SUFFICES ASSUME ~me'.copy.user, ~drifted', ~late'
                 PROVE  held' = Copy(account')
      BY DEF BrowserCopyIsCurrent
    <3>1. me' = me /\ ~drifted /\ account'.features = account.features
      BY <2>1, <2>6
    <3>2. Copy(account') = Copy(account)
      BY <2>3, <3>1 DEF Copy
    <3> QED
      BY <1>3, <2>2, <2>5, <3>1, <3>2 DEF BrowserInv, BrowserCopyIsCurrent
  <2>10. RolesKnown' /\ OverridesKnown'
    BY <1>1, <2>2, <2>3, <2>4, <2>5, <2>6 DEF BrowserInv, BrowserTypes, RolesKnown, OverridesKnown, Pending
  <2>11. OutsideOrganisations'
    BY <1>1, <2>2, <2>3, <2>4, <2>6, CopyOf DEF BrowserInv, OutsideOrganisations
  <2>12. PageWasAdmitted'
    <3> SUFFICES ASSUME ~late
                 PROVE  Opens(Effective(account), page.route) \/ ShownBefore' \/ SessionScreen'
      BY <2>2, <2>3 DEF PageWasAdmitted
    <3>1. Opens(Effective(account), page.route) \/ ShownBefore \/ SessionScreen
      BY <1>3, <2>2 DEF BrowserInv, PageWasAdmitted
    <3>2. SessionScreen => SessionScreen'
      BY <2>2, <2>3, <2>4 DEF SessionScreen
    <3>3. ShownBefore /\ o.after # "session" => ShownBefore'
      BY <2>2, <2>3, <2>6 DEF ShownBefore, Pending
    <3>4. ShownBefore /\ o.after = "session" => SessionScreen'
      BY <2>1, <2>2, <2>3, <2>4, <2>5 DEF ShownBefore, SessionScreen
    <3> QED
      BY <3>1, <3>2, <3>3, <3>4
  <2>13. PortalStaysClosed'
    BY <2>2, <2>5, <2>7 DEF PortalStaysClosed
  <2> QED
    BY <2>8, <2>9, <2>10, <2>11, <2>12, <2>13 DEF BrowserInv
<1>4. account.live \in BOOLEAN
  BY <1>1 DEF BrowserTypes, AccountRows
<1> QED
  BY <1>2, <1>3, <1>4

-----------------------------------------------------------------------------
(***************************************************************************)
(* The browser: what the invariant says, and the theorems                  *)
(***************************************************************************)

\* All of them together.
LEMMA BrowserSteps ==
    ASSUME BrowserInv, [BrowsingNext]_browsingVars
    PROVE  BrowserInv'
<1>1. CASE BrowsingNext
  BY <1>1, SignOutKeeps, FollowKeeps, EnterAppKeeps, BootKeeps, AnswerKeeps, RefreshKeeps, PressKeeps,
     PutRolesKeeps,
     PutPermissionKeeps, OverridesLapseKeeps, PlanChangesKeeps DEF BrowsingNext
<1>2. CASE UNCHANGED browsingVars
  <2>1. UNCHANGED <<account, held, me, page, url, ticket, loads, era, drifted, late, moves>>
    BY <1>2 DEF browsingVars, browsing
  <2>2. BrowserTypes' /\ RouterFollows' /\ BrowserCopyIsCurrent' /\ PortalStaysClosed'
    BY <2>1 DEF BrowserInv, BrowserTypes, IsCopy, RouterFollows, BrowserCopyIsCurrent, PortalStaysClosed
  <2>3. RolesKnown' /\ OverridesKnown' /\ OutsideOrganisations' /\ PageWasAdmitted'
    BY <2>1
    DEF BrowserInv, OverridesKnown, RolesKnown, OutsideOrganisations, Pending, Overridden,
        PageWasAdmitted, ShownBefore,
        SessionScreen
  <2> QED
    BY <2>2, <2>3 DEF BrowserInv
<1> QED
  BY <1>1, <1>2

\* What the window shows keeps up.
LEMMA WindowParts ==
    ASSUME BrowserInv
    PROVE  WindowKeepsUp
<1>1. BrowsingTypeOK
  BY DEF BrowserInv, BrowserTypes, BrowsingTypeOK, IsCopy, Routed, AccountRows
<1>2. OutletFollowsTheUrl /\ SignedOutSeesNothing
  BY DEF BrowserInv, RouterFollows, OutletFollowsTheUrl, SignedOutSeesNothing
<1> QED
  BY <1>1, <1>2 DEF BrowserInv, WindowKeepsUp

\* What is admitted by some permissions of a demand is admitted by more.
LEMMA AllowedByMore ==
    ASSUME NEW P, NEW few, NEW more, few # {}, few \subseteq more, Allowed(P, few)
    PROVE  Allowed(P, more)
  BY DEF Allowed

\* What the sidebar, the controls, the rows and the portal offer is accepted, from the tables of
\* screens, controls and demands, and what the copy and the page are known to be.
LEMMA OffersParts ==
    ASSUME BrowserInv
    PROVE  OffersAreGood
<1>1. BrowserTypes
  BY DEF BrowserInv
<1>2. ASSUME Fresh
      PROVE  held.user /\ held.permissions = Effective(account) /\ held.roles = account.roles
  BY <1>1, <1>2, CopyOf DEF Fresh
<1>3. SidebarOpens
  <2> SUFFICES ASSUME Fresh, NEW item \in NavigationFor(held), item.key \notin WiderThanTheScreen,
                      NEW ask \in ScreenAt(Guard(held, item.path)).must
               PROVE  Admits(account, ask)
    BY DEF SidebarOpens
  <2>1. item.path \in Paths /\ Opens(Effective(account), item.path)
    BY <1>2, SidebarEntries DEF GoodEntry
  <2>2. Guard(held, item.path) \in {"/admin/dashboard", item.path}
    BY <1>2, <2>1, PathsApart DEF Guard
  <2>3. Opens(Effective(account), "/admin/dashboard")
    BY WhoOpensWhat DEF WhoOpens
  <2> QED
    BY <2>1, <2>2, <2>3 DEF Opens, Admits
<1>4. OfferedIsAccepted
  <2> SUFFICES ASSUME Fresh, NEW o \in OffersOn(page.route), o.gate # {}, o.after # "keep",
                        o.call \notin AskedOtherwise
               PROVE  Admits(account, o.call)
    BY DEF OfferedIsAccepted
  <2>1. o \in ScreenAt(page.route).offers /\ Allowed(held.permissions, o.gate)
    BY DEF OffersOn, Shown
  <2>2. Accepted(o)
    BY <1>1, <2>1, ControlsOfPaths DEF BrowserTypes, Routed
  <2>3. DemandOf(o.call) = {} => Admits(account, o.call)
    BY DEF Admits, Allowed
  <2> QED
    BY <1>2, <2>1, <2>2, <2>3, AllowedByMore DEF Accepted, Admits
<1>5. ASSUME FreshInSession, page.phase = "shown"
      PROVE  Opens(Effective(account), page.route) \/ SessionScreen
  BY <1>2, <1>5 DEF FreshInSession, BrowserInv, PageWasAdmitted, ShownBefore
<1>6. RowsOpen
  <2> SUFFICES ASSUME FreshInSession, page.phase = "shown", ScreenAt(page.route).row # None,
                      ~(page.route = "/approvals" /\ DeniedReports)
               PROVE  Opens(Effective(account), ScreenAt(page.route).row)
    BY DEF RowsOpen, Opens, Admits
  <2>1. ~SessionScreen
    BY <1>1, ControlsOfPaths DEF SessionScreen, BrowserTypes, Routed
  <2>2. Opens(Effective(account), page.route)
    BY <1>5, <2>1
  <2>3. CASE page.route # "/approvals"
    BY <1>1, <2>2, <2>3, RowsLead DEF BrowserTypes, Routed
  <2>4. CASE page.route = "/approvals" /\ ~DeniedReports
    <3>1. ScreenAt(page.route).row = "/reports/:id"
      BY <2>4, ScreensOfPaths, RowsOfScreens
    <3>2. PICK role \in account.roles : role \in RoleKeys
      BY <1>1 DEF BrowserTypes, AccountRows
    <3>3. RoleDefinitions[role].permissions \cap {Everything, "reports.view", "reports.view.own"} # {}
      <4>1. /\ "reports.view" \in FinanceExecutive /\ "reports.view" \in Accountant
                 /\ "reports.view" \in AuditorRole
            /\ "reports.view.own" \in ClientRole /\ "reports.view" \in FinanceManager
                 /\ "reports.view" \in AdminRole
        BY DEF FinanceExecutive, Accountant, AuditorRole, ClientRole, FinanceManager, AdminRole
      <4> QED
        BY <3>2, <4>1, RoleGrants
    <3>4. account.denied \cap {Everything, "reports.view", "reports.view.own"} = {}
      BY <1>1, <2>4, BrowsingConstants DEF BrowserTypes, DeniedReports, AccountRows
    <3>5. PICK p \in {Everything, "reports.view", "reports.view.own"} : p \in Effective(account)
      BY <3>2, <3>3, <3>4 DEF Effective, PermissionsForRoles
    <3>6. Allowed(Effective(account), {"reports.view", "reports.view.own"})
      BY <3>5 DEF Allowed, Covers
    <3> QED
      BY <3>1, <3>6, WhoOpensWhat DEF WhoOpens
  <2> QED
    BY <2>3, <2>4
<1>7. PortalAsksForItsOwn
  <2> SUFFICES ASSUME FreshInSession, AsTheRoleGrants, page.phase = "shown", NEW ask \in Reads(page.route)
               PROVE  Admits(account, ask)
    BY DEF PortalAsksForItsOwn
  <2>1. /\ held.user /\ held.permissions = Effective(account) /\ held.roles = {"client"}
        /\ page.route \in ClientPaths \cup PublicPaths
    BY <1>2 DEF FreshInSession, AsTheRoleGrants, BrowserInv, PortalStaysClosed
  <2>2. /\ Effective(account) = ClientRole \cup account.granted
        /\ account.granted \subseteq Exceptions
    BY <1>1, RoleGrants DEF AsTheRoleGrants, Effective, PermissionsForRoles, BrowserTypes, AccountRows
  <2>3. Everything \notin ClientRole /\ "settings.manage" \notin ClientRole
    BY DEF ClientRole, Everything
  <2>4. /\ ClientRole \subseteq Effective(account) /\ Everything \notin Effective(account)
        /\ "settings.manage" \notin Effective(account)
    BY <2>2, <2>3, BrowsingConstants DEF AsTheRoleGrants
  <2>5. Opens(Effective(account), page.route)
    <3>1. ASSUME SessionScreen
          PROVE  Opens(Effective(account), page.route)
      <4>1. PICK o \in ScreenAt(page.route).offers : o.after = "session" /\ Admits(account, o.call)
        BY <3>1 DEF SessionScreen
      <4>2. NotForClients(o) \/ Opens(Effective(account), page.route)
        BY <1>1, <4>1, ControlsOfPaths DEF BrowserTypes, Routed
      <4>3. Effective(account) = ClientRole
        BY <2>2, <3>1 DEF SessionScreen, Overridden
      <4>4. ~NotForClients(o)
        BY <2>3, <4>1, <4>3 DEF NotForClients, Admits, Allowed, Covers
      <4> QED
        BY <4>2, <4>4
    <3> QED
      BY <1>5, <3>1
  <2>6. CASE ask \in ScreenAt(page.route).must
    BY <2>5, <2>6 DEF Opens, Admits
  <2>7. CASE ask \notin ScreenAt(page.route).must
    <3>1. PICK a \in ScreenAt(page.route).may : Shown(a) /\ ask = a.call
      BY <2>7 DEF Reads
    <3>2. Allowed(Effective(account), a.gate) /\ ~a.staff
      BY <2>1, <3>1 DEF Shown
    <3> QED
      BY <2>1, <2>4, <2>5, <3>1, <3>2, PortalReads DEF Admits
  <2> QED
    BY <2>6, <2>7
<1> QED
  BY <1>3, <1>4, <1>6, <1>7 DEF OffersAreGood

\* The window keeps up, for any accounts, plan and overrides and in any order of answers: the outlet
\* shows the address bar's screen or waits for it, a browser without a session shows nothing of
\* one, and its copy is the account's until something changes elsewhere (router.js, session.js,
\* app.js and api.js of the public client).
THEOREM WindowCorrect == BrowsingSpec => []WindowKeepsUp
<1>1. BrowsingInit => BrowserInv
  BY BrowserStarts
<1>2. BrowserInv /\ [BrowsingNext]_browsingVars => BrowserInv'
  BY BrowserSteps
<1>3. BrowserInv => WindowKeepsUp
  BY WindowParts
<1> QED
  BY <1>1, <1>2, <1>3, PTL DEF BrowsingSpec

\* What a browser offers, the server accepts, for any accounts, plan and overrides: entries of the
\* sidebar, controls and rows lead to what the routes of the server admit, and a client's screens
\* read nothing the server keeps from clients (nav.js, the screens' modules, middleware.js).
THEOREM OffersCorrect == BrowsingSpec => []OffersAreGood
<1>1. BrowsingInit => BrowserInv
  BY BrowserStarts
<1>2. BrowserInv /\ [BrowsingNext]_browsingVars => BrowserInv'
  BY BrowserSteps
<1>3. BrowserInv => OffersAreGood
  BY OffersParts
<1> QED
  BY <1>1, <1>2, <1>3, PTL DEF BrowsingSpec
=============================================================================
