----------------------------- MODULE Automation -----------------------------
(***************************************************************************)
(* One automation rule of one organisation, and the events about some      *)
(* records that fire it (services/automation.js, modules/automation.js).   *)
(* Every event reaches the rule through dispatchNotification.  A rule with *)
(* a delay queues a job that the fifteen-minute pass runs; one without     *)
(* runs its actions at once.  The database is the one production uses: in  *)
(* MySQL's schema the unique index on a rule and a record's key covers     *)
(* every job, so a rule has at most one job per record, and deleting the   *)
(* rule deletes its jobs and its log with it.                              *)
(***************************************************************************)
EXTENDS Handlers

CONSTANTS
    MaxJobTries,    \* MAX_ATTEMPTS
    Records,        \* records the events are about
    OnePass         \* whether a pass always ends before the next one fires

ASSUME AutomationConstants ==
    /\ MaxJobTries \in Nat \ {0} /\ OnePass \in BOOLEAN
    /\ None \notin Records

VARIABLES
    rule,           \* the automation_rules row
    jobs,           \* automation_jobs, by record
    runsLog,        \* automation_runs, counted by status
    fires,          \* history: completed runs of the rule, and of each job
    refused         \* history: records with an event refused while no job was open

automation == <<rule, jobs, runsLog, fires, refused>>
automationVars == <<server, automation>>

JobStatus == {"absent", "pending", "running", "done", "failed", "cancelled", "deleted"}
RunStatus == {"skipped", "queued", "fired", "failed"}

AutomationInit ==
    /\ \E delayed \in BOOLEAN :
          rule = [exists |-> TRUE, active |-> TRUE, delayed |-> delayed, fireCount |-> 0]
    /\ jobs = [j \in Records |-> [status |-> "absent", attempts |-> 0]]
    /\ runsLog = [s \in RunStatus |-> 0]
    /\ fires = [rule |-> 0, job |-> [j \in Records |-> 0]]
    /\ refused = {}

\* record: the log's rows belong to the rule, and one that is gone takes none.
Record(status) == IF rule.exists THEN [runsLog EXCEPT ![status] = @ + 1] ELSE runsLog

\* Mutant: a job that is gone comes back.
SetJobAnyway(j, status) == [jobs EXCEPT ![j].status = status]

\* An UPDATE of a job that is gone changes no row.
SetJob(j, status) ==
    IF jobs[j].status = "deleted" THEN jobs ELSE [jobs EXCEPT ![j].status = status]

-----------------------------------------------------------------------------
\* dispatchNotification: runAutomation reads the active rules of the trigger.
\* A condition that does not hold is recorded as skipped.
Event(r, record, matches) ==
    /\ rule.exists /\ rule.active
    /\ Begin(r, [pc |-> IF ~matches THEN "skip" ELSE IF rule.delayed THEN "queue" ELSE "act",
                 seen |-> rule.fireCount, of |-> record, job |-> None, tried |-> 0])
    /\ UNCHANGED automation

RecordSkipped(r) ==
    /\ At(r, "skip")
    /\ runsLog' = Record("skipped")
    /\ Return(r)
    /\ UNCHANGED <<rule, jobs, fires, refused>>

\* queueJob inserts the job.  A clash on the unique index reaches it translated,
\* "That record already exists.", which its test for UNIQUE or constraint does not
\* recognise: the clash is thrown on and the event is recorded as failed.
QueueJob(r) ==
    LET j == req[r].of
        free == jobs[j].status = "absent" /\ rule.exists
    IN
    /\ At(r, "queue")
    /\ jobs' = IF free THEN [jobs EXCEPT ![j].status = "pending"] ELSE jobs
    /\ runsLog' = Record(IF free THEN "queued" ELSE "failed")
    /\ refused' = IF rule.exists /\ jobs[j].status \in {"done", "failed", "cancelled"}
                  THEN refused \cup {j} ELSE refused
    /\ Return(r)
    /\ UNCHANGED <<rule, fires>>

\* executeActions: an action may throw.
ExecuteActions(r, ok) ==
    /\ At(r, "act")
    /\ fires' = IF ~ok THEN fires
                ELSE [rule |-> fires.rule + 1,
                      job |-> [j \in Records |-> fires.job[j] + (IF j = req[r].job THEN 1 ELSE 0)]]
    /\ Continue(r, [req[r] EXCEPT !.pc = IF ok THEN "bump" ELSE "threw"])
    /\ UNCHANGED <<rule, jobs, runsLog, refused>>

\* bumpFired writes what was read, plus one; a rule that is gone is no row.
BumpFired(r) ==
    /\ At(r, "bump")
    /\ rule' = IF rule.exists THEN [rule EXCEPT !.fireCount = req[r].seen + 1] ELSE rule
    /\ Continue(r, [req[r] EXCEPT !.pc = IF req[r].job = None THEN "record" ELSE "done"])
    /\ UNCHANGED <<jobs, runsLog, fires, refused>>

RecordFired(r) ==
    /\ At(r, "record")
    /\ runsLog' = Record("fired")
    /\ Return(r)
    /\ UNCHANGED <<rule, jobs, fires, refused>>

\* A rule run by an event only records the failure; a job is put back, or given
\* up after its last try.
Threw(r) ==
    LET j == req[r].job IN
    /\ At(r, "threw")
    /\ jobs' = IF j = None THEN jobs
               ELSE SetJob(j, IF req[r].tried + 1 >= MaxJobTries THEN "failed" ELSE "pending")
    /\ runsLog' = Record("failed")
    /\ Continue(r, IF j = None THEN Idle ELSE [pc |-> "pass", rest |-> req[r].rest])
    /\ UNCHANGED <<rule, fires, refused>>

-----------------------------------------------------------------------------
\* runDueAutomationJobs selects the pending jobs that are due ...
InPass(s) == req[s] # Idle /\ "rest" \in DOMAIN req[s]

RunDueJobs(r) ==
    /\ OnePass => \A s \in Requests : ~InPass(s)
    /\ LET due == {j \in Records : jobs[j].status = "pending"} IN
       /\ due # {}
       /\ Fire(r, [pc |-> "pass", rest |-> [j \in due |-> jobs[j].attempts]])
    /\ UNCHANGED automation

EndPass(r) ==
    /\ At(r, "pass") /\ DOMAIN req[r].rest = {}
    /\ Return(r)
    /\ UNCHANGED automation

\* ... and claims each with an UPDATE that asks for 'pending'.  When it changes no
\* row the status is read again, and a job that is running is gone on with.
ClaimJob(r, j) ==
    LET rest == [k \in DOMAIN req[r].rest \ {j} |-> req[r].rest[k]]
        mine == jobs[j].status = "pending"
    IN
    /\ At(r, "pass") /\ j \in DOMAIN req[r].rest
    /\ jobs' = IF mine THEN [jobs EXCEPT ![j] = [status |-> "running", attempts |-> @.attempts + 1]]
               ELSE jobs
    /\ Continue(r, IF mine \/ jobs[j].status = "running"
                   THEN [pc |-> "rule", job |-> j, tried |-> req[r].rest[j], rest |-> rest]
                   ELSE [pc |-> "pass", rest |-> rest])
    /\ UNCHANGED <<rule, runsLog, fires, refused>>

\* The rule is read: one that is gone or switched off cancels the job.
ReadRule(r) ==
    /\ At(r, "rule")
    /\ IF rule.exists /\ rule.active
       THEN /\ Continue(r, [pc |-> "act", job |-> req[r].job, tried |-> req[r].tried,
                            seen |-> rule.fireCount, rest |-> req[r].rest])
            /\ UNCHANGED jobs
       ELSE /\ Continue(r, [pc |-> "pass", rest |-> req[r].rest])
            /\ jobs' = SetJob(req[r].job, "cancelled")
    /\ UNCHANGED <<rule, runsLog, fires, refused>>

JobDone(r) ==
    /\ At(r, "done")
    /\ jobs' = SetJob(req[r].job, "done")
    /\ runsLog' = Record("fired")
    /\ Continue(r, [pc |-> "pass", rest |-> req[r].rest])
    /\ UNCHANGED <<rule, fires, refused>>

-----------------------------------------------------------------------------
\* PATCH and DELETE of the rule.
PatchRule(r, field) ==
    /\ rule.exists
    /\ rule' = IF field = "active" THEN [rule EXCEPT !.active = ~@]
               ELSE [rule EXCEPT !.delayed = ~@]
    /\ Begin(r, Idle)
    /\ UNCHANGED <<jobs, runsLog, fires, refused>>

DeleteRule(r) ==
    /\ rule.exists
    /\ rule' = [rule EXCEPT !.exists = FALSE]
    /\ jobs' = [j \in Records |-> IF jobs[j].status = "absent" THEN jobs[j]
                                  ELSE [jobs[j] EXCEPT !.status = "deleted"]]
    /\ runsLog' = [s \in RunStatus |-> 0]
    /\ Begin(r, Idle)
    /\ UNCHANGED <<fires, refused>>

-----------------------------------------------------------------------------
AutomationStep(r) ==
    \/ RecordSkipped(r) \/ QueueJob(r)
    \/ (\E ok \in BOOLEAN : ExecuteActions(r, ok)) \/ BumpFired(r) \/ RecordFired(r) \/ Threw(r)
    \/ EndPass(r) \/ (\E j \in Records : ClaimJob(r, j)) \/ ReadRule(r) \/ JobDone(r)

AutomationRequest(r) ==
    \/ \E record \in Records, matches \in BOOLEAN : Event(r, record, matches)
    \/ RunDueJobs(r)
    \/ \E field \in {"active", "delayed"} : PatchRule(r, field)
    \/ DeleteRule(r)

AutomationNext ==
    \/ \E r \in Requests : AutomationRequest(r) \/ AutomationStep(r)
    \/ Restart /\ UNCHANGED automation

\* A start with any slots, any number of requests and of restarts.
AutomationSpec ==
    /\ \E slots \in SUBSET Requests, requests, stops \in Nat : ServerInit(slots, requests, stops)
    /\ AutomationInit
    /\ [][AutomationNext]_automationVars

AutomationTypeOK ==
    /\ rule \in [exists : BOOLEAN, active : BOOLEAN, delayed : BOOLEAN, fireCount : Nat]
    /\ jobs \in [Records -> [status : JobStatus, attempts : 0..MaxJobTries]]
    /\ runsLog \in [RunStatus -> Nat]
    /\ fires \in [rule : Nat, job : [Records -> Nat]]
    /\ refused \subseteq Records

\* automation.js: "A job is claimed by moving it to 'running' before the actions
\* run, so a second scheduler pass cannot pick up the same one".  A job completes
\* its rule's actions at most once, through retries, edits and restarts.  It holds
\* while one pass runs at a time: a second one re-reads the status after its claim
\* failed, finds the first one's 'running' and goes on with the job.
JobRunsOnce == \A j \in Records : fires.job[j] <= 1

\* services/automation.js, queueJob: "Returns false when an identical job is
\* already pending".  An event is refused only while a job for its record is
\* waiting or running.
RefusedOnlyWhileOpen == refused = {}

\* What a row of automation_jobs is to the queue.
JobItem ==
    [j \in Records |-> CASE jobs[j].status = "absent" -> "absent"
                         [] jobs[j].status = "pending" -> "waiting"
                         [] jobs[j].status = "running" -> "taken"
                         [] OTHER -> "finished"]
JobTries == [j \in Records |-> jobs[j].attempts]

Queue == INSTANCE WorkQueue WITH
    Items <- Records, MaxTries <- MaxJobTries, item <- JobItem, tries <- JobTries

\* The jobs of a rule are a work queue: in one pass's hands at a time, tried at most
\* MAX_ATTEMPTS times, and never taken up again once done, given up or cancelled -
\* whatever events, edits and restarts come between, while passes do not overlap.
ImplementsQueue == Queue!QueueSpec

\* A pending job does not stay pending: the passes run it, cancel it or give it
\* up.  Only a restart leaves a job running for good.
PendingJobsEnd ==
    \A j \in Records :
       jobs[j].status = "pending" ~> jobs[j].status \in {"done", "failed", "cancelled", "deleted"} \/ faults = 0

\* The rule's counter and the run log agree with the runs that completed.
\* Claimed while no two handlers have overlapped: the counter is written back.
FireCountAgrees ==
    ~overlapped /\ Quiescent /\ rule.exists =>
      rule.fireCount = fires.rule /\ runsLog["fired"] = fires.rule
=============================================================================
