----------------------------- MODULE Broadcasts -----------------------------
(***************************************************************************)
(* One broadcast: POST /broadcasts stages the recipients and sends it at   *)
(* once or leaves it to its time, and the scheduler's pass delivers what   *)
(* is due and retries what failed (modules/messaging.js,                   *)
(* services/broadcasts.js).                                                *)
(***************************************************************************)
EXTENDS Handlers, Sequences, SequencesExt

CONSTANTS
    Audiences,      \* the lists of addresses an audience resolves to
    Batch,          \* BATCH: recipients per delivery
    MaxSends        \* MAX_ATTEMPTS

Addresses == UNION {Range(audience) : audience \in Audiences}

ASSUME BroadcastConstants ==
    /\ MaxSends \in Nat \ {0} /\ Batch \in Nat \ {0}
    /\ Audiences \subseteq Seq(Addresses) /\ IsFiniteSet(Addresses)

VARIABLES
    broadcast,      \* the broadcasts row
    recipients,     \* broadcast_recipients, by address
    connected,      \* whether the channel's provider is configured
    sends,          \* history: messages the provider accepted, by address
    post            \* history: the audience asked for and how the POST ended

broadcasting == <<broadcast, recipients, connected, sends, post>>
broadcastVars == <<server, broadcasting>>

Finished == {"sent", "failed"}

BroadcastInit ==
    /\ broadcast = [status |-> "absent", sentCount |-> 0, failedCount |-> 0]
    /\ recipients = [a \in Addresses |-> [status |-> "absent", attempts |-> 0]]
    /\ connected \in BOOLEAN
    /\ sends = [a \in Addresses |-> 0]
    /\ post = [audience |-> <<>>, answer |-> "none"]

-----------------------------------------------------------------------------
\* The audience is resolved and the broadcast inserted, to go out now or later.
PostBroadcast(r, audience, status) ==
    /\ broadcast.status = "absent"
    /\ broadcast' = [broadcast EXCEPT !.status = status]
    /\ post' = [audience |-> audience, answer |-> "waiting"]
    /\ Begin(r, [pc |-> "stage", left |-> audience, now |-> status = "queued"])
    /\ UNCHANGED <<recipients, connected, sends>>

\* stageRecipients, one insert at a time.  A clash on the unique index arrives as
\* "That record already exists.", which is neither UNIQUE nor constraint: it is
\* thrown on and the request ends there.
StageRecipient(r) ==
    /\ At(r, "stage") /\ req[r].left # <<>>
    /\ LET a == Head(req[r].left) IN
       IF recipients[a].status = "absent"
       THEN /\ recipients' = [recipients EXCEPT ![a].status = "pending"]
            /\ Continue(r, [req[r] EXCEPT !.left = Tail(@)])
            /\ UNCHANGED post
       ELSE /\ post' = [post EXCEPT !.answer = "conflict"]
            /\ Return(r)
            /\ UNCHANGED recipients
    /\ UNCHANGED <<broadcast, connected, sends>>

\* All staged: the answer goes out, and an immediate broadcast is delivered behind it.
Staged(r) ==
    /\ At(r, "stage") /\ req[r].left = <<>>
    /\ post' = [post EXCEPT !.answer = "created"]
    /\ Continue(r, IF req[r].now THEN [pc |-> "deliver"] ELSE Idle)
    /\ UNCHANGED <<broadcast, recipients, connected, sends>>

-----------------------------------------------------------------------------
\* Mutant: what is half sent is not picked up again.
RunFreshBroadcasts(r) ==
    /\ broadcast.status \in {"queued", "scheduled"}
    /\ Fire(r, [pc |-> "deliver"])
    /\ UNCHANGED broadcasting

\* runDueBroadcasts picks up what is queued, due or half sent.
RunDueBroadcasts(r) ==
    /\ broadcast.status \in {"queued", "scheduled", "processing"}
    /\ Fire(r, [pc |-> "deliver"])
    /\ UNCHANGED broadcasting

\* deliverBroadcast: without a provider nothing is sent and the broadcast says so.
SendNext(r) ==
    /\ At(r, "deliver")
    /\ broadcast' = [broadcast EXCEPT !.status = IF connected THEN "processing" ELSE "failed"]
    /\ Continue(r, IF connected THEN [pc |-> "select"] ELSE Idle)
    /\ UNCHANGED <<recipients, connected, sends, post>>

\* Mutant: those who were reached are tried again.
UnsentOrSent == {a \in Addresses : recipients[a].status # "absent" /\ recipients[a].attempts < MaxSends}

Unsent == {a \in Addresses : /\ recipients[a].status \in {"pending", "failed"}
                             /\ recipients[a].attempts < MaxSends}

SelectRecipients(r) ==
    /\ At(r, "select")
    /\ \E chosen \in SUBSET Unsent :
          /\ Cardinality(chosen) = IF Cardinality(Unsent) < Batch THEN Cardinality(Unsent) ELSE Batch
          /\ Continue(r, [pc |-> "send", to |-> [a \in chosen |-> recipients[a].attempts]])
    /\ UNCHANGED broadcasting

\* sendOne: the provider accepts the message, refuses it or throws.
SendOne(r, a, accepted) ==
    /\ At(r, "send") /\ a \in DOMAIN req[r].to
    /\ sends' = IF accepted THEN [sends EXCEPT ![a] = @ + 1] ELSE sends
    /\ Continue(r, [pc |-> "note", to |-> req[r].to, last |-> a, ok |-> accepted])
    /\ UNCHANGED <<broadcast, recipients, connected, post>>

\* The row is written with the attempts it had when it was selected, plus one.
NoteOutcome(r) ==
    LET a == req[r].last IN
    /\ At(r, "note")
    /\ recipients' = [recipients EXCEPT
          ![a] = [status |-> IF req[r].ok THEN "sent" ELSE "failed", attempts |-> req[r].to[a] + 1]]
    /\ Continue(r, [pc |-> "send", to |-> [b \in DOMAIN req[r].to \ {a} |-> req[r].to[b]]])
    /\ UNCHANGED <<broadcast, connected, sends, post>>

Sent == {a \in Addresses : recipients[a].status = "sent"}
Dead == {a \in Addresses : recipients[a].status = "failed" /\ recipients[a].attempts >= MaxSends}

Tally(r) ==
    /\ At(r, "send") /\ DOMAIN req[r].to = {}
    /\ Continue(r, [pc |-> "close", sent |-> Cardinality(Sent), dead |-> Cardinality(Dead),
                    remaining |-> Cardinality(Unsent)])
    /\ UNCHANGED broadcasting

CloseBroadcast(r) ==
    /\ At(r, "close")
    /\ broadcast' = [status |-> IF req[r].remaining > 0 THEN "processing"
                                ELSE IF req[r].sent > 0 THEN "sent" ELSE "failed",
                     sentCount |-> req[r].sent, failedCount |-> req[r].dead]
    /\ Return(r)
    /\ UNCHANGED <<recipients, connected, sends, post>>

-----------------------------------------------------------------------------
BroadcastRequest(r) ==
    \/ \E audience \in Audiences, status \in {"queued", "scheduled"} : PostBroadcast(r, audience, status)
    \/ RunDueBroadcasts(r)

BroadcastStep(r) ==
    \/ StageRecipient(r) \/ Staged(r) \/ SendNext(r) \/ SelectRecipients(r)
    \/ (\E a \in Addresses, accepted \in BOOLEAN : SendOne(r, a, accepted))
    \/ NoteOutcome(r) \/ Tally(r) \/ CloseBroadcast(r)

BroadcastNext ==
    \/ \E r \in Requests : BroadcastRequest(r) \/ BroadcastStep(r)
    \/ Restart /\ UNCHANGED broadcasting

\* A start with any slots, any number of requests and of restarts.
BroadcastSpec ==
    /\ \E slots \in SUBSET Requests, requests, stops \in Nat : ServerInit(slots, requests, stops)
    /\ BroadcastInit
    /\ [][BroadcastNext]_broadcastVars

BroadcastTypeOK ==
    /\ broadcast \in [status : {"absent", "queued", "scheduled", "processing"} \cup Finished,
                      sentCount : 0..Cardinality(Addresses), failedCount : 0..Cardinality(Addresses)]
    /\ recipients \in [Addresses -> [status : {"absent", "pending", "sent", "failed"},
                                     attempts : 0..MaxSends]]
    /\ connected \in BOOLEAN
    /\ sends \in [Addresses -> Nat]

\* 0012_automation_runs_and_queues.sql: one row per recipient, "so a retry does not
\* re-send to those already reached".  Claimed while no delivery has overlapped
\* another or been cut off between the provider's answer and the row's update.
ReachedOnce == ~overlapped => \A a \in Addresses : sends[a] <= 1

\* A broadcast is finished only when there is nobody left to try, and then its
\* counters are those of its rows: a message sent is counted, a failure has had
\* every attempt.
FinishedMeansTried ==
    ~overlapped /\ connected /\ broadcast.status \in Finished /\ post.answer # "waiting" =>
      /\ Unsent = {}
      /\ broadcast.sentCount = Cardinality({a \in Addresses : sends[a] > 0})
      /\ broadcast.failedCount = Cardinality(Dead)

\* Once it is in the table a broadcast ends, sent or failed, whatever the provider
\* answers, however deliveries overlap and if the process restarts: it never stays
\* queued "for ever with no explanation".
BroadcastEnds == broadcast.status # "absent" ~> broadcast.status \in Finished

\* services/broadcasts.js, stageRecipients: the unique index "de-duplicates an
\* audience that names the same number twice. Not an error."  When the request is
\* over, everyone in the audience is a recipient.
EveryoneIsStaged ==
    ~overlapped /\ post.answer \in {"created", "conflict"} =>
      \A a \in Range(post.audience) : recipients[a].status # "absent"
=============================================================================
