-------------------------------- MODULE Calls --------------------------------
(***************************************************************************)
(* modules/calls.js: one agent's calls, placed through a telephony         *)
(* provider, polled by the call bar, controlled by the agent and updated   *)
(* by the provider's webhook (applyTelephonyEvent of modules/webhooks.js). *)
(* What the call really does is the provider's state, wire.                *)
(***************************************************************************)
EXTENDS Handlers

CONSTANT
    MaxCalls        \* bound: calls the agent places

ASSUME CallConstants == MaxCalls \in Nat \ {0}

VARIABLES
    calls,          \* call_records, by number
    wire,           \* external: what the provider says of each call
    tape,           \* call_recordings of each call: rows, and whether one is available
    presence,       \* telephony_agents.presence of the agent
    tagUse,         \* call_tags.usage_count of the tag
    metrics,        \* call_metrics_daily: total_calls and missed_calls of the day
    tagged,         \* history: dispositions that carried the tag
    processed       \* history: how often afterCallProcessing ran for each call

calling == <<calls, wire, tape, presence, tagUse, metrics, tagged, processed>>
callVars == <<server, calling>>

CallIds == 1..MaxCalls
Live == {"initiated", "ringing", "in_progress", "on_hold"}
Over == {"completed", "no_answer", "failed"}
NoRecord == [status |-> "absent", known |-> FALSE, hold |-> FALSE, answered |-> FALSE, ended |-> FALSE,
             handled |-> FALSE]

CallInit ==
    /\ calls = [c \in CallIds |-> NoRecord]
    /\ wire = [c \in CallIds |-> "none"]
    /\ tape = [c \in CallIds |-> [rows |-> 0, available |-> FALSE]]
    /\ presence = "available"
    /\ tagUse = 0 /\ metrics = [total |-> 0, missed |-> 0]
    /\ tagged = 0
    /\ processed = [c \in CallIds |-> 0]

Placed == {c \in CallIds : calls[c].status # "absent"}
Missed(S) == Cardinality({c \in Placed : calls[c].status \in S})

\* External: the other side picks up, or does not, and the call ends.
Says == [ringing |-> "ringing", live |-> "in_progress", ended |-> "completed", unanswered |-> "no_answer"]

WireMoves(c) ==
    /\ \/ wire[c] = "ringing" /\ wire' = [wire EXCEPT ![c] = "live"]
       \/ wire[c] = "ringing" /\ wire' = [wire EXCEPT ![c] = "unanswered"]
       \/ wire[c] = "live" /\ wire' = [wire EXCEPT ![c] = "ended"]
    /\ UNCHANGED <<server, calls, tape, presence, tagUse, metrics, tagged, processed>>

-----------------------------------------------------------------------------
\* POST /calls/dial: the row, the provider, then its answer, the agent's presence.
Dial(r) ==
    LET c == Cardinality(Placed) + 1 IN
    /\ c \in CallIds
    /\ calls' = [calls EXCEPT ![c] = [NoRecord EXCEPT !.status = "initiated"]]
    /\ Begin(r, [pc |-> "place", call |-> c])
    /\ UNCHANGED <<wire, tape, presence, tagUse, metrics, tagged, processed>>

PlaceCall(r, accepted) ==
    /\ At(r, "place")
    /\ wire' = IF accepted THEN [wire EXCEPT ![req[r].call] = "ringing"] ELSE wire
    /\ Continue(r, [pc |-> IF accepted THEN "placed" ELSE "refused", call |-> req[r].call])
    /\ UNCHANGED <<calls, tape, presence, tagUse, metrics, tagged, processed>>

Placing(r) ==
    LET c == req[r].call IN
    /\ At(r, "placed") \/ At(r, "refused")
    /\ calls' = [calls EXCEPT ![c] =
          Update(@, IF At(r, "placed") THEN [status |-> "ringing", known |-> TRUE]
                    ELSE [status |-> "failed", ended |-> TRUE])]
    /\ Continue(r, IF At(r, "placed") THEN [pc |-> "presence", to |-> "on_call", then |-> Idle] ELSE Idle)
    /\ UNCHANGED <<wire, tape, presence, tagUse, metrics, tagged, processed>>

\* POST /:id/conference: the call is marked and the added leg is a record of its own.
Conference(r, c) ==
    LET leg == Cardinality(Placed) + 1 IN
    /\ c \in Placed /\ leg \in CallIds
    /\ calls' = [calls EXCEPT ![leg] = [NoRecord EXCEPT !.status = "ringing", !.known = TRUE]]
    /\ wire' = [wire EXCEPT ![leg] = "ringing"]
    /\ Begin(r, Idle)
    /\ UNCHANGED <<tape, presence, tagUse, metrics, tagged, processed>>

SetPresence(r) ==
    /\ At(r, "presence")
    /\ presence' = req[r].to
    /\ Continue(r, req[r].then)
    /\ UNCHANGED <<calls, wire, tape, tagUse, metrics, tagged, processed>>

\* POST /calls/presence.
PostPresence(r, p) ==
    /\ presence' = p
    /\ Begin(r, Idle)
    /\ UNCHANGED <<calls, wire, tape, tagUse, metrics, tagged, processed>>

-----------------------------------------------------------------------------
\* GET /calls/live: the rows that are live, then for each what the provider says now.
Poll(r) ==
    /\ \E c \in Placed : calls[c].status \in Live
    /\ Fire(r, [pc |-> "ask", rest |-> {[call |-> c, row |-> calls[c]] :
                                          c \in {d \in Placed : calls[d].status \in Live}}])
    /\ UNCHANGED calling

\* For call c of those it read the provider answers, or does not; applyProviderUpdate
\* follows when the answer differs from the row the poll read.
Ask(r, c, answers) ==
    /\ At(r, "ask")
    /\ \E x \in req[r].rest :
         LET rest == req[r].rest \ {x} IN
         /\ x.call = c
         /\ Continue(r, IF x.row.known /\ answers /\ Says[wire[c]] # x.row.status
                        THEN [pc |-> "apply", call |-> c, row |-> x.row, says |-> Says[wire[c]], rest |-> rest]
                        ELSE [pc |-> "ask", rest |-> rest])
    /\ UNCHANGED calling

PollEnds(r) ==
    /\ At(r, "ask") /\ req[r].rest = {}
    /\ Return(r)
    /\ UNCHANGED calling

\* What is written comes from the row the poll read; hold is left as it is.
ApplyUpdate(r) ==
    LET c == req[r].call
        over == req[r].says \in Over
        row == [calls[c] EXCEPT !.status = req[r].says, !.ended = @ \/ over,
                                !.answered = @ \/ (req[r].says = "in_progress" /\ ~req[r].row.answered)]
        next == [pc |-> "ask", rest |-> req[r].rest]
        after == IF over THEN [pc |-> "presence", to |-> "available",
                               then |-> [pc |-> "process", call |-> c, then |-> next]]
                 ELSE next
    IN
    /\ At(r, "apply")
    /\ calls' = [calls EXCEPT ![c] = row]
    /\ Continue(r, IF req[r].says = "completed" THEN [pc |-> "ingest", call |-> c, then |-> after] ELSE after)
    /\ UNCHANGED <<wire, tape, presence, tagUse, metrics, tagged, processed>>

\* ingestRecording: nothing for a recording that is available; else it is fetched and
\* stored, in the row there was or in a new one.
Ingest(r) ==
    LET t == tape[req[r].call] IN
    /\ At(r, "ingest")
    /\ Continue(r, IF t.available THEN req[r].then
                   ELSE [pc |-> "keep", call |-> req[r].call, new |-> t.rows = 0, then |-> req[r].then])
    /\ UNCHANGED calling

KeepRecording(r, fetched) ==
    LET c == req[r].call IN
    /\ At(r, "keep")
    /\ tape' = [tape EXCEPT ![c] = [rows |-> @.rows + (IF req[r].new THEN 1 ELSE 0),
                                    available |-> @.available \/ fetched]]
    /\ Continue(r, req[r].then)
    /\ UNCHANGED <<calls, wire, presence, tagUse, metrics, tagged, processed>>

\* afterCallProcessing: the timeline, the transcript and the analysis, then rollUpDay,
\* which counts the day's calls anew.
Process(r) ==
    /\ At(r, "process")
    /\ processed' = [processed EXCEPT ![req[r].call] = @ + 1]
    /\ Continue(r, [pc |-> "rollUp", then |-> req[r].then])
    /\ UNCHANGED <<calls, wire, tape, presence, tagUse, metrics, tagged>>

RollUpDay(r) ==
    /\ At(r, "rollUp")
    /\ metrics' = [total |-> Cardinality(Placed), missed |-> Missed({"no_answer"})]
    /\ Continue(r, req[r].then)
    /\ UNCHANGED <<calls, wire, tape, presence, tagUse, tagged, processed>>

\* rollUpCallMetrics, the nightly job, does not count a call nobody answered as missed.
RollUpCallMetrics(r) ==
    /\ Placed # {}
    /\ metrics' = [total |-> Cardinality(Placed), missed |-> Missed({"missed"})]
    /\ Fire(r, Idle)
    /\ UNCHANGED <<calls, wire, tape, presence, tagUse, tagged, processed>>

-----------------------------------------------------------------------------
\* POST /:id/control.  The call's status is not looked at.
Control(r, c, action) ==
    /\ c \in Placed
    /\ Begin(r, [pc |-> "control", call |-> c, hangup |-> action = "hangup",
                 patch |-> CASE action = "hold" -> [hold |-> TRUE, status |-> "on_hold"]
                             [] action = "resume" -> [hold |-> FALSE, status |-> "in_progress"]
                             [] action = "hangup" -> [status |-> "completed", ended |-> TRUE]])
    /\ UNCHANGED calling

WriteControl(r) ==
    LET c == req[r].call IN
    /\ At(r, "control")
    /\ calls' = [calls EXCEPT ![c] = Update(@, req[r].patch)]
    /\ wire' = IF req[r].hangup /\ calls[c].known /\ wire[c] \in {"ringing", "live"}
               THEN [wire EXCEPT ![c] = "ended"] ELSE wire
    /\ Continue(r, IF ~req[r].hangup THEN Idle
                   ELSE [pc |-> "presence", to |-> "available",
                         then |-> [pc |-> "process", call |-> c, then |-> Idle]])
    /\ UNCHANGED <<tape, presence, tagUse, metrics, tagged, processed>>

\* The provider's webhook: the row is read, then written, and that is all.
WebhookReads(r, c) ==
    /\ calls[c].known /\ Says[wire[c]] # calls[c].status
    /\ Begin(r, [pc |-> "webhook", call |-> c, row |-> calls[c], says |-> Says[wire[c]]])
    /\ UNCHANGED calling

WebhookWrites(r) ==
    LET row == req[r].row IN
    /\ At(r, "webhook")
    /\ calls' = [calls EXCEPT ![req[r].call] =
          Update(@, [status |-> req[r].says,
                     answered |-> row.answered \/ req[r].says \in {"completed", "in_progress"},
                     ended |-> row.ended \/ req[r].says \in Over])]
    /\ Return(r)
    /\ UNCHANGED <<wire, tape, presence, tagUse, metrics, tagged, processed>>

\* POST /:id/disposition: the tag's count, read and written, then a follow-up task
\* (tasks are not kept here).
Disposition(r, c) ==
    /\ c \in Placed
    /\ Begin(r, [pc |-> "tag", seen |-> tagUse])
    /\ UNCHANGED calling

CountTag(r) ==
    /\ At(r, "tag")
    /\ tagUse' = req[r].seen + 1 /\ tagged' = tagged + 1
    /\ Return(r)
    /\ UNCHANGED <<calls, wire, tape, presence, metrics, processed>>

\* POST /:id/missed/handle.
HandleMissed(r, c) ==
    /\ calls[c].status = "no_answer"
    /\ calls' = [calls EXCEPT ![c].handled = TRUE]
    /\ Begin(r, Idle)
    /\ UNCHANGED <<wire, tape, presence, tagUse, metrics, tagged, processed>>

-----------------------------------------------------------------------------
CallRequest(r) ==
    \/ Dial(r) \/ Poll(r) \/ RollUpCallMetrics(r)
    \/ \E p \in {"available", "busy"} : PostPresence(r, p)
    \/ \E c \in CallIds : \/ Conference(r, c) \/ Disposition(r, c) \/ HandleMissed(r, c) \/ WebhookReads(r, c)
                          \/ \E a \in {"hold", "resume", "hangup"} : Control(r, c, a)

CallStep(r) ==
    \/ \E b \in BOOLEAN : \/ PlaceCall(r, b) \/ KeepRecording(r, b)
                         \/ \E c \in CallIds : Ask(r, c, b)
    \/ PollEnds(r)
    \/ Placing(r) \/ SetPresence(r) \/ ApplyUpdate(r) \/ Ingest(r) \/ Process(r) \/ RollUpDay(r)
    \/ WriteControl(r) \/ WebhookWrites(r) \/ CountTag(r)

CallNext ==
    \/ \E r \in Requests : CallRequest(r) \/ CallStep(r)
    \/ \E c \in CallIds : WireMoves(c)
    \/ Restart /\ UNCHANGED calling

\* A start with any slots, any number of requests and of restarts.
CallSpec ==
    /\ \E slots \in SUBSET Requests, requests, stops \in Nat : ServerInit(slots, requests, stops)
    /\ CallInit
    /\ [][CallNext]_callVars

CallTypeOK ==
    /\ calls \in [CallIds -> [status : {"absent"} \cup Live \cup Over, known : BOOLEAN, hold : BOOLEAN,
                              answered : BOOLEAN, ended : BOOLEAN, handled : BOOLEAN]]
    /\ wire \in [CallIds -> {"none"} \cup DOMAIN Says]
    /\ tape \in [CallIds -> [rows : Nat, available : BOOLEAN]]
    /\ presence \in {"available", "busy", "on_call"}
    /\ tagUse \in Nat /\ metrics \in [total : 0..MaxCalls, missed : 0..MaxCalls]
    /\ tagged \in Nat /\ processed \in [CallIds -> Nat]

\* A call whose status says it is over has its end recorded, however hang-up, poll and
\* webhook interleave: each writes status and end in the same statement.
EndedHasAnEnd == \A c \in CallIds : calls[c].status \in Over => calls[c].ended

\* A call has at most one recording row, and the tag's count is the number of
\* dispositions that carried it.  Two polls, or two dispositions, at once break it.
CallBooksAgree ==
    ~overlapped => /\ \A c \in CallIds : tape[c].rows <= 1
                   /\ Quiescent => tagUse = tagged

\* "A call ended on the handset is reflected here rather than hanging in 'in progress'
\* for ever": once the provider has said the last of a call it knows, its row leaves
\* the live statuses for good, whatever hold or resume the agent sends.
EndedCallsLeave ==
    \A c \in CallIds :
      (calls[c].known /\ wire[c] \in {"ended", "unanswered"}) ~> [](calls[c].status \in Over)

\* "Everything that happens once a call ends: transcription, AI summary and sentiment,
\* the timeline entry and the daily metric rollup" happens to every call that ends.
EndedCallIsProcessed ==
    ~overlapped /\ Quiescent =>
      \A c \in CallIds : calls[c].known /\ calls[c].status \in Over => processed[c] > 0
=============================================================================
