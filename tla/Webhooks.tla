------------------------------ MODULE Webhooks ------------------------------
(***************************************************************************)
(* modules/webhooks.js without its payment events (module Payments), and   *)
(* POST /esign of modules/workspace.js, whose requests the e-sign events   *)
(* are about.  Senders deliver an event as often as they like and in any   *)
(* order.  An event whose row exists is answered as a duplicate.           *)
(***************************************************************************)
EXTENDS Handlers

VARIABLES
    hooks,          \* webhook_events, by event id: the status of its row
    secret,         \* whether the source's secret is configured
    call,           \* call_records and call_recordings of two calls
    delivery,       \* status of the message_deliveries row
    esign,          \* the esign_requests row and its signer
    form,           \* webhook_endpoints.request_count, and the lead the form has captured
    applied,        \* history: how often each event took effect
    submitted       \* history: form submissions answered or refused

webhooks == <<hooks, secret, call, delivery, esign, form, applied, submitted>>
hookVars == <<server, webhooks>>

\* What the events say.  A status normaliseCallStatus does not know reads as ringing.
CallEvents ==
    [inRing    |-> [call |-> "in",  status |-> "ringing",     url |-> FALSE],
     outAnswer |-> [call |-> "out", status |-> "in_progress", url |-> FALSE],
     outEnd    |-> [call |-> "out", status |-> "completed",   url |-> TRUE],
     outTape   |-> [call |-> "out", status |-> "ringing",     url |-> TRUE]]
DeliveryEvents == [delivered |-> "delivered", seen |-> "read"]
SignEvents == [signed |-> "completed", declined |-> "declined", failed |-> "failed"]
Events == DOMAIN CallEvents \cup DOMAIN DeliveryEvents \cup DOMAIN SignEvents \cup {"message", "leadgen"}

NoCall == [status |-> "absent", answered |-> FALSE, ended |-> FALSE, recordings |-> 0]

HookInit ==
    /\ hooks = [e \in Events |-> "absent"]
    /\ secret \in BOOLEAN
    /\ call = [in |-> NoCall, out |-> [NoCall EXCEPT !.status = "initiated"]]
    /\ delivery = "sent"
    /\ esign = [status |-> "absent", known |-> FALSE, signer |-> "absent"]
    /\ form = [count |-> 0, leads |-> 0]
    /\ applied = [e \in Events |-> 0]
    /\ submitted = 0

-----------------------------------------------------------------------------
\* store(): the row is looked for.  The signature was checked before it.
Deliver(r, e) ==
    /\ Begin(r, [pc |-> IF hooks[e] = "absent" THEN "store" ELSE "repeat", event |-> e, valid |-> secret])
    /\ UNCHANGED webhooks

Repeat(r) ==
    /\ At(r, "repeat")
    /\ hooks' = [hooks EXCEPT ![req[r].event] = "duplicate"]
    /\ Return(r)
    /\ UNCHANGED <<secret, call, delivery, esign, form, applied, submitted>>

\* Mutant: the id of an event is not unique.
StoreAgain(r) ==
    LET e == req[r].event IN
    /\ At(r, "store")
    /\ hooks' = [hooks EXCEPT ![e] = "received"]
    /\ Continue(r, IF req[r].valid THEN [pc |-> "apply", event |-> e]
                   ELSE [pc |-> "finish", event |-> e, outcome |-> "failed"])
    /\ UNCHANGED <<secret, call, delivery, esign, form, applied, submitted>>

\* (source, event_id) is unique: the second of two deliveries at once is refused.
Store(r) ==
    LET e == req[r].event IN
    /\ At(r, "store")
    /\ IF hooks[e] # "absent"
       THEN Return(r) /\ UNCHANGED hooks
       ELSE /\ hooks' = [hooks EXCEPT ![e] = "received"]
            /\ Continue(r, IF req[r].valid THEN [pc |-> "apply", event |-> e]
                           ELSE [pc |-> "finish", event |-> e, outcome |-> "failed"])
    /\ UNCHANGED <<secret, call, delivery, esign, form, applied, submitted>>

Finish(r) ==
    /\ At(r, "finish")
    /\ hooks' = [hooks EXCEPT ![req[r].event] = req[r].outcome]
    /\ Return(r)
    /\ UNCHANGED <<secret, call, delivery, esign, form, applied, submitted>>

Settled(e, outcome) == [pc |-> "finish", event |-> e, outcome |-> outcome]

-----------------------------------------------------------------------------
\* applyTelephonyEvent reads the call.  A call nobody placed is recorded as inbound,
\* unless a caller's number is shown: the look-up of the client by number names a
\* column the clients table does not have, and throws.
ApplyCall(r, shown) ==
    LET e == req[r].event
        c == CallEvents[e].call
    IN
    /\ At(r, "apply") /\ e \in DOMAIN CallEvents
    /\ IF call[c].status = "absent"
       THEN Continue(r, IF shown THEN Idle ELSE [pc |-> "inbound", event |-> e])
       ELSE Continue(r, [pc |-> "writeCall", event |-> e, row |-> call[c]])
    /\ UNCHANGED webhooks

\* (provider, provider_call_id) is unique.
InsertInbound(r) ==
    LET e == req[r].event
        c == CallEvents[e].call
        new == call[c].status = "absent"
    IN
    /\ At(r, "inbound")
    /\ call' = IF new THEN [call EXCEPT ![c].status = CallEvents[e].status] ELSE call
    /\ applied' = IF new THEN [applied EXCEPT ![e] = @ + 1] ELSE applied
    /\ Continue(r, IF new THEN Settled(e, "processed") ELSE Idle)
    /\ UNCHANGED <<hooks, secret, delivery, esign, form, submitted>>

\* Every column is written, the ones that keep their value from the row read.
WriteCall(r) ==
    LET e == req[r].event
        says == CallEvents[e].status
    IN
    /\ At(r, "writeCall")
    /\ call' = [call EXCEPT ![CallEvents[e].call] =
          Update(@, [status |-> says,
                     answered |-> req[r].row.answered \/ says \in {"completed", "in_progress"},
                     ended |-> req[r].row.ended \/ says = "completed"])]
    /\ applied' = [applied EXCEPT ![e] = @ + 1]
    /\ Continue(r, IF CallEvents[e].url THEN [pc |-> "recording", event |-> e] ELSE Settled(e, "processed"))
    /\ UNCHANGED <<hooks, secret, delivery, esign, form, submitted>>

CheckRecording(r) ==
    LET e == req[r].event IN
    /\ At(r, "recording")
    /\ Continue(r, IF call[CallEvents[e].call].recordings > 0 THEN Settled(e, "processed")
                   ELSE [pc |-> "addRecording", event |-> e])
    /\ UNCHANGED webhooks

AddRecording(r) ==
    LET e == req[r].event IN
    /\ At(r, "addRecording")
    /\ call' = [call EXCEPT ![CallEvents[e].call].recordings = @ + 1]
    /\ Continue(r, Settled(e, "processed"))
    /\ UNCHANGED <<hooks, secret, delivery, esign, form, applied, submitted>>

\* A delivery report is one UPDATE.
ApplyDelivery(r) ==
    LET e == req[r].event IN
    /\ At(r, "apply") /\ e \in DOMAIN DeliveryEvents
    /\ delivery' = DeliveryEvents[e]
    /\ applied' = [applied EXCEPT ![e] = @ + 1]
    /\ Continue(r, Settled(e, "processed"))
    /\ UNCHANGED <<hooks, secret, call, esign, form, submitted>>

\* storeInboundWhatsApp: no organisation has the receiving number, or the look-up of
\* the sender throws as the caller's does, before the message is stored.
ApplyMessage(r, ours) ==
    /\ At(r, "apply") /\ req[r].event = "message"
    /\ Continue(r, IF ours THEN Idle ELSE Settled("message", "ignored"))
    /\ UNCHANGED webhooks

\* A lead form's event: no organisation is connected, or the row that would queue it in
\* integration_sync_logs has the status 'queued', which the table does not accept.
ApplyLeadgen(r, connected) ==
    /\ At(r, "apply") /\ req[r].event = "leadgen"
    /\ Continue(r, IF connected THEN Idle ELSE Settled("leadgen", "ignored"))
    /\ UNCHANGED webhooks

\* The e-sign request is found by the id the provider gave it.  esign_requests.status
\* does not accept 'completed', so the update that reports a signature throws.
ApplySign(r) ==
    LET e == req[r].event
        refused == SignEvents[e] = "completed"
    IN
    /\ At(r, "apply") /\ e \in DOMAIN SignEvents
    /\ IF ~esign.known
       THEN Continue(r, Settled(e, "ignored")) /\ UNCHANGED <<esign, applied>>
       ELSE /\ esign' = IF refused THEN esign ELSE [esign EXCEPT !.status = SignEvents[e]]
            /\ applied' = IF refused THEN applied ELSE [applied EXCEPT ![e] = @ + 1]
            /\ Continue(r, IF refused THEN Idle ELSE [pc |-> "signer", event |-> e])
    /\ UNCHANGED <<hooks, secret, call, delivery, form, submitted>>

\* esign_signers.status does not accept 'failed'.
WriteSigner(r) ==
    LET e == req[r].event
        refused == SignEvents[e] = "failed"
    IN
    /\ At(r, "signer")
    /\ esign' = IF refused THEN esign ELSE [esign EXCEPT !.signer = SignEvents[e]]
    /\ Continue(r, IF refused THEN Idle ELSE Settled(e, "processed"))
    /\ UNCHANGED <<hooks, secret, call, delivery, form, applied, submitted>>

-----------------------------------------------------------------------------
\* POST /esign: a draft and its signer, the file, then the provider, whose answer
\* makes the draft 'sent' with the provider's id, or 'failed'.
PostEsign(r) ==
    /\ esign.status = "absent"
    /\ Begin(r, [pc |-> "sign", answer |-> "none"])
    /\ esign' = [esign EXCEPT !.status = "draft"]
    /\ UNCHANGED <<hooks, secret, call, delivery, form, applied, submitted>>

AddSigner(r) ==
    /\ At(r, "sign") /\ req[r].answer = "none"
    /\ esign' = [esign EXCEPT !.signer = "pending"]
    /\ \E a \in {"accepted", "refused"} : Continue(r, [pc |-> "sign", answer |-> a])
    /\ UNCHANGED <<hooks, secret, call, delivery, form, applied, submitted>>

RecordAnswer(r) ==
    /\ At(r, "sign") /\ req[r].answer # "none"
    /\ esign' = IF req[r].answer = "accepted" THEN [esign EXCEPT !.status = "sent", !.known = TRUE]
                ELSE [esign EXCEPT !.status = "failed"]
    /\ Return(r)
    /\ UNCHANGED <<hooks, secret, call, delivery, form, applied, submitted>>

\* POST /forms/:endpointKey carries no event id, so every submission is stored.  The
\* lead's external_id is the id of the endpoint, and (tenant, source, external_id)
\* is unique.
PostForm(r) ==
    /\ Begin(r, [pc |-> "lead", seen |-> form.count])
    /\ UNCHANGED webhooks

InsertFormLead(r) ==
    LET first == form.leads = 0 IN
    /\ At(r, "lead")
    /\ form' = IF first THEN [form EXCEPT !.leads = 1] ELSE form
    /\ submitted' = submitted + 1
    /\ Continue(r, IF first THEN [pc |-> "countForm", seen |-> req[r].seen] ELSE Idle)
    /\ UNCHANGED <<hooks, secret, call, delivery, esign, applied>>

CountForm(r) ==
    /\ At(r, "countForm")
    /\ form' = [form EXCEPT !.count = req[r].seen + 1]
    /\ Return(r)
    /\ UNCHANGED <<hooks, secret, call, delivery, esign, applied, submitted>>

\* The operator gives the deployment the source's secret.
ConfigureSecret ==
    /\ ~secret /\ secret' = TRUE
    /\ UNCHANGED <<server, hooks, call, delivery, esign, form, applied, submitted>>

-----------------------------------------------------------------------------
HookRequest(r) == (\E e \in Events : Deliver(r, e)) \/ PostEsign(r) \/ PostForm(r)

HookStep(r) ==
    \/ Repeat(r) \/ Store(r) \/ Finish(r)
    \/ \E shown \in BOOLEAN : ApplyCall(r, shown) \/ ApplyMessage(r, shown) \/ ApplyLeadgen(r, shown)
    \/ InsertInbound(r) \/ WriteCall(r) \/ CheckRecording(r) \/ AddRecording(r)
    \/ ApplyDelivery(r) \/ ApplySign(r) \/ WriteSigner(r)
    \/ AddSigner(r) \/ RecordAnswer(r) \/ InsertFormLead(r) \/ CountForm(r)

HookNext ==
    \/ \E r \in Requests : HookRequest(r) \/ HookStep(r)
    \/ ConfigureSecret
    \/ Restart /\ UNCHANGED webhooks

\* A start with any slots, any number of requests and of restarts.
HookSpec ==
    /\ \E slots \in SUBSET Requests, requests, stops \in Nat : ServerInit(slots, requests, stops)
    /\ HookInit
    /\ [][HookNext]_hookVars

HookTypeOK ==
    /\ hooks \in [Events -> {"absent", "received", "processed", "ignored", "failed", "duplicate"}]
    /\ call \in [{"in", "out"} ->
          [status : {"absent", "initiated", "ringing", "in_progress", "completed"},
           answered : BOOLEAN, ended : BOOLEAN, recordings : Nat]]
    /\ delivery \in {"sent", "delivered", "read"}
    /\ esign \in [status : {"absent", "draft", "sent", "declined", "failed"}, known : BOOLEAN,
                  signer : {"absent", "pending", "declined"}]
    /\ form \in [count : Nat, leads : 0..1] /\ applied \in [Events -> Nat] /\ submitted \in Nat

\* "Delivery is at-least-once, so every handler is idempotent": however the
\* deliveries of an event overlap, and whatever restart comes between them, it takes
\* effect at most once, and one that is reported as processed has taken effect.
AppliedOnce ==
    \A e \in Events : applied[e] <= 1 /\ (hooks[e] = "processed" => applied[e] = 1)

\* Events come late and in any order, and each writes the whole row: a call that was
\* answered stays answered, one that ended stays ended, and it has one recording.
\* Two events of a call at the same time can undo one another.
OutcomesAreKept ==
    ~overlapped =>
      /\ applied["outAnswer"] + applied["outEnd"] > 0 => call["out"].answered
      /\ applied["outEnd"] > 0 => call["out"].ended
      /\ call["out"].recordings <= 1

\* "Draft until the provider accepts it. Nothing is 'sent' on our say-so": no report
\* of the provider, early, late or repeated, moves a request it has not accepted.
SentMeansAccepted ==
    ~esign.known => esign.status \in {"absent", "draft", "failed"} /\ esign.signer # "declined"

\* tests/webhooks.test.js: "a website form submission on a real endpoint captures a
\* cleaned lead".
EverySubmissionIsALead == submitted = form.leads

\* What providers send is taken in once and never undone: the parts above.
HooksHold ==
    /\ HookTypeOK
    /\ AppliedOnce
    /\ OutcomesAreKept
    /\ SentMeansAccepted
=============================================================================
