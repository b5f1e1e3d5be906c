------------------------------- MODULE Payments -------------------------------
(***************************************************************************)
(* Invoices, gateway payments and payment webhooks of one organisation:    *)
(* src/modules/billing.js, the payment part of src/modules/webhooks.js,    *)
(* the verification contract of src/integrations/payments.js and the       *)
(* overdue-invoice job of src/services/scheduler.js.                       *)
(*                                                                         *)
(* The server is one Node process.  No handler runs inside a transaction:  *)
(* every await is a separate statement, so handlers interleave between     *)
(* their statements.  A handler in flight is a request slot with a program *)
(* counter and the values it has read; each action below is one statement  *)
(* that reads what is used later, or one that writes.                      *)
(***************************************************************************)
EXTENDS Integers, FiniteSets, Functions

CONSTANTS
    Invoices,     \* invoice rows that may be created
    PaymentIds,   \* payment rows, and with the same name their gateway order
    Events,       \* webhook event ids the gateway may issue
    Requests,     \* request slots: how many handlers may be in flight at once
    Total,        \* total_paise of an invoice, in units
    MaxRequests,  \* bound on the requests that are not webhook deliveries
    MaxRestarts,  \* bound on the process restarts
    Null

ASSUME TotalAssumption == Total \in Nat \ {0}
ASSUME BoundAssumption ==
    MaxRequests \in Nat /\ MaxRestarts \in Nat
ASSUME NullAssumption ==
    Null \notin Invoices /\ Null \notin PaymentIds /\ Null \notin Events
ASSUME PaymentIdsAssumption == IsFiniteSet(PaymentIds)

VARIABLES
    invoices,  \* table invoices
    payments,  \* table payments
    hooks,     \* table webhook_events, by event id: its status, "none" = no row
    filing,    \* table filing_periods: the period an invoice bills
    secret,    \* whether the gateway's webhook secret is configured
    order,     \* external: the gateway's own record of the order of a payment
    sent,      \* external: the events the gateway has issued, by event id
    returned,  \* external: what the gateway has paid back of a payment
    req,       \* the handlers in flight
    started,   \* requests started so far (bound)
    restarts,  \* restarts so far (bound)
    credited,  \* history: how often a payment was added to its invoice
    applied    \* history: how often an event reached applyPaymentEvent

tables == <<invoices, payments, hooks, filing>>
gateway == <<secret, order, sent, returned>>
history == <<credited, applied>>
vars == <<tables, gateway, req, started, restarts, history>>

-----------------------------------------------------------------------------
(***************************************************************************)
(* Rows                                                                    *)
(***************************************************************************)

InvoiceStatus ==
    {"none", "draft", "issued", "partially_paid", "paid", "overdue", "void"}

PaymentStatus ==
    {"none", "created", "success", "failed", "disputed",
     "partially_refunded", "refunded"}

HookStatus ==
    {"none", "received", "processed", "ignored", "failed", "duplicate"}

\* "open" stands for the statuses from which settlement moves the period on
\* (signed_off, approved, client_review), "earlier" for those before them.
FilingStatus == {"earlier", "open", "paid"}

\* "mismatch": captured, but not for the amount of the payment row.
OrderStatus == {"none", "open", "captured", "mismatch"}

EventKind == {"captured", "failed", "other"}

NoEvent == [pay |-> Null, kind |-> "none"]

NoPayment ==
    [status |-> "none", inv |-> Null, amount |-> 0, refunded |-> 0,
     online |-> FALSE, ref |-> 0]

NoInvoice == [status |-> "none", paid |-> 0, due |-> 0]

IdleRequest ==
    [pc |-> "idle", inv |-> Null, pay |-> Null, ev |-> Null,
     amt |-> 0, seen |-> 0, out |-> "none"]

ProgramCounter ==
    {"idle", "void", "overdue", "checkout", "checkoutOrder", "insertOrder",
     "record", "recordInsert", "verify", "reject", "settle", "credit", "apply", "period", "close",
     "store", "event", "fail", "dispute", "finish",
     "refund", "refunded", "putback", "putbackWrite"}

\* amount_due_paise after a settlement: Math.max(0, total - paid).
Due(paid) == IF paid >= Total THEN 0 ELSE Total - paid

Existing == {p \in PaymentIds : payments[p].status # "none"}

\* nextPaymentReference: COUNT(*) + 1.
NextReference == Cardinality(Existing) + 1

\* UNIQUE (tenant_id, reference_no) refuses a second row with the number.
ReferenceTaken(n) == \E p \in Existing : payments[p].ref = n

\* What provider.verifyPayment accepts: the gateway has captured the order.
\* The amount it reports is returned to the caller, which does not look at it.
Confirmed(p) == order[p] \in {"captured", "mismatch"}

-----------------------------------------------------------------------------
(***************************************************************************)
(* Starting and ending a handler                                           *)
(***************************************************************************)

\* A request other than a webhook delivery takes the slot r.
Begin(r, local) ==
    /\ req[r].pc = "idle"
    /\ started < MaxRequests
    /\ started' = started + 1
    /\ req' = [req EXCEPT ![r] = local]
    /\ UNCHANGED restarts

\* The handler in slot r goes on with the locals local.
Continue(r, local) ==
    /\ req' = [req EXCEPT ![r] = local]
    /\ UNCHANGED <<started, restarts>>

\* The handler in slot r returns or throws: nothing of it is left.
Return(r) == Continue(r, IdleRequest)

At(r, pc) == req[r].pc = pc

-----------------------------------------------------------------------------
(***************************************************************************)
(* Invoices                                                                *)
(***************************************************************************)

\* POST /invoices through createInvoice: an issued invoice or a draft.
CreateInvoice(i) ==
    /\ invoices[i].status = "none"
    /\ \E s \in {"issued", "draft"} :
         invoices' = [invoices EXCEPT ![i] =
                         [status |-> s, paid |-> 0, due |-> Total]]
    /\ UNCHANGED <<payments, hooks, filing, gateway, req, started, restarts, history>>

\* Mutant: the payments against the invoice are not looked at.
VoidLoadUnchecked(r, i) ==
    /\ invoices[i].status # "none"
    /\ Begin(r, [IdleRequest EXCEPT !.pc = "void", !.inv = i])
    /\ UNCHANGED <<tables, gateway, history>>

\* POST /invoices/:id/void, the read: payments against the invoice refuse it.
VoidLoad(r, i) ==
    /\ invoices[i].status # "none"
    /\ invoices[i].paid = 0
    /\ Begin(r, [IdleRequest EXCEPT !.pc = "void", !.inv = i])
    /\ UNCHANGED <<tables, gateway, history>>

VoidWrite(r) ==
    /\ At(r, "void")
    /\ invoices' = [invoices EXCEPT ![req[r].inv].status = "void"]
    /\ Return(r)
    /\ UNCHANGED <<payments, hooks, filing, gateway, history>>

\* flagOverdueInvoices, the select: the rows are read before any is written.
OverdueLoad(r, i) ==
    /\ invoices[i].status \in {"issued", "partially_paid"}
    /\ Begin(r, [IdleRequest EXCEPT !.pc = "overdue", !.inv = i])
    /\ UNCHANGED <<tables, gateway, history>>

\* ... and the update of one of them, whatever became of it meanwhile.
OverdueWrite(r) ==
    /\ At(r, "overdue")
    /\ invoices' = [invoices EXCEPT ![req[r].inv].status = "overdue"]
    /\ Return(r)
    /\ UNCHANGED <<payments, hooks, filing, gateway, history>>

-----------------------------------------------------------------------------
(***************************************************************************)
(* Starting a payment                                                      *)
(***************************************************************************)

\* POST /payments/checkout, the guards on the invoice row as it is now.
CheckoutLoad(r, i) ==
    /\ invoices[i].status \notin {"none", "paid", "void"}
    /\ \E amt \in 1..invoices[i].due :
         Begin(r, [IdleRequest EXCEPT !.pc = "checkout", !.inv = i, !.amt = amt])
    /\ UNCHANGED <<tables, gateway, history>>

\* nextPaymentReference, for a checkout and for an offline payment.
ReadReference(r) ==
    /\ req[r].pc \in {"checkout", "record"}
    /\ Continue(r, [req[r] EXCEPT
          !.pc = IF At(r, "checkout") THEN "checkoutOrder" ELSE "recordInsert",
          !.seen = NextReference])
    /\ UNCHANGED <<tables, gateway, history>>

\* provider.createOrder accepted: the gateway now holds an open order.
CheckoutOrder(r, p) ==
    /\ At(r, "checkoutOrder")
    /\ order[p] = "none" /\ payments[p].status = "none"
    /\ order' = [order EXCEPT ![p] = "open"]
    /\ Continue(r, [req[r] EXCEPT !.pc = "insertOrder", !.pay = p])
    /\ UNCHANGED <<tables, secret, sent, returned, history>>

\* provider.createOrder refused: the attempt is recorded as a failed payment.
CheckoutRefused(r, p) ==
    /\ At(r, "checkoutOrder")
    /\ order[p] = "none" /\ payments[p].status = "none"
    /\ payments' = IF ReferenceTaken(req[r].seen) THEN payments
                   ELSE [payments EXCEPT ![p] =
                           [status |-> "failed", inv |-> req[r].inv,
                            amount |-> req[r].amt, refunded |-> 0,
                            online |-> TRUE, ref |-> req[r].seen]]
    /\ Return(r)
    /\ UNCHANGED <<invoices, hooks, filing, gateway, history>>

\* The insert of the payment row.  A number taken meanwhile is a conflict: the
\* handler throws and the open order keeps no row.
CheckoutInsert(r) ==
    LET p == req[r].pay IN
    /\ At(r, "insertOrder")
    /\ payments' = IF ReferenceTaken(req[r].seen) THEN payments
                   ELSE [payments EXCEPT ![p] =
                           [status |-> "created", inv |-> req[r].inv,
                            amount |-> req[r].amt, refunded |-> 0,
                            online |-> TRUE, ref |-> req[r].seen]]
    /\ Return(r)
    /\ UNCHANGED <<invoices, hooks, filing, gateway, history>>

\* POST /payments/record, the read: an offline payment within what is due.
RecordLoad(r, i) ==
    /\ invoices[i].status \notin {"none", "void"}
    /\ \E amt \in 1..invoices[i].due :
         Begin(r, [IdleRequest EXCEPT !.pc = "record", !.inv = i, !.amt = amt])
    /\ UNCHANGED <<tables, gateway, history>>

\* ... and the insert, after which the row is settled at once.
RecordInsert(r, p) ==
    /\ At(r, "recordInsert")
    /\ order[p] = "none" /\ payments[p].status = "none"
    /\ IF ReferenceTaken(req[r].seen)
       THEN Return(r) /\ UNCHANGED payments
       ELSE /\ payments' = [payments EXCEPT ![p] =
                              [status |-> "created", inv |-> req[r].inv,
                               amount |-> req[r].amt, refunded |-> 0,
                               online |-> FALSE, ref |-> req[r].seen]]
            /\ Continue(r, [IdleRequest EXCEPT !.pc = "settle", !.pay = p])
    /\ UNCHANGED <<invoices, hooks, filing, gateway, history>>

-----------------------------------------------------------------------------
(***************************************************************************)
(* settlePayment                                                           *)
(***************************************************************************)

\* The payment row: success, whatever it was.
Settle(r) ==
    /\ At(r, "settle")
    /\ payments' = [payments EXCEPT ![req[r].pay].status = "success"]
    /\ Continue(r, [req[r] EXCEPT !.pc = "credit"])
    /\ UNCHANGED <<invoices, hooks, filing, gateway, history>>

\* The invoice is read ...
CreditRead(r) ==
    LET i == payments[req[r].pay].inv IN
    /\ At(r, "credit")
    /\ Continue(r, [req[r] EXCEPT !.pc = "apply", !.inv = i,
                                  !.seen = invoices[i].paid])
    /\ UNCHANGED <<tables, gateway, history>>

\* What follows a settlement: a webhook closes its event row, a request returns.
AfterSettlement(r) ==
    IF req[r].ev = Null THEN IdleRequest
    ELSE [req[r] EXCEPT !.pc = "finish", !.out = "processed"]

\* Mutant: the amount paid is cut at the total.
CreditWriteCapped(r) ==
    LET i    == req[r].inv
        p    == req[r].pay
        sum  == req[r].seen + payments[p].amount
        paid == IF sum > Total THEN Total ELSE sum IN
    /\ At(r, "apply")
    /\ invoices' = [invoices EXCEPT ![i] =
          [status |-> IF Due(paid) = 0 THEN "paid" ELSE "partially_paid",
           paid |-> paid, due |-> Due(paid)]]
    /\ credited' = [credited EXCEPT ![p] = @ + 1]
    /\ Continue(r, IF Due(paid) = 0 THEN [req[r] EXCEPT !.pc = "period"]
                   ELSE AfterSettlement(r))
    /\ UNCHANGED <<payments, hooks, filing, gateway, applied>>

\* Mutant: a part payment advances the filing period too.
CreditWriteEager(r) ==
    LET i    == req[r].inv
        p    == req[r].pay
        paid == req[r].seen + payments[p].amount IN
    /\ At(r, "apply")
    /\ invoices' = [invoices EXCEPT ![i] =
          [status |-> IF Due(paid) = 0 THEN "paid" ELSE "partially_paid",
           paid |-> paid, due |-> Due(paid)]]
    /\ credited' = [credited EXCEPT ![p] = @ + 1]
    /\ Continue(r, [req[r] EXCEPT !.pc = "period"])
    /\ UNCHANGED <<payments, hooks, filing, gateway, applied>>

\* ... and written from what was read.
CreditWrite(r) ==
    LET i    == req[r].inv
        p    == req[r].pay
        paid == req[r].seen + payments[p].amount IN
    /\ At(r, "apply")
    /\ invoices' = [invoices EXCEPT ![i] =
          [status |-> IF Due(paid) = 0 THEN "paid" ELSE "partially_paid",
           paid |-> paid, due |-> Due(paid)]]
    /\ credited' = [credited EXCEPT ![p] = @ + 1]
    /\ Continue(r, IF Due(paid) = 0 THEN [req[r] EXCEPT !.pc = "period"]
                   ELSE AfterSettlement(r))
    /\ UNCHANGED <<payments, hooks, filing, gateway, applied>>

\* A fully paid invoice advances the filing period it bills: the read ...
PeriodRead(r) ==
    /\ At(r, "period")
    /\ Continue(r, IF filing[req[r].inv] = "open"
                   THEN [req[r] EXCEPT !.pc = "close"]
                   ELSE AfterSettlement(r))
    /\ UNCHANGED <<tables, gateway, history>>

\* ... and the write.
PeriodWrite(r) ==
    /\ At(r, "close")
    /\ filing' = [filing EXCEPT ![req[r].inv] = "paid"]
    /\ Continue(r, AfterSettlement(r))
    /\ UNCHANGED <<invoices, payments, hooks, gateway, history>>

-----------------------------------------------------------------------------
(***************************************************************************)
(* POST /payments/:id/verify                                               *)
(***************************************************************************)

\* The read, with the early return for a payment that is already a success.
VerifyLoad(r, p) ==
    /\ payments[p].status \notin {"none", "success"}
    /\ payments[p].online
    /\ Begin(r, [IdleRequest EXCEPT !.pc = "verify", !.pay = p])
    /\ UNCHANGED <<tables, gateway, history>>

\* Mutant: the signature alone is taken for the gateway's confirmation.
VerifyOkUnconfirmed(r) ==
    /\ At(r, "verify")
    /\ Continue(r, [req[r] EXCEPT !.pc = "settle"])
    /\ UNCHANGED <<tables, gateway, history>>

\* The gateway confirms the payment.
VerifyOk(r) ==
    /\ At(r, "verify")
    /\ Confirmed(req[r].pay)
    /\ Continue(r, [req[r] EXCEPT !.pc = "settle"])
    /\ UNCHANGED <<tables, gateway, history>>

\* It does not, or the signature is wrong, or it cannot be reached.
VerifyRefused(r) ==
    /\ At(r, "verify")
    /\ Continue(r, [req[r] EXCEPT !.pc = "reject"])
    /\ UNCHANGED <<tables, gateway, history>>

\* The row is marked failed, whatever it became meanwhile.
VerifyReject(r) ==
    /\ At(r, "reject")
    /\ payments' = [payments EXCEPT ![req[r].pay].status = "failed"]
    /\ Return(r)
    /\ UNCHANGED <<invoices, hooks, filing, gateway, history>>

-----------------------------------------------------------------------------
(***************************************************************************)
(* POST /webhooks/payments/:gateway                                        *)
(***************************************************************************)

\* A delivery of the event e: the signature is checked against the secret of
\* this moment, then store() looks the event id up.
Deliver(r, e) ==
    /\ req[r].pc = "idle"
    /\ sent[e] # NoEvent
    /\ hooks[e] = "none"
    /\ Continue(r, [IdleRequest EXCEPT
          !.pc = "store", !.ev = e, !.pay = sent[e].pay,
          !.out = IF secret THEN "none" ELSE "failed"])
    /\ UNCHANGED <<tables, gateway, history>>

\* A delivery of an event that is stored: its row becomes a duplicate.
DeliverAgain(r, e) ==
    /\ req[r].pc = "idle"
    /\ sent[e] # NoEvent
    /\ hooks[e] # "none"
    /\ hooks' = [hooks EXCEPT ![e] = "duplicate"]
    /\ UNCHANGED <<invoices, payments, filing, gateway, req, started, restarts, history>>

\* Mutant: no unique index on the event id.
StoreUnindexed(r) ==
    /\ At(r, "store")
    /\ hooks' = [hooks EXCEPT ![req[r].ev] = "received"]
    /\ Continue(r, [req[r] EXCEPT
          !.pc = IF req[r].out = "failed" THEN "finish" ELSE "event"])
    /\ UNCHANGED <<invoices, payments, filing, gateway, history>>

\* The insert of the event row.  UNIQUE (source, event_id) refuses a second
\* one and the handler throws.  An unverified event is not acted on.
Store(r) ==
    LET e == req[r].ev IN
    /\ At(r, "store")
    /\ IF hooks[e] # "none"
       THEN Return(r) /\ UNCHANGED hooks
       ELSE /\ hooks' = [hooks EXCEPT ![e] = "received"]
            /\ Continue(r, [req[r] EXCEPT
                 !.pc = IF req[r].out = "failed" THEN "finish" ELSE "event"])
    /\ UNCHANGED <<invoices, payments, filing, gateway, history>>

\* Mutant: every payment with an order counts as settled.
OutcomeDuplicate(p, kind) ==
    IF payments[p].status = "none" \/ ~payments[p].online THEN <<"finish", "ignored">>
    ELSE IF kind = "failed" THEN <<"fail", "processed">>
    ELSE IF kind = "other" THEN <<"finish", "ignored">>
    ELSE IF order[p] = "mismatch" THEN <<"dispute", "failed">>
    ELSE <<"finish", "duplicate">>

\* applyPaymentEvent: what a verified event of this kind means for the payment
\* row as it is now.  A pair: where the handler goes on, and its outcome.
Outcome(p, kind) ==
    IF payments[p].status = "none" \/ ~payments[p].online THEN <<"finish", "ignored">>
    ELSE IF payments[p].status = "success" THEN <<"finish", "duplicate">>
    ELSE IF kind = "failed" THEN <<"fail", "processed">>
    ELSE IF kind = "other" THEN <<"finish", "ignored">>
    ELSE IF order[p] = "mismatch" THEN <<"dispute", "failed">>
    ELSE <<"settle", "none">>

ApplyPaymentEvent(r) ==
    LET e    == req[r].ev
        next == Outcome(req[r].pay, sent[e].kind) IN
    /\ At(r, "event")
    /\ applied' = [applied EXCEPT ![e] = @ + 1]
    /\ Continue(r, [req[r] EXCEPT !.pc = next[1], !.out = next[2]])
    /\ UNCHANGED <<tables, gateway, credited>>

\* The two writes of a payment row that applyPaymentEvent makes itself.
MarkFailed(r) ==
    /\ At(r, "fail")
    /\ payments' = [payments EXCEPT ![req[r].pay].status = "failed"]
    /\ Continue(r, [req[r] EXCEPT !.pc = "finish"])
    /\ UNCHANGED <<invoices, hooks, filing, gateway, history>>

MarkDisputed(r) ==
    /\ At(r, "dispute")
    /\ payments' = [payments EXCEPT ![req[r].pay].status = "disputed"]
    /\ Continue(r, [req[r] EXCEPT !.pc = "finish"])
    /\ UNCHANGED <<invoices, hooks, filing, gateway, history>>

\* finish(): the outcome goes on the event row, over a duplicate mark as well.
Finish(r) ==
    /\ At(r, "finish")
    /\ hooks' = [hooks EXCEPT ![req[r].ev] = req[r].out]
    /\ Return(r)
    /\ UNCHANGED <<invoices, payments, filing, gateway, history>>

-----------------------------------------------------------------------------
(***************************************************************************)
(* POST /payments/:id/refund                                               *)
(***************************************************************************)

\* Mutant: the amount is not compared with what is left.
RefundLoadUnchecked(r, p) ==
    /\ payments[p].status = "success"
    /\ \E amt \in 1..(payments[p].amount + 1) :
         Begin(r, [IdleRequest EXCEPT !.pc = "refund", !.pay = p,
                                      !.amt = amt, !.seen = payments[p].refunded])
    /\ UNCHANGED <<tables, gateway, history>>

\* The read: a success with enough left.  Without an amount in the request the
\* whole remainder is refunded, which may be nothing.
RefundLoad(r, p) ==
    LET refundable == payments[p].amount - payments[p].refunded IN
    /\ payments[p].status = "success"
    /\ \E amt \in (1..refundable) \cup {refundable} :
         Begin(r, [IdleRequest EXCEPT !.pc = "refund", !.pay = p,
                                      !.amt = amt, !.seen = payments[p].refunded])
    /\ UNCHANGED <<tables, gateway, history>>

\* provider.refund accepted; an offline payment has no provider to ask.  The
\* gateway returns no more than it took.
RefundAccepted(r) ==
    LET p == req[r].pay IN
    /\ At(r, "refund")
    /\ IF payments[p].online
       THEN /\ returned[p] + req[r].amt <= payments[p].amount
            /\ returned' = [returned EXCEPT ![p] = @ + req[r].amt]
       ELSE UNCHANGED returned
    /\ Continue(r, [req[r] EXCEPT !.pc = "refunded"])
    /\ UNCHANGED <<tables, secret, order, sent, history>>

\* provider.refund refused: the handler throws.
RefundRefused(r) ==
    /\ At(r, "refund")
    /\ payments[req[r].pay].online
    /\ Return(r)
    /\ UNCHANGED <<tables, gateway, history>>

\* The payment row, from the total that was read.
RefundWrite(r) ==
    LET p     == req[r].pay
        total == req[r].seen + req[r].amt IN
    /\ At(r, "refunded")
    /\ payments' = [payments EXCEPT
          ![p].refunded = total,
          ![p].status = IF total >= payments[p].amount THEN "refunded"
                        ELSE "partially_refunded"]
    /\ Continue(r, [req[r] EXCEPT !.pc = "putback"])
    /\ UNCHANGED <<invoices, hooks, filing, gateway, history>>

\* The amount goes back on the invoice: the read ...
PutBackRead(r) ==
    LET i == payments[req[r].pay].inv IN
    /\ At(r, "putback")
    /\ Continue(r, [req[r] EXCEPT !.pc = "putbackWrite", !.inv = i,
                                  !.seen = invoices[i].paid])
    /\ UNCHANGED <<tables, gateway, history>>

\* Mutant: no Math.max(0, ...).
PutBackWriteUnclamped(r) ==
    LET paid == req[r].seen - req[r].amt IN
    /\ At(r, "putbackWrite")
    /\ invoices' = [invoices EXCEPT ![req[r].inv] =
          [status |-> IF paid = 0 THEN "issued" ELSE "partially_paid",
           paid |-> paid, due |-> Total - paid]]
    /\ Return(r)
    /\ UNCHANGED <<payments, hooks, filing, gateway, history>>

\* ... and the write.
PutBackWrite(r) ==
    LET paid == IF req[r].seen >= req[r].amt THEN req[r].seen - req[r].amt ELSE 0 IN
    /\ At(r, "putbackWrite")
    /\ invoices' = [invoices EXCEPT ![req[r].inv] =
          [status |-> IF paid = 0 THEN "issued" ELSE "partially_paid",
           paid |-> paid, due |-> Total - paid]]
    /\ Return(r)
    /\ UNCHANGED <<payments, hooks, filing, gateway, history>>

-----------------------------------------------------------------------------
(***************************************************************************)
(* The gateway, the operator and the process                               *)
(***************************************************************************)

\* The client completes an open order, for the right amount or another one.
GatewayCapture(p) ==
    /\ order[p] = "open"
    /\ \E s \in {"captured", "mismatch"} : order' = [order EXCEPT ![p] = s]
    /\ UNCHANGED <<tables, secret, sent, returned, req, started, restarts, history>>

\* The gateway issues an event about an order.  A capture is announced after
\* it; a failed attempt may be announced at any time, also after a later
\* attempt succeeded.
GatewayIssue(e, p) ==
    /\ sent[e] = NoEvent
    /\ order[p] # "none"
    /\ \E kind \in EventKind :
         /\ kind = "captured" => Confirmed(p)
         /\ sent' = [sent EXCEPT ![e] = [pay |-> p, kind |-> kind]]
    /\ UNCHANGED <<tables, secret, order, returned, req, started, restarts, history>>

\* The operator adds the missing webhook secret.
ConfigureSecret ==
    /\ ~secret
    /\ secret' = TRUE
    /\ UNCHANGED <<tables, order, sent, returned, req, started, restarts, history>>

\* The filing workflow moves the period to a status settlement can advance.
AdvanceFiling(i) ==
    /\ filing[i] = "earlier"
    /\ filing' = [filing EXCEPT ![i] = "open"]
    /\ UNCHANGED <<invoices, payments, hooks, gateway, req, started, restarts, history>>

\* The process dies: every handler in flight is gone, the tables stay.
Restart ==
    /\ restarts < MaxRestarts
    /\ \E r \in Requests : req[r].pc # "idle"
    /\ restarts' = restarts + 1
    /\ req' = [r \in Requests |-> IdleRequest]
    /\ UNCHANGED <<tables, gateway, started, history>>

-----------------------------------------------------------------------------
Init ==
    /\ invoices = [i \in Invoices |-> NoInvoice]
    /\ payments = [p \in PaymentIds |-> NoPayment]
    /\ hooks = [e \in Events |-> "none"]
    /\ filing = [i \in Invoices |-> "earlier"]
    /\ secret \in BOOLEAN
    /\ order = [p \in PaymentIds |-> "none"]
    /\ sent = [e \in Events |-> NoEvent]
    /\ returned = [p \in PaymentIds |-> 0]
    /\ req = [r \in Requests |-> IdleRequest]
    /\ started = 0
    /\ restarts = 0
    /\ credited = [p \in PaymentIds |-> 0]
    /\ applied = [e \in Events |-> 0]

\* A statement of a handler that is already in flight.
Step(r) ==
    \/ VoidWrite(r)     \/ OverdueWrite(r)
    \/ \E p \in PaymentIds :
         CheckoutOrder(r, p) \/ CheckoutRefused(r, p) \/ RecordInsert(r, p)
    \/ ReadReference(r) \/ CheckoutInsert(r)
    \/ Settle(r)        \/ CreditRead(r)     \/ CreditWrite(r)
    \/ PeriodRead(r)    \/ PeriodWrite(r)
    \/ VerifyOk(r)      \/ VerifyRefused(r)  \/ VerifyReject(r)
    \/ Store(r)         \/ ApplyPaymentEvent(r)
    \/ MarkFailed(r)    \/ MarkDisputed(r)   \/ Finish(r)
    \/ RefundAccepted(r) \/ RefundRefused(r) \/ RefundWrite(r)
    \/ PutBackRead(r)   \/ PutBackWrite(r)

\* A request that arrives.
Arrive(r) ==
    \/ \E i \in Invoices :
         VoidLoad(r, i) \/ OverdueLoad(r, i) \/ CheckoutLoad(r, i) \/ RecordLoad(r, i)
    \/ \E p \in PaymentIds : VerifyLoad(r, p) \/ RefundLoad(r, p)
    \/ \E e \in Events : Deliver(r, e) \/ DeliverAgain(r, e)

Environment ==
    \/ \E i \in Invoices : CreateInvoice(i) \/ AdvanceFiling(i)
    \/ \E p \in PaymentIds : GatewayCapture(p)
    \/ \E e \in Events, p \in PaymentIds : GatewayIssue(e, p)
    \/ ConfigureSecret
    \/ Restart

Next ==
    \/ \E r \in Requests : Step(r) \/ Arrive(r)
    \/ Environment

Spec == Init /\ [][Next]_vars

\* The event loop runs every handler to its end, and the gateway repeats an
\* event until it is on record.
FairSpec ==
    /\ Spec
    /\ \A r \in Requests : WF_vars(Step(r))
    /\ \A e \in Events : WF_vars(\E r \in Requests : Deliver(r, e))

-----------------------------------------------------------------------------
(***************************************************************************)
(* Properties                                                              *)
(***************************************************************************)

InvoiceRow == [status : InvoiceStatus, paid : Nat, due : Int]

PaymentRow ==
    [status : PaymentStatus, inv : Invoices \cup {Null}, amount : Nat,
     refunded : Nat, online : BOOLEAN, ref : Nat]

RequestType ==
    [pc : ProgramCounter, inv : Invoices \cup {Null}, pay : PaymentIds \cup {Null},
     ev : Events \cup {Null}, amt : Nat, seen : Nat, out : HookStatus]

TablesType ==
    /\ invoices \in [Invoices -> InvoiceRow]
    /\ payments \in [PaymentIds -> PaymentRow]
    /\ hooks \in [Events -> HookStatus]
    /\ filing \in [Invoices -> FilingStatus]
    /\ secret \in BOOLEAN
    /\ order \in [PaymentIds -> OrderStatus]
    /\ sent \in [Events -> [pay : PaymentIds, kind : EventKind] \cup {NoEvent}]
    /\ returned \in [PaymentIds -> Nat]
    /\ started \in 0..MaxRequests
    /\ restarts \in 0..MaxRestarts
    /\ credited \in [PaymentIds -> Nat]
    /\ applied \in [Events -> Nat]

\* The rows, the gateway's records and the handlers in flight are well formed;
\* in particular amount_paid_paise never goes below zero, however settlements
\* and refunds overtake each other.
TypeOK == TablesType /\ req \in [Requests -> RequestType]

\* integrations/payments.js promises that a payment is recorded as successful
\* only when the gateway confirms it: whatever verify requests, webhooks,
\* repeats and restarts interleave, an online payment that is a success, or
\* was one before a refund, has an order the gateway captured.
SettledMeansCaptured ==
    \A p \in PaymentIds :
        payments[p].online /\
        payments[p].status \in {"success", "refunded", "partially_refunded"}
            => order[p] \in {"captured", "mismatch"}

\* webhooks.js, rule 3: however often and however concurrently the gateway
\* delivers an event, at most one delivery gets past store() to act on it.
EventAppliedOnce == \A e \in Events : applied[e] <= 1

\* A refund never leaves a payment row with more refunded than was paid, also
\* when two refunds of it start from the same read.
RefundWithinPayment ==
    \A p \in PaymentIds : payments[p].refunded <= payments[p].amount

\* With one handler at a time, a void invoice holds no money: void asks for
\* the payments to be refunded first, and a payment that arrives later takes
\* the invoice out of void.
VoidHoldsNoMoney ==
    \A i \in Invoices : invoices[i].status = "void" => invoices[i].paid = 0

\* What the settlements added to the invoice i, and what refunds took off the
\* payments against it.
CreditedTo(i) ==
    SumFunction([p \in PaymentIds |->
        IF payments[p].inv = i THEN credited[p] * payments[p].amount ELSE 0])

RefundedFrom(i) ==
    SumFunction([p \in PaymentIds |->
        IF payments[p].inv = i THEN payments[p].refunded ELSE 0])

\* settlePayment marks a filing period as paid only when its invoice is
\* covered: however settlements interleave and get lost in each other, the
\* payments credited to the invoice add up to its total.
PeriodPaidMeansCovered ==
    \A i \in Invoices : filing[i] = "paid" => CreditedTo(i) >= Total

\* With one handler at a time and no crash, amount_paid_paise is what the
\* settlements credited less what the refunds took back.
LedgerAgrees ==
    (\A r \in Requests : At(r, "idle")) =>
        \A i \in Invoices :
            invoices[i].paid = CreditedTo(i) - RefundedFrom(i)

\* With one handler at a time and no crash, what a payment row says was
\* refunded is what the gateway gave back.
RefundsAgree ==
    (\A r \in Requests : At(r, "idle")) =>
        \A p \in PaymentIds :
            payments[p].online => payments[p].refunded = returned[p]

\* With one handler at a time and no crash, the invoice, its payment rows and the
\* gateway tell one story: what was credited, what a row says was refunded and
\* what was given back.
BooksAgree == LedgerAgrees /\ RefundsAgree

\* webhooks.js says a payment that was settled is a duplicate the second time:
\* the amount of a payment is added to its invoice at most once.
CreditedOnce == \A p \in PaymentIds : credited[p] <= 1

\* webhooks.js flags a captured amount that disagrees with the payment: such a
\* payment is not a success.
MismatchNotAccepted ==
    \A p \in PaymentIds :
        order[p] = "mismatch" => payments[p].status # "success"

\* A verified capture event about a payment that waits for it is not lost: once
\* issued, with the secret in place, the payment leaves "created".
CaptureReachesPayment ==
    \A e \in Events, p \in PaymentIds :
        ( /\ sent[e] = [pay |-> p, kind |-> "captured"]
          /\ order[p] = "captured" /\ payments[p].status = "created"
          /\ secret /\ hooks[e] = "none"
          /\ \A r \in Requests : req[r].ev # e )
        ~> (payments[p].status # "created")

=============================================================================
