--------------------------- MODULE Payments_proofs ---------------------------
(***************************************************************************)
(* Safety of the payment handlers for any number of invoices, payments,    *)
(* events and handlers in flight, and for any number of restarts.          *)
(***************************************************************************)
EXTENDS Payments, Sums_proofs

-----------------------------------------------------------------------------
(***************************************************************************)
(* The inductive invariant                                                 *)
(***************************************************************************)

\* The statements at which a handler holds an invoice, a payment, an event.
HoldsInvoice ==
    {"void", "overdue", "checkout", "checkoutOrder", "insertOrder", "record",
     "recordInsert", "apply", "period", "close", "putbackWrite"}

HoldsPayment ==
    {"verify", "reject", "settle", "credit", "apply", "period", "close",
     "fail", "dispute", "refund", "refunded", "putback"}

HoldsEvent == {"store", "event", "fail", "dispute", "finish"}

Captured == {"captured", "mismatch"}

\* What the handler q may rely on at its next statement, given the payment
\* rows P and the gateway's orders O.
SlotOK(q, P, O) ==
    /\ q.pc \in HoldsInvoice => q.inv \in Invoices
    /\ q.pc \in HoldsPayment => q.pay \in PaymentIds /\ P[q.pay].status # "none"
    /\ q.pc \in HoldsEvent => q.ev \in Events /\ q.pay \in PaymentIds
    /\ q.pc \in {"settle", "refund", "refunded"} =>
         (P[q.pay].online => O[q.pay] \in Captured)
    /\ q.pc \in {"refund", "refunded"} => q.seen + q.amt <= P[q.pay].amount
    /\ q.pc \in {"fail", "dispute", "finish"} => q.out # "none"
    /\ q.pc = "insertOrder" =>
         q.pay \in PaymentIds /\ O[q.pay] # "none" /\ P[q.pay].status = "none"

SlotInv == \A r \in Requests : SlotOK(req[r], payments, order)

\* No two checkouts hold the same gateway order.
OrderInv ==
    \A r, s \in Requests :
        r # s /\ req[r].pc = "insertOrder" /\ req[s].pc = "insertOrder"
            => req[r].pay # req[s].pay

\* A payment row names an invoice, has not given back more than it took and,
\* when it is settled online, has a captured order (o).
RowOK(row, o) ==
    /\ row.status # "none" => row.inv \in Invoices
    /\ row.refunded <= row.amount
    /\ row.online /\ row.status \in {"success", "refunded", "partially_refunded"}
         => o \in Captured

RowInv == \A p \in PaymentIds : RowOK(payments[p], order[p])

\* An event that has no row was not acted on, and at most one handler is about
\* to act on an event that has one.
EventInv ==
    /\ \A e \in Events : applied[e] <= 1 /\ (hooks[e] = "none" => applied[e] = 0)
    /\ \A r \in Requests :
         req[r].pc = "event" => hooks[req[r].ev] # "none" /\ applied[req[r].ev] = 0
    /\ \A r, s \in Requests :
         r # s /\ req[r].pc = "event" /\ req[s].pc = "event"
             => req[r].ev # req[s].ev

\* The gateway announces a capture after it, and a delivery in flight is about
\* the payment of its event.
SentInv ==
    /\ \A e \in Events :
         sent[e].kind = "captured" => order[sent[e].pay] \in Captured
    /\ \A r \in Requests :
         req[r].pc \in {"store", "event"} =>
             sent[req[r].ev] # NoEvent /\ req[r].pay = sent[req[r].ev].pay

IInv == TypeOK /\ SlotInv /\ OrderInv /\ RowInv /\ EventInv /\ SentInv

-----------------------------------------------------------------------------
(***************************************************************************)
(* Facts about one slot and one row                                        *)
(***************************************************************************)

USE NullAssumption DEF ProgramCounter, HookStatus, OrderStatus, PaymentStatus,
    HoldsInvoice, HoldsPayment, HoldsEvent, Captured

\* A row keeps what the handlers that hold it rely on.
Keeps(old, new) ==
    old.status # "none" =>
        new.status # "none" /\ new.online = old.online /\ new.amount = old.amount

\* A handler still stands on firm ground when rows and orders only move on.
LEMMA SlotFrame ==
  ASSUME NEW P, NEW O, NEW P2, NEW O2, NEW q, SlotOK(q, P, O),
         \A p \in PaymentIds : Keeps(P[p], P2[p]),
         \A p \in PaymentIds : O[p] # "none" => O2[p] # "none",
         \A p \in PaymentIds : O[p] \in Captured => O2[p] \in Captured,
         q.pc = "insertOrder" => P2[q.pay].status = "none"
  PROVE  SlotOK(q, P2, O2)
  BY DEF SlotOK, Keeps

LEMMA IdleType == IdleRequest \in RequestType
  BY DEF IdleRequest, RequestType

\* An idle slot relies on nothing.
LEMMA IdleSlot ==
  ASSUME NEW P, NEW O
  PROVE  IdleRequest \in RequestType /\ SlotOK(IdleRequest, P, O)
  BY DEF IdleRequest, RequestType, SlotOK

\* After a settlement the handler holds its event, if it has one.
LEMMA AfterSettlementSlot ==
  ASSUME TypeOK, NEW r \in Requests, SlotOK(req[r], payments, order),
         req[r].pc \in {"apply", "period", "close"}
  PROVE  /\ AfterSettlement(r) \in RequestType
         /\ SlotOK(AfterSettlement(r), payments, order)
         /\ AfterSettlement(r).pc \notin {"insertOrder", "store", "event"}
<1>0. req[r] \in RequestType
  BY DEF TypeOK
<1>1. CASE req[r].ev = Null
  BY <1>1, IdleSlot DEF AfterSettlement, IdleRequest
<1>2. CASE req[r].ev # Null
  <2> DEFINE q == [req[r] EXCEPT !.pc = "finish", !.out = "processed"]
  <2>1. AfterSettlement(r) = q
    BY <1>2 DEF AfterSettlement
  <2>2. q \in RequestType /\ q.pc = "finish" /\ q.out = "processed"
        /\ q.ev = req[r].ev /\ q.pay = req[r].pay
    BY <1>0 DEF RequestType
  <2>3. q.ev \in Events /\ q.pay \in PaymentIds
    BY <1>0, <1>2, <2>2 DEF RequestType, SlotOK
  <2> HIDE DEF q
  <2> QED
    BY <2>1, <2>2, <2>3 DEF SlotOK
<1> QED
  BY <1>1, <1>2

LEMMA ReferenceType == NextReference \in Nat
  BY PaymentIdsAssumption, FS_Subset, FS_CardinalityType DEF NextReference, Existing

-----------------------------------------------------------------------------
(***************************************************************************)
(* The shapes of a step                                                    *)
(***************************************************************************)

\* A step that leaves payments, orders and event rows alone and moves one
\* handler on.
LEMMA QuietStep ==
  ASSUME IInv, TablesType', NEW r \in Requests, NEW q \in RequestType,
         req' = [req EXCEPT ![r] = q], SlotOK(q, payments, order),
         q.pc \notin {"insertOrder", "store", "event"},
         UNCHANGED <<payments, order, sent, hooks, applied>>
  PROVE  IInv'
<1>1. TypeOK'
  BY DEF IInv, TypeOK
<1>2. \A s \in Requests : req'[s] = IF s = r THEN q ELSE req[s]
  BY DEF IInv, TypeOK
<1>3. SlotInv'
  BY <1>2 DEF IInv, SlotInv
<1>4. OrderInv'
  BY <1>2 DEF IInv, OrderInv
<1>5. RowInv'
  BY DEF IInv, RowInv
<1>6. EventInv'
  BY <1>2 DEF IInv, EventInv
<1>7. SentInv'
  BY <1>2 DEF IInv, SentInv
<1> QED
  BY <1>1, <1>3, <1>4, <1>5, <1>6, <1>7 DEF IInv

\* A step of one handler that writes one payment row.
LEMMA PaymentStep ==
  ASSUME IInv, TablesType', NEW r \in Requests, NEW q \in RequestType,
         req' = [req EXCEPT ![r] = q], SlotOK(q, payments', order),
         q.pc \notin {"insertOrder", "store", "event"},
         NEW p \in PaymentIds, NEW row,
         payments' = [payments EXCEPT ![p] = row],
         RowOK(row, order[p]), Keeps(payments[p], row),
         \A s \in Requests \ {r} : req[s].pc = "insertOrder" => req[s].pay # p,
         UNCHANGED <<order, sent, hooks, applied>>
  PROVE  IInv'
<1>1. TypeOK'
  BY DEF IInv, TypeOK
<1>2. \A s \in Requests : req'[s] = IF s = r THEN q ELSE req[s]
  BY DEF IInv, TypeOK
<1>3. \A x \in PaymentIds : payments'[x] = IF x = p THEN row ELSE payments[x]
  BY DEF IInv, TypeOK, TablesType
<1>4. SlotInv'
  <2> SUFFICES ASSUME NEW s \in Requests, s # r
               PROVE  SlotOK(req[s], payments', order)
    BY <1>2 DEF SlotInv
  <2>1. SlotOK(req[s], payments, order)
    BY DEF IInv, SlotInv
  <2>2. \A x \in PaymentIds : Keeps(payments[x], payments'[x])
    BY <1>3 DEF Keeps
  <2>3. req[s].pc = "insertOrder" => payments'[req[s].pay].status = "none"
    BY <1>3, <2>1 DEF SlotOK
  <2> QED
    BY <2>1, <2>2, <2>3, SlotFrame
<1>5. OrderInv'
  BY <1>2 DEF IInv, OrderInv
<1>6. RowInv'
  BY <1>3 DEF IInv, RowInv
<1>7. EventInv'
  BY <1>2 DEF IInv, EventInv
<1>8. SentInv'
  BY <1>2 DEF IInv, SentInv
<1> QED
  BY <1>1, <1>4, <1>5, <1>6, <1>7, <1>8 DEF IInv

\* A step of one handler that writes no payment row and no order.
LEMMA EventStep ==
  ASSUME IInv, TablesType', NEW r \in Requests, NEW q \in RequestType,
         req' = [req EXCEPT ![r] = q], SlotOK(q, payments, order),
         q.pc # "insertOrder", EventInv',
         q.pc \in {"store", "event"} =>
             sent[q.ev] # NoEvent /\ q.pay = sent[q.ev].pay,
         UNCHANGED <<payments, order, sent>>
  PROVE  IInv'
<1>1. TypeOK'
  BY DEF IInv, TypeOK
<1>2. \A s \in Requests : req'[s] = IF s = r THEN q ELSE req[s]
  BY DEF IInv, TypeOK
<1>3. SlotInv'
  BY <1>2 DEF IInv, SlotInv
<1>4. OrderInv'
  BY <1>2 DEF IInv, OrderInv
<1>5. RowInv'
  BY DEF IInv, RowInv
<1>6. SentInv'
  BY <1>2 DEF IInv, SentInv
<1> QED
  BY <1>1, <1>3, <1>4, <1>5, <1>6 DEF IInv

-----------------------------------------------------------------------------
(***************************************************************************)
(* Steps that write neither payments, orders nor event rows                *)
(***************************************************************************)

LEMMA VoidWriteStep ==
  ASSUME IInv, NEW r \in Requests, VoidWrite(r)
  PROVE  IInv'
<1> DEFINE q == IdleRequest
<1>0. /\ TypeOK /\ SlotOK(req[r], payments, order)
      /\ req[r] \in RequestType
  BY DEF IInv, SlotInv, TypeOK
<1>1. q \in RequestType
  BY <1>0 DEF VoidWrite, At, TypeOK, TablesType, RequestType, IdleRequest, SlotOK
<1>2. req' = [req EXCEPT ![r] = q]
  BY DEF VoidWrite, Continue, Return, At
<1>3. TablesType'
  BY <1>0
    DEF VoidWrite, Continue, Return, At, TypeOK, TablesType, tables, gateway, history,
        InvoiceRow, InvoiceStatus, SlotOK
<1>4. SlotOK(q, payments, order) /\ q.pc \notin {"insertOrder", "store", "event"}
  BY <1>0 DEF VoidWrite, At, SlotOK, IdleRequest, TypeOK, TablesType, RequestType
<1>5. UNCHANGED <<payments, order, sent, hooks, applied>>
  BY DEF VoidWrite, tables, gateway, history
<1> QED
  BY <1>1, <1>2, <1>3, <1>4, <1>5, QuietStep

LEMMA OverdueWriteStep ==
  ASSUME IInv, NEW r \in Requests, OverdueWrite(r)
  PROVE  IInv'
<1> DEFINE q == IdleRequest
<1>0. /\ TypeOK /\ SlotOK(req[r], payments, order)
      /\ req[r] \in RequestType
  BY DEF IInv, SlotInv, TypeOK
<1>1. q \in RequestType
  BY <1>0 DEF OverdueWrite, At, TypeOK, TablesType, RequestType, IdleRequest, SlotOK
<1>2. req' = [req EXCEPT ![r] = q]
  BY DEF OverdueWrite, Continue, Return, At
<1>3. TablesType'
  BY <1>0
    DEF OverdueWrite, Continue, Return, At, TypeOK, TablesType, tables, gateway,
        history, InvoiceRow, InvoiceStatus, SlotOK
<1>4. SlotOK(q, payments, order) /\ q.pc \notin {"insertOrder", "store", "event"}
  BY <1>0 DEF OverdueWrite, At, SlotOK, IdleRequest, TypeOK, TablesType, RequestType
<1>5. UNCHANGED <<payments, order, sent, hooks, applied>>
  BY DEF OverdueWrite, tables, gateway, history
<1> QED
  BY <1>1, <1>2, <1>3, <1>4, <1>5, QuietStep

LEMMA ReadReferenceStep ==
  ASSUME IInv, NEW r \in Requests, ReadReference(r)
  PROVE  IInv'
<1> DEFINE q == [req[r] EXCEPT
        !.pc = IF At(r, "checkout") THEN "checkoutOrder" ELSE "recordInsert",
        !.seen = NextReference]
<1>0. /\ TypeOK /\ SlotOK(req[r], payments, order)
      /\ req[r] \in RequestType
  BY DEF IInv, SlotInv, TypeOK
<1>1. q \in RequestType
  BY <1>0, ReferenceType
    DEF ReadReference, At, TypeOK, TablesType, RequestType, IdleRequest, SlotOK
<1>2. req' = [req EXCEPT ![r] = q]
  BY DEF ReadReference, Continue, Return, At
<1>3. TablesType'
  BY <1>0, ReferenceType
    DEF ReadReference, Continue, Return, At, TypeOK, TablesType, tables, gateway,
        history
<1>4. SlotOK(q, payments, order) /\ q.pc \notin {"insertOrder", "store", "event"}
  BY <1>0 DEF ReadReference, At, SlotOK, IdleRequest, TypeOK, TablesType, RequestType
<1>5. UNCHANGED <<payments, order, sent, hooks, applied>>
  BY DEF ReadReference, tables, gateway, history
<1> QED
  BY <1>1, <1>2, <1>3, <1>4, <1>5, QuietStep

LEMMA CreditReadStep ==
  ASSUME IInv, NEW r \in Requests, CreditRead(r)
  PROVE  IInv'
<1> DEFINE q == [req[r] EXCEPT !.pc = "apply", !.inv = payments[req[r].pay].inv,
                                !.seen = invoices[payments[req[r].pay].inv].paid]
<1>0. /\ TypeOK /\ SlotOK(req[r], payments, order)
      /\ req[r] \in RequestType
  BY DEF IInv, SlotInv, TypeOK
<1>1. q \in RequestType
  BY <1>0, IInv
    DEF CreditRead, At, TypeOK, TablesType, RequestType, IdleRequest, SlotOK, IInv,
        RowInv, RowOK, PaymentRow, InvoiceRow
<1>2. req' = [req EXCEPT ![r] = q]
  BY DEF CreditRead, Continue, Return, At
<1>3. TablesType'
  BY <1>0, IInv
    DEF CreditRead, Continue, Return, At, TypeOK, TablesType, tables, gateway, history
<1>4. SlotOK(q, payments, order) /\ q.pc \notin {"insertOrder", "store", "event"}
  BY <1>0, IInv
    DEF CreditRead, At, SlotOK, IdleRequest, TypeOK, TablesType, RequestType, IInv,
        RowInv, RowOK, PaymentRow, InvoiceRow
<1>5. UNCHANGED <<payments, order, sent, hooks, applied>>
  BY DEF CreditRead, tables, gateway, history
<1> QED
  BY <1>1, <1>2, <1>3, <1>4, <1>5, QuietStep

LEMMA PeriodReadStep ==
  ASSUME IInv, NEW r \in Requests, PeriodRead(r)
  PROVE  IInv'
<1> DEFINE q == IF filing[req[r].inv] = "open" THEN [req[r] EXCEPT !.pc = "close"]
                ELSE AfterSettlement(r)
<1>0. /\ TypeOK /\ SlotOK(req[r], payments, order)
      /\ req[r] \in RequestType
  BY DEF IInv, SlotInv, TypeOK
<1>1. q \in RequestType
  BY <1>0, AfterSettlementSlot DEF PeriodRead, At, RequestType
<1>2. req' = [req EXCEPT ![r] = q]
  BY DEF PeriodRead, Continue, Return, At
<1>3. TablesType'
  BY <1>0 DEF PeriodRead, Continue, Return, At, TypeOK, TablesType, tables, gateway, history
<1>4. SlotOK(q, payments, order) /\ q.pc \notin {"insertOrder", "store", "event"}
  BY <1>0, AfterSettlementSlot DEF PeriodRead, At, RequestType, SlotOK
<1>5. UNCHANGED <<payments, order, sent, hooks, applied>>
  BY DEF PeriodRead, tables, gateway, history
<1> QED
  BY <1>1, <1>2, <1>3, <1>4, <1>5, QuietStep

LEMMA PeriodWriteStep ==
  ASSUME IInv, NEW r \in Requests, PeriodWrite(r)
  PROVE  IInv'
<1> DEFINE q == AfterSettlement(r)
<1>0. /\ TypeOK /\ SlotOK(req[r], payments, order)
      /\ req[r] \in RequestType
  BY DEF IInv, SlotInv, TypeOK
<1>1. q \in RequestType
  BY <1>0, AfterSettlementSlot DEF PeriodWrite, At
<1>2. req' = [req EXCEPT ![r] = q]
  BY DEF PeriodWrite, Continue, Return, At
<1>3. TablesType'
  BY <1>0
    DEF PeriodWrite, Continue, Return, At, TypeOK, TablesType, tables, gateway,
        history, FilingStatus
<1>4. SlotOK(q, payments, order) /\ q.pc \notin {"insertOrder", "store", "event"}
  BY <1>0, AfterSettlementSlot DEF PeriodWrite, At
<1>5. UNCHANGED <<payments, order, sent, hooks, applied>>
  BY DEF PeriodWrite, tables, gateway, history
<1> QED
  BY <1>1, <1>2, <1>3, <1>4, <1>5, QuietStep

LEMMA VerifyOkStep ==
  ASSUME IInv, NEW r \in Requests, VerifyOk(r)
  PROVE  IInv'
<1> DEFINE q == [req[r] EXCEPT !.pc = "settle"]
<1>0. /\ TypeOK /\ SlotOK(req[r], payments, order)
      /\ req[r] \in RequestType
  BY DEF IInv, SlotInv, TypeOK
<1>1. q \in RequestType
  BY <1>0 DEF VerifyOk, At, TypeOK, TablesType, RequestType, IdleRequest, SlotOK, Confirmed
<1>2. req' = [req EXCEPT ![r] = q]
  BY DEF VerifyOk, Continue, Return, At
<1>3. TablesType'
  BY <1>0 DEF VerifyOk, Continue, Return, At, TypeOK, TablesType, tables, gateway, history
<1>4. SlotOK(q, payments, order) /\ q.pc \notin {"insertOrder", "store", "event"}
  BY <1>0 DEF VerifyOk, At, SlotOK, IdleRequest, TypeOK, TablesType, RequestType, Confirmed
<1>5. UNCHANGED <<payments, order, sent, hooks, applied>>
  BY DEF VerifyOk, tables, gateway, history
<1> QED
  BY <1>1, <1>2, <1>3, <1>4, <1>5, QuietStep

LEMMA VerifyRefusedStep ==
  ASSUME IInv, NEW r \in Requests, VerifyRefused(r)
  PROVE  IInv'
<1> DEFINE q == [req[r] EXCEPT !.pc = "reject"]
<1>0. /\ TypeOK /\ SlotOK(req[r], payments, order)
      /\ req[r] \in RequestType
  BY DEF IInv, SlotInv, TypeOK
<1>1. q \in RequestType
  BY <1>0 DEF VerifyRefused, At, TypeOK, TablesType, RequestType, IdleRequest, SlotOK
<1>2. req' = [req EXCEPT ![r] = q]
  BY DEF VerifyRefused, Continue, Return, At
<1>3. TablesType'
  BY <1>0
    DEF VerifyRefused, Continue, Return, At, TypeOK, TablesType, tables, gateway,
        history
<1>4. SlotOK(q, payments, order) /\ q.pc \notin {"insertOrder", "store", "event"}
  BY <1>0 DEF VerifyRefused, At, SlotOK, IdleRequest, TypeOK, TablesType, RequestType
<1>5. UNCHANGED <<payments, order, sent, hooks, applied>>
  BY DEF VerifyRefused, tables, gateway, history
<1> QED
  BY <1>1, <1>2, <1>3, <1>4, <1>5, QuietStep

LEMMA RefundRefusedStep ==
  ASSUME IInv, NEW r \in Requests, RefundRefused(r)
  PROVE  IInv'
<1> DEFINE q == IdleRequest
<1>0. /\ TypeOK /\ SlotOK(req[r], payments, order)
      /\ req[r] \in RequestType
  BY DEF IInv, SlotInv, TypeOK
<1>1. q \in RequestType
  BY <1>0 DEF RefundRefused, At, TypeOK, TablesType, RequestType, IdleRequest, SlotOK
<1>2. req' = [req EXCEPT ![r] = q]
  BY DEF RefundRefused, Continue, Return, At
<1>3. TablesType'
  BY <1>0
    DEF RefundRefused, Continue, Return, At, TypeOK, TablesType, tables, gateway,
        history
<1>4. SlotOK(q, payments, order) /\ q.pc \notin {"insertOrder", "store", "event"}
  BY <1>0 DEF RefundRefused, At, SlotOK, IdleRequest, TypeOK, TablesType, RequestType
<1>5. UNCHANGED <<payments, order, sent, hooks, applied>>
  BY DEF RefundRefused, tables, gateway, history
<1> QED
  BY <1>1, <1>2, <1>3, <1>4, <1>5, QuietStep

LEMMA RefundAcceptedStep ==
  ASSUME IInv, NEW r \in Requests, RefundAccepted(r)
  PROVE  IInv'
<1> DEFINE q == [req[r] EXCEPT !.pc = "refunded"]
<1>0. /\ TypeOK /\ SlotOK(req[r], payments, order)
      /\ req[r] \in RequestType
  BY DEF IInv, SlotInv, TypeOK
<1>1. q \in RequestType
  BY <1>0 DEF RefundAccepted, At, TypeOK, TablesType, RequestType, IdleRequest, SlotOK
<1>2. req' = [req EXCEPT ![r] = q]
  BY DEF RefundAccepted, Continue, Return, At
<1>3. TablesType'
  BY <1>0
    DEF RefundAccepted, Continue, Return, At, TypeOK, TablesType, tables, gateway,
        history, RequestType
<1>4. SlotOK(q, payments, order) /\ q.pc \notin {"insertOrder", "store", "event"}
  BY <1>0 DEF RefundAccepted, At, SlotOK, IdleRequest, TypeOK, TablesType, RequestType
<1>5. UNCHANGED <<payments, order, sent, hooks, applied>>
  BY DEF RefundAccepted, tables, gateway, history
<1> QED
  BY <1>1, <1>2, <1>3, <1>4, <1>5, QuietStep

LEMMA PutBackReadStep ==
  ASSUME IInv, NEW r \in Requests, PutBackRead(r)
  PROVE  IInv'
<1> DEFINE q == [req[r] EXCEPT !.pc = "putbackWrite", !.inv = payments[req[r].pay].inv,
                                !.seen = invoices[payments[req[r].pay].inv].paid]
<1>0. /\ TypeOK /\ SlotOK(req[r], payments, order)
      /\ req[r] \in RequestType
  BY DEF IInv, SlotInv, TypeOK
<1>1. q \in RequestType
  BY <1>0, IInv
    DEF PutBackRead, At, TypeOK, TablesType, RequestType, IdleRequest, SlotOK, IInv,
        RowInv, RowOK, PaymentRow, InvoiceRow
<1>2. req' = [req EXCEPT ![r] = q]
  BY DEF PutBackRead, Continue, Return, At
<1>3. TablesType'
  BY <1>0, IInv
    DEF PutBackRead, Continue, Return, At, TypeOK, TablesType, tables, gateway,
        history
<1>4. SlotOK(q, payments, order) /\ q.pc \notin {"insertOrder", "store", "event"}
  BY <1>0, IInv
    DEF PutBackRead, At, SlotOK, IdleRequest, TypeOK, TablesType, RequestType, IInv,
        RowInv, RowOK, PaymentRow, InvoiceRow
<1>5. UNCHANGED <<payments, order, sent, hooks, applied>>
  BY DEF PutBackRead, tables, gateway, history
<1> QED
  BY <1>1, <1>2, <1>3, <1>4, <1>5, QuietStep

LEMMA PutBackWriteStep ==
  ASSUME IInv, NEW r \in Requests, PutBackWrite(r)
  PROVE  IInv'
<1> DEFINE q == IdleRequest
<1>0. /\ TypeOK /\ SlotOK(req[r], payments, order)
      /\ req[r] \in RequestType
  BY DEF IInv, SlotInv, TypeOK
<1>1. q \in RequestType
  BY <1>0, TotalAssumption
    DEF PutBackWrite, At, TypeOK, TablesType, RequestType, IdleRequest, SlotOK
<1>2. req' = [req EXCEPT ![r] = q]
  BY DEF PutBackWrite, Continue, Return, At
<1>3. TablesType'
  <2> DEFINE paid == IF req[r].seen >= req[r].amt THEN req[r].seen - req[r].amt ELSE 0
             row == [status |-> IF paid = 0 THEN "issued" ELSE "partially_paid",
                     paid |-> paid, due |-> Total - paid]
  <2>1. paid \in Nat /\ Total - paid \in Int
    BY <1>0, TotalAssumption DEF RequestType
  <2>2. row \in InvoiceRow
    BY <2>1 DEF InvoiceRow, InvoiceStatus
  <2>3. invoices' = [invoices EXCEPT ![req[r].inv] = row]
    BY DEF PutBackWrite
  <2>4. invoices' \in [Invoices -> InvoiceRow]
    BY <1>0, <2>2, <2>3 DEF TypeOK, TablesType
  <2> QED
    BY <1>0, <2>4 DEF PutBackWrite, Return, Continue, TypeOK, TablesType, gateway, history
<1>4. SlotOK(q, payments, order) /\ q.pc \notin {"insertOrder", "store", "event"}
  BY <1>0 DEF PutBackWrite, At, SlotOK, IdleRequest, TypeOK, TablesType, RequestType
<1>5. UNCHANGED <<payments, order, sent, hooks, applied>>
  BY DEF PutBackWrite, tables, gateway, history
<1> QED
  BY <1>1, <1>2, <1>3, <1>4, <1>5, QuietStep

LEMMA CreditWriteStep ==
  ASSUME IInv, NEW r \in Requests, CreditWrite(r)
  PROVE  IInv'
<1> DEFINE q == IF Due(req[r].seen + payments[req[r].pay].amount) = 0
                THEN [req[r] EXCEPT !.pc = "period"] ELSE AfterSettlement(r)
<1>0. /\ TypeOK /\ SlotOK(req[r], payments, order)
      /\ req[r] \in RequestType
  BY DEF IInv, SlotInv, TypeOK
<1>1. q \in RequestType
  BY <1>0, AfterSettlementSlot DEF CreditWrite, At, RequestType
<1>2. req' = [req EXCEPT ![r] = q]
  BY DEF CreditWrite, Continue, Return, At
<1>3. TablesType'
  <2> DEFINE i    == req[r].inv
             p    == req[r].pay
             paid == req[r].seen + payments[p].amount
             row  == [status |-> IF Due(paid) = 0 THEN "paid" ELSE "partially_paid",
                      paid |-> paid, due |-> Due(paid)]
  <2>1. p \in PaymentIds /\ req[r].seen \in Nat /\ payments[p].amount \in Nat
    BY <1>0 DEF CreditWrite, At, SlotOK, RequestType, TypeOK, TablesType, PaymentRow
  <2>2. row \in InvoiceRow
    BY <2>1, TotalAssumption DEF Due, InvoiceRow, InvoiceStatus
  <2>3. /\ invoices' = [invoices EXCEPT ![i] = row]
        /\ credited' = [credited EXCEPT ![p] = @ + 1]
        /\ UNCHANGED <<payments, hooks, filing, gateway, applied>>
    BY DEF CreditWrite
  <2> HIDE DEF i, p, paid, row
  <2>4. /\ invoices' \in [Invoices -> InvoiceRow]
        /\ credited' \in [PaymentIds -> Nat]
    <3>1. invoices \in [Invoices -> InvoiceRow] /\ credited \in [PaymentIds -> Nat]
      BY <1>0 DEF TypeOK, TablesType
    <3>2. invoices' \in [Invoices -> InvoiceRow]
      BY <2>2, <2>3, <3>1
    <3>3. credited' \in [PaymentIds -> Nat]
      BY <2>1, <2>3, <3>1
    <3> QED
      BY <3>2, <3>3
  <2>5. UNCHANGED <<started, restarts, secret>>
    BY DEF CreditWrite, Continue, Return, gateway, history
  <2> QED
    BY <1>0, <2>3, <2>4, <2>5 DEF TypeOK, TablesType, gateway
<1>4. SlotOK(q, payments, order) /\ q.pc \notin {"insertOrder", "store", "event"}
  <2>1. req[r].pc = "apply"
    BY DEF CreditWrite, At
  <2> DEFINE next == [req[r] EXCEPT !.pc = "period"]
  <2>2. SlotOK(next, payments, order)
    <3>1. next.pc = "period" /\ next.inv = req[r].inv /\ next.pay = req[r].pay /\ next.ev = req[r].ev
      BY <1>0 DEF RequestType
    <3> HIDE DEF next
    <3> QED
      BY <1>0, <2>1, <3>1 DEF SlotOK
  <2>3. next.pc = "period"
    BY <1>0 DEF RequestType
  <2>4. q = next \/ q = AfterSettlement(r)
    OBVIOUS
  <2> HIDE DEF next, q
  <2> QED
    BY <1>0, <2>1, <2>2, <2>3, <2>4, AfterSettlementSlot
<1>5. UNCHANGED <<payments, order, sent, hooks, applied>>
  BY DEF CreditWrite, tables, gateway, history
<1> QED
  BY <1>1, <1>2, <1>3, <1>4, <1>5, QuietStep

LEMMA VoidLoadStep ==
  ASSUME IInv, NEW r \in Requests, NEW i \in Invoices, VoidLoad(r, i)
  PROVE  IInv'
<1>. Begin(r, [IdleRequest EXCEPT !.pc = "void", !.inv = i])
  BY DEF VoidLoad
<1> DEFINE q == [IdleRequest EXCEPT !.pc = "void", !.inv = i]
<1>1. q \in RequestType
  BY DEF IdleRequest, RequestType, IInv, TypeOK, TablesType
<1>2. req' = [req EXCEPT ![r] = q]
  BY DEF Begin
<1>3. TablesType'
  BY BoundAssumption DEF IInv, TypeOK, TablesType, VoidLoad, Begin, tables, gateway, history
<1>4. SlotOK(q, payments, order) /\ q.pc \notin {"insertOrder", "store", "event"}
  BY DEF IdleRequest, SlotOK, VoidLoad, IInv, TypeOK, TablesType, RowInv, RowOK
<1>5. UNCHANGED <<payments, order, sent, hooks, applied>>
  BY DEF VoidLoad, tables, gateway, history
<1> QED
  BY <1>1, <1>2, <1>3, <1>4, <1>5, QuietStep

LEMMA OverdueLoadStep ==
  ASSUME IInv, NEW r \in Requests, NEW i \in Invoices, OverdueLoad(r, i)
  PROVE  IInv'
<1>. Begin(r, [IdleRequest EXCEPT !.pc = "overdue", !.inv = i])
  BY DEF OverdueLoad
<1> DEFINE q == [IdleRequest EXCEPT !.pc = "overdue", !.inv = i]
<1>1. q \in RequestType
  BY DEF IdleRequest, RequestType, IInv, TypeOK, TablesType
<1>2. req' = [req EXCEPT ![r] = q]
  BY DEF Begin
<1>3. TablesType'
  BY BoundAssumption
    DEF IInv, TypeOK, TablesType, OverdueLoad, Begin, tables, gateway, history
<1>4. SlotOK(q, payments, order) /\ q.pc \notin {"insertOrder", "store", "event"}
  BY DEF IdleRequest, SlotOK, OverdueLoad, IInv, TypeOK, TablesType, RowInv, RowOK
<1>5. UNCHANGED <<payments, order, sent, hooks, applied>>
  BY DEF OverdueLoad, tables, gateway, history
<1> QED
  BY <1>1, <1>2, <1>3, <1>4, <1>5, QuietStep

LEMMA CheckoutLoadStep ==
  ASSUME IInv, NEW r \in Requests, NEW i \in Invoices, CheckoutLoad(r, i)
  PROVE  IInv'
<1>. PICK amt \in 1..invoices[i].due : Begin(r, [IdleRequest EXCEPT !.pc = "checkout", !.inv = i, !.amt = amt])
  BY DEF CheckoutLoad
<1> DEFINE q == [IdleRequest EXCEPT !.pc = "checkout", !.inv = i, !.amt = amt]
<1>0. amt \in Nat
  BY DEF IInv, TypeOK, TablesType, InvoiceRow
<1>1. q \in RequestType
  BY <1>0 DEF IdleRequest, RequestType, IInv, TypeOK, TablesType, InvoiceRow
<1>2. req' = [req EXCEPT ![r] = q]
  BY DEF Begin
<1>3. TablesType'
  BY BoundAssumption
    DEF IInv, TypeOK, TablesType, CheckoutLoad, Begin, tables, gateway, history
<1>4. SlotOK(q, payments, order) /\ q.pc \notin {"insertOrder", "store", "event"}
  BY DEF IdleRequest, SlotOK, CheckoutLoad, IInv, TypeOK, TablesType, RowInv, RowOK,
         InvoiceRow
<1>5. UNCHANGED <<payments, order, sent, hooks, applied>>
  BY DEF CheckoutLoad, tables, gateway, history
<1> QED
  BY <1>1, <1>2, <1>3, <1>4, <1>5, QuietStep

LEMMA RecordLoadStep ==
  ASSUME IInv, NEW r \in Requests, NEW i \in Invoices, RecordLoad(r, i)
  PROVE  IInv'
<1>. PICK amt \in 1..invoices[i].due : Begin(r, [IdleRequest EXCEPT !.pc = "record", !.inv = i, !.amt = amt])
  BY DEF RecordLoad
<1> DEFINE q == [IdleRequest EXCEPT !.pc = "record", !.inv = i, !.amt = amt]
<1>0. amt \in Nat
  BY DEF IInv, TypeOK, TablesType, InvoiceRow
<1>1. q \in RequestType
  BY <1>0 DEF IdleRequest, RequestType, IInv, TypeOK, TablesType, InvoiceRow
<1>2. req' = [req EXCEPT ![r] = q]
  BY DEF Begin
<1>3. TablesType'
  BY BoundAssumption
    DEF IInv, TypeOK, TablesType, RecordLoad, Begin, tables, gateway, history
<1>4. SlotOK(q, payments, order) /\ q.pc \notin {"insertOrder", "store", "event"}
  BY DEF IdleRequest, SlotOK, RecordLoad, IInv, TypeOK, TablesType, RowInv, RowOK,
         InvoiceRow
<1>5. UNCHANGED <<payments, order, sent, hooks, applied>>
  BY DEF RecordLoad, tables, gateway, history
<1> QED
  BY <1>1, <1>2, <1>3, <1>4, <1>5, QuietStep

LEMMA VerifyLoadStep ==
  ASSUME IInv, NEW r \in Requests, NEW p \in PaymentIds, VerifyLoad(r, p)
  PROVE  IInv'
<1>. Begin(r, [IdleRequest EXCEPT !.pc = "verify", !.pay = p])
  BY DEF VerifyLoad
<1> DEFINE q == [IdleRequest EXCEPT !.pc = "verify", !.pay = p]
<1>1. q \in RequestType
  BY DEF IdleRequest, RequestType, IInv, TypeOK, TablesType
<1>2. req' = [req EXCEPT ![r] = q]
  BY DEF Begin
<1>3. TablesType'
  BY BoundAssumption
    DEF IInv, TypeOK, TablesType, VerifyLoad, Begin, tables, gateway, history
<1>4. SlotOK(q, payments, order) /\ q.pc \notin {"insertOrder", "store", "event"}
  BY DEF IdleRequest, SlotOK, VerifyLoad, IInv, TypeOK, TablesType, RowInv, RowOK
<1>5. UNCHANGED <<payments, order, sent, hooks, applied>>
  BY DEF VerifyLoad, tables, gateway, history
<1> QED
  BY <1>1, <1>2, <1>3, <1>4, <1>5, QuietStep

LEMMA RefundLoadStep ==
  ASSUME IInv, NEW r \in Requests, NEW p \in PaymentIds, RefundLoad(r, p)
  PROVE  IInv'
<1>. PICK amt \in (1..(payments[p].amount - payments[p].refunded))
               \cup {payments[p].amount - payments[p].refunded} : Begin(r, [IdleRequest EXCEPT !.pc = "refund", !.pay = p,
                                              !.amt = amt, !.seen = payments[p].refunded])
  BY DEF RefundLoad
<1> DEFINE q == [IdleRequest EXCEPT !.pc = "refund", !.pay = p,
                                              !.amt = amt, !.seen = payments[p].refunded]
<1>0. amt \in Nat /\ payments[p].refunded \in Nat
  BY DEF IInv, TypeOK, TablesType, PaymentRow, RowInv, RowOK
<1>1. q \in RequestType
  BY <1>0 DEF IdleRequest, RequestType, IInv, TypeOK, TablesType, PaymentRow, RowInv, RowOK
<1>2. req' = [req EXCEPT ![r] = q]
  BY DEF Begin
<1>3. TablesType'
  BY BoundAssumption
    DEF IInv, TypeOK, TablesType, RefundLoad, Begin, tables, gateway, history
<1>4. SlotOK(q, payments, order) /\ q.pc \notin {"insertOrder", "store", "event"}
  BY DEF IdleRequest, SlotOK, RefundLoad, IInv, TypeOK, TablesType, RowInv, RowOK,
         PaymentRow, RowInv, RowOK
<1>5. UNCHANGED <<payments, order, sent, hooks, applied>>
  BY DEF RefundLoad, tables, gateway, history
<1> QED
  BY <1>1, <1>2, <1>3, <1>4, <1>5, QuietStep

-----------------------------------------------------------------------------
(***************************************************************************)
(* Steps that write a payment row                                          *)
(***************************************************************************)

LEMMA SettleStep ==
  ASSUME IInv, NEW r \in Requests, Settle(r)
  PROVE  IInv'
<1> DEFINE p == req[r].pay
           row == [payments[p] EXCEPT !.status = "success"]
           q == [req[r] EXCEPT !.pc = "credit"]
<1>0. /\ TypeOK /\ SlotOK(req[r], payments, order) /\ RowInv
      /\ req[r] \in RequestType /\ req[r].pc = "settle"
  BY DEF IInv, SlotInv, TypeOK, Settle, At
<1>1. p \in PaymentIds /\ payments[p] \in PaymentRow /\ payments[p].status # "none"
  BY <1>0 DEF SlotOK, TypeOK, TablesType
<1>2. payments' = [payments EXCEPT ![p] = row]
  BY <1>1 DEF Settle
<1>3. row \in PaymentRow /\ Keeps(payments[p], row)
  BY <1>1 DEF PaymentRow, Keeps
<1>4. RowOK(row, order[p])
  BY <1>0, <1>1 DEF RowInv, RowOK, SlotOK, PaymentRow
<1>5. q \in RequestType /\ req' = [req EXCEPT ![r] = q]
  BY <1>0 DEF RequestType, IdleRequest, Settle, Continue, Return
<1>6. payments' \in [PaymentIds -> PaymentRow] /\ payments'[p] = row
  BY <1>0, <1>1, <1>2, <1>3 DEF TypeOK, TablesType
<1>7. TablesType'
  BY <1>0, <1>6 DEF Settle, Continue, Return, TypeOK, TablesType, gateway, history
<1>8. SlotOK(q, payments', order) /\ q.pc \notin {"insertOrder", "store", "event"}
  BY <1>0, <1>1, <1>3, <1>6 DEF SlotOK, IdleRequest, RequestType, PaymentRow, Keeps
<1>9. \A s \in Requests \ {r} : req[s].pc = "insertOrder" => req[s].pay # p
  BY <1>1 DEF IInv, SlotInv, SlotOK
<1>10. UNCHANGED <<order, sent, hooks, applied>>
  BY DEF Settle, gateway, history
<1> HIDE DEF p, row, q
<1> QED
  BY <1>1, <1>2, <1>3, <1>4, <1>5, <1>7, <1>8, <1>9, <1>10, PaymentStep

LEMMA VerifyRejectStep ==
  ASSUME IInv, NEW r \in Requests, VerifyReject(r)
  PROVE  IInv'
<1> DEFINE p == req[r].pay
           row == [payments[p] EXCEPT !.status = "failed"]
           q == IdleRequest
<1>0. /\ TypeOK /\ SlotOK(req[r], payments, order) /\ RowInv
      /\ req[r] \in RequestType /\ req[r].pc = "reject"
  BY DEF IInv, SlotInv, TypeOK, VerifyReject, At
<1>1. p \in PaymentIds /\ payments[p] \in PaymentRow /\ payments[p].status # "none"
  BY <1>0 DEF SlotOK, TypeOK, TablesType
<1>2. payments' = [payments EXCEPT ![p] = row]
  BY <1>1 DEF VerifyReject
<1>3. row \in PaymentRow /\ Keeps(payments[p], row)
  BY <1>1 DEF PaymentRow, Keeps
<1>4. RowOK(row, order[p])
  BY <1>0, <1>1 DEF RowInv, RowOK, SlotOK, PaymentRow
<1>5. q \in RequestType /\ req' = [req EXCEPT ![r] = q]
  BY <1>0 DEF RequestType, IdleRequest, VerifyReject, Continue, Return
<1>6. payments' \in [PaymentIds -> PaymentRow] /\ payments'[p] = row
  BY <1>0, <1>1, <1>2, <1>3 DEF TypeOK, TablesType
<1>7. TablesType'
  BY <1>0, <1>6 DEF VerifyReject, Continue, Return, TypeOK, TablesType, gateway, history
<1>8. SlotOK(q, payments', order) /\ q.pc \notin {"insertOrder", "store", "event"}
  BY <1>0, <1>1, <1>3, <1>6 DEF SlotOK, IdleRequest, RequestType, PaymentRow, Keeps
<1>9. \A s \in Requests \ {r} : req[s].pc = "insertOrder" => req[s].pay # p
  BY <1>1 DEF IInv, SlotInv, SlotOK
<1>10. UNCHANGED <<order, sent, hooks, applied>>
  BY DEF VerifyReject, gateway, history
<1> HIDE DEF p, row, q
<1> QED
  BY <1>1, <1>2, <1>3, <1>4, <1>5, <1>7, <1>8, <1>9, <1>10, PaymentStep

LEMMA MarkFailedStep ==
  ASSUME IInv, NEW r \in Requests, MarkFailed(r)
  PROVE  IInv'
<1> DEFINE p == req[r].pay
           row == [payments[p] EXCEPT !.status = "failed"]
           q == [req[r] EXCEPT !.pc = "finish"]
<1>0. /\ TypeOK /\ SlotOK(req[r], payments, order) /\ RowInv
      /\ req[r] \in RequestType /\ req[r].pc = "fail"
  BY DEF IInv, SlotInv, TypeOK, MarkFailed, At
<1>1. p \in PaymentIds /\ payments[p] \in PaymentRow /\ payments[p].status # "none"
  BY <1>0 DEF SlotOK, TypeOK, TablesType
<1>2. payments' = [payments EXCEPT ![p] = row]
  BY <1>1 DEF MarkFailed
<1>3. row \in PaymentRow /\ Keeps(payments[p], row)
  BY <1>1 DEF PaymentRow, Keeps
<1>4. RowOK(row, order[p])
  BY <1>0, <1>1 DEF RowInv, RowOK, SlotOK, PaymentRow
<1>5. q \in RequestType /\ req' = [req EXCEPT ![r] = q]
  BY <1>0 DEF RequestType, IdleRequest, MarkFailed, Continue, Return
<1>6. payments' \in [PaymentIds -> PaymentRow] /\ payments'[p] = row
  BY <1>0, <1>1, <1>2, <1>3 DEF TypeOK, TablesType
<1>7. TablesType'
  BY <1>0, <1>6 DEF MarkFailed, Continue, Return, TypeOK, TablesType, gateway, history
<1>8. SlotOK(q, payments', order) /\ q.pc \notin {"insertOrder", "store", "event"}
  BY <1>0, <1>1, <1>3, <1>6 DEF SlotOK, IdleRequest, RequestType, PaymentRow, Keeps
<1>9. \A s \in Requests \ {r} : req[s].pc = "insertOrder" => req[s].pay # p
  BY <1>1 DEF IInv, SlotInv, SlotOK
<1>10. UNCHANGED <<order, sent, hooks, applied>>
  BY DEF MarkFailed, gateway, history
<1> HIDE DEF p, row, q
<1> QED
  BY <1>1, <1>2, <1>3, <1>4, <1>5, <1>7, <1>8, <1>9, <1>10, PaymentStep

LEMMA MarkDisputedStep ==
  ASSUME IInv, NEW r \in Requests, MarkDisputed(r)
  PROVE  IInv'
<1> DEFINE p == req[r].pay
           row == [payments[p] EXCEPT !.status = "disputed"]
           q == [req[r] EXCEPT !.pc = "finish"]
<1>0. /\ TypeOK /\ SlotOK(req[r], payments, order) /\ RowInv
      /\ req[r] \in RequestType /\ req[r].pc = "dispute"
  BY DEF IInv, SlotInv, TypeOK, MarkDisputed, At
<1>1. p \in PaymentIds /\ payments[p] \in PaymentRow /\ payments[p].status # "none"
  BY <1>0 DEF SlotOK, TypeOK, TablesType
<1>2. payments' = [payments EXCEPT ![p] = row]
  BY <1>1 DEF MarkDisputed
<1>3. row \in PaymentRow /\ Keeps(payments[p], row)
  BY <1>1 DEF PaymentRow, Keeps
<1>4. RowOK(row, order[p])
  BY <1>0, <1>1 DEF RowInv, RowOK, SlotOK, PaymentRow
<1>5. q \in RequestType /\ req' = [req EXCEPT ![r] = q]
  BY <1>0 DEF RequestType, IdleRequest, MarkDisputed, Continue, Return
<1>6. payments' \in [PaymentIds -> PaymentRow] /\ payments'[p] = row
  BY <1>0, <1>1, <1>2, <1>3 DEF TypeOK, TablesType
<1>7. TablesType'
  BY <1>0, <1>6 DEF MarkDisputed, Continue, Return, TypeOK, TablesType, gateway, history
<1>8. SlotOK(q, payments', order) /\ q.pc \notin {"insertOrder", "store", "event"}
  BY <1>0, <1>1, <1>3, <1>6 DEF SlotOK, IdleRequest, RequestType, PaymentRow, Keeps
<1>9. \A s \in Requests \ {r} : req[s].pc = "insertOrder" => req[s].pay # p
  BY <1>1 DEF IInv, SlotInv, SlotOK
<1>10. UNCHANGED <<order, sent, hooks, applied>>
  BY DEF MarkDisputed, gateway, history
<1> HIDE DEF p, row, q
<1> QED
  BY <1>1, <1>2, <1>3, <1>4, <1>5, <1>7, <1>8, <1>9, <1>10, PaymentStep

LEMMA RefundWriteStep ==
  ASSUME IInv, NEW r \in Requests, RefundWrite(r)
  PROVE  IInv'
<1> DEFINE p == req[r].pay
           total == req[r].seen + req[r].amt
           row == [payments[p] EXCEPT !.refunded = total,
                     !.status = IF total >= payments[p].amount THEN "refunded"
                                ELSE "partially_refunded"]
           q == [req[r] EXCEPT !.pc = "putback"]
<1>0. /\ TypeOK /\ SlotOK(req[r], payments, order) /\ RowInv
      /\ req[r] \in RequestType /\ req[r].pc = "refunded"
  BY DEF IInv, SlotInv, TypeOK, RefundWrite, At
<1>1. p \in PaymentIds /\ payments[p] \in PaymentRow /\ payments[p].status # "none"
  BY <1>0 DEF SlotOK, TypeOK, TablesType
<1>2. payments' = [payments EXCEPT ![p] = row]
  BY <1>1 DEF RefundWrite
<1>3. total \in Nat /\ total <= payments[p].amount
  BY <1>0 DEF RequestType, SlotOK
<1>4. row \in PaymentRow /\ Keeps(payments[p], row)
  BY <1>1, <1>3 DEF PaymentRow, Keeps
<1>5. RowOK(row, order[p])
  BY <1>0, <1>1, <1>3 DEF RowInv, RowOK, SlotOK, PaymentRow
<1>6. q \in RequestType /\ req' = [req EXCEPT ![r] = q]
  BY <1>0 DEF RequestType, RefundWrite, Continue
<1>7. payments' \in [PaymentIds -> PaymentRow] /\ payments'[p] = row
  BY <1>0, <1>1, <1>2, <1>4 DEF TypeOK, TablesType
<1>8. TablesType'
  BY <1>0, <1>7 DEF RefundWrite, Continue, TypeOK, TablesType, gateway, history
<1>9. SlotOK(q, payments', order) /\ q.pc \notin {"insertOrder", "store", "event"}
  <2>1. payments'[p].status # "none"
    BY <1>1, <1>4, <1>7 DEF Keeps
  <2>2. q.pc = "putback" /\ q.pay = p
    BY <1>0 DEF RequestType
  <2> HIDE DEF p, q
  <2> QED
    BY <1>1, <2>1, <2>2 DEF SlotOK
<1>10. \A s \in Requests \ {r} : req[s].pc = "insertOrder" => req[s].pay # p
  BY <1>1 DEF IInv, SlotInv, SlotOK
<1>11. UNCHANGED <<order, sent, hooks, applied>>
  BY DEF RefundWrite, gateway, history
<1> HIDE DEF p, row, q
<1> QED
  BY <1>1, <1>2, <1>4, <1>5, <1>6, <1>8, <1>9, <1>10, <1>11, PaymentStep

\* The rows that the three inserts write.
NewRow(r, status, online) ==
    [status |-> status, inv |-> req[r].inv, amount |-> req[r].amt,
     refunded |-> 0, online |-> online, ref |-> req[r].seen]

LEMMA NewRowOK ==
  ASSUME NEW r \in Requests, req[r] \in RequestType, req[r].inv \in Invoices,
         NEW status \in {"created", "failed"}, NEW online \in BOOLEAN, NEW o, NEW old,
         old.status = "none"
  PROVE  /\ NewRow(r, status, online) \in PaymentRow
         /\ RowOK(NewRow(r, status, online), o)
         /\ Keeps(old, NewRow(r, status, online))
         /\ NewRow(r, status, online).status # "none"
         /\ NewRow(r, status, online).online = online
  BY DEF NewRow, PaymentRow, RowOK, Keeps, RequestType

LEMMA CheckoutInsertStep ==
  ASSUME IInv, NEW r \in Requests, CheckoutInsert(r)
  PROVE  IInv'
<1> DEFINE p == req[r].pay
           row == NewRow(r, "created", TRUE)
<1>0. /\ TypeOK /\ SlotOK(req[r], payments, order)
      /\ req[r] \in RequestType /\ req[r].pc = "insertOrder"
  BY DEF IInv, SlotInv, TypeOK, CheckoutInsert, At
<1>1. /\ p \in PaymentIds /\ payments[p].status = "none"
      /\ req[r].inv \in Invoices
  BY <1>0 DEF SlotOK
<1>2. req' = [req EXCEPT ![r] = IdleRequest]
  BY DEF CheckoutInsert, Return, Continue
<1>3. UNCHANGED <<order, sent, hooks, applied>>
  BY DEF CheckoutInsert, gateway, history
<1>4. CASE ReferenceTaken(req[r].seen)
  <2>1. payments' = payments
    BY <1>4 DEF CheckoutInsert
  <2>2. TablesType'
    BY <1>0, <2>1 DEF CheckoutInsert, Return, Continue, TypeOK, TablesType, gateway, history
  <2>3. IdleRequest.pc \notin {"insertOrder", "store", "event"}
    BY DEF IdleRequest
  <2> QED
    BY <1>2, <1>3, <2>1, <2>2, <2>3, IdleSlot, QuietStep
<1>5. CASE ~ReferenceTaken(req[r].seen)
  <2>1. payments' = [payments EXCEPT ![p] = row]
    BY <1>5 DEF CheckoutInsert, NewRow
  <2>2. row \in PaymentRow /\ RowOK(row, order[p]) /\ Keeps(payments[p], row)
    BY <1>0, <1>1, NewRowOK
  <2>3. TablesType'
    <3>1. payments' \in [PaymentIds -> PaymentRow]
      BY <1>0, <2>1, <2>2 DEF TypeOK, TablesType
    <3> QED
      BY <1>0, <3>1
        DEF CheckoutInsert, Return, Continue, TypeOK, TablesType, gateway, history
  <2>4. \A s \in Requests \ {r} : req[s].pc = "insertOrder" => req[s].pay # p
    BY <1>0 DEF IInv, OrderInv
  <2>5. IdleRequest.pc \notin {"insertOrder", "store", "event"}
    BY DEF IdleRequest
  <2> HIDE DEF p, row
  <2> QED
    BY <1>1, <1>2, <1>3, <2>1, <2>2, <2>3, <2>4, <2>5, IdleSlot, PaymentStep
<1> QED
  BY <1>4, <1>5

LEMMA CheckoutRefusedStep ==
  ASSUME IInv, NEW r \in Requests, NEW p \in PaymentIds, CheckoutRefused(r, p)
  PROVE  IInv'
<1> DEFINE row == NewRow(r, "failed", TRUE)
<1>0. /\ TypeOK /\ SlotOK(req[r], payments, order)
      /\ req[r] \in RequestType /\ req[r].pc = "checkoutOrder"
  BY DEF IInv, SlotInv, TypeOK, CheckoutRefused, At
<1>1. payments[p].status = "none" /\ order[p] = "none" /\ req[r].inv \in Invoices
  BY <1>0 DEF SlotOK, CheckoutRefused
<1>2. req' = [req EXCEPT ![r] = IdleRequest]
  BY DEF CheckoutRefused, Return, Continue
<1>3. UNCHANGED <<order, sent, hooks, applied>>
  BY DEF CheckoutRefused, gateway, history
<1>. IdleRequest.pc \notin {"insertOrder", "store", "event"}
  BY DEF IdleRequest
<1>4. CASE ReferenceTaken(req[r].seen)
  <2>1. payments' = payments
    BY <1>4 DEF CheckoutRefused
  <2>2. TablesType'
    BY <1>0, <2>1
      DEF CheckoutRefused, Return, Continue, TypeOK, TablesType, gateway, history
  <2> QED
    BY <1>2, <1>3, <2>1, <2>2, IdleSlot, QuietStep
<1>5. CASE ~ReferenceTaken(req[r].seen)
  <2>1. payments' = [payments EXCEPT ![p] = row]
    BY <1>5 DEF CheckoutRefused, NewRow
  <2>2. row \in PaymentRow /\ RowOK(row, order[p]) /\ Keeps(payments[p], row)
    BY <1>0, <1>1, NewRowOK
  <2>4. \A s \in Requests \ {r} : req[s].pc = "insertOrder" => req[s].pay # p
    BY <1>1 DEF IInv, SlotInv, SlotOK
  <2> HIDE DEF row
  <2>5. UNCHANGED <<invoices, hooks, filing, secret, order, sent, returned, started,
                    restarts, credited, applied>>
    BY DEF CheckoutRefused, Return, Continue, gateway, history
  <2>6. payments' \in [PaymentIds -> PaymentRow]
    BY <1>0, <2>1, <2>2 DEF TypeOK, TablesType
  <2>3. TablesType'
    BY <1>0, <2>5, <2>6 DEF TypeOK, TablesType
  <2> QED
    BY <1>2, <1>3, <2>1, <2>2, <2>3, <2>4, IdleSlot, PaymentStep
<1> QED
  BY <1>4, <1>5

LEMMA RecordInsertStep ==
  ASSUME IInv, NEW r \in Requests, NEW p \in PaymentIds, RecordInsert(r, p)
  PROVE  IInv'
<1> DEFINE row == NewRow(r, "created", FALSE)
           q == [IdleRequest EXCEPT !.pc = "settle", !.pay = p]
<1>0. /\ TypeOK /\ SlotOK(req[r], payments, order)
      /\ req[r] \in RequestType /\ req[r].pc = "recordInsert"
  BY DEF IInv, SlotInv, TypeOK, RecordInsert, At
<1>1. payments[p].status = "none" /\ order[p] = "none" /\ req[r].inv \in Invoices
  BY <1>0 DEF SlotOK, RecordInsert
<1>3. UNCHANGED <<order, sent, hooks, applied>>
  BY DEF RecordInsert, gateway, history
<1>4. CASE ReferenceTaken(req[r].seen)
  <2>1. payments' = payments /\ req' = [req EXCEPT ![r] = IdleRequest]
    BY <1>4 DEF RecordInsert, Return, Continue
  <2>2. TablesType'
    BY <1>0, <1>4, <2>1
      DEF RecordInsert, Return, Continue, TypeOK, TablesType, gateway, history
  <2>3. IdleRequest.pc \notin {"insertOrder", "store", "event"}
    BY DEF IdleRequest
  <2> QED
    BY <1>3, <2>1, <2>2, <2>3, IdleSlot, QuietStep
<1>5. CASE ~ReferenceTaken(req[r].seen)
  <2>1. payments' = [payments EXCEPT ![p] = row] /\ req' = [req EXCEPT ![r] = q]
    BY <1>5 DEF RecordInsert, NewRow, Continue
  <2>2. /\ row \in PaymentRow /\ RowOK(row, order[p]) /\ Keeps(payments[p], row)
        /\ row.status # "none" /\ row.online = FALSE
    BY <1>0, <1>1, NewRowOK
  <2> HIDE DEF row
  <2>3. payments' \in [PaymentIds -> PaymentRow] /\ payments'[p] = row
    BY <1>0, <2>1, <2>2 DEF TypeOK, TablesType
  <2>4. TablesType'
    BY <1>0, <1>5, <2>3 DEF RecordInsert, Continue, TypeOK, TablesType, gateway, history
  <2>5. \A s \in Requests \ {r} : req[s].pc = "insertOrder" => req[s].pay # p
    BY <1>1 DEF IInv, SlotInv, SlotOK
  <2>6. /\ q \in RequestType /\ q.pc \notin {"insertOrder", "store", "event"}
        /\ SlotOK(q, payments', order)
    BY <2>2, <2>3 DEF IdleRequest, RequestType, SlotOK
  <2> HIDE DEF q
  <2> QED
    BY <1>3, <2>1, <2>2, <2>4, <2>5, <2>6, PaymentStep
<1> QED
  BY <1>4, <1>5

-----------------------------------------------------------------------------
(***************************************************************************)
(* Steps that write an event row                                           *)
(***************************************************************************)

LEMMA StoreStep ==
  ASSUME IInv, NEW r \in Requests, Store(r)
  PROVE  IInv'
<1> DEFINE e == req[r].ev
           q == [req[r] EXCEPT !.pc = IF req[r].out = "failed" THEN "finish" ELSE "event"]
<1>0. /\ TypeOK /\ SlotOK(req[r], payments, order) /\ EventInv
      /\ req[r] \in RequestType /\ req[r].pc = "store" /\ e \in Events
  BY DEF IInv, SlotInv, SlotOK, TypeOK, Store, At
<1>1. UNCHANGED <<payments, order, sent, applied>>
  BY DEF Store, gateway, history
<1>2. CASE hooks[e] # "none"
  <2>1. hooks' = hooks /\ req' = [req EXCEPT ![r] = IdleRequest]
    BY <1>2 DEF Store, Return, Continue
  <2>2. TablesType'
    BY <1>0, <1>2 DEF Store, Return, Continue, TypeOK, TablesType, gateway, history
  <2>3. IdleRequest.pc \notin {"insertOrder", "store", "event"}
    BY DEF IdleRequest
  <2> QED
    BY <1>1, <2>1, <2>2, <2>3, IdleSlot, QuietStep
<1>3. CASE hooks[e] = "none"
  <2>1. /\ hooks' = [hooks EXCEPT ![e] = "received"]
        /\ req' = [req EXCEPT ![r] = q]
    BY <1>3 DEF Store, Continue
  <2>2. TablesType'
    BY <1>0, <1>3 DEF Store, Continue, TypeOK, TablesType, gateway, history
  <2>3. /\ q \in RequestType /\ q.pc \in {"finish", "event"} /\ q.ev = e
        /\ q.pay = req[r].pay /\ (q.pc = "finish" => q.out = "failed")
    BY <1>0 DEF RequestType
  <2>4. SlotOK(q, payments, order)
    BY <1>0, <2>3 DEF SlotOK
  <2> HIDE DEF q
  <2>5. \A s \in Requests : req'[s] = IF s = r THEN q ELSE req[s]
    BY <1>0, <2>1 DEF TypeOK
  <2>6. \A x \in Events : hooks'[x] = IF x = e THEN "received" ELSE hooks[x]
    BY <1>0, <2>1 DEF TypeOK, TablesType
  <2>7. \A s \in Requests : req[s].pc = "event" => req[s].ev \in Events /\ req[s].ev # e
    BY <1>0, <1>3 DEF EventInv, IInv, SlotInv, SlotOK
  <2>8. EventInv'
    BY <1>0, <1>1, <1>3, <2>3, <2>5, <2>6, <2>7 DEF EventInv
  <2>9. sent[q.ev] # NoEvent /\ q.pay = sent[q.ev].pay
    BY <1>0, <2>3 DEF IInv, SentInv
  <2> QED
    BY <1>1, <2>1, <2>2, <2>3, <2>4, <2>8, <2>9, EventStep
<1> QED
  BY <1>2, <1>3

LEMMA FinishStep ==
  ASSUME IInv, NEW r \in Requests, Finish(r)
  PROVE  IInv'
<1> DEFINE e == req[r].ev
<1>0. /\ TypeOK /\ SlotOK(req[r], payments, order) /\ EventInv
      /\ req[r] \in RequestType /\ req[r].pc = "finish" /\ e \in Events
      /\ req[r].out # "none"
  BY DEF IInv, SlotInv, SlotOK, TypeOK, Finish, At
<1>1. UNCHANGED <<payments, order, sent, applied>>
  BY DEF Finish, gateway, history
<1>2. /\ hooks' = [hooks EXCEPT ![e] = req[r].out]
      /\ req' = [req EXCEPT ![r] = IdleRequest]
  BY DEF Finish, Return, Continue
<1>3. TablesType'
  BY <1>0 DEF Finish, Return, Continue, TypeOK, TablesType, RequestType, gateway, history
<1>4. IdleRequest.pc = "idle"
  BY DEF IdleRequest
<1>5. \A s \in Requests : req'[s] = IF s = r THEN IdleRequest ELSE req[s]
  BY <1>0, <1>2 DEF TypeOK
<1>6. \A x \in Events : hooks'[x] = IF x = e THEN req[r].out ELSE hooks[x]
  BY <1>0, <1>2 DEF TypeOK, TablesType
<1>7. \A s \in Requests : req[s].pc = "event" => req[s].ev \in Events
  BY DEF IInv, SlotInv, SlotOK
<1>8. EventInv'
  BY <1>0, <1>1, <1>4, <1>5, <1>6, <1>7 DEF EventInv
<1> QED
  BY <1>1, <1>2, <1>3, <1>4, <1>8, IdleSlot, EventStep

LEMMA DeliverAgainStep ==
  ASSUME IInv, NEW r \in Requests, NEW e \in Events, DeliverAgain(r, e)
  PROVE  IInv'
<1>0. TypeOK /\ EventInv
  BY DEF IInv
<1>1. TypeOK'
  BY <1>0 DEF DeliverAgain, TypeOK, TablesType, gateway, history
<1>2. \A x \in Events : hooks'[x] = IF x = e THEN "duplicate" ELSE hooks[x]
  BY <1>0 DEF DeliverAgain, TypeOK, TablesType
<1>3. \A s \in Requests : req[s].pc = "event" => req[s].ev \in Events
  BY DEF IInv, SlotInv, SlotOK
<1>4. UNCHANGED <<payments, order, sent, applied, req>>
  BY DEF DeliverAgain, gateway, history
<1>5. EventInv'
  BY <1>0, <1>2, <1>3, <1>4 DEF EventInv, DeliverAgain
<1> QED
  BY <1>1, <1>4, <1>5 DEF IInv, SlotInv, OrderInv, RowInv, SentInv

LEMMA DeliverStep ==
  ASSUME IInv, NEW r \in Requests, NEW e \in Events, Deliver(r, e)
  PROVE  IInv'
<1> DEFINE q == [IdleRequest EXCEPT !.pc = "store", !.ev = e, !.pay = sent[e].pay,
                    !.out = IF secret THEN "none" ELSE "failed"]
<1>0. TypeOK /\ EventInv
  BY DEF IInv
<1>1. sent[e] # NoEvent /\ sent[e].pay \in PaymentIds
  BY <1>0 DEF TypeOK, TablesType, Deliver
<1>2. /\ q \in RequestType /\ q.pc = "store" /\ q.ev = e /\ q.pay = sent[e].pay
  BY <1>1 DEF IdleRequest, RequestType
<1>3. req' = [req EXCEPT ![r] = q]
  BY DEF Deliver, Continue
<1> HIDE DEF q
<1>4. TablesType'
  BY <1>0 DEF Deliver, Continue, TypeOK, TablesType, tables, gateway, history
<1>5. SlotOK(q, payments, order)
  BY <1>1, <1>2 DEF SlotOK
<1>6. UNCHANGED <<payments, order, sent, hooks, applied>>
  BY DEF Deliver, tables, gateway, history
<1>7. \A s \in Requests : req'[s] = IF s = r THEN q ELSE req[s]
  BY <1>0, <1>3 DEF TypeOK
<1>8. EventInv'
  BY <1>0, <1>2, <1>6, <1>7 DEF EventInv
<1> QED
  BY <1>1, <1>2, <1>3, <1>4, <1>5, <1>6, <1>8, EventStep

\* Where applyPaymentEvent goes on and with which outcome.
LEMMA OutcomeSlot ==
  ASSUME TypeOK, NEW p \in PaymentIds, NEW kind \in EventKind,
         kind = "captured" => order[p] \in Captured
  PROVE  \E next \in {"finish", "fail", "dispute", "settle"}, out \in HookStatus :
           /\ Outcome(p, kind) = <<next, out>>
           /\ next \in {"fail", "dispute", "finish"} => out # "none"
           /\ next \in {"fail", "dispute", "settle"} => payments[p].status # "none"
           /\ next = "settle" => order[p] \in Captured
<1>1. CASE payments[p].status = "none" \/ ~payments[p].online
  <2>1. Outcome(p, kind) = <<"finish", "ignored">>
    BY <1>1 DEF Outcome
  <2> QED
    BY <2>1
<1>2. CASE payments[p].online /\ payments[p].status = "success"
  <2>1. Outcome(p, kind) = <<"finish", "duplicate">>
    BY <1>2 DEF Outcome
  <2> QED
    BY <2>1
<1>3. CASE payments[p].online /\ payments[p].status \notin {"none", "success"}
  <2>1. CASE kind = "failed"
    <3>1. Outcome(p, kind) = <<"fail", "processed">>
      BY <1>3, <2>1 DEF Outcome
    <3> QED
      BY <1>3, <3>1
  <2>2. CASE kind = "other"
    <3>1. Outcome(p, kind) = <<"finish", "ignored">>
      BY <1>3, <2>2 DEF Outcome
    <3> QED
      BY <3>1
  <2>3. CASE kind = "captured" /\ order[p] = "mismatch"
    <3>1. Outcome(p, kind) = <<"dispute", "failed">>
      BY <1>3, <2>3 DEF Outcome
    <3> QED
      BY <1>3, <3>1
  <2>4. CASE kind = "captured" /\ order[p] # "mismatch"
    <3>1. Outcome(p, kind) = <<"settle", "none">>
      BY <1>3, <2>4 DEF Outcome
    <3> QED
      BY <1>3, <2>4, <3>1
  <2> QED
    BY <2>1, <2>2, <2>3, <2>4 DEF EventKind
<1> QED
  BY <1>1, <1>2, <1>3

LEMMA ApplyPaymentEventStep ==
  ASSUME IInv, NEW r \in Requests, ApplyPaymentEvent(r)
  PROVE  IInv'
<1> DEFINE e == req[r].ev
           p == req[r].pay
<1>0. /\ TypeOK /\ SlotOK(req[r], payments, order) /\ EventInv /\ SentInv
      /\ req[r] \in RequestType /\ req[r].pc = "event"
      /\ e \in Events /\ p \in PaymentIds
  BY DEF IInv, SlotInv, SlotOK, TypeOK, ApplyPaymentEvent, At
<1>1. sent[e].kind \in EventKind /\ (sent[e].kind = "captured" => order[p] \in Captured)
  BY <1>0 DEF SentInv, TypeOK, TablesType
<1>2. PICK next \in {"finish", "fail", "dispute", "settle"}, out \in HookStatus :
           /\ Outcome(p, sent[e].kind) = <<next, out>>
           /\ next \in {"fail", "dispute", "finish"} => out # "none"
           /\ next \in {"fail", "dispute", "settle"} => payments[p].status # "none"
           /\ next = "settle" => order[p] \in Captured
  BY <1>0, <1>1, OutcomeSlot
<1> DEFINE q == [req[r] EXCEPT !.pc = next, !.out = out]
<1>3. /\ applied' = [applied EXCEPT ![e] = @ + 1]
      /\ req' = [req EXCEPT ![r] = q]
  BY <1>2 DEF ApplyPaymentEvent, Continue
<1>4. q \in RequestType /\ q.pc = next /\ q.out = out /\ q.ev = e /\ q.pay = p
  BY <1>0, <1>2 DEF RequestType
<1> HIDE DEF q
<1>5. UNCHANGED <<payments, order, sent, hooks>>
  BY DEF ApplyPaymentEvent, tables, gateway
<1>6. TablesType'
  BY <1>0, <1>3 DEF ApplyPaymentEvent, Continue, TypeOK, TablesType, tables, gateway
<1>7. SlotOK(q, payments, order)
  BY <1>0, <1>2, <1>4 DEF SlotOK
<1>8. \A s \in Requests : req'[s] = IF s = r THEN q ELSE req[s]
  BY <1>0, <1>3 DEF TypeOK
<1>9. \A x \in Events : applied'[x] = IF x = e THEN applied[x] + 1 ELSE applied[x]
  BY <1>0, <1>3 DEF TypeOK, TablesType
<1>10. \A s \in Requests : req[s].pc = "event" => req[s].ev \in Events
  BY DEF IInv, SlotInv, SlotOK
<1>11. EventInv'
  <2>1. hooks[e] # "none" /\ applied[e] = 0
    BY <1>0 DEF EventInv
  <2>2. \A x \in Events : applied'[x] <= 1 /\ (hooks'[x] = "none" => applied'[x] = 0)
    BY <1>0, <1>5, <1>9, <2>1 DEF EventInv
  <2>3. \A s \in Requests : req'[s].pc = "event" => s # r /\ req'[s] = req[s] /\ req[s].ev # e
    BY <1>0, <1>2, <1>4, <1>8 DEF EventInv
  <2>4. \A s \in Requests :
          req'[s].pc = "event" => hooks'[req'[s].ev] # "none" /\ applied'[req'[s].ev] = 0
    BY <1>0, <1>5, <1>9, <1>10, <2>3 DEF EventInv
  <2>5. \A s, t \in Requests :
          s # t /\ req'[s].pc = "event" /\ req'[t].pc = "event" => req'[s].ev # req'[t].ev
    BY <1>0, <2>3 DEF EventInv
  <2> QED
    BY <2>2, <2>4, <2>5 DEF EventInv
<1> QED
  BY <1>2, <1>3, <1>4, <1>5, <1>6, <1>7, <1>11, EventStep

-----------------------------------------------------------------------------
(***************************************************************************)
(* The gateway, the operator and the process                               *)
(***************************************************************************)

LEMMA CheckoutOrderStep ==
  ASSUME IInv, NEW r \in Requests, NEW p \in PaymentIds, CheckoutOrder(r, p)
  PROVE  IInv'
<1> DEFINE q == [req[r] EXCEPT !.pc = "insertOrder", !.pay = p]
<1>0. /\ TypeOK /\ SlotOK(req[r], payments, order)
      /\ req[r] \in RequestType /\ req[r].pc = "checkoutOrder"
      /\ order[p] = "none" /\ payments[p].status = "none"
  BY DEF IInv, SlotInv, TypeOK, CheckoutOrder, At
<1>1. /\ order' = [order EXCEPT ![p] = "open"]
      /\ req' = [req EXCEPT ![r] = q]
      /\ UNCHANGED <<payments, sent, hooks, applied>>
  BY DEF CheckoutOrder, Continue, tables, history
<1>2. q \in RequestType /\ q.pc = "insertOrder" /\ q.pay = p /\ q.inv = req[r].inv
  BY <1>0 DEF RequestType
<1> HIDE DEF q
<1>3. \A s \in Requests : req'[s] = IF s = r THEN q ELSE req[s]
  BY <1>0, <1>1 DEF TypeOK
<1>4. \A x \in PaymentIds : order'[x] = IF x = p THEN "open" ELSE order[x]
  BY <1>0, <1>1 DEF TypeOK, TablesType
<1>5. TypeOK'
  BY <1>0, <1>1, <1>2 DEF CheckoutOrder, Continue, TypeOK, TablesType, tables, history
<1>6. SlotOK(q, payments', order')
  BY <1>0, <1>1, <1>2, <1>4 DEF SlotOK
<1>7. \A s \in Requests : SlotOK(req[s], payments, order)
  BY DEF IInv, SlotInv
<1>8. SlotInv'
  <2> SUFFICES ASSUME NEW s \in Requests, s # r
               PROVE  SlotOK(req[s], payments', order')
    BY <1>3, <1>6 DEF SlotInv
  <2>1. \A x \in PaymentIds : Keeps(payments[x], payments'[x])
    BY <1>1 DEF Keeps
  <2>2. \A x \in PaymentIds : order[x] # "none" => order'[x] # "none"
    BY <1>4
  <2>3. \A x \in PaymentIds : order[x] \in Captured => order'[x] \in Captured
    BY <1>0, <1>4
  <2>4. req[s].pc = "insertOrder" => payments'[req[s].pay].status = "none"
    BY <1>1, <1>7 DEF SlotOK
  <2> QED
    BY <1>7, <2>1, <2>2, <2>3, <2>4, SlotFrame
<1>9. OrderInv'
  <2>1. \A s \in Requests : req[s].pc = "insertOrder" => req[s].pay # p
    BY <1>0, <1>7 DEF SlotOK
  <2> QED
    BY <1>2, <1>3, <2>1 DEF IInv, OrderInv
<1>10. RowInv'
  BY <1>0, <1>1, <1>4 DEF IInv, RowInv, RowOK
<1>11. EventInv'
  BY <1>1, <1>2, <1>3 DEF IInv, EventInv
<1>12. SentInv'
  <2>1. \A e \in Events : sent[e].kind = "captured" => sent[e].pay \in PaymentIds
    BY <1>0 DEF TypeOK, TablesType, NoEvent
  <2> QED
    BY <1>0, <1>1, <1>2, <1>3, <1>4, <2>1 DEF IInv, SentInv
<1> QED
  BY <1>5, <1>8, <1>9, <1>10, <1>11, <1>12 DEF IInv

LEMMA GatewayCaptureStep ==
  ASSUME IInv, NEW p \in PaymentIds, GatewayCapture(p)
  PROVE  IInv'
<1>0. TypeOK /\ order[p] = "open"
  BY DEF IInv, GatewayCapture
<1>1. PICK s \in {"captured", "mismatch"} : order' = [order EXCEPT ![p] = s]
  BY DEF GatewayCapture
<1>2. UNCHANGED <<payments, sent, hooks, applied, req>>
  BY DEF GatewayCapture, tables, history
<1>3. \A x \in PaymentIds : order'[x] = IF x = p THEN s ELSE order[x]
  BY <1>0, <1>1 DEF TypeOK, TablesType
<1>4. TypeOK'
  BY <1>0, <1>1 DEF GatewayCapture, TypeOK, TablesType, tables, history
<1>5. SlotInv'
  <2> SUFFICES ASSUME NEW t \in Requests PROVE SlotOK(req[t], payments, order')
    BY <1>2 DEF SlotInv
  <2>1. SlotOK(req[t], payments, order)
    BY DEF IInv, SlotInv
  <2>2. \A x \in PaymentIds : Keeps(payments[x], payments[x])
    BY DEF Keeps
  <2>3. \A x \in PaymentIds : order[x] # "none" => order'[x] # "none"
    BY <1>3
  <2>4. \A x \in PaymentIds : order[x] \in Captured => order'[x] \in Captured
    BY <1>3
  <2>5. req[t].pc = "insertOrder" => payments[req[t].pay].status = "none"
    BY <2>1 DEF SlotOK
  <2> QED
    BY <2>1, <2>2, <2>3, <2>4, <2>5, SlotFrame
<1>6. RowInv'
  BY <1>2, <1>3 DEF IInv, RowInv, RowOK
<1>7. SentInv'
  <2>1. \A e \in Events : sent[e].kind = "captured" => sent[e].pay \in PaymentIds
    BY <1>0 DEF TypeOK, TablesType, NoEvent
  <2> QED
    BY <1>2, <1>3, <2>1 DEF IInv, SentInv
<1> QED
  BY <1>2, <1>4, <1>5, <1>6, <1>7 DEF IInv, OrderInv, EventInv

LEMMA GatewayIssueStep ==
  ASSUME IInv, NEW e \in Events, NEW p \in PaymentIds, GatewayIssue(e, p)
  PROVE  IInv'
<1>0. TypeOK /\ sent[e] = NoEvent
  BY DEF IInv, GatewayIssue
<1>1. PICK kind \in EventKind :
        /\ kind = "captured" => order[p] \in Captured
        /\ sent' = [sent EXCEPT ![e] = [pay |-> p, kind |-> kind]]
  BY DEF GatewayIssue, Confirmed
<1>2. UNCHANGED <<payments, order, hooks, applied, req>>
  BY DEF GatewayIssue, tables, history
<1>3. \A x \in Events : sent'[x] = IF x = e THEN [pay |-> p, kind |-> kind] ELSE sent[x]
  BY <1>0, <1>1 DEF TypeOK, TablesType
<1>4. TypeOK'
  BY <1>0, <1>1 DEF GatewayIssue, TypeOK, TablesType, tables, history
<1>5. SentInv'
  <2>1. \A x \in Events : sent'[x].kind = "captured" => order'[sent'[x].pay] \in Captured
    BY <1>1, <1>2, <1>3 DEF IInv, SentInv
  <2>2. \A r \in Requests :
          req[r].pc \in {"store", "event"} =>
              /\ req[r].ev \in Events /\ req[r].ev # e
              /\ sent[req[r].ev] # NoEvent /\ req[r].pay = sent[req[r].ev].pay
    BY <1>0 DEF IInv, SentInv, SlotInv, SlotOK
  <2> QED
    BY <1>2, <1>3, <2>1, <2>2 DEF SentInv
<1> QED
  BY <1>2, <1>4, <1>5 DEF IInv, SlotInv, OrderInv, RowInv, EventInv

LEMMA ConfigureSecretStep ==
  ASSUME IInv, ConfigureSecret
  PROVE  IInv'
  BY DEF ConfigureSecret, IInv, TypeOK, TablesType, SlotInv, OrderInv, RowInv, EventInv,
         SentInv, tables, history

LEMMA AdvanceFilingStep ==
  ASSUME IInv, NEW i \in Invoices, AdvanceFiling(i)
  PROVE  IInv'
  BY DEF AdvanceFiling, IInv, TypeOK, TablesType, SlotInv, OrderInv, RowInv, EventInv,
         SentInv, gateway, history, FilingStatus

LEMMA CreateInvoiceStep ==
  ASSUME IInv, NEW i \in Invoices, CreateInvoice(i)
  PROVE  IInv'
  BY TotalAssumption
     DEF CreateInvoice, IInv, TypeOK, TablesType, SlotInv, OrderInv, RowInv, EventInv,
         SentInv, gateway, history, InvoiceRow, InvoiceStatus

LEMMA RestartStep ==
  ASSUME IInv, Restart
  PROVE  IInv'
<1>1. \A r \in Requests : req'[r] = IdleRequest
  BY DEF Restart
<1>2. IdleRequest.pc = "idle"
  BY DEF IdleRequest
<1>3. UNCHANGED <<payments, order, sent, hooks, applied>>
  BY DEF Restart, tables, gateway, history
<1>4. TypeOK'
  BY BoundAssumption, IdleType
    DEF Restart, IInv, TypeOK, TablesType, tables, gateway, history
<1>5. SlotInv'
  BY <1>1, IdleSlot DEF SlotInv
<1>6. OrderInv' /\ EventInv' /\ SentInv'
  BY <1>1, <1>2, <1>3 DEF IInv, OrderInv, EventInv, SentInv
<1>7. RowInv'
  BY <1>3 DEF IInv, RowInv
<1> QED
  BY <1>4, <1>5, <1>6, <1>7 DEF IInv

-----------------------------------------------------------------------------
(***************************************************************************)
(* The theorems                                                            *)
(***************************************************************************)

LEMMA InitIInv == Init => IInv
<1> SUFFICES ASSUME Init PROVE IInv
  OBVIOUS
<1>1. TypeOK
  BY BoundAssumption, IdleType
  DEF Init, TypeOK, TablesType, NoInvoice, NoPayment, InvoiceRow, PaymentRow,
      InvoiceStatus, FilingStatus
<1>2. \A r \in Requests : req[r] = IdleRequest /\ IdleRequest.pc = "idle"
  BY DEF Init, IdleRequest
<1>3. SlotInv
  BY <1>2, IdleSlot DEF SlotInv
<1>4. OrderInv /\ EventInv /\ SentInv
  BY <1>2 DEF Init, OrderInv, EventInv, SentInv, NoEvent
<1>5. RowInv
  BY DEF Init, RowInv, RowOK, NoPayment
<1> QED
  BY <1>1, <1>3, <1>4, <1>5 DEF IInv

LEMMA StepIInv ==
  ASSUME IInv, NEW r \in Requests, Step(r)
  PROVE  IInv'
<1>1. CASE \/ VoidWrite(r) \/ OverdueWrite(r) \/ ReadReference(r) \/ CheckoutInsert(r)
           \/ \E p \in PaymentIds :
                CheckoutOrder(r, p) \/ CheckoutRefused(r, p) \/ RecordInsert(r, p)
  BY <1>1, VoidWriteStep, OverdueWriteStep, ReadReferenceStep, CheckoutInsertStep,
     CheckoutOrderStep, CheckoutRefusedStep, RecordInsertStep
<1>2. CASE \/ Settle(r) \/ CreditRead(r) \/ CreditWrite(r)
           \/ PeriodRead(r) \/ PeriodWrite(r)
           \/ VerifyOk(r) \/ VerifyRefused(r) \/ VerifyReject(r)
  BY <1>2, SettleStep, CreditReadStep, CreditWriteStep, PeriodReadStep, PeriodWriteStep,
     VerifyOkStep, VerifyRefusedStep, VerifyRejectStep
<1>3. CASE \/ Store(r) \/ ApplyPaymentEvent(r) \/ MarkFailed(r) \/ MarkDisputed(r)
           \/ Finish(r)
  BY <1>3, StoreStep, ApplyPaymentEventStep, MarkFailedStep, MarkDisputedStep, FinishStep
<1>4. CASE \/ RefundAccepted(r) \/ RefundRefused(r) \/ RefundWrite(r)
           \/ PutBackRead(r) \/ PutBackWrite(r)
  BY <1>4, RefundAcceptedStep, RefundRefusedStep, RefundWriteStep, PutBackReadStep,
     PutBackWriteStep
<1> QED
  BY <1>1, <1>2, <1>3, <1>4 DEF Step

LEMMA ArriveIInv ==
  ASSUME IInv, NEW r \in Requests, Arrive(r)
  PROVE  IInv'
  BY VoidLoadStep, OverdueLoadStep, CheckoutLoadStep, RecordLoadStep, VerifyLoadStep,
     RefundLoadStep, DeliverStep, DeliverAgainStep DEF Arrive

LEMMA EnvironmentIInv ==
  ASSUME IInv, Environment
  PROVE  IInv'
  BY CreateInvoiceStep, AdvanceFilingStep, GatewayCaptureStep, GatewayIssueStep,
     ConfigureSecretStep, RestartStep DEF Environment

LEMMA StutterIInv ==
  ASSUME IInv, UNCHANGED vars
  PROVE  IInv'
  BY DEF IInv, TypeOK, TablesType, SlotInv, OrderInv, RowInv, EventInv, SentInv,
         vars, tables, gateway, history

\* Everything a handler relies on between two of its statements holds in every
\* reachable state, whatever else runs and wherever the process restarts.
THEOREM Invariance == Spec => []IInv
<1>1. IInv /\ [Next]_vars => IInv'
  BY StepIInv, ArriveIInv, EnvironmentIInv, StutterIInv DEF Next
<1> QED
  BY <1>1, InitIInv, PTL DEF Spec

\* The tables stay well formed: no interleaving of settlements and refunds
\* makes amount_paid_paise negative.
THEOREM TypeCorrect == Spec => []TypeOK
<1>1. IInv => TypeOK
  BY DEF IInv
<1> QED
  BY <1>1, Invariance, PTL

\* A payment is a success, or was one before a refund, only if it is an offline
\* payment or the gateway captured its order.
THEOREM SettledCorrect == Spec => []SettledMeansCaptured
<1>1. IInv => SettledMeansCaptured
  BY DEF IInv, RowInv, RowOK, SettledMeansCaptured
<1> QED
  BY <1>1, Invariance, PTL

\* No event is acted on twice, however many deliveries of it are in flight.
THEOREM EventOnceCorrect == Spec => []EventAppliedOnce
<1>1. IInv => EventAppliedOnce
  BY DEF IInv, EventInv, EventAppliedOnce
<1> QED
  BY <1>1, Invariance, PTL

\* No payment row records more refunded than paid.
THEOREM RefundCorrect == Spec => []RefundWithinPayment
<1>1. IInv => RefundWithinPayment
  BY DEF IInv, RowInv, RowOK, RefundWithinPayment
<1> QED
  BY <1>1, Invariance, PTL

-----------------------------------------------------------------------------
(***************************************************************************)
(* The steps that move no money                                            *)
(***************************************************************************)

\* The statements at which a handler moves money or is about to.
MoneyAt == {"credit", "apply", "refund", "refunded", "putback", "putbackWrite"}

\* A payment row that keeps its invoice and its amounts, or a row that is new.
SameMoney(old, new) ==
    IF old.status = "none"
    THEN new = old \/ (new.status \in {"created", "failed"} /\ new.refunded = 0)
    ELSE /\ new.status # "none" /\ (new.status = "success" => old.status = "success")
         /\ new.inv = old.inv /\ new.amount = old.amount
         /\ new.refunded = old.refunded /\ new.online = old.online

\* A step of the handler in slot r that moves no money.
Calm(r) ==
    /\ \A s \in Requests : s # r => req'[s] = req[s]
    /\ req'[r].pc \notin MoneyAt
    /\ UNCHANGED <<credited, returned>>
    /\ \A p \in PaymentIds : SameMoney(payments[p], payments'[p])
    /\ \A i \in Invoices :
         /\ invoices'[i].paid = invoices[i].paid
         /\ invoices'[i].status = "none" => invoices[i].status = "none"
         /\ invoices'[i].status = "void" =>
              invoices[i].status = "void" \/ (At(r, "void") /\ i = req[r].inv)
    /\ req'[r].pc = "void" => invoices'[req'[r].inv].paid = 0

\* ... and that leaves the filing periods alone.
NoPeriod(r) == filing' = filing /\ req'[r].pc \notin {"period", "close"}

\* A step of one slot leaves the others alone.
LEMMA SlotMoves ==
    ASSUME TypeOK, NEW r \in Requests, NEW q, req' = [req EXCEPT ![r] = q]
    PROVE  req'[r] = q /\ \A s \in Requests : s # r => req'[s] = req[s]
  BY DEF TypeOK

LEMMA SameMoneyReflexive == ASSUME NEW x PROVE SameMoney(x, x)
  BY DEF SameMoney

\* A step that writes neither an invoice nor a payment row.
LEMMA CalmMove ==
    ASSUME TypeOK, NEW r \in Requests, NEW q, req' = [req EXCEPT ![r] = q],
           q.pc \notin MoneyAt \cup {"void"},
           UNCHANGED <<credited, returned, payments, invoices>>
    PROVE  Calm(r)
  BY SlotMoves, SameMoneyReflexive DEF Calm

\* A step that writes a payment row.
LEMMA CalmPayment ==
    ASSUME TypeOK, NEW r \in Requests, NEW q, req' = [req EXCEPT ![r] = q],
           q.pc \notin MoneyAt \cup {"void"},
           NEW p \in PaymentIds, NEW row, payments' = [payments EXCEPT ![p] = row],
           SameMoney(payments[p], row),
           UNCHANGED <<credited, returned, invoices>>
    PROVE  Calm(r)
<1>1. \A x \in PaymentIds : payments'[x] = IF x = p THEN row ELSE payments[x]
  BY DEF TypeOK, TablesType
<1>2. \A x \in PaymentIds : SameMoney(payments[x], payments'[x])
  BY <1>1, SameMoneyReflexive
<1>3. req'[r] = q /\ \A s \in Requests : s # r => req'[s] = req[s]
  BY SlotMoves
<1> QED
  BY <1>2, <1>3 DEF Calm

\* A step that writes the status of an invoice.
LEMMA CalmInvoice ==
    ASSUME TypeOK, NEW r \in Requests, req' = [req EXCEPT ![r] = IdleRequest],
           NEW s \in InvoiceStatus \ {"none"}, s = "void" => At(r, "void"),
           invoices' = [invoices EXCEPT ![req[r].inv].status = s],
           UNCHANGED <<credited, returned, payments>>
    PROVE  Calm(r)
<1>1. IdleRequest.pc \notin MoneyAt \cup {"void"}
  BY DEF IdleRequest, MoneyAt
<1>2. \A i \in Invoices :
        /\ invoices'[i].paid = invoices[i].paid
        /\ invoices'[i].status = "none" => invoices[i].status = "none"
        /\ invoices'[i].status = "void" =>
             invoices[i].status = "void" \/ (At(r, "void") /\ i = req[r].inv)
  BY DEF TypeOK, TablesType, InvoiceRow
<1>3. req'[r] = IdleRequest /\ \A q \in Requests : q # r => req'[q] = req[q]
  BY SlotMoves
<1>4. \A p \in PaymentIds : SameMoney(payments[p], payments'[p])
  BY SameMoneyReflexive
<1> QED
  BY <1>1, <1>2, <1>3, <1>4 DEF Calm

\* The steps that move no money.
LEMMA ArriveCalm ==
    ASSUME IInv, NEW r \in Requests,
           \/ \E i \in Invoices :
                VoidLoad(r, i) \/ OverdueLoad(r, i) \/ CheckoutLoad(r, i) \/ RecordLoad(r, i)
           \/ \E p \in PaymentIds : VerifyLoad(r, p)
           \/ \E e \in Events : Deliver(r, e) \/ DeliverAgain(r, e)
    PROVE  Calm(r) /\ NoPeriod(r)
<1>0. TypeOK
  BY DEF IInv
<1>1. ASSUME NEW i \in Invoices, VoidLoad(r, i) PROVE Calm(r) /\ NoPeriod(r)
  <2> DEFINE q == [IdleRequest EXCEPT !.pc = "void", !.inv = i]
  <2>1. q.pc = "void" /\ q.inv = i
    BY DEF IdleRequest
  <2> HIDE DEF q
  <2>2. /\ req' = [req EXCEPT ![r] = q] /\ invoices[i].paid = 0
        /\ UNCHANGED <<credited, returned, payments, invoices, filing>>
    BY <1>1 DEF VoidLoad, Begin, tables, gateway, history, q
  <2> QED
    BY <1>0, <2>1, <2>2, SlotMoves, SameMoneyReflexive DEF Calm, NoPeriod, MoneyAt
<1>2. ASSUME NEW i \in Invoices, OverdueLoad(r, i) PROVE Calm(r) /\ NoPeriod(r)
  <2> DEFINE q == [IdleRequest EXCEPT !.pc = "overdue", !.inv = i]
  <2>1. q.pc = "overdue"
    BY DEF IdleRequest
  <2> HIDE DEF q
  <2>2. /\ req' = [req EXCEPT ![r] = q]
        /\ UNCHANGED <<credited, returned, payments, invoices, filing>>
    BY <1>2 DEF OverdueLoad, Begin, tables, gateway, history, q
  <2> QED
    BY <1>0, <2>1, <2>2, SlotMoves, CalmMove DEF NoPeriod, MoneyAt
<1>3. ASSUME NEW i \in Invoices, CheckoutLoad(r, i) \/ RecordLoad(r, i)
      PROVE  Calm(r) /\ NoPeriod(r)
  <2>1. \E pc \in {"checkout", "record"} : \E a \in 1..invoices[i].due :
          Begin(r, [IdleRequest EXCEPT !.pc = pc, !.inv = i, !.amt = a])
    <3>1. CASE CheckoutLoad(r, i)
      BY <3>1 DEF CheckoutLoad
    <3>2. CASE RecordLoad(r, i)
      BY <3>2 DEF RecordLoad
    <3> QED BY <1>3, <3>1, <3>2
  <2>5. PICK pc \in {"checkout", "record"}, a \in 1..invoices[i].due :
          Begin(r, [IdleRequest EXCEPT !.pc = pc, !.inv = i, !.amt = a])
    BY <2>1
  <2> DEFINE q == [IdleRequest EXCEPT !.pc = pc, !.inv = i, !.amt = a]
  <2>2. q.pc = pc
    BY DEF IdleRequest
  <2> HIDE DEF q
  <2>3. /\ req' = [req EXCEPT ![r] = q]
        /\ UNCHANGED <<credited, returned, payments, invoices, filing>>
    BY <1>3, <2>5 DEF CheckoutLoad, RecordLoad, Begin, tables, gateway, history, q
  <2> QED
    BY <1>0, <2>1, <2>2, <2>3, SlotMoves, CalmMove DEF NoPeriod, MoneyAt
<1>4. ASSUME NEW p \in PaymentIds, VerifyLoad(r, p) PROVE Calm(r) /\ NoPeriod(r)
  <2> DEFINE q == [IdleRequest EXCEPT !.pc = "verify", !.pay = p]
  <2>1. q.pc = "verify"
    BY DEF IdleRequest
  <2> HIDE DEF q
  <2>2. /\ req' = [req EXCEPT ![r] = q]
        /\ UNCHANGED <<credited, returned, payments, invoices, filing>>
    BY <1>4 DEF VerifyLoad, Begin, tables, gateway, history, q
  <2> QED
    BY <1>0, <2>1, <2>2, SlotMoves, CalmMove DEF NoPeriod, MoneyAt
<1>5. ASSUME NEW e \in Events, Deliver(r, e) PROVE Calm(r) /\ NoPeriod(r)
  <2> DEFINE q == [IdleRequest EXCEPT !.pc = "store", !.ev = e, !.pay = sent[e].pay,
                                      !.out = IF secret THEN "none" ELSE "failed"]
  <2>1. q.pc = "store"
    BY DEF IdleRequest
  <2> HIDE DEF q
  <2>2. /\ req' = [req EXCEPT ![r] = q]
        /\ UNCHANGED <<credited, returned, payments, invoices, filing>>
    BY <1>5 DEF Deliver, Continue, tables, gateway, history, q
  <2> QED
    BY <1>0, <2>1, <2>2, SlotMoves, CalmMove DEF NoPeriod, MoneyAt
<1>6. ASSUME NEW e \in Events, DeliverAgain(r, e) PROVE Calm(r) /\ NoPeriod(r)
  <2>1. req[r].pc = "idle"
    BY <1>6 DEF DeliverAgain
  <2>2. UNCHANGED <<req, credited, returned, payments, invoices, filing>>
    BY <1>6 DEF DeliverAgain, gateway, history
  <2> QED
    BY <2>1, <2>2, SameMoneyReflexive DEF Calm, NoPeriod, MoneyAt
<1> QED
  BY <1>1, <1>2, <1>3, <1>4, <1>5, <1>6

LEMMA InvoiceCalm ==
    ASSUME IInv, NEW r \in Requests, VoidWrite(r) \/ OverdueWrite(r)
    PROVE  Calm(r) /\ NoPeriod(r)
<1>0. TypeOK
  BY DEF IInv
<1>1. PICK s \in {"void", "overdue"} :
        /\ s = "void" => At(r, "void")
        /\ invoices' = [invoices EXCEPT ![req[r].inv].status = s]
  BY DEF VoidWrite, OverdueWrite
<1>2. /\ req' = [req EXCEPT ![r] = IdleRequest]
      /\ UNCHANGED <<credited, returned, payments, filing>>
  BY DEF VoidWrite, OverdueWrite, Return, Continue, gateway, history
<1>3. s \in InvoiceStatus \ {"none"}
  BY DEF InvoiceStatus
<1>4. IdleRequest.pc = "idle"
  BY DEF IdleRequest
<1> QED
  BY <1>0, <1>1, <1>2, <1>3, <1>4, CalmInvoice, SlotMoves DEF NoPeriod

LEMMA CheckoutCalm ==
    ASSUME IInv, NEW r \in Requests,
           \/ ReadReference(r) \/ CheckoutInsert(r)
           \/ \E p \in PaymentIds :
                CheckoutOrder(r, p) \/ CheckoutRefused(r, p) \/ RecordInsert(r, p)
    PROVE  Calm(r) /\ NoPeriod(r)
<1>0. TypeOK /\ req[r] \in RequestType /\ SlotOK(req[r], payments, order)
  BY DEF IInv, TypeOK, SlotInv
<1>1. CASE ReadReference(r)
  <2> DEFINE q == [req[r] EXCEPT
        !.pc = IF At(r, "checkout") THEN "checkoutOrder" ELSE "recordInsert",
        !.seen = NextReference]
  <2>1. q.pc \in {"checkoutOrder", "recordInsert"}
    BY <1>0 DEF RequestType
  <2>2. /\ req' = [req EXCEPT ![r] = q]
        /\ UNCHANGED <<credited, returned, payments, invoices, filing>>
    BY <1>1 DEF ReadReference, Continue, tables, gateway, history
  <2> HIDE DEF q
  <2> QED
    BY <1>0, <2>1, <2>2, SlotMoves, CalmMove DEF NoPeriod, MoneyAt
<1>2. CASE CheckoutInsert(r)
  <2> DEFINE row == NewRow(r, "created", TRUE)
  <2>1. /\ req' = [req EXCEPT ![r] = IdleRequest]
        /\ UNCHANGED <<credited, returned, invoices, filing>>
    BY <1>2 DEF CheckoutInsert, Return, Continue, gateway, history
  <2>2. IdleRequest.pc \notin MoneyAt \cup {"void", "period", "close"}
    BY DEF IdleRequest, MoneyAt
  <2>3. NoPeriod(r)
    BY <1>0, <2>1, <2>2, SlotMoves DEF NoPeriod
  <2>4. req[r].pay \in PaymentIds /\ payments[req[r].pay].status = "none"
    BY <1>0, <1>2 DEF CheckoutInsert, At, SlotOK
  <2>5. payments' = payments \/ payments' = [payments EXCEPT ![req[r].pay] = row]
    BY <1>2 DEF CheckoutInsert, NewRow
  <2>6. SameMoney(payments[req[r].pay], row)
    BY <2>4 DEF SameMoney, NewRow
  <2> HIDE DEF row
  <2> QED
    BY <1>0, <2>1, <2>2, <2>3, <2>4, <2>5, <2>6, CalmMove, CalmPayment
<1>3. ASSUME NEW p \in PaymentIds, CheckoutOrder(r, p) PROVE Calm(r) /\ NoPeriod(r)
  <2> DEFINE q == [req[r] EXCEPT !.pc = "insertOrder", !.pay = p]
  <2>1. q.pc = "insertOrder"
    BY <1>0 DEF RequestType
  <2>2. /\ req' = [req EXCEPT ![r] = q]
        /\ UNCHANGED <<credited, returned, payments, invoices, filing>>
    BY <1>3 DEF CheckoutOrder, Continue, tables, history
  <2> HIDE DEF q
  <2> QED
    BY <1>0, <2>1, <2>2, SlotMoves, CalmMove DEF NoPeriod, MoneyAt
<1>4. ASSUME NEW p \in PaymentIds, CheckoutRefused(r, p) PROVE Calm(r) /\ NoPeriod(r)
  <2> DEFINE row == NewRow(r, "failed", TRUE)
  <2>1. /\ req' = [req EXCEPT ![r] = IdleRequest]
        /\ UNCHANGED <<credited, returned, invoices, filing>>
    BY <1>4 DEF CheckoutRefused, Return, Continue, gateway, history
  <2>2. IdleRequest.pc \notin MoneyAt \cup {"void", "period", "close"}
    BY DEF IdleRequest, MoneyAt
  <2>3. NoPeriod(r)
    BY <1>0, <2>1, <2>2, SlotMoves DEF NoPeriod
  <2>4. payments' = payments \/ payments' = [payments EXCEPT ![p] = row]
    BY <1>4 DEF CheckoutRefused, NewRow
  <2>5. SameMoney(payments[p], row)
    BY <1>4 DEF CheckoutRefused, SameMoney, NewRow
  <2> HIDE DEF row
  <2> QED
    BY <1>0, <2>1, <2>2, <2>3, <2>4, <2>5, CalmMove, CalmPayment
<1>5. ASSUME NEW p \in PaymentIds, RecordInsert(r, p) PROVE Calm(r) /\ NoPeriod(r)
  <2> DEFINE row == NewRow(r, "created", FALSE)
  <2>1. PICK q : /\ req' = [req EXCEPT ![r] = q]
                 /\ q.pc \in {"idle", "settle"}
    <3>1. \/ req' = [req EXCEPT ![r] = IdleRequest]
          \/ req' = [req EXCEPT ![r] = [IdleRequest EXCEPT !.pc = "settle", !.pay = p]]
      BY <1>5 DEF RecordInsert, Return, Continue
    <3>2. /\ IdleRequest.pc = "idle"
          /\ [IdleRequest EXCEPT !.pc = "settle", !.pay = p].pc = "settle"
      BY DEF IdleRequest
    <3> QED BY <3>1, <3>2
  <2>2. UNCHANGED <<credited, returned, invoices, filing>>
    BY <1>5 DEF RecordInsert, gateway, history
  <2>3. NoPeriod(r)
    BY <1>0, <2>1, <2>2, SlotMoves DEF NoPeriod
  <2>4. payments' = payments \/ payments' = [payments EXCEPT ![p] = row]
    BY <1>5 DEF RecordInsert, NewRow
  <2>5. SameMoney(payments[p], row)
    BY <1>5 DEF RecordInsert, SameMoney, NewRow
  <2>6. q.pc \notin MoneyAt \cup {"void"}
    BY <2>1 DEF MoneyAt
  <2> HIDE DEF row
  <2> QED
    BY <1>0, <2>1, <2>2, <2>3, <2>4, <2>5, <2>6, CalmMove, CalmPayment
<1> QED
  BY <1>1, <1>2, <1>3, <1>4, <1>5

LEMMA VerifyCalm ==
    ASSUME IInv, NEW r \in Requests,
           VerifyOk(r) \/ VerifyRefused(r) \/ VerifyReject(r)
    PROVE  Calm(r) /\ NoPeriod(r)
<1>0. TypeOK /\ req[r] \in RequestType /\ SlotOK(req[r], payments, order)
  BY DEF IInv, TypeOK, SlotInv
<1>1. CASE VerifyOk(r) \/ VerifyRefused(r)
  <2>1. PICK pc \in {"settle", "reject"} : req' = [req EXCEPT ![r] = [req[r] EXCEPT !.pc = pc]]
    BY <1>1 DEF VerifyOk, VerifyRefused, Continue
  <2> DEFINE q == [req[r] EXCEPT !.pc = pc]
  <2>2. q.pc = pc /\ req' = [req EXCEPT ![r] = q]
    BY <1>0, <2>1 DEF RequestType
  <2>3. UNCHANGED <<credited, returned, payments, invoices, filing>>
    BY <1>1 DEF VerifyOk, VerifyRefused, tables, gateway, history
  <2> HIDE DEF q
  <2> QED
    BY <1>0, <2>2, <2>3, SlotMoves, CalmMove DEF NoPeriod, MoneyAt
<1>2. CASE VerifyReject(r)
  <2> DEFINE row == [payments[req[r].pay] EXCEPT !.status = "failed"]
  <2>1. /\ req' = [req EXCEPT ![r] = IdleRequest]
        /\ UNCHANGED <<credited, returned, invoices, filing>>
    BY <1>2 DEF VerifyReject, Return, Continue, gateway, history
  <2>2. IdleRequest.pc \notin MoneyAt \cup {"void", "period", "close"}
    BY DEF IdleRequest, MoneyAt
  <2>3. NoPeriod(r)
    BY <1>0, <2>1, <2>2, SlotMoves DEF NoPeriod
  <2>4. req[r].pay \in PaymentIds /\ payments[req[r].pay] \in PaymentRow
        /\ payments[req[r].pay].status # "none"
    BY <1>0, <1>2 DEF VerifyReject, At, SlotOK, TypeOK, TablesType
  <2>5. payments' = [payments EXCEPT ![req[r].pay] = row]
    BY <1>2 DEF VerifyReject
  <2>6. SameMoney(payments[req[r].pay], row)
    BY <2>4 DEF SameMoney, PaymentRow
  <2> HIDE DEF row
  <2> QED
    BY <1>0, <2>1, <2>2, <2>3, <2>4, <2>5, <2>6, CalmPayment
<1> QED
  BY <1>1, <1>2

LEMMA EventCalm ==
    ASSUME IInv, NEW r \in Requests,
           \/ Store(r) \/ ApplyPaymentEvent(r) \/ MarkFailed(r) \/ MarkDisputed(r)
           \/ Finish(r) \/ RefundRefused(r)
    PROVE  Calm(r) /\ NoPeriod(r)
<1>0. TypeOK /\ req[r] \in RequestType /\ SlotOK(req[r], payments, order) /\ SentInv
  BY DEF IInv, TypeOK, SlotInv
<1>01. IdleRequest.pc = "idle"
  BY DEF IdleRequest
<1>1. CASE Store(r)
  <2>1. \/ req' = [req EXCEPT ![r] = IdleRequest]
        \/ req' = [req EXCEPT ![r] = [req[r] EXCEPT
                     !.pc = IF req[r].out = "failed" THEN "finish" ELSE "event"]]
    BY <1>1 DEF Store, Return, Continue
  <2>2. [req[r] EXCEPT !.pc = IF req[r].out = "failed" THEN "finish" ELSE "event"].pc
          \in {"finish", "event"}
    BY <1>0 DEF RequestType
  <2>3. PICK q : req' = [req EXCEPT ![r] = q] /\ q.pc \in {"idle", "finish", "event"}
    BY <1>01, <2>1, <2>2
  <2>4. UNCHANGED <<credited, returned, payments, invoices, filing>>
    BY <1>1 DEF Store, gateway, history
  <2> QED
    BY <1>0, <2>3, <2>4, SlotMoves, CalmMove DEF NoPeriod, MoneyAt
<1>2. CASE ApplyPaymentEvent(r)
  <2> DEFINE e == req[r].ev
             p == req[r].pay
  <2>1. e \in Events /\ p \in PaymentIds
    BY <1>0, <1>2 DEF ApplyPaymentEvent, At, SlotOK
  <2>2. sent[e] # NoEvent
    BY <1>0, <1>2 DEF SentInv, ApplyPaymentEvent, At
  <2>3. sent[e].kind \in EventKind /\ (sent[e].kind = "captured" => order[p] \in Captured)
    BY <1>0, <1>2, <2>1, <2>2 DEF SentInv, TypeOK, TablesType, ApplyPaymentEvent, At
  <2>4. PICK pc \in {"finish", "fail", "dispute", "settle"}, out \in HookStatus :
          Outcome(p, sent[e].kind) = <<pc, out>>
    <3> DEFINE kind == sent[e].kind
    <3>1. kind \in EventKind /\ (kind = "captured" => order[p] \in Captured)
      BY <2>3
    <3> HIDE DEF kind, e, p
    <3>2. \E pc \in {"finish", "fail", "dispute", "settle"}, out \in HookStatus : Outcome(p, kind) = <<pc, out>>
      BY <1>0, <2>1, <3>1, OutcomeSlot
    <3> QED
      BY <3>2 DEF kind
  <2> DEFINE q == [req[r] EXCEPT !.pc = pc, !.out = out]
  <2>5. req' = [req EXCEPT ![r] = q]
    BY <1>2, <2>4 DEF ApplyPaymentEvent, Continue
  <2>6. q.pc = pc
    BY <1>0 DEF RequestType
  <2>7. UNCHANGED <<credited, returned, payments, invoices, filing>>
    BY <1>2 DEF ApplyPaymentEvent, tables, gateway
  <2> HIDE DEF q
  <2> QED
    BY <1>0, <2>5, <2>6, <2>7, SlotMoves, CalmMove DEF NoPeriod, MoneyAt
<1>3. CASE MarkFailed(r) \/ MarkDisputed(r)
  <2>1. PICK s \in {"failed", "disputed"} :
          payments' = [payments EXCEPT ![req[r].pay].status = s]
    BY <1>3 DEF MarkFailed, MarkDisputed
  <2> DEFINE row == [payments[req[r].pay] EXCEPT !.status = s]
             q == [req[r] EXCEPT !.pc = "finish"]
  <2>2. /\ req' = [req EXCEPT ![r] = q]
        /\ UNCHANGED <<credited, returned, invoices, filing>>
    BY <1>3 DEF MarkFailed, MarkDisputed, Continue, gateway, history
  <2>3. q.pc = "finish"
    BY <1>0 DEF RequestType
  <2>4. req[r].pay \in PaymentIds /\ payments[req[r].pay] \in PaymentRow
        /\ payments[req[r].pay].status # "none"
    BY <1>0, <1>3 DEF MarkFailed, MarkDisputed, At, SlotOK, TypeOK, TablesType
  <2>5. payments' = [payments EXCEPT ![req[r].pay] = row]
    BY <2>1
  <2>6. SameMoney(payments[req[r].pay], row)
    BY <2>4 DEF SameMoney, PaymentRow
  <2>7. q.pc \notin MoneyAt \cup {"void", "period", "close"}
    BY <2>3 DEF MoneyAt
  <2> HIDE DEF row, q
  <2>8. NoPeriod(r)
    BY <1>0, <2>2, <2>7, SlotMoves DEF NoPeriod
  <2> QED
    BY <1>0, <2>2, <2>4, <2>5, <2>6, <2>7, <2>8, CalmPayment
<1>4. CASE Finish(r) \/ RefundRefused(r)
  <2>1. /\ req' = [req EXCEPT ![r] = IdleRequest]
        /\ UNCHANGED <<credited, returned, payments, invoices, filing>>
    BY <1>4 DEF Finish, RefundRefused, Return, Continue, tables, gateway, history
  <2> QED
    BY <1>0, <1>01, <2>1, SlotMoves, CalmMove DEF NoPeriod, MoneyAt
<1> QED
  BY <1>1, <1>2, <1>3, <1>4

\* Moving the filing period on moves no money either.
LEMMA PeriodCalm ==
    ASSUME IInv, NEW r \in Requests, PeriodRead(r) \/ PeriodWrite(r)
    PROVE  /\ Calm(r)
           /\ PeriodRead(r) => filing' = filing
           /\ PeriodWrite(r) => filing' = [filing EXCEPT ![req[r].inv] = "paid"]
           /\ req'[r].pc \in {"period", "close"} =>
                PeriodRead(r) /\ req'[r].inv = req[r].inv
<1>0. TypeOK /\ req[r] \in RequestType /\ SlotOK(req[r], payments, order)
  BY DEF IInv, TypeOK, SlotInv
<1>1. PICK q : /\ req' = [req EXCEPT ![r] = q]
               /\ \/ q.pc \in {"idle", "finish"}
                  \/ PeriodRead(r) /\ q.pc = "close" /\ q.inv = req[r].inv
  <2>1. AfterSettlement(r).pc \in {"idle", "finish"}
    <3>1. IdleRequest.pc = "idle"
      BY DEF IdleRequest
    <3>2. [req[r] EXCEPT !.pc = "finish", !.out = "processed"].pc = "finish"
      BY <1>0 DEF RequestType
    <3> QED BY <3>1, <3>2 DEF AfterSettlement
  <2>2. /\ [req[r] EXCEPT !.pc = "close"].pc = "close"
        /\ [req[r] EXCEPT !.pc = "close"].inv = req[r].inv
    BY <1>0 DEF RequestType
  <2>3. CASE PeriodRead(r)
    <3>1. \/ req' = [req EXCEPT ![r] = [req[r] EXCEPT !.pc = "close"]]
          \/ req' = [req EXCEPT ![r] = AfterSettlement(r)]
      BY <2>3 DEF PeriodRead, Continue
    <3> QED BY <2>1, <2>2, <2>3, <3>1
  <2>4. CASE PeriodWrite(r)
    <3>1. req' = [req EXCEPT ![r] = AfterSettlement(r)]
      BY <2>4 DEF PeriodWrite, Continue
    <3> QED BY <2>1, <3>1
  <2> QED BY <2>3, <2>4
<1>2. UNCHANGED <<credited, returned, payments, invoices>>
  BY DEF PeriodRead, PeriodWrite, tables, gateway, history
<1>3. q.pc \notin MoneyAt \cup {"void"}
  BY <1>1 DEF MoneyAt
<1>4. Calm(r)
  BY <1>0, <1>1, <1>2, <1>3, CalmMove
<1>5. req'[r] = q
  BY <1>0, <1>1, SlotMoves
<1>6. /\ PeriodRead(r) => filing' = filing
      /\ PeriodWrite(r) => filing' = [filing EXCEPT ![req[r].inv] = "paid"]
  BY DEF PeriodRead, PeriodWrite, tables
<1> QED
  BY <1>1, <1>4, <1>5, <1>6

-----------------------------------------------------------------------------
(***************************************************************************)
(* The steps that move money                                               *)
(***************************************************************************)

\* The other handlers stand still.
Others(r) == \A s \in Requests : s # r => req'[s] = req[s]

\* What each of these steps writes, field by field.
LEMMA SettleEffect ==
    ASSUME IInv, NEW r \in Requests, Settle(r)
    PROVE  /\ Others(r) /\ req'[r].pc = "credit" /\ req'[r].pay = req[r].pay
           /\ req[r].pc = "settle"
           /\ req[r].pay \in PaymentIds /\ payments[req[r].pay].status # "none"
           /\ \A x \in PaymentIds :
                IF x = req[r].pay
                THEN /\ payments'[x].status = "success"
                     /\ payments'[x].inv = payments[x].inv
                     /\ payments'[x].amount = payments[x].amount
                     /\ payments'[x].online = payments[x].online
                     /\ payments'[x].refunded = payments[x].refunded
                ELSE payments'[x] = payments[x]
           /\ UNCHANGED <<invoices, filing, credited, returned>>
<1> DEFINE q == [req[r] EXCEPT !.pc = "credit"]
<1>0. TypeOK /\ req[r] \in RequestType /\ SlotOK(req[r], payments, order)
  BY DEF IInv, TypeOK, SlotInv
<1>1. q.pc = "credit" /\ q.pay = req[r].pay
  BY <1>0 DEF RequestType
<1>2. req' = [req EXCEPT ![r] = q]
  BY DEF Settle, Continue
<1> HIDE DEF q
<1>3. req[r].pc = "settle" /\ req[r].pay \in PaymentIds /\ payments[req[r].pay].status # "none"
  BY <1>0 DEF Settle, At, SlotOK
<1> DEFINE row == [payments[req[r].pay] EXCEPT !.status = "success"]
<1>4. payments' = [payments EXCEPT ![req[r].pay] = row]
  BY DEF Settle
<1>5. payments[req[r].pay] \in PaymentRow
  BY <1>0, <1>3 DEF TypeOK, TablesType
<1>6. /\ row.status = "success" /\ row.inv = payments[req[r].pay].inv
      /\ row.amount = payments[req[r].pay].amount
      /\ row.online = payments[req[r].pay].online
      /\ row.refunded = payments[req[r].pay].refunded
  BY <1>5 DEF PaymentRow
<1> HIDE DEF row
<1>7. \A x \in PaymentIds : payments'[x] = IF x = req[r].pay THEN row ELSE payments[x]
  BY <1>0, <1>4 DEF TypeOK, TablesType
<1>8. req'[r] = q /\ Others(r)
  BY <1>0, <1>2, SlotMoves DEF Others
<1>9. UNCHANGED <<invoices, filing, credited, returned>>
  BY DEF Settle, gateway, history
<1> QED
  BY <1>1, <1>3, <1>6, <1>7, <1>8, <1>9

LEMMA CreditReadEffect ==
    ASSUME IInv, NEW r \in Requests, CreditRead(r)
    PROVE  /\ Others(r) /\ req'[r].pc = "apply" /\ req'[r].pay = req[r].pay
           /\ req[r].pc = "credit"
           /\ req[r].pay \in PaymentIds /\ payments[req[r].pay].status # "none"
           /\ req'[r].inv = payments[req[r].pay].inv /\ req'[r].inv \in Invoices
           /\ req'[r].seen = invoices[payments[req[r].pay].inv].paid
           /\ UNCHANGED <<payments, invoices, filing, credited, returned>>
<1> DEFINE q == [req[r] EXCEPT !.pc = "apply", !.inv = payments[req[r].pay].inv,
                               !.seen = invoices[payments[req[r].pay].inv].paid]
<1>0. TypeOK /\ req[r] \in RequestType /\ SlotOK(req[r], payments, order) /\ RowInv
  BY DEF IInv, TypeOK, SlotInv
<1>1. /\ q.pc = "apply" /\ q.pay = req[r].pay /\ q.inv = payments[req[r].pay].inv
      /\ q.seen = invoices[payments[req[r].pay].inv].paid
  BY <1>0 DEF RequestType
<1>2. req' = [req EXCEPT ![r] = q]
  BY DEF CreditRead, Continue
<1> HIDE DEF q
<1>3. /\ req[r].pc = "credit" /\ req[r].pay \in PaymentIds
      /\ payments[req[r].pay].status # "none" /\ payments[req[r].pay].inv \in Invoices
  BY <1>0 DEF CreditRead, At, SlotOK, RowInv, RowOK
<1>4. req'[r] = q /\ Others(r)
  BY <1>0, <1>2, SlotMoves DEF Others
<1> QED
  BY <1>1, <1>3, <1>4 DEF CreditRead, tables, gateway, history

LEMMA CreditWriteEffect ==
    ASSUME IInv, NEW r \in Requests, CreditWrite(r)
    PROVE  /\ Others(r) /\ req'[r].pc \in {"period", "idle", "finish"}
           /\ req[r].pc = "apply" /\ req[r].inv \in Invoices
           /\ req[r].pay \in PaymentIds /\ payments[req[r].pay].status # "none"
           /\ req[r].seen \in Nat /\ payments[req[r].pay].amount \in Nat
           /\ req'[r].pc = "period" =>
                req'[r].inv = req[r].inv /\ req[r].seen + payments[req[r].pay].amount >= Total
           /\ \A i \in Invoices :
                IF i = req[r].inv
                THEN /\ invoices'[i].paid = req[r].seen + payments[req[r].pay].amount
                     /\ invoices'[i].status \in {"paid", "partially_paid"}
                ELSE invoices'[i] = invoices[i]
           /\ \A x \in PaymentIds :
                credited'[x] = IF x = req[r].pay THEN credited[x] + 1 ELSE credited[x]
           /\ UNCHANGED <<payments, filing, returned>>
<1> DEFINE paid == req[r].seen + payments[req[r].pay].amount
           q == IF Due(paid) = 0 THEN [req[r] EXCEPT !.pc = "period"] ELSE AfterSettlement(r)
<1>0. TypeOK /\ req[r] \in RequestType /\ SlotOK(req[r], payments, order)
  BY DEF IInv, TypeOK, SlotInv
<1>1. /\ req[r].pc = "apply" /\ req[r].pay \in PaymentIds /\ req[r].inv \in Invoices
      /\ payments[req[r].pay].status # "none"
  BY <1>0 DEF CreditWrite, At, SlotOK
<1>2. req[r].seen \in Nat /\ payments[req[r].pay].amount \in Nat /\ paid \in Nat
  BY <1>0, <1>1 DEF TypeOK, TablesType, PaymentRow, RequestType
<1>3. req' = [req EXCEPT ![r] = q]
  BY DEF CreditWrite, Continue
<1>4. AfterSettlement(r).pc \in {"idle", "finish"}
  <2>1. IdleRequest.pc = "idle"
    BY DEF IdleRequest
  <2>2. [req[r] EXCEPT !.pc = "finish", !.out = "processed"].pc = "finish"
    BY <1>0 DEF RequestType
  <2> QED BY <2>1, <2>2 DEF AfterSettlement
<1>5. /\ [req[r] EXCEPT !.pc = "period"].pc = "period"
      /\ [req[r] EXCEPT !.pc = "period"].inv = req[r].inv
  BY <1>0 DEF RequestType
<1>6. Due(paid) = 0 => paid >= Total
  BY <1>2, TotalAssumption DEF Due
<1>7. /\ q.pc \in {"period", "idle", "finish"}
      /\ q.pc = "period" => q.inv = req[r].inv /\ paid >= Total
  BY <1>4, <1>5, <1>6
<1>8. \A i \in Invoices :
        IF i = req[r].inv
        THEN invoices'[i].paid = paid /\ invoices'[i].status \in {"paid", "partially_paid"}
        ELSE invoices'[i] = invoices[i]
  BY <1>0, <1>1 DEF CreditWrite, TypeOK, TablesType
<1>9. \A x \in PaymentIds :
        credited'[x] = IF x = req[r].pay THEN credited[x] + 1 ELSE credited[x]
  BY <1>0, <1>1 DEF CreditWrite, TypeOK, TablesType
<1>10. UNCHANGED <<payments, filing, returned>>
  BY DEF CreditWrite, gateway
<1> HIDE DEF q
<1>11. req'[r] = q /\ Others(r)
  BY <1>0, <1>3, SlotMoves DEF Others
<1> QED
  BY <1>1, <1>2, <1>7, <1>8, <1>9, <1>10, <1>11

LEMMA RefundLoadEffect ==
    ASSUME IInv, NEW r \in Requests, NEW p \in PaymentIds, RefundLoad(r, p)
    PROVE  /\ Others(r) /\ req'[r].pc = "refund" /\ req'[r].pay = p
           /\ req[r].pc = "idle" /\ payments[p].status = "success"
           /\ req'[r].seen = payments[p].refunded
           /\ UNCHANGED <<payments, invoices, filing, credited, returned>>
<1>0. TypeOK
  BY DEF IInv
<1>1. PICK amt \in (1..(payments[p].amount - payments[p].refunded))
               \cup {payments[p].amount - payments[p].refunded} :
          Begin(r, [IdleRequest EXCEPT !.pc = "refund", !.pay = p,
                                       !.amt = amt, !.seen = payments[p].refunded])
  BY DEF RefundLoad
<1> DEFINE q == [IdleRequest EXCEPT !.pc = "refund", !.pay = p,
                                    !.amt = amt, !.seen = payments[p].refunded]
<1>2. q.pc = "refund" /\ q.pay = p /\ q.seen = payments[p].refunded
  BY DEF IdleRequest
<1>3. req' = [req EXCEPT ![r] = q] /\ req[r].pc = "idle"
  BY <1>1 DEF Begin
<1> HIDE DEF q
<1>4. req'[r] = q /\ Others(r)
  BY <1>0, <1>3, SlotMoves DEF Others
<1> QED
  BY <1>2, <1>3, <1>4 DEF RefundLoad, tables, gateway, history

LEMMA RefundAcceptedEffect ==
    ASSUME IInv, NEW r \in Requests, RefundAccepted(r)
    PROVE  /\ Others(r) /\ req'[r].pc = "refunded" /\ req'[r].pay = req[r].pay
           /\ req'[r].amt = req[r].amt /\ req'[r].seen = req[r].seen
           /\ req[r].pc = "refund" /\ req[r].pay \in PaymentIds
           /\ payments[req[r].pay].status # "none"
           /\ \A x \in PaymentIds :
                returned'[x] = IF x = req[r].pay /\ payments[x].online
                               THEN returned[x] + req[r].amt ELSE returned[x]
           /\ UNCHANGED <<payments, invoices, filing, credited>>
<1> DEFINE q == [req[r] EXCEPT !.pc = "refunded"]
<1>0. TypeOK /\ req[r] \in RequestType /\ SlotOK(req[r], payments, order)
  BY DEF IInv, TypeOK, SlotInv
<1>1. /\ q.pc = "refunded" /\ q.pay = req[r].pay /\ q.amt = req[r].amt
      /\ q.seen = req[r].seen
  BY <1>0 DEF RequestType
<1>2. req' = [req EXCEPT ![r] = q]
  BY DEF RefundAccepted, Continue
<1> HIDE DEF q
<1>3. /\ req[r].pc = "refund" /\ req[r].pay \in PaymentIds
      /\ payments[req[r].pay].status # "none"
  BY <1>0 DEF RefundAccepted, At, SlotOK
<1>4. req'[r] = q /\ Others(r)
  BY <1>0, <1>2, SlotMoves DEF Others
<1>5. \A x \in PaymentIds :
        returned'[x] = IF x = req[r].pay /\ payments[x].online
                       THEN returned[x] + req[r].amt ELSE returned[x]
  <2>1. CASE payments[req[r].pay].online
    BY <1>0, <1>3, <2>1 DEF RefundAccepted, TypeOK, TablesType
  <2>2. CASE ~payments[req[r].pay].online
    <3>1. returned' = returned
      BY <2>2 DEF RefundAccepted
    <3> QED BY <2>2, <3>1
  <2> QED BY <2>1, <2>2
<1> QED
  BY <1>1, <1>3, <1>4, <1>5 DEF RefundAccepted, tables, history

LEMMA RefundWriteEffect ==
    ASSUME IInv, NEW r \in Requests, RefundWrite(r)
    PROVE  /\ Others(r) /\ req'[r].pc = "putback" /\ req'[r].pay = req[r].pay
           /\ req'[r].amt = req[r].amt
           /\ req[r].pc = "refunded" /\ req[r].pay \in PaymentIds
           /\ payments[req[r].pay].status # "none"
           /\ req[r].seen \in Nat /\ req[r].amt \in Nat
           /\ \A x \in PaymentIds :
                IF x = req[r].pay
                THEN /\ payments'[x].status \in {"refunded", "partially_refunded"}
                     /\ payments'[x].inv = payments[x].inv
                     /\ payments'[x].amount = payments[x].amount
                     /\ payments'[x].online = payments[x].online
                     /\ payments'[x].refunded = req[r].seen + req[r].amt
                ELSE payments'[x] = payments[x]
           /\ UNCHANGED <<invoices, filing, credited, returned>>
<1> DEFINE q == [req[r] EXCEPT !.pc = "putback"]
<1>0. TypeOK /\ req[r] \in RequestType /\ SlotOK(req[r], payments, order)
  BY DEF IInv, TypeOK, SlotInv
<1>1. q.pc = "putback" /\ q.pay = req[r].pay /\ q.amt = req[r].amt
  BY <1>0 DEF RequestType
<1>2. req' = [req EXCEPT ![r] = q]
  BY DEF RefundWrite, Continue
<1> HIDE DEF q
<1>3. /\ req[r].pc = "refunded" /\ req[r].pay \in PaymentIds
      /\ payments[req[r].pay].status # "none"
      /\ payments[req[r].pay] \in PaymentRow
      /\ req[r].seen \in Nat /\ req[r].amt \in Nat
  BY <1>0 DEF RefundWrite, At, SlotOK, TypeOK, TablesType, RequestType
<1>4. req'[r] = q /\ Others(r)
  BY <1>0, <1>2, SlotMoves DEF Others
<1> DEFINE total == req[r].seen + req[r].amt
           row == [payments[req[r].pay] EXCEPT !.refunded = total,
                     !.status = IF total >= payments[req[r].pay].amount THEN "refunded"
                                ELSE "partially_refunded"]
<1>5. payments' = [payments EXCEPT ![req[r].pay] = row]
  BY DEF RefundWrite
<1>6. /\ row.status \in {"refunded", "partially_refunded"}
      /\ row.inv = payments[req[r].pay].inv /\ row.amount = payments[req[r].pay].amount
      /\ row.online = payments[req[r].pay].online /\ row.refunded = total
  BY <1>3 DEF PaymentRow
<1> HIDE DEF row
<1>7. \A x \in PaymentIds : payments'[x] = IF x = req[r].pay THEN row ELSE payments[x]
  BY <1>0, <1>5 DEF TypeOK, TablesType
<1> QED
  BY <1>1, <1>3, <1>4, <1>6, <1>7 DEF RefundWrite, gateway, history

LEMMA PutBackReadEffect ==
    ASSUME IInv, NEW r \in Requests, PutBackRead(r)
    PROVE  /\ Others(r) /\ req'[r].pc = "putbackWrite" /\ req'[r].amt = req[r].amt
           /\ req[r].pc = "putback"
           /\ req[r].pay \in PaymentIds /\ payments[req[r].pay].status # "none"
           /\ req'[r].inv = payments[req[r].pay].inv /\ req'[r].inv \in Invoices
           /\ req'[r].seen = invoices[payments[req[r].pay].inv].paid
           /\ UNCHANGED <<payments, invoices, filing, credited, returned>>
<1> DEFINE q == [req[r] EXCEPT !.pc = "putbackWrite", !.inv = payments[req[r].pay].inv,
                               !.seen = invoices[payments[req[r].pay].inv].paid]
<1>0. TypeOK /\ req[r] \in RequestType /\ SlotOK(req[r], payments, order) /\ RowInv
  BY DEF IInv, TypeOK, SlotInv
<1>1. /\ q.pc = "putbackWrite" /\ q.amt = req[r].amt /\ q.inv = payments[req[r].pay].inv
      /\ q.seen = invoices[payments[req[r].pay].inv].paid
  BY <1>0 DEF RequestType
<1>2. req' = [req EXCEPT ![r] = q]
  BY DEF PutBackRead, Continue
<1> HIDE DEF q
<1>3. /\ req[r].pc = "putback" /\ req[r].pay \in PaymentIds
      /\ payments[req[r].pay].status # "none" /\ payments[req[r].pay].inv \in Invoices
  BY <1>0 DEF PutBackRead, At, SlotOK, RowInv, RowOK
<1>4. req'[r] = q /\ Others(r)
  BY <1>0, <1>2, SlotMoves DEF Others
<1> QED
  BY <1>1, <1>3, <1>4 DEF PutBackRead, tables, gateway, history

LEMMA PutBackWriteEffect ==
    ASSUME IInv, NEW r \in Requests, PutBackWrite(r)
    PROVE  /\ Others(r) /\ req'[r].pc = "idle"
           /\ req[r].pc = "putbackWrite" /\ req[r].inv \in Invoices
           /\ req[r].seen \in Nat /\ req[r].amt \in Nat
           /\ \A i \in Invoices :
                IF i = req[r].inv
                THEN /\ invoices'[i].paid = IF req[r].seen >= req[r].amt
                                            THEN req[r].seen - req[r].amt ELSE 0
                     /\ invoices'[i].status \in {"issued", "partially_paid"}
                ELSE invoices'[i] = invoices[i]
           /\ UNCHANGED <<payments, filing, credited, returned>>
<1>0. TypeOK /\ req[r] \in RequestType /\ SlotOK(req[r], payments, order)
  BY DEF IInv, TypeOK, SlotInv
<1>1. /\ req[r].pc = "putbackWrite" /\ req[r].inv \in Invoices
      /\ req[r].seen \in Nat /\ req[r].amt \in Nat
  BY <1>0 DEF PutBackWrite, At, SlotOK, RequestType
<1>2. req'[r] = IdleRequest /\ Others(r)
  BY <1>0, SlotMoves DEF PutBackWrite, Return, Continue, Others
<1>3. IdleRequest.pc = "idle"
  BY DEF IdleRequest
<1>4. \A i \in Invoices :
        IF i = req[r].inv
        THEN /\ invoices'[i].paid = IF req[r].seen >= req[r].amt
                                    THEN req[r].seen - req[r].amt ELSE 0
             /\ invoices'[i].status \in {"issued", "partially_paid"}
        ELSE invoices'[i] = invoices[i]
  BY <1>0, <1>1 DEF PutBackWrite, TypeOK, TablesType
<1> QED
  BY <1>1, <1>2, <1>3, <1>4 DEF PutBackWrite, gateway, history

\* Every step of a handler is one of these.
LEMMA HandlerKinds ==
    ASSUME IInv, NEW r \in Requests, Step(r) \/ Arrive(r)
    PROVE  \/ Calm(r) /\ NoPeriod(r)
           \/ PeriodRead(r) \/ PeriodWrite(r)
           \/ Settle(r) \/ CreditRead(r) \/ CreditWrite(r)
           \/ (\E p \in PaymentIds : RefundLoad(r, p))
           \/ RefundAccepted(r) \/ RefundWrite(r)
           \/ PutBackRead(r) \/ PutBackWrite(r)
<1>1. CASE Step(r)
  BY <1>1, InvoiceCalm, CheckoutCalm, VerifyCalm, EventCalm DEF Step
<1>2. CASE Arrive(r)
  BY <1>2, ArriveCalm DEF Arrive
<1> QED
  BY <1>1, <1>2

-----------------------------------------------------------------------------
(***************************************************************************)
(* Sums over the payment rows                                              *)
(***************************************************************************)

\* The terms of CreditedTo and RefundedFrom.
Credit(P, C, i) == [p \in PaymentIds |-> IF P[p].inv = i THEN C[p] * P[p].amount ELSE 0]
Taken(P, i) == [p \in PaymentIds |-> IF P[p].inv = i THEN P[p].refunded ELSE 0]

\* The sums of the properties are sums of these terms, now and after the step.
LEMMA CreditedSum ==
    /\ \A i : CreditedTo(i) = SumFunction(Credit(payments, credited, i))
    /\ \A i : RefundedFrom(i) = SumFunction(Taken(payments, i))
  BY DEF CreditedTo, RefundedFrom, Credit, Taken

LEMMA CreditedSumNext ==
    /\ \A i : CreditedTo(i)' = SumFunction(Credit(payments', credited', i))
    /\ \A i : RefundedFrom(i)' = SumFunction(Taken(payments', i))
  BY DEF CreditedTo, RefundedFrom, Credit, Taken

LEMMA ProductType == ASSUME NEW m \in Nat, NEW n \in Nat PROVE m * n \in Nat
  OBVIOUS

\* Crediting more often credits no less.
LEMMA ProductMonotone ==
    ASSUME NEW m \in Nat, NEW k \in Nat, NEW n \in Nat, m <= k
    PROVE  m * n <= k * n
<1>1. PICK d \in Nat : k = m + d
  <2>1. k - m \in Nat /\ k = m + (k - m)
    OBVIOUS
  <2> QED BY <2>1
<1>2. k * n = m * n + d * n
  BY <1>1
<1>3. d * n \in Nat /\ m * n \in Nat
  BY ProductType
<1> QED
  BY <1>2, <1>3

LEMMA TermsType ==
    ASSUME NEW P \in [PaymentIds -> PaymentRow], NEW C \in [PaymentIds -> Nat], NEW i
    PROVE  /\ Credit(P, C, i) \in [PaymentIds -> Int]
           /\ \A p \in PaymentIds : Credit(P, C, i)[p] \in Nat
           /\ Taken(P, i) \in [PaymentIds -> Int]
           /\ \A p \in PaymentIds : Taken(P, i)[p] \in Nat
<1>1. ASSUME NEW p \in PaymentIds
      PROVE  C[p] * P[p].amount \in Nat /\ P[p].refunded \in Nat
  BY ProductType DEF PaymentRow
<1> QED
  BY <1>1 DEF Credit, Taken

\* What was credited to an invoice is a natural number, what was refunded an integer.
LEMMA CreditedType ==
    ASSUME NEW P \in [PaymentIds -> PaymentRow], NEW C \in [PaymentIds -> Nat], NEW i
    PROVE  /\ SumFunction(Credit(P, C, i)) \in Int /\ SumFunction(Credit(P, C, i)) >= 0
           /\ SumFunction(Taken(P, i)) \in Int
<1> DEFINE z == [p \in PaymentIds |-> 0]
<1>1. z \in [PaymentIds -> Int] /\ \A p \in PaymentIds : z[p] = 0
  OBVIOUS
<1> HIDE DEF z
<1>2. SumFunction(z) = 0
  BY <1>1, PaymentIdsAssumption, SumZero
<1> DEFINE w == Credit(P, C, i)
<1>3. w \in [PaymentIds -> Int] /\ \A p \in PaymentIds : w[p] \in Nat
  BY TermsType
<1> HIDE DEF w
<1>4. \A p \in PaymentIds : z[p] <= w[p]
  BY <1>1, <1>3
<1>5. SumFunction(z) <= SumFunction(w) /\ SumFunction(w) \in Int
  BY <1>1, <1>3, <1>4, PaymentIdsAssumption, SumMonotone, SumType
<1>6. Taken(P, i) \in [PaymentIds -> Int]
  BY TermsType
<1>7. SumFunction(Taken(P, i)) \in Int
  BY <1>6, PaymentIdsAssumption, SumType
<1> QED
  BY <1>2, <1>5, <1>7 DEF w

\* Rows stay, and credits are only added.
RowsKept ==
    /\ \A p \in PaymentIds :
         payments[p].status # "none" =>
           /\ payments'[p].status # "none" /\ payments'[p].inv = payments[p].inv
           /\ payments'[p].amount = payments[p].amount
           /\ payments'[p].online = payments[p].online
    /\ \A p \in PaymentIds : credited[p] <= credited'[p]

\* Nothing is credited, refunded or given back under a name that has no row.
BlankInv ==
    \A p \in PaymentIds :
        payments[p].status = "none" =>
            credited[p] = 0 /\ payments[p].refunded = 0 /\ returned[p] = 0

\* When rows stay and credits are only added, what was credited to an invoice grows.
LEMMA CreditedGrows ==
    ASSUME TypeOK, TypeOK', BlankInv, RowsKept, NEW i
    PROVE  /\ CreditedTo(i) \in Int /\ CreditedTo(i)' \in Int
           /\ 0 <= CreditedTo(i) /\ CreditedTo(i) <= CreditedTo(i)'
<1> DEFINE w == Credit(payments, credited, i)
           v == Credit(payments', credited', i)
<1>1. /\ payments \in [PaymentIds -> PaymentRow] /\ credited \in [PaymentIds -> Nat]
      /\ payments' \in [PaymentIds -> PaymentRow] /\ credited' \in [PaymentIds -> Nat]
  BY DEF TypeOK, TablesType
<1>2. /\ w \in [PaymentIds -> Int] /\ v \in [PaymentIds -> Int]
      /\ \A p \in PaymentIds : w[p] \in Nat /\ v[p] \in Nat
  BY <1>1, TermsType
<1>3. ASSUME NEW p \in PaymentIds PROVE w[p] <= v[p]
  <2>1. /\ credited[p] \in Nat /\ credited'[p] \in Nat /\ payments[p].amount \in Nat
        /\ credited[p] <= credited'[p]
    BY <1>1 DEF PaymentRow, RowsKept
  <2>2. CASE payments[p].status = "none"
    <3>1. credited[p] = 0
      BY <2>2 DEF BlankInv
    <3>2. w[p] = 0
      BY <2>1, <3>1 DEF Credit
    <3> HIDE DEF w, v
    <3> QED BY <1>2, <3>2
  <2>3. CASE payments[p].status # "none"
    <3>1. payments'[p].inv = payments[p].inv /\ payments'[p].amount = payments[p].amount
      BY <2>3 DEF RowsKept
    <3>2. credited[p] * payments[p].amount <= credited'[p] * payments[p].amount
      BY <2>1, ProductMonotone
    <3>3. CASE payments[p].inv = i
      <4>1. /\ w[p] = credited[p] * payments[p].amount
            /\ v[p] = credited'[p] * payments[p].amount
        BY <3>1, <3>3 DEF Credit
      <4> HIDE DEF w, v
      <4> QED BY <3>2, <4>1
    <3>4. CASE payments[p].inv # i
      <4>1. w[p] = 0 /\ v[p] = 0
        BY <3>1, <3>4 DEF Credit
      <4> QED BY <4>1
    <3> QED BY <3>3, <3>4
  <2> QED BY <2>2, <2>3
<1>4. /\ SumFunction(w) \in Int /\ SumFunction(v) \in Int /\ SumFunction(w) >= 0
  BY <1>1, CreditedType
<1>5. CreditedTo(i) = SumFunction(w) /\ CreditedTo(i)' = SumFunction(v)
  BY CreditedSum, CreditedSumNext
<1> HIDE DEF w, v
<1>6. SumFunction(w) <= SumFunction(v)
  BY <1>2, <1>3, PaymentIdsAssumption, SumMonotone
<1> QED
  BY <1>4, <1>5, <1>6

\* Crediting a payment once more adds its amount to its invoice.
LEMMA CreditedOnceMore ==
    ASSUME TypeOK, TypeOK', NEW p \in PaymentIds, UNCHANGED payments,
           \A x \in PaymentIds :
             credited'[x] = IF x = p THEN credited[x] + 1 ELSE credited[x],
           NEW i
    PROVE  CreditedTo(i)' = CreditedTo(i) + IF payments[p].inv = i
                                            THEN payments[p].amount ELSE 0
<1> DEFINE w == Credit(payments, credited, i)
           v == Credit(payments', credited', i)
<1>1. /\ payments \in [PaymentIds -> PaymentRow] /\ credited \in [PaymentIds -> Nat]
      /\ payments' \in [PaymentIds -> PaymentRow] /\ credited' \in [PaymentIds -> Nat]
  BY DEF TypeOK, TablesType
<1>2. /\ w \in [PaymentIds -> Int] /\ v \in [PaymentIds -> Int]
  BY <1>1, TermsType
<1>3. \A x \in PaymentIds : x # p => v[x] = w[x]
  BY <1>1 DEF Credit
<1>4. credited[p] \in Nat /\ payments[p].amount \in Nat /\ credited'[p] = credited[p] + 1
  BY <1>1 DEF PaymentRow
<1>5. (credited[p] + 1) * payments[p].amount = credited[p] * payments[p].amount + payments[p].amount
  BY <1>4
<1>6. v[p] - w[p] = IF payments[p].inv = i THEN payments[p].amount ELSE 0
  <2>1. CASE payments[p].inv = i
    <3>1. w[p] = credited[p] * payments[p].amount
      BY <2>1 DEF Credit
    <3>2. v[p] = (credited[p] + 1) * payments[p].amount
      BY <1>4, <2>1 DEF Credit
    <3>3. credited[p] * payments[p].amount \in Nat
      BY <1>4, ProductType
    <3> HIDE DEF w, v
    <3> QED BY <1>4, <1>5, <2>1, <3>1, <3>2, <3>3
  <2>2. CASE payments[p].inv # i
    <3>1. w[p] = 0 /\ v[p] = 0
      BY <2>2 DEF Credit
    <3> HIDE DEF w, v
    <3> QED BY <2>2, <3>1
  <2> QED BY <2>1, <2>2
<1>7. CreditedTo(i) = SumFunction(w) /\ CreditedTo(i)' = SumFunction(v)
  BY CreditedSum, CreditedSumNext
<1> HIDE DEF w, v
<1>8. SumFunction(v) = SumFunction(w) + (v[p] - w[p])
  BY <1>2, <1>3, PaymentIdsAssumption, SumChange
<1> QED
  BY <1>6, <1>7, <1>8

\* No step of a handler takes a row or a credit away.
LEMMA HandlerKeeps ==
    ASSUME IInv, IInv', NEW r \in Requests, Step(r) \/ Arrive(r)
    PROVE  RowsKept
<1>1. CASE Calm(r)
  BY <1>1 DEF Calm, SameMoney, RowsKept, IInv, TypeOK, TablesType
<1>2. CASE Settle(r)
  <2>1. UNCHANGED credited /\ \A x \in PaymentIds : credited[x] \in Nat
    BY <1>2, SettleEffect DEF IInv, TypeOK, TablesType
  <2> QED BY <1>2, <2>1, SettleEffect DEF RowsKept
<1>3. CASE RefundWrite(r)
  <2>1. UNCHANGED credited /\ \A x \in PaymentIds : credited[x] \in Nat
    BY <1>3, RefundWriteEffect DEF IInv, TypeOK, TablesType
  <2> QED BY <1>3, <2>1, RefundWriteEffect DEF RowsKept
<1>4. CASE CreditWrite(r)
  <2>1. UNCHANGED payments /\ \A x \in PaymentIds : credited[x] \in Nat
    BY <1>4, CreditWriteEffect DEF IInv, TypeOK, TablesType
  <2>2. \A x \in PaymentIds : credited[x] <= credited'[x]
    BY <1>4, <2>1, CreditWriteEffect
  <2> QED BY <2>1, <2>2 DEF RowsKept
<1>5. CASE UNCHANGED <<payments, credited>>
  BY <1>5 DEF RowsKept, IInv, TypeOK, TablesType
<1> QED
  BY <1>1, <1>2, <1>3, <1>4, <1>5, HandlerKinds, PeriodCalm, CreditReadEffect,
     RefundLoadEffect, RefundAcceptedEffect, PutBackReadEffect, PutBackWriteEffect

\* A name without a row stays blank.
LEMMA HandlerBlank ==
    ASSUME IInv, IInv', BlankInv, NEW r \in Requests, Step(r) \/ Arrive(r)
    PROVE  BlankInv'
<1> SUFFICES ASSUME NEW p \in PaymentIds, payments'[p].status = "none"
             PROVE  credited'[p] = 0 /\ payments'[p].refunded = 0 /\ returned'[p] = 0
  BY DEF BlankInv
<1>1. payments[p].status = "none"
  BY HandlerKeeps DEF RowsKept
<1>2. credited[p] = 0 /\ payments[p].refunded = 0 /\ returned[p] = 0
  BY <1>1 DEF BlankInv
<1>3. CASE Calm(r)
  BY <1>1, <1>2, <1>3 DEF Calm, SameMoney
<1>4. CASE Settle(r)
  BY <1>1, <1>2, <1>4, SettleEffect
<1>5. CASE RefundWrite(r)
  BY <1>1, <1>2, <1>5, RefundWriteEffect
<1>6. CASE CreditWrite(r)
  BY <1>1, <1>2, <1>6, CreditWriteEffect
<1>7. CASE RefundAccepted(r)
  BY <1>1, <1>2, <1>7, RefundAcceptedEffect
<1>8. CASE UNCHANGED <<payments, credited, returned>>
  BY <1>2, <1>8
<1> QED
  BY <1>3, <1>4, <1>5, <1>6, <1>7, <1>8, HandlerKinds, PeriodCalm, CreditReadEffect,
     RefundLoadEffect, PutBackReadEffect, PutBackWriteEffect

\* Outside the handlers nothing touches a payment row or its credits.
LEMMA EnvironmentKeeps ==
    ASSUME IInv, IInv', BlankInv, Environment \/ UNCHANGED vars
    PROVE  RowsKept /\ BlankInv' /\ UNCHANGED <<payments, credited, returned>>
<1>1. UNCHANGED <<payments, credited, returned>>
  BY DEF Environment, CreateInvoice, AdvanceFiling, GatewayCapture, GatewayIssue,
         ConfigureSecret, Restart, vars, tables, gateway, history
<1>2. \A x \in PaymentIds : credited[x] \in Nat
  BY DEF IInv, TypeOK, TablesType
<1> QED
  BY <1>1, <1>2 DEF RowsKept, BlankInv

-----------------------------------------------------------------------------
(***************************************************************************)
(* A paid period is a covered one                                          *)
(***************************************************************************)

\* What is on an invoice was credited to it, and a period is paid on a total.
InvoiceCovered(i) ==
    /\ invoices[i].paid <= CreditedTo(i)
    /\ filing[i] = "paid" => CreditedTo(i) >= Total

\* What a handler has read of an invoice was credited to it.
SlotCovered(r) ==
    /\ req[r].pc = "apply" => payments[req[r].pay].inv = req[r].inv
    /\ req[r].pc \in {"apply", "putbackWrite"} => req[r].seen <= CreditedTo(req[r].inv)
    /\ req[r].pc \in {"period", "close"} => CreditedTo(req[r].inv) >= Total

CoverInv ==
    /\ BlankInv
    /\ \A i \in Invoices : InvoiceCovered(i)
    /\ \A r \in Requests : SlotCovered(r)

\* Credits only grow, so what was covered stays covered.
LEMMA SlotStaysCovered ==
    ASSUME IInv, IInv', BlankInv, RowsKept, NEW r \in Requests, SlotCovered(r),
           req'[r] = req[r]
    PROVE  SlotCovered(r)'
<1>0. TypeOK /\ TypeOK' /\ SlotOK(req[r], payments, order) /\ req[r] \in RequestType
  BY DEF IInv, SlotInv, TypeOK
<1> DEFINE i == req[r].inv
<1>1. /\ CreditedTo(i) \in Int /\ CreditedTo(i)' \in Int /\ CreditedTo(i) <= CreditedTo(i)'
  <2>1. \A j \in Invoices : CreditedTo(j) \in Int /\ CreditedTo(j)' \in Int
                            /\ CreditedTo(j) <= CreditedTo(j)'
    BY <1>0, CreditedGrows
  <2> QED BY <1>0, CreditedGrows
<1>2. req[r].seen \in Nat /\ Total \in Nat
  BY <1>0, TotalAssumption DEF RequestType
<1>3. req[r].pc = "apply" => payments'[req[r].pay].inv = payments[req[r].pay].inv
  BY <1>0 DEF SlotOK, RowsKept
<1> QED
  BY <1>1, <1>2, <1>3 DEF SlotCovered

\* An invoice on which the step puts no money, and whose period it does not close.
LEMMA InvoiceStaysCovered ==
    ASSUME IInv, IInv', BlankInv, RowsKept, NEW i \in Invoices, InvoiceCovered(i),
           invoices'[i].paid <= invoices[i].paid, filing'[i] = filing[i]
    PROVE  InvoiceCovered(i)'
<1>0. TypeOK /\ TypeOK' /\ invoices[i].paid \in Nat /\ invoices'[i].paid \in Nat
  BY DEF IInv, TypeOK, TablesType, InvoiceRow
<1>1. /\ CreditedTo(i) \in Int /\ CreditedTo(i)' \in Int /\ CreditedTo(i) <= CreditedTo(i)'
  BY <1>0, CreditedGrows
<1> QED
  BY <1>0, <1>1, TotalAssumption DEF InvoiceCovered

LEMMA HandlerCovered ==
    ASSUME IInv, IInv', CoverInv, NEW r \in Requests, Step(r) \/ Arrive(r)
    PROVE  CoverInv'
<1>0. /\ TypeOK /\ TypeOK' /\ BlankInv /\ RowsKept /\ BlankInv'
      /\ SlotOK(req[r], payments, order) /\ SlotCovered(r)
      /\ \A i \in Invoices : InvoiceCovered(i) /\ invoices[i].paid \in Nat
  BY HandlerKeeps, HandlerBlank
     DEF IInv, CoverInv, SlotInv, TypeOK, TablesType, InvoiceRow
<1>1. \A i \in Invoices :
        /\ CreditedTo(i) \in Int /\ CreditedTo(i)' \in Int
        /\ 0 <= CreditedTo(i) /\ CreditedTo(i) <= CreditedTo(i)'
  BY <1>0, CreditedGrows
<1>2. ASSUME \A i \in Invoices : invoices'[i].paid <= invoices[i].paid,
             \A i \in Invoices : filing'[i] = filing[i]
      PROVE  \A i \in Invoices : InvoiceCovered(i)'
  BY <1>0, <1>2, InvoiceStaysCovered
<1>3. ASSUME Others(r), SlotCovered(r)', \A i \in Invoices : InvoiceCovered(i)'
      PROVE  CoverInv'
  <2>1. ASSUME NEW s \in Requests, s # r PROVE SlotCovered(s)'
    BY <1>0, <1>3, <2>1, SlotStaysCovered DEF Others, CoverInv
  <2> QED BY <1>0, <1>3, <2>1 DEF CoverInv
<1>4. ASSUME req'[r].pc \notin {"apply", "putbackWrite", "period", "close"}
      PROVE  SlotCovered(r)'
  BY <1>4 DEF SlotCovered
<1>5. CASE Calm(r) /\ NoPeriod(r)
  <2>1. req'[r].pc \notin {"apply", "putbackWrite", "period", "close"} /\ Others(r)
    BY <1>5 DEF Calm, NoPeriod, MoneyAt, Others
  <2>2. /\ \A i \in Invoices : invoices'[i].paid <= invoices[i].paid
        /\ \A i \in Invoices : filing'[i] = filing[i]
    BY <1>0, <1>5 DEF Calm, NoPeriod
  <2> QED BY <1>2, <1>3, <1>4, <2>1, <2>2
<1>6. CASE PeriodRead(r) \/ PeriodWrite(r)
  <2>1. /\ Calm(r) /\ Others(r)
        /\ PeriodRead(r) => filing' = filing
        /\ PeriodWrite(r) => filing' = [filing EXCEPT ![req[r].inv] = "paid"]
        /\ req'[r].pc \in {"period", "close"} =>
             PeriodRead(r) /\ req'[r].inv = req[r].inv
    BY <1>6, PeriodCalm DEF Calm, Others
  <2>2. req[r].pc \in {"period", "close"}
    BY <1>6 DEF PeriodRead, PeriodWrite, At
  <2>3. req[r].inv \in Invoices /\ CreditedTo(req[r].inv) >= Total
    BY <1>0, <2>2 DEF SlotOK, SlotCovered
  <2>7. PICK j \in Invoices : j = req[r].inv
    BY <2>3
  <2>4. CreditedTo(j)' >= Total
    BY <1>1, <2>3, <2>7, TotalAssumption
  <2>5. SlotCovered(r)'
    <3>1. req'[r].pc \notin {"apply", "putbackWrite"}
      BY <2>1 DEF Calm, MoneyAt
    <3>2. req'[r].pc \in {"period", "close"} => req'[r].inv = j
      BY <2>1, <2>7
    <3> QED BY <2>4, <3>1, <3>2 DEF SlotCovered
  <2>6. ASSUME NEW i \in Invoices PROVE InvoiceCovered(i)'
    <3>1. invoices'[i].paid <= invoices[i].paid
      BY <1>0, <2>1 DEF Calm
    <3>2. CASE filing'[i] = filing[i]
      BY <1>0, <3>1, <3>2, InvoiceStaysCovered
    <3>3. CASE i = j
      <4>1. invoices'[i].paid <= CreditedTo(i)'
        <5>1. invoices'[i].paid \in Nat /\ invoices[i].paid <= CreditedTo(i)
          BY <1>0 DEF TypeOK, TablesType, InvoiceRow, InvoiceCovered
        <5> QED BY <1>0, <1>1, <3>1, <5>1
      <4> QED BY <2>4, <3>3, <4>1 DEF InvoiceCovered
    <3>4. i # j => filing'[i] = filing[i]
      BY <1>0, <1>6, <2>1, <2>7 DEF TypeOK, TablesType
    <3> QED BY <3>2, <3>3, <3>4
  <2> QED BY <1>3, <2>1, <2>5, <2>6
<1>7. CASE Settle(r) \/ (\E p \in PaymentIds : RefundLoad(r, p)) \/ RefundAccepted(r)
           \/ RefundWrite(r)
  <2>1. /\ req'[r].pc \notin {"apply", "putbackWrite", "period", "close"} /\ Others(r)
        /\ UNCHANGED <<invoices, filing>>
    BY <1>7, SettleEffect, RefundLoadEffect, RefundAcceptedEffect, RefundWriteEffect
  <2>2. /\ \A i \in Invoices : invoices'[i].paid <= invoices[i].paid
        /\ \A i \in Invoices : filing'[i] = filing[i]
    BY <1>0, <2>1
  <2> QED BY <1>2, <1>3, <1>4, <2>1, <2>2
<1>8. CASE CreditRead(r) \/ PutBackRead(r)
  <2>1. /\ req'[r].pc \in {"apply", "putbackWrite"} /\ Others(r)
        /\ UNCHANGED <<payments, invoices, filing>>
        /\ req'[r].inv = payments[req[r].pay].inv /\ req'[r].inv \in Invoices
        /\ req'[r].seen = invoices[payments[req[r].pay].inv].paid
        /\ req'[r].pc = "apply" => req'[r].pay = req[r].pay
    BY <1>8, CreditReadEffect, PutBackReadEffect
  <2>5. PICK j \in Invoices : j = req'[r].inv
    BY <2>1
  <2>6. req'[r].seen = invoices[j].paid /\ invoices[j].paid <= CreditedTo(j)
    BY <1>0, <2>1, <2>5 DEF InvoiceCovered
  <2>2. req'[r].seen <= CreditedTo(j)'
    BY <1>0, <1>1, <2>6
  <2>3. SlotCovered(r)'
    BY <2>1, <2>2, <2>5 DEF SlotCovered
  <2>4. /\ \A i \in Invoices : invoices'[i].paid <= invoices[i].paid
        /\ \A i \in Invoices : filing'[i] = filing[i]
    BY <1>0, <2>1
  <2> QED BY <1>2, <1>3, <2>1, <2>3, <2>4
<1>9. CASE CreditWrite(r)
  <2>8. PICK j \in Invoices : j = req[r].inv
    BY <1>9, CreditWriteEffect
  <2>9. PICK p \in PaymentIds : p = req[r].pay
    BY <1>9, CreditWriteEffect
  <2> DEFINE paid == req[r].seen + payments[p].amount
  <2>1. /\ Others(r) /\ req'[r].pc \in {"period", "idle", "finish"}
        /\ req[r].pc = "apply" /\ j \in Invoices /\ p \in PaymentIds
        /\ req[r].seen \in Nat /\ payments[p].amount \in Nat
        /\ req'[r].pc = "period" => req'[r].inv = j /\ paid >= Total
        /\ \A i \in Invoices : IF i = j THEN invoices'[i].paid = paid
                               ELSE invoices'[i] = invoices[i]
        /\ \A x \in PaymentIds :
             credited'[x] = IF x = p THEN credited[x] + 1 ELSE credited[x]
        /\ UNCHANGED <<payments, filing>>
    BY <1>9, <2>8, <2>9, CreditWriteEffect
  <2>2. payments[p].inv = j /\ req[r].seen <= CreditedTo(j)
    BY <1>0, <2>1, <2>8, <2>9 DEF SlotCovered
  <2>3. CreditedTo(j)' = CreditedTo(j) + payments[p].amount
    BY <1>0, <2>1, <2>2, CreditedOnceMore
  <2>4. paid <= CreditedTo(j)' /\ paid \in Nat
    BY <1>1, <2>1, <2>2, <2>3
  <2>5. ASSUME NEW i \in Invoices PROVE InvoiceCovered(i)'
    <3>1. CASE i = j
      <4>1. filing'[i] = "paid" => CreditedTo(i)' >= Total
        BY <1>0, <1>1, <2>1, TotalAssumption DEF InvoiceCovered
      <4>2. invoices'[i].paid <= CreditedTo(i)'
        BY <2>1, <2>4, <3>1
      <4> QED BY <4>1, <4>2 DEF InvoiceCovered
    <3>2. CASE i # j
      <4>1. invoices'[i].paid <= invoices[i].paid /\ filing'[i] = filing[i]
        BY <1>0, <2>1, <3>2
      <4> QED BY <1>0, <4>1, InvoiceStaysCovered
    <3> QED BY <3>1, <3>2
  <2>6. SlotCovered(r)'
    <3>1. req'[r].pc \notin {"apply", "putbackWrite", "close"}
      BY <2>1
    <3>2. CreditedTo(j)' >= paid /\ CreditedTo(j)' \in Int
      BY <1>1, <2>1, <2>4
    <3> HIDE DEF paid
    <3>3. req'[r].pc = "period" => CreditedTo(j)' >= Total /\ req'[r].inv = j
      BY <2>1, <2>4, <3>2, TotalAssumption
    <3> QED BY <3>1, <3>3 DEF SlotCovered
  <2> QED BY <1>3, <2>1, <2>5, <2>6
<1>10. CASE PutBackWrite(r)
  <2>1. /\ Others(r) /\ req'[r].pc = "idle"
        /\ req[r].pc = "putbackWrite" /\ req[r].inv \in Invoices
        /\ req[r].seen \in Nat /\ req[r].amt \in Nat
        /\ \A i \in Invoices :
             IF i = req[r].inv
             THEN invoices'[i].paid = IF req[r].seen >= req[r].amt
                                      THEN req[r].seen - req[r].amt ELSE 0
             ELSE invoices'[i] = invoices[i]
        /\ UNCHANGED <<payments, filing, credited>>
    BY <1>10, PutBackWriteEffect
  <2>5. PICK j \in Invoices : j = req[r].inv
    BY <2>1
  <2>2. req[r].seen <= CreditedTo(j)
    BY <1>0, <2>1, <2>5 DEF SlotCovered
  <2>3. ASSUME NEW i \in Invoices PROVE InvoiceCovered(i)'
    <3>1. CASE i = j
      <4>1. invoices'[i].paid \in Nat /\ invoices'[i].paid <= req[r].seen
        BY <2>1, <2>5, <3>1
      <4>2. invoices'[i].paid <= CreditedTo(i)'
        BY <1>1, <2>1, <2>2, <3>1, <4>1
      <4>3. filing'[i] = "paid" => CreditedTo(i)' >= Total
        BY <1>0, <1>1, <2>1, TotalAssumption DEF InvoiceCovered
      <4> QED BY <4>2, <4>3 DEF InvoiceCovered
    <3>2. CASE i # j
      <4>1. invoices'[i].paid <= invoices[i].paid /\ filing'[i] = filing[i]
        BY <1>0, <2>1, <2>5, <3>2
      <4> QED BY <1>0, <4>1, InvoiceStaysCovered
    <3> QED BY <3>1, <3>2
  <2>4. SlotCovered(r)'
    BY <1>4, <2>1
  <2> QED BY <1>3, <2>1, <2>3, <2>4
<1> QED
  BY <1>5, <1>6, <1>7, <1>8, <1>9, <1>10, HandlerKinds

LEMMA EnvironmentCovered ==
    ASSUME IInv, IInv', CoverInv, Environment \/ UNCHANGED vars
    PROVE  CoverInv'
<1>0. /\ TypeOK /\ TypeOK' /\ BlankInv /\ RowsKept /\ BlankInv'
      /\ \A i \in Invoices : InvoiceCovered(i) /\ invoices[i].paid \in Nat
  BY EnvironmentKeeps DEF IInv, CoverInv, TypeOK, TablesType, InvoiceRow
<1>1. ASSUME NEW r \in Requests PROVE SlotCovered(r)'
  <2>1. req'[r] = req[r] \/ req'[r] = IdleRequest
    BY DEF Environment, CreateInvoice, AdvanceFiling, GatewayCapture, GatewayIssue,
           ConfigureSecret, Restart, vars, gateway, history
  <2>2. CASE req'[r] = req[r]
    BY <1>0, <2>2, SlotStaysCovered DEF CoverInv
  <2>3. CASE req'[r] = IdleRequest
    <3>1. req'[r].pc = "idle"
      BY <2>3 DEF IdleRequest
    <3> QED BY <3>1 DEF SlotCovered
  <2> QED BY <2>1, <2>2, <2>3
<1>2. ASSUME NEW i \in Invoices PROVE InvoiceCovered(i)'
  <2>0. /\ CreditedTo(i) \in Int /\ CreditedTo(i)' \in Int
        /\ 0 <= CreditedTo(i) /\ CreditedTo(i) <= CreditedTo(i)'
    BY <1>0, CreditedGrows
  <2>1. /\ invoices'[i].paid = invoices[i].paid \/ invoices'[i].paid = 0
        /\ filing'[i] = filing[i] \/ filing'[i] = "open"
    BY <1>0
    DEF Environment, CreateInvoice, AdvanceFiling, GatewayCapture, GatewayIssue,
        ConfigureSecret, Restart, vars, tables, gateway, history, TypeOK, TablesType
  <2>2. invoices'[i].paid <= CreditedTo(i)'
    BY <1>0, <2>0, <2>1 DEF InvoiceCovered
  <2>3. filing'[i] = "paid" => CreditedTo(i)' >= Total
    BY <1>0, <2>0, <2>1, TotalAssumption DEF InvoiceCovered
  <2> QED BY <2>2, <2>3 DEF InvoiceCovered
<1> QED
  BY <1>0, <1>1, <1>2 DEF CoverInv

LEMMA InitCovered == Init => CoverInv
<1> SUFFICES ASSUME Init PROVE CoverInv
  OBVIOUS
<1>1. BlankInv
  BY DEF Init, BlankInv, NoPayment
<1>2. ASSUME NEW r \in Requests PROVE SlotCovered(r)
  <2>1. req[r].pc = "idle"
    BY DEF Init, IdleRequest
  <2> QED BY <2>1 DEF SlotCovered
<1>3. ASSUME NEW i \in Invoices PROVE InvoiceCovered(i)
  <2>1. TypeOK
    BY InitIInv DEF IInv
  <2>2. CreditedTo(i) >= 0
    BY <2>1, CreditedSum, CreditedType DEF TypeOK, TablesType
  <2>3. invoices[i].paid = 0 /\ filing[i] = "earlier"
    BY DEF Init, NoInvoice
  <2> QED BY <2>2, <2>3 DEF InvoiceCovered
<1> QED
  BY <1>1, <1>2, <1>3 DEF CoverInv

\* A filing period that settlePayment closes is covered by the payments credited to
\* its invoice, for any number of handlers, payments and restarts.
THEOREM CoveredCorrect == Spec => []PeriodPaidMeansCovered
<1>1. IInv /\ IInv' /\ CoverInv /\ [Next]_vars => CoverInv'
  BY HandlerCovered, EnvironmentCovered DEF Next
<1>2. CoverInv => PeriodPaidMeansCovered
  BY DEF CoverInv, InvoiceCovered, PeriodPaidMeansCovered
<1> QED
  BY <1>1, <1>2, InitCovered, Invariance, PTL DEF Spec

-----------------------------------------------------------------------------
(***************************************************************************)
(* One handler at a time                                                   *)
(***************************************************************************)

OneHandler == \E h : Requests = {h}

\* A void invoice holds no money, and the handler about to void one has seen none.
VoidInv ==
    /\ VoidHoldsNoMoney
    /\ \A r \in Requests : req[r].pc = "void" => invoices[req[r].inv].paid = 0

\* A handler that is alone leaves every void invoice without money.
LEMMA HandlerVoids ==
    ASSUME OneHandler, IInv, VoidInv, NEW r \in Requests, Step(r) \/ Arrive(r)
    PROVE  VoidInv'
<1>0. /\ \A s \in Requests : s = r
      /\ \A i \in Invoices : invoices[i].status = "void" => invoices[i].paid = 0
      /\ req[r].pc = "void" => invoices[req[r].inv].paid = 0
  BY DEF OneHandler, VoidInv, VoidHoldsNoMoney
<1>1. ASSUME \A i \in Invoices : invoices'[i].status = "void" => invoices'[i].paid = 0,
             req'[r].pc # "void"
      PROVE  VoidInv'
  BY <1>0, <1>1 DEF VoidInv, VoidHoldsNoMoney
<1>2. CASE Calm(r)
  <2>1. \A i \in Invoices : invoices'[i].status = "void" => invoices'[i].paid = 0
    BY <1>0, <1>2 DEF Calm, At
  <2>2. req'[r].pc = "void" => invoices'[req'[r].inv].paid = 0
    BY <1>2 DEF Calm
  <2> QED BY <1>0, <2>1, <2>2 DEF VoidInv, VoidHoldsNoMoney
<1>3. CASE UNCHANGED invoices /\ req'[r].pc # "void"
  BY <1>0, <1>1, <1>3
<1>4. CASE CreditWrite(r)
  BY <1>0, <1>1, <1>4, CreditWriteEffect
<1>5. CASE PutBackWrite(r)
  BY <1>0, <1>1, <1>5, PutBackWriteEffect
<1> QED
  BY <1>2, <1>3, <1>4, <1>5, HandlerKinds, PeriodCalm, SettleEffect, CreditReadEffect,
     RefundLoadEffect, RefundAcceptedEffect, RefundWriteEffect, PutBackReadEffect

LEMMA EnvironmentVoids ==
    ASSUME IInv, VoidInv, Environment \/ UNCHANGED vars
    PROVE  VoidInv'
<1>0. TypeOK
  BY DEF IInv
<1>1. ASSUME NEW i \in Invoices, CreateInvoice(i) PROVE VoidInv'
  <2>1. PICK s \in {"issued", "draft"} :
          invoices' = [invoices EXCEPT ![i] = [status |-> s, paid |-> 0, due |-> Total]]
    BY <1>1 DEF CreateInvoice
  <2>2. \A j \in Invoices :
          IF j = i THEN invoices'[j].paid = 0 /\ invoices'[j].status = s
          ELSE invoices'[j] = invoices[j]
    BY <1>0, <2>1 DEF TypeOK, TablesType
  <2>3. req' = req
    BY <1>1 DEF CreateInvoice
  <2>4. ASSUME NEW r \in Requests, req[r].pc = "void" PROVE invoices'[req[r].inv].paid = 0
    <3>1. req[r].inv \in Invoices /\ invoices[req[r].inv].paid = 0
      BY <2>4 DEF IInv, SlotInv, SlotOK, VoidInv
    <3> QED BY <2>2, <3>1
  <2>5. \A j \in Invoices : invoices'[j].status = "void" => invoices'[j].paid = 0
    BY <2>2 DEF VoidInv, VoidHoldsNoMoney
  <2> QED BY <2>3, <2>4, <2>5 DEF VoidInv, VoidHoldsNoMoney
<1>2. CASE Restart
  <2>1. UNCHANGED invoices /\ \A r \in Requests : req'[r] = IdleRequest
    BY <1>2 DEF Restart, tables
  <2> QED BY <2>1 DEF VoidInv, VoidHoldsNoMoney, IdleRequest
<1>3. CASE UNCHANGED <<invoices, req>>
  BY <1>3 DEF VoidInv, VoidHoldsNoMoney
<1>4. Environment => (\E i \in Invoices : CreateInvoice(i)) \/ Restart
                     \/ UNCHANGED <<invoices, req>>
  BY DEF Environment, AdvanceFiling, GatewayCapture, GatewayIssue, ConfigureSecret, tables
<1> QED
  BY <1>1, <1>2, <1>3, <1>4 DEF vars, tables

\* With one handler at a time a void invoice holds no money, restarts included: void
\* asks for the payments to be refunded first, and one that settles later takes the
\* invoice out of void.
THEOREM VoidCorrect == ASSUME OneHandler PROVE Spec => []VoidHoldsNoMoney
<1>1. Init => VoidInv
  BY DEF Init, VoidInv, VoidHoldsNoMoney, NoInvoice, IdleRequest
<1>2. IInv /\ VoidInv /\ [Next]_vars => VoidInv'
  BY HandlerVoids, EnvironmentVoids DEF Next
<1>3. VoidInv => VoidHoldsNoMoney
  BY DEF VoidInv
<1> QED
  BY <1>1, <1>2, <1>3, Invariance, PTL DEF Spec

\* The statements of a settlement and a refund come one after the other.
LEMMA SoleAction ==
    ASSUME NEW r \in Requests, Step(r) \/ Arrive(r)
    PROVE  /\ req[r].pc = "credit" => CreditRead(r)
           /\ req[r].pc = "apply" => CreditWrite(r)
           /\ req[r].pc = "refunded" => RefundWrite(r)
           /\ req[r].pc = "putback" => PutBackRead(r)
           /\ req[r].pc = "putbackWrite" => PutBackWrite(r)
<1> SUFFICES ASSUME req[r].pc \in {"credit", "apply", "refunded", "putback", "putbackWrite"}
             PROVE  /\ req[r].pc = "credit" => CreditRead(r)
                    /\ req[r].pc = "apply" => CreditWrite(r)
                    /\ req[r].pc = "refunded" => RefundWrite(r)
                    /\ req[r].pc = "putback" => PutBackRead(r)
                    /\ req[r].pc = "putbackWrite" => PutBackWrite(r)
  OBVIOUS
<1>1. ~Arrive(r)
  BY DEF Arrive, VoidLoad, OverdueLoad, CheckoutLoad, RecordLoad, VerifyLoad, RefundLoad,
         Deliver, DeliverAgain, Begin
<1>2. \/ CreditRead(r) \/ CreditWrite(r) \/ RefundWrite(r) \/ PutBackRead(r)
      \/ PutBackWrite(r)
  BY <1>1
  DEF Step, At, VoidWrite, OverdueWrite, CheckoutOrder, CheckoutRefused, RecordInsert,
      ReadReference, CheckoutInsert, Settle, PeriodRead, PeriodWrite, VerifyOk,
      VerifyRefused, VerifyReject, Store, ApplyPaymentEvent, MarkFailed, MarkDisputed,
      Finish, RefundAccepted, RefundRefused
<1> QED
  BY <1>2 DEF At, CreditRead, CreditWrite, RefundWrite, PutBackRead, PutBackWrite

-----------------------------------------------------------------------------
(***************************************************************************)
(* The books                                                               *)
(***************************************************************************)

\* The statements of which only one follows.
Committed == {"credit", "apply", "refunded", "putback", "putbackWrite"}

\* The steps of a handler, those that move money told apart from the calm ones.
LEMMA HandlerCases ==
    ASSUME IInv, NEW r \in Requests, Step(r) \/ Arrive(r)
    PROVE  \/ Calm(r) /\ req[r].pc \notin Committed
           \/ Settle(r) \/ CreditRead(r) \/ CreditWrite(r)
           \/ (\E p \in PaymentIds : RefundLoad(r, p))
           \/ RefundAccepted(r) \/ RefundWrite(r)
           \/ PutBackRead(r) \/ PutBackWrite(r)
<1>1. CASE req[r].pc \in Committed
  BY <1>1, SoleAction DEF Committed
<1>2. CASE req[r].pc \notin Committed
  BY <1>2, HandlerKinds, PeriodCalm
<1> QED
  BY <1>1, <1>2

\* With rows and credits as they were, an invoice keeps what was credited to it.
LEMMA SameCredits ==
    ASSUME TypeOK, TypeOK', BlankInv, UNCHANGED credited,
           \A p \in PaymentIds : payments[p].status # "none" =>
             payments'[p].inv = payments[p].inv /\ payments'[p].amount = payments[p].amount,
           NEW i
    PROVE  CreditedTo(i)' = CreditedTo(i)
<1>1. ASSUME NEW p \in PaymentIds
      PROVE  (IF payments'[p].inv = i THEN credited'[p] * payments'[p].amount ELSE 0)
             = (IF payments[p].inv = i THEN credited[p] * payments[p].amount ELSE 0)
  <2>1. payments[p].amount \in Nat /\ payments'[p].amount \in Nat
    BY DEF TypeOK, TablesType, PaymentRow
  <2>2. CASE payments[p].status = "none"
    <3>1. credited[p] = 0 /\ credited'[p] = 0
      BY <2>2 DEF BlankInv
    <3>2. 0 * payments[p].amount = 0 /\ 0 * payments'[p].amount = 0
      BY <2>1
    <3> QED BY <3>1, <3>2
  <2>3. CASE payments[p].status # "none"
    BY <2>3
  <2> QED BY <2>2, <2>3
<1>2. Credit(payments', credited', i) = Credit(payments, credited, i)
  BY <1>1 DEF Credit
<1> QED
  BY <1>2, CreditedSum, CreditedSumNext

\* ... and with what was refunded of each as it was, what was refunded from it.
LEMMA SameRefunds ==
    ASSUME BlankInv,
           \A p \in PaymentIds : payments'[p].refunded = payments[p].refunded,
           \A p \in PaymentIds : payments[p].status # "none" =>
             payments'[p].inv = payments[p].inv,
           NEW i
    PROVE  RefundedFrom(i)' = RefundedFrom(i)
<1>1. ASSUME NEW p \in PaymentIds
      PROVE  (IF payments'[p].inv = i THEN payments'[p].refunded ELSE 0)
             = (IF payments[p].inv = i THEN payments[p].refunded ELSE 0)
  BY DEF BlankInv
<1>2. Taken(payments', i) = Taken(payments, i)
  BY <1>1 DEF Taken
<1> QED
  BY <1>2, CreditedSum, CreditedSumNext

\* A refund of one payment is a refund from its invoice.
LEMMA RefundedOnceMore ==
    ASSUME TypeOK, TypeOK', NEW p \in PaymentIds, NEW amt \in Nat,
           \A x \in PaymentIds :
             /\ payments'[x].inv = payments[x].inv
             /\ payments'[x].refunded = payments[x].refunded + IF x = p THEN amt ELSE 0,
           NEW i
    PROVE  RefundedFrom(i)' = RefundedFrom(i) + IF payments[p].inv = i THEN amt ELSE 0
<1> DEFINE w == Taken(payments, i)
           v == Taken(payments', i)
<1>1. /\ payments \in [PaymentIds -> PaymentRow] /\ credited \in [PaymentIds -> Nat]
      /\ payments' \in [PaymentIds -> PaymentRow]
  BY DEF TypeOK, TablesType
<1>2. /\ w \in [PaymentIds -> Int] /\ v \in [PaymentIds -> Int]
  BY <1>1, TermsType
<1>3. \A x \in PaymentIds : payments[x].refunded \in Nat
  BY <1>1 DEF PaymentRow
<1>4. \A x \in PaymentIds : x # p => v[x] = w[x]
  BY <1>3 DEF Taken
<1>5. v[p] - w[p] = IF payments[p].inv = i THEN amt ELSE 0
  BY <1>3 DEF Taken
<1>6. RefundedFrom(i) = SumFunction(w) /\ RefundedFrom(i)' = SumFunction(v)
  BY CreditedSum, CreditedSumNext
<1> HIDE DEF w, v
<1>7. SumFunction(v) = SumFunction(w) + (v[p] - w[p])
  BY <1>2, <1>4, PaymentIdsAssumption, SumChange
<1> QED
  BY <1>5, <1>6, <1>7

\* What was refunded of a payment was credited before.
LEMMA RefundsWithinCredits ==
    ASSUME TypeOK, RowInv,
           \A p \in PaymentIds : payments[p].refunded > 0 => credited[p] >= 1,
           NEW i
    PROVE  /\ RefundedFrom(i) <= CreditedTo(i)
           /\ RefundedFrom(i) \in Int /\ CreditedTo(i) \in Int
<1> DEFINE w == Taken(payments, i)
           v == Credit(payments, credited, i)
<1>1. payments \in [PaymentIds -> PaymentRow] /\ credited \in [PaymentIds -> Nat]
  BY DEF TypeOK, TablesType
<1>2. /\ w \in [PaymentIds -> Int] /\ v \in [PaymentIds -> Int]
      /\ \A p \in PaymentIds : w[p] \in Nat /\ v[p] \in Nat
  BY <1>1, TermsType
<1>3. ASSUME NEW p \in PaymentIds PROVE w[p] <= v[p]
  <2>1. /\ payments[p].refunded \in Nat /\ payments[p].amount \in Nat
        /\ credited[p] \in Nat /\ payments[p].refunded <= payments[p].amount
    BY <1>1 DEF PaymentRow, RowInv, RowOK
  <2>2. CASE payments[p].inv = i /\ payments[p].refunded > 0
    <3>1. w[p] = payments[p].refunded /\ v[p] = credited[p] * payments[p].amount
      BY <2>2 DEF Taken, Credit
    <3>2. 1 * payments[p].amount <= credited[p] * payments[p].amount
      BY <2>1, <2>2, ProductMonotone
    <3>3. credited[p] * payments[p].amount \in Nat
      BY <2>1, ProductType
    <3>4. 1 * payments[p].amount = payments[p].amount
      BY <2>1
    <3> HIDE DEF w, v
    <3> QED BY <2>1, <3>1, <3>2, <3>3, <3>4
  <2>3. CASE ~(payments[p].inv = i /\ payments[p].refunded > 0)
    <3>1. w[p] = 0
      BY <2>1, <2>3 DEF Taken
    <3> HIDE DEF w, v
    <3> QED BY <1>2, <3>1
  <2> QED BY <2>2, <2>3
<1>4. CreditedTo(i) = SumFunction(v) /\ RefundedFrom(i) = SumFunction(w)
  BY CreditedSum
<1> HIDE DEF w, v
<1>5. SumFunction(w) <= SumFunction(v) /\ SumFunction(w) \in Int /\ SumFunction(v) \in Int
  BY <1>2, <1>3, PaymentIdsAssumption, SumMonotone, SumType
<1> QED
  BY <1>4, <1>5

\* A success was credited, or the handler r is about to credit it; a refund is of
\* a payment that was credited, and starts from what the row says.
SettledBooks(r) ==
    /\ \A p \in PaymentIds :
         /\ payments[p].refunded > 0 => credited[p] >= 1
         /\ payments[p].status = "success" =>
              credited[p] >= 1 \/ (req[r].pc \in {"credit", "apply"} /\ req[r].pay = p)
    /\ req[r].pc \in {"refund", "refunded"} =>
         credited[req[r].pay] >= 1 /\ req[r].seen = payments[req[r].pay].refunded

\* What the gateway gave back is on the row, or r is about to write it there.
Given(r, p) == IF req[r].pc = "refunded" /\ req[r].pay = p THEN req[r].amt ELSE 0

ReturnedBooks(r) ==
    \A p \in PaymentIds :
        payments[p].online => returned[p] = payments[p].refunded + Given(r, p)

\* The invoice is the payments credited less those refunded, but for the amount
\* that r is about to take off it.
OffInvoice(r, i) ==
    IF \/ req[r].pc = "putback" /\ payments[req[r].pay].inv = i
       \/ req[r].pc = "putbackWrite" /\ req[r].inv = i
    THEN req[r].amt ELSE 0

LedgerBooks(r) ==
    /\ req[r].pc = "apply" => payments[req[r].pay].inv = req[r].inv
    /\ req[r].pc \in {"apply", "putbackWrite"} => req[r].seen = invoices[req[r].inv].paid
    /\ \A i \in Invoices :
         /\ invoices[i].status = "none" => invoices[i].paid = 0
         /\ invoices[i].paid = CreditedTo(i) - RefundedFrom(i) + OffInvoice(r, i)

\* Every step of the handler keeps what it knows of the payment rows,
LEMMA HandlerSettled ==
    ASSUME IInv, IInv', BlankInv, NEW r \in Requests, SettledBooks(r), Step(r) \/ Arrive(r)
    PROVE  SettledBooks(r)'
<1>0. \A p \in PaymentIds :
        /\ credited[p] \in Nat /\ credited'[p] \in Nat
        /\ payments[p].refunded \in Nat /\ payments'[p].refunded \in Nat
        /\ payments[p].refunded > 0 => credited[p] >= 1
        /\ payments[p].status = "none" => payments[p].refunded = 0
  BY DEF IInv, TypeOK, TablesType, PaymentRow, SettledBooks, BlankInv
<1>1. CASE Calm(r) /\ req[r].pc \notin Committed
  <2>1. \A p \in PaymentIds : payments'[p].refunded = payments[p].refunded
    BY <1>0, <1>1 DEF Calm, SameMoney
  <2>2. \A p \in PaymentIds :
          payments'[p].status = "success" => payments[p].status = "success"
    BY <1>1 DEF Calm, SameMoney
  <2>3. credited' = credited /\ req'[r].pc \notin {"refund", "refunded"}
        /\ req[r].pc \notin {"credit", "apply"}
    BY <1>1 DEF Calm, MoneyAt, Committed
  <2> QED BY <1>0, <2>1, <2>2, <2>3 DEF SettledBooks
<1>2. CASE Settle(r)
  BY <1>0, <1>2, SettleEffect DEF SettledBooks
<1>3. CASE CreditRead(r)
  BY <1>0, <1>3, CreditReadEffect DEF SettledBooks
<1>4. CASE CreditWrite(r)
  <2>1. \A p \in PaymentIds : credited'[p] >= credited[p]
                              /\ (p = req[r].pay => credited'[p] >= 1)
    BY <1>0, <1>4, CreditWriteEffect
  <2>2. /\ payments' = payments /\ req'[r].pc \notin {"refund", "refunded"}
    BY <1>4, CreditWriteEffect
  <2>3. \A p \in PaymentIds :
          payments[p].status = "success" => credited[p] >= 1 \/ req[r].pay = p
    BY DEF SettledBooks
  <2>4. ASSUME NEW p \in PaymentIds, credited[p] >= 1 PROVE credited'[p] >= 1
    BY <1>0, <2>1, <2>4
  <2> QED BY <1>0, <2>1, <2>2, <2>3, <2>4 DEF SettledBooks
<1>5. ASSUME NEW p \in PaymentIds, RefundLoad(r, p) PROVE SettledBooks(r)'
  <2>1. /\ req'[r].pc = "refund" /\ req'[r].pay = p /\ req[r].pc = "idle"
        /\ payments[p].status = "success" /\ req'[r].seen = payments[p].refunded
        /\ UNCHANGED <<payments, credited>>
    BY <1>5, RefundLoadEffect
  <2>2. \A x \in PaymentIds : payments[x].status = "success" => credited[x] >= 1
    BY <2>1 DEF SettledBooks
  <2> QED BY <1>0, <2>1, <2>2 DEF SettledBooks
<1>6. CASE RefundAccepted(r)
  BY <1>0, <1>6, RefundAcceptedEffect DEF SettledBooks
<1>7. CASE RefundWrite(r)
  <2>1. /\ req'[r].pc = "putback" /\ req[r].pc = "refunded" /\ credited' = credited
        /\ \A x \in PaymentIds :
             IF x = req[r].pay
             THEN payments'[x].status \in {"refunded", "partially_refunded"}
             ELSE payments'[x] = payments[x]
    BY <1>7, RefundWriteEffect
  <2>2. /\ credited[req[r].pay] >= 1
        /\ \A x \in PaymentIds : payments[x].status = "success" => credited[x] >= 1
    BY <2>1 DEF SettledBooks
  <2> QED BY <1>0, <2>1, <2>2 DEF SettledBooks
<1>8. CASE PutBackRead(r)
  BY <1>0, <1>8, PutBackReadEffect DEF SettledBooks
<1>9. CASE PutBackWrite(r)
  BY <1>0, <1>9, PutBackWriteEffect DEF SettledBooks
<1> QED
  BY <1>1, <1>2, <1>3, <1>4, <1>5, <1>6, <1>7, <1>8, <1>9, HandlerCases

\* ... of the gateway,
LEMMA HandlerReturned ==
    ASSUME IInv, IInv', BlankInv, NEW r \in Requests, SettledBooks(r), ReturnedBooks(r),
           Step(r) \/ Arrive(r)
    PROVE  ReturnedBooks(r)'
<1>0. /\ \A p \in PaymentIds : returned[p] \in Nat /\ payments[p].refunded \in Nat
      /\ req[r].amt \in Nat /\ req[r].seen \in Nat
  BY DEF IInv, TypeOK, TablesType, PaymentRow, RequestType
<1>1. CASE Calm(r) /\ req[r].pc \notin Committed
  <2>1. /\ req[r].pc # "refunded" /\ req'[r].pc # "refunded" /\ returned' = returned
    BY <1>1 DEF Calm, MoneyAt, Committed
  <2>2. ASSUME NEW p \in PaymentIds, payments'[p].online
        PROVE  returned'[p] = payments'[p].refunded
    <3>1. CASE payments[p].status = "none" /\ payments'[p] # payments[p]
      <4>1. returned[p] = 0 /\ payments'[p].refunded = 0
        BY <1>1, <3>1 DEF Calm, SameMoney, BlankInv
      <4> QED BY <2>1, <4>1
    <3>2. CASE ~(payments[p].status = "none" /\ payments'[p] # payments[p])
      <4>1. payments'[p].online = payments[p].online
            /\ payments'[p].refunded = payments[p].refunded
        BY <1>1, <3>2 DEF Calm, SameMoney
      <4> QED BY <1>0, <2>1, <2>2, <4>1 DEF ReturnedBooks, Given
    <3> QED BY <3>1, <3>2
  <2>3. \A p \in PaymentIds : payments'[p].refunded \in Nat
    BY DEF IInv, TypeOK, TablesType, PaymentRow
  <2> QED BY <2>1, <2>2, <2>3 DEF ReturnedBooks, Given
<1>2. CASE Settle(r)
  BY <1>0, <1>2, SettleEffect DEF ReturnedBooks, Given
<1>3. CASE UNCHANGED <<payments, returned>> /\ req[r].pc # "refunded" /\ req'[r].pc # "refunded"
  BY <1>0, <1>3 DEF ReturnedBooks, Given
<1>4. CASE RefundAccepted(r)
  <2>1. /\ req'[r].pc = "refunded" /\ req'[r].pay = req[r].pay
        /\ req'[r].amt = req[r].amt /\ req[r].pc = "refund" /\ req[r].pay \in PaymentIds
        /\ \A x \in PaymentIds :
             returned'[x] = IF x = req[r].pay /\ payments[x].online
                            THEN returned[x] + req[r].amt ELSE returned[x]
        /\ payments' = payments
    BY <1>4, RefundAcceptedEffect
  <2> QED BY <1>0, <2>1 DEF ReturnedBooks, Given
<1>5. CASE RefundWrite(r)
  <2>1. /\ req'[r].pc = "putback" /\ req[r].pc = "refunded" /\ req[r].pay \in PaymentIds
        /\ returned' = returned
        /\ \A x \in PaymentIds :
             IF x = req[r].pay
             THEN /\ payments'[x].online = payments[x].online
                  /\ payments'[x].refunded = req[r].seen + req[r].amt
             ELSE payments'[x] = payments[x]
    BY <1>5, RefundWriteEffect
  <2>2. req[r].seen = payments[req[r].pay].refunded
    BY <2>1 DEF SettledBooks
  <2> QED BY <1>0, <2>1, <2>2 DEF ReturnedBooks, Given
<1>6. \/ Calm(r) /\ req[r].pc \notin Committed
      \/ Settle(r) \/ RefundAccepted(r) \/ RefundWrite(r)
      \/ UNCHANGED <<payments, returned>> /\ req[r].pc # "refunded" /\ req'[r].pc # "refunded"
  BY HandlerCases, CreditReadEffect, CreditWriteEffect, RefundLoadEffect,
     PutBackReadEffect, PutBackWriteEffect
<1> QED
  BY <1>1, <1>2, <1>3, <1>4, <1>5, <1>6

\* ... and of the invoices.
LEMMA HandlerLedger ==
    ASSUME IInv, IInv', BlankInv, NEW r \in Requests, SettledBooks(r), LedgerBooks(r),
           Step(r) \/ Arrive(r)
    PROVE  LedgerBooks(r)'
<1>0. /\ TypeOK /\ TypeOK' /\ RowsKept /\ RowInv /\ req[r].amt \in Nat /\ req[r].seen \in Nat
      /\ \A i \in Invoices : invoices[i].paid \in Nat /\ invoices'[i].paid \in Nat
      /\ \A p \in PaymentIds : payments[p].amount \in Nat
  BY HandlerKeeps DEF IInv, TypeOK, TablesType, InvoiceRow, PaymentRow, RequestType
<1>1. \A i : /\ CreditedTo(i) \in Int /\ RefundedFrom(i) \in Int
             /\ RefundedFrom(i) <= CreditedTo(i)
  BY <1>0, RefundsWithinCredits DEF SettledBooks
<1>2. ASSUME UNCHANGED credited,
             \A p \in PaymentIds : payments'[p].refunded = payments[p].refunded
      PROVE  \A i : CreditedTo(i)' = CreditedTo(i) /\ RefundedFrom(i)' = RefundedFrom(i)
  BY <1>0, <1>2, SameCredits, SameRefunds DEF RowsKept
<1>3. \A i \in Invoices :
        /\ invoices[i].status = "none" => invoices[i].paid = 0
        /\ invoices[i].paid = CreditedTo(i) - RefundedFrom(i) + OffInvoice(r, i)
  BY DEF LedgerBooks
<1>4. CASE Calm(r) /\ req[r].pc \notin Committed
  <2>1. /\ req[r].pc \notin {"putback", "putbackWrite"}
        /\ req'[r].pc \notin {"apply", "putback", "putbackWrite"}
        /\ credited' = credited
        /\ \A i \in Invoices : /\ invoices'[i].paid = invoices[i].paid
                               /\ invoices'[i].status = "none" => invoices[i].status = "none"
    BY <1>4 DEF Calm, MoneyAt, Committed
  <2>2. \A p \in PaymentIds : payments'[p].refunded = payments[p].refunded
    BY <1>4 DEF Calm, SameMoney, BlankInv
  <2>3. \A i : CreditedTo(i)' = CreditedTo(i) /\ RefundedFrom(i)' = RefundedFrom(i)
    BY <1>2, <2>1, <2>2
  <2> QED BY <1>0, <1>3, <2>1, <2>3 DEF LedgerBooks, OffInvoice
<1>5. CASE Settle(r)
  <2>1. /\ req[r].pc = "settle" /\ req'[r].pc = "credit"
        /\ UNCHANGED <<invoices, credited>>
        /\ \A p \in PaymentIds : payments'[p].refunded = payments[p].refunded
    BY <1>5, SettleEffect
  <2>2. \A i : CreditedTo(i)' = CreditedTo(i) /\ RefundedFrom(i)' = RefundedFrom(i)
    BY <1>2, <2>1
  <2> QED BY <1>0, <1>3, <2>1, <2>2 DEF LedgerBooks, OffInvoice
<1>6. CASE CreditRead(r)
  <2>1. /\ req[r].pc = "credit" /\ req'[r].pc = "apply" /\ req'[r].pay = req[r].pay
        /\ req'[r].inv = payments[req[r].pay].inv
        /\ req'[r].seen = invoices[payments[req[r].pay].inv].paid
        /\ UNCHANGED <<invoices, payments, credited>>
    BY <1>6, CreditReadEffect
  <2>2. \A i : CreditedTo(i)' = CreditedTo(i) /\ RefundedFrom(i)' = RefundedFrom(i)
    BY <1>2, <2>1
  <2> QED BY <1>0, <1>3, <2>1, <2>2 DEF LedgerBooks, OffInvoice
<1>7. CASE CreditWrite(r)
  <2> DEFINE p == req[r].pay
  <2>1. /\ req[r].pc = "apply" /\ req'[r].pc \in {"period", "idle", "finish"}
        /\ p \in PaymentIds /\ req[r].inv \in Invoices
        /\ \A i \in Invoices :
             IF i = req[r].inv
             THEN /\ invoices'[i].paid = req[r].seen + payments[p].amount
                  /\ invoices'[i].status \in {"paid", "partially_paid"}
             ELSE invoices'[i] = invoices[i]
        /\ payments' = payments
        /\ \A x \in PaymentIds :
             credited'[x] = IF x = p THEN credited[x] + 1 ELSE credited[x]
    BY <1>7, CreditWriteEffect
  <2>2. payments[p].inv = req[r].inv /\ req[r].seen = invoices[req[r].inv].paid
    BY <2>1 DEF LedgerBooks
  <2>3. \A i : CreditedTo(i)' = CreditedTo(i) + IF payments[p].inv = i
                                                THEN payments[p].amount ELSE 0
    BY <1>0, <2>1, CreditedOnceMore
  <2>4. \A i : RefundedFrom(i)' = RefundedFrom(i)
    BY <2>1, SameRefunds
  <2>5. ASSUME NEW i \in Invoices
        PROVE  /\ invoices'[i].status = "none" => invoices'[i].paid = 0
               /\ invoices'[i].paid = CreditedTo(i)' - RefundedFrom(i)'
    <3>1. invoices[i].paid = CreditedTo(i) - RefundedFrom(i)
      BY <1>0, <1>1, <1>3, <2>1 DEF OffInvoice
    <3>2. CASE i = req[r].inv
      <4>1. /\ invoices'[i].paid = invoices[i].paid + payments[p].amount
            /\ invoices'[i].status # "none"
        BY <2>1, <2>2, <3>2
      <4>2. CreditedTo(i)' = CreditedTo(i) + payments[p].amount
        BY <2>2, <2>3, <3>2
      <4> QED BY <1>0, <1>1, <2>1, <2>4, <3>1, <4>1, <4>2
    <3>3. CASE i # req[r].inv
      <4>1. CreditedTo(i)' = CreditedTo(i)
        BY <1>1, <2>2, <2>3, <3>3
      <4> QED BY <1>3, <2>1, <2>4, <3>1, <3>3, <4>1
    <3> QED BY <3>2, <3>3
  <2>6. \A i \in Invoices : OffInvoice(r, i)' = 0
    BY <2>1 DEF OffInvoice
  <2> QED BY <1>0, <2>1, <2>5, <2>6 DEF LedgerBooks
<1>8. CASE UNCHANGED <<payments, invoices, credited>>
           /\ req[r].pc \notin {"apply", "putback", "putbackWrite"}
           /\ req'[r].pc \notin {"apply", "putback", "putbackWrite"}
  <2>1. \A i : CreditedTo(i)' = CreditedTo(i) /\ RefundedFrom(i)' = RefundedFrom(i)
    BY <1>2, <1>8
  <2> QED BY <1>0, <1>3, <1>8, <2>1 DEF LedgerBooks, OffInvoice
<1>9. CASE RefundWrite(r)
  <2> DEFINE p == req[r].pay
  <2>1. /\ req[r].pc = "refunded" /\ req'[r].pc = "putback" /\ req'[r].pay = p
        /\ req'[r].amt = req[r].amt /\ p \in PaymentIds
        /\ UNCHANGED <<invoices, credited>>
        /\ \A x \in PaymentIds :
             IF x = p
             THEN /\ payments'[x].inv = payments[x].inv
                  /\ payments'[x].amount = payments[x].amount
                  /\ payments'[x].refunded = req[r].seen + req[r].amt
             ELSE payments'[x] = payments[x]
    BY <1>9, RefundWriteEffect
  <2>2. req[r].seen = payments[p].refunded
    BY <2>1 DEF SettledBooks
  <2>3. \A x \in PaymentIds : payments[x].refunded \in Nat
    BY <1>0 DEF TypeOK, TablesType, PaymentRow
  <2>4. \A x \in PaymentIds :
          /\ payments'[x].inv = payments[x].inv
          /\ payments'[x].refunded = payments[x].refunded + IF x = p THEN req[r].amt ELSE 0
    BY <2>1, <2>2, <2>3
  <2>5. \A i : RefundedFrom(i)' = RefundedFrom(i) + IF payments[p].inv = i THEN req[r].amt ELSE 0
    BY <1>0, <2>1, <2>4, RefundedOnceMore
  <2>6. \A i : CreditedTo(i)' = CreditedTo(i)
    BY <1>0, <2>1, SameCredits DEF RowsKept
  <2>7. \A i \in Invoices : OffInvoice(r, i)' = IF payments[p].inv = i THEN req[r].amt ELSE 0
    BY <2>1 DEF OffInvoice
  <2>8. ASSUME NEW i \in Invoices
        PROVE  invoices'[i].paid = CreditedTo(i)' - RefundedFrom(i)' + OffInvoice(r, i)'
    <3>1. invoices[i].paid = CreditedTo(i) - RefundedFrom(i)
      BY <1>0, <1>1, <1>3, <2>1 DEF OffInvoice
    <3>2. CASE payments[p].inv = i
      BY <1>0, <1>1, <2>1, <2>5, <2>6, <2>7, <3>1, <3>2
    <3>3. CASE payments[p].inv # i
      BY <1>0, <1>1, <2>1, <2>5, <2>6, <2>7, <3>1, <3>3
    <3> QED BY <3>2, <3>3
  <2> QED BY <1>3, <2>1, <2>8 DEF LedgerBooks
<1>10. CASE PutBackRead(r)
  <2>1. /\ req[r].pc = "putback" /\ req'[r].pc = "putbackWrite" /\ req'[r].amt = req[r].amt
        /\ req'[r].inv = payments[req[r].pay].inv
        /\ req'[r].seen = invoices[payments[req[r].pay].inv].paid
        /\ UNCHANGED <<invoices, payments, credited>>
    BY <1>10, PutBackReadEffect
  <2>2. \A i : CreditedTo(i)' = CreditedTo(i) /\ RefundedFrom(i)' = RefundedFrom(i)
    BY <1>2, <2>1
  <2>3. \A i \in Invoices : OffInvoice(r, i)' = OffInvoice(r, i)
    BY <2>1 DEF OffInvoice
  <2> QED BY <1>3, <2>1, <2>2, <2>3 DEF LedgerBooks
<1>11. CASE PutBackWrite(r)
  <2>1. /\ req[r].pc = "putbackWrite" /\ req'[r].pc = "idle" /\ req[r].inv \in Invoices
        /\ UNCHANGED <<payments, credited>>
        /\ \A i \in Invoices :
             IF i = req[r].inv
             THEN /\ invoices'[i].paid = IF req[r].seen >= req[r].amt
                                         THEN req[r].seen - req[r].amt ELSE 0
                  /\ invoices'[i].status \in {"issued", "partially_paid"}
             ELSE invoices'[i] = invoices[i]
    BY <1>11, PutBackWriteEffect
  <2>2. \A i : CreditedTo(i)' = CreditedTo(i) /\ RefundedFrom(i)' = RefundedFrom(i)
    BY <1>2, <2>1
  <2>3. \A i \in Invoices : OffInvoice(r, i)' = 0
    BY <2>1 DEF OffInvoice
  <2>4. ASSUME NEW i \in Invoices
        PROVE  /\ invoices'[i].status = "none" => invoices'[i].paid = 0
               /\ invoices'[i].paid = CreditedTo(i) - RefundedFrom(i)
    <3>1. CASE i = req[r].inv
      <4>1. req[r].seen = CreditedTo(i) - RefundedFrom(i) + req[r].amt
        BY <1>3, <2>1, <3>1 DEF LedgerBooks, OffInvoice
      <4>2. req[r].seen >= req[r].amt /\ req[r].seen - req[r].amt = CreditedTo(i) - RefundedFrom(i)
        BY <1>0, <1>1, <4>1
      <4> QED BY <2>1, <3>1, <4>2
    <3>2. CASE i # req[r].inv
      BY <1>0, <1>1, <1>3, <2>1, <3>2 DEF OffInvoice
    <3> QED BY <3>1, <3>2
  <2>5. \A i \in Invoices : CreditedTo(i) - RefundedFrom(i) + 0 = CreditedTo(i) - RefundedFrom(i)
    BY <1>1
  <2> QED BY <2>1, <2>2, <2>3, <2>4, <2>5 DEF LedgerBooks
<1>12. CASE RefundAccepted(r) \/ \E p \in PaymentIds : RefundLoad(r, p)
  BY <1>8, <1>12, RefundAcceptedEffect, RefundLoadEffect
<1> QED
  BY <1>4, <1>5, <1>6, <1>7, <1>9, <1>10, <1>11, <1>12, HandlerCases DEF Committed

\* With one handler at a time and no crash the books are the handler's.
BooksInv ==
    /\ BlankInv
    /\ restarts = 0 => \A r \in Requests : SettledBooks(r) /\ ReturnedBooks(r) /\ LedgerBooks(r)

LEMMA HandlerBooks ==
    ASSUME OneHandler, IInv, IInv', BooksInv, NEW r \in Requests, Step(r) \/ Arrive(r)
    PROVE  BooksInv'
<1>1. BlankInv /\ BlankInv' /\ \A s \in Requests : s = r
  BY HandlerBlank DEF BooksInv, OneHandler
<1>2. restarts' = restarts
  BY DEF Step, Arrive, VoidLoad, OverdueLoad, CheckoutLoad, RecordLoad, VerifyLoad,
     RefundLoad, Deliver, DeliverAgain, Begin, Continue, Return, VoidWrite, OverdueWrite,
     CheckoutOrder, CheckoutRefused, RecordInsert, ReadReference, CheckoutInsert, Settle,
     CreditRead, CreditWrite, PeriodRead, PeriodWrite, VerifyOk, VerifyRefused,
     VerifyReject, Store, ApplyPaymentEvent, MarkFailed, MarkDisputed, Finish,
     RefundAccepted, RefundRefused, RefundWrite, PutBackRead, PutBackWrite
<1>3. ASSUME restarts' = 0 PROVE SettledBooks(r)' /\ ReturnedBooks(r)' /\ LedgerBooks(r)'
  <2>1. SettledBooks(r) /\ ReturnedBooks(r) /\ LedgerBooks(r)
    BY <1>2, <1>3 DEF BooksInv
  <2> QED BY <1>1, <2>1, HandlerSettled, HandlerReturned, HandlerLedger
<1> QED
  BY <1>1, <1>3 DEF BooksInv

\* Creating an invoice, the gateway and the operator do not disturb the books.
LEMMA EnvironmentBooks ==
    ASSUME IInv, IInv', BooksInv, Environment \/ UNCHANGED vars
    PROVE  BooksInv'
<1>0. /\ TypeOK /\ TypeOK' /\ BlankInv /\ BlankInv' /\ RowsKept
      /\ UNCHANGED <<payments, credited, returned>>
  BY EnvironmentKeeps DEF BooksInv, IInv
<1>1. SUFFICES ASSUME restarts' = 0, NEW r \in Requests
               PROVE  SettledBooks(r)' /\ ReturnedBooks(r)' /\ LedgerBooks(r)'
  BY <1>0 DEF BooksInv
<1>2. restarts \in Nat
  BY <1>0, BoundAssumption DEF TypeOK, TablesType
<1>3. ~Restart
  BY <1>1, <1>2 DEF Restart
<1>4. UNCHANGED <<req, restarts>>
  BY <1>3 DEF Environment, CreateInvoice, AdvanceFiling, GatewayCapture, GatewayIssue,
              ConfigureSecret, vars
<1>5. SettledBooks(r) /\ ReturnedBooks(r) /\ LedgerBooks(r)
  BY <1>1, <1>4 DEF BooksInv
<1>6. SettledBooks(r)' /\ ReturnedBooks(r)'
  BY <1>0, <1>4, <1>5 DEF SettledBooks, ReturnedBooks, Given
<1>7. \A i \in Invoices : /\ invoices'[i].paid = invoices[i].paid
                          /\ invoices'[i].status = "none" => invoices[i].status = "none"
  <2>1. ASSUME NEW i \in Invoices, CreateInvoice(i), NEW j \in Invoices
        PROVE  /\ invoices'[j].paid = invoices[j].paid
               /\ invoices'[j].status = "none" => invoices[j].status = "none"
    <3>1. invoices[i].status = "none" /\ invoices[i].paid = 0
      BY <1>5, <2>1 DEF CreateInvoice, LedgerBooks
    <3>2. PICK s \in {"issued", "draft"} :
            invoices' = [invoices EXCEPT ![i] = [status |-> s, paid |-> 0, due |-> Total]]
      BY <2>1 DEF CreateInvoice
    <3>3. IF j = i THEN invoices'[j].paid = 0 /\ invoices'[j].status = s
          ELSE invoices'[j] = invoices[j]
      BY <1>0, <3>2 DEF TypeOK, TablesType
    <3> QED BY <3>1, <3>3
  <2>2. CASE invoices' = invoices
    BY <2>2
  <2>3. (\E i \in Invoices : CreateInvoice(i)) \/ invoices' = invoices
    BY <1>3 DEF Environment, AdvanceFiling, GatewayCapture, GatewayIssue, ConfigureSecret,
                vars, tables
  <2> QED BY <2>1, <2>2, <2>3
<1>8. \A i : CreditedTo(i)' = CreditedTo(i) /\ RefundedFrom(i)' = RefundedFrom(i)
  BY <1>0 DEF CreditedTo, RefundedFrom
<1>9. req[r].pc \in {"apply", "putbackWrite"} => req[r].inv \in Invoices
  BY DEF IInv, SlotInv, SlotOK
<1>10. LedgerBooks(r)'
  <2>1. \A i \in Invoices : OffInvoice(r, i)' = OffInvoice(r, i)
    BY <1>0, <1>4 DEF OffInvoice
  <2> QED BY <1>0, <1>4, <1>5, <1>7, <1>8, <1>9, <2>1 DEF LedgerBooks
<1> QED
  BY <1>6, <1>10

LEMMA InitBooks == Init => BooksInv
<1> SUFFICES ASSUME Init PROVE BooksInv
  OBVIOUS
<1>1. BlankInv
  BY DEF Init, BlankInv, NoPayment
<1>2. ASSUME NEW r \in Requests PROVE req[r].pc = "idle"
  BY DEF Init, IdleRequest
<1>3. \A p \in PaymentIds : /\ payments[p].refunded = 0 /\ payments[p].status = "none"
                            /\ returned[p] = 0 /\ credited[p] = 0 /\ payments[p].amount = 0
  BY DEF Init, NoPayment
<1>4. ASSUME NEW i PROVE CreditedTo(i) = 0 /\ RefundedFrom(i) = 0
  <2> DEFINE w == Credit(payments, credited, i)
             v == Taken(payments, i)
  <2>1. \A p \in PaymentIds : w[p] = 0 /\ v[p] = 0
    BY <1>3 DEF Credit, Taken
  <2>2. w \in [PaymentIds -> Int] /\ v \in [PaymentIds -> Int]
    BY <1>3 DEF Credit, Taken
  <2>3. CreditedTo(i) = SumFunction(w) /\ RefundedFrom(i) = SumFunction(v)
    BY CreditedSum
  <2> HIDE DEF w, v
  <2> QED BY <2>1, <2>2, <2>3, PaymentIdsAssumption, SumZero
<1>5. ASSUME NEW r \in Requests PROVE SettledBooks(r) /\ ReturnedBooks(r)
  BY <1>2, <1>3 DEF SettledBooks, ReturnedBooks, Given
<1>6. ASSUME NEW r \in Requests PROVE LedgerBooks(r)
  <2>1. \A i \in Invoices : invoices[i].paid = 0
    BY DEF Init, NoInvoice
  <2>2. \A i \in Invoices : OffInvoice(r, i) = 0
    BY <1>2 DEF OffInvoice
  <2> QED BY <1>2, <1>4, <2>1, <2>2 DEF LedgerBooks
<1> QED
  BY <1>1, <1>5, <1>6 DEF BooksInv

\* With one handler at a time and until the first crash, whenever no handler is in
\* flight an invoice's amount paid is what the settlements credited less what the
\* refunds took back, and a payment row says of its refunds what the gateway gave back.
THEOREM BooksCorrect ==
    ASSUME OneHandler PROVE Spec => [](restarts = 0 => BooksAgree)
<1>1. IInv /\ IInv' /\ BooksInv /\ [Next]_vars => BooksInv'
  BY HandlerBooks, EnvironmentBooks DEF Next
<1>2. IInv /\ BooksInv => (restarts = 0 => BooksAgree)
  <2> SUFFICES ASSUME IInv, BooksInv, restarts = 0, \A r \in Requests : At(r, "idle")
               PROVE  /\ \A i \in Invoices : invoices[i].paid = CreditedTo(i) - RefundedFrom(i)
                      /\ \A p \in PaymentIds :
                           payments[p].online => payments[p].refunded = returned[p]
    BY DEF BooksAgree, LedgerAgrees, RefundsAgree
  <2>1. PICK r \in Requests : TRUE
    BY DEF OneHandler
  <2>2. req[r].pc = "idle" /\ ReturnedBooks(r) /\ LedgerBooks(r) /\ SettledBooks(r)
    BY DEF BooksInv, At
  <2>3. /\ TypeOK /\ RowInv
        /\ \A p \in PaymentIds : payments[p].refunded \in Nat
    BY DEF IInv, TypeOK, TablesType, PaymentRow
  <2>4. \A i : CreditedTo(i) \in Int /\ RefundedFrom(i) \in Int
    BY <2>2, <2>3, RefundsWithinCredits DEF SettledBooks
  <2>5. \A i \in Invoices : invoices[i].paid = CreditedTo(i) - RefundedFrom(i)
    BY <2>2, <2>4 DEF LedgerBooks, OffInvoice
  <2>6. \A p \in PaymentIds : payments[p].online => payments[p].refunded = returned[p]
    BY <2>2, <2>3 DEF ReturnedBooks, Given
  <2> QED BY <2>5, <2>6
<1> QED
  BY <1>1, <1>2, InitBooks, Invariance, PTL DEF Spec

=============================================================================
