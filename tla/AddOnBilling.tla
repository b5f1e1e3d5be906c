---------------------------- MODULE AddOnBilling ----------------------------
(***************************************************************************)
(* The add-ons of one organisation (modules/addons.js) and the payments    *)
(* the platform records against one of its invoices (modules/platform.js). *)
(* Every add-on of the model has a setup fee; the caller has acknowledged  *)
(* it.  A row of add_on_subscriptions is unique per add-on.                *)
(***************************************************************************)
EXTENDS Handlers

CONSTANTS
    AddOns,         \* the add-ons of the catalogue
    BillTotal       \* the total of the platform's invoice

ASSUME AddOnConstants == IsFiniteSet(AddOns) /\ BillTotal \in Nat \ {0}

VARIABLES
    addons,         \* add_on_subscriptions, per add-on
    fees,           \* history: invoices that carry the add-on's setup fee
    bill            \* the platform's invoice, and the sum of its payments rows

addOnBilling == <<addons, fees, bill>>
addOnVars == <<server, addOnBilling>>

AddOnInit ==
    /\ addons = [a \in AddOns |-> [status |-> "none", charged |-> FALSE]]
    /\ fees = [a \in AddOns |-> 0]
    /\ bill = [paid |-> 0, status |-> "issued", recorded |-> 0]

\* features.js: what the active add-ons unlock, whatever the subscription says.
Unlocked == {a \in AddOns : addons[a].status = "active"}

\* POST /:key/activate reads the row; one that is active is refused.  The row
\* read decides whether the setup fee is due.
Activate(r, a) ==
    /\ a \notin Unlocked
    /\ Begin(r, [pc |-> "activate", addon |-> a, seen |-> addons[a], rest |-> {},
                 items |-> {}])
    /\ UNCHANGED addOnBilling

\* The insert or update of the row.  A row inserted meanwhile is a conflict: the
\* handler throws, and its invoice is never raised.
WriteActivated(r) ==
    LET a == req[r].addon
        seen == req[r].seen
        items == IF seen.charged THEN req[r].items ELSE req[r].items \cup {a}
    IN
    /\ At(r, "activate")
    /\ IF seen.status = "none" /\ addons[a].status # "none"
       THEN Return(r) /\ UNCHANGED addons
       ELSE /\ addons' = [addons EXCEPT ![a] = [status |-> "active", charged |-> TRUE]]
            /\ Continue(r, [pc |-> IF req[r].rest = {} THEN "invoice" ELSE "bundle",
                            rest |-> req[r].rest, items |-> items])
    /\ UNCHANGED <<fees, bill>>

\* POST /bundles/:plan runs the same statements for each add-on of the bundle,
\* skips the active ones, and raises one invoice at the end.
ActivateBundle(r) ==
    /\ Begin(r, [pc |-> "bundle", rest |-> AddOns, items |-> {}])
    /\ UNCHANGED addOnBilling

NextOfBundle(r, a) ==
    /\ At(r, "bundle") /\ a \in req[r].rest
    /\ LET rest == req[r].rest \ {a} IN
       Continue(r,
         IF a \notin Unlocked
         THEN [pc |-> "activate", addon |-> a, seen |-> addons[a], rest |-> rest,
               items |-> req[r].items]
         ELSE [pc |-> IF rest = {} THEN "invoice" ELSE "bundle", rest |-> rest,
               items |-> req[r].items])
    /\ UNCHANGED addOnBilling

\* createInvoice, with the setup fees that were due.
RaiseInvoice(r) ==
    /\ At(r, "invoice")
    /\ fees' = [a \in AddOns |-> fees[a] + (IF a \in req[r].items THEN 1 ELSE 0)]
    /\ Return(r)
    /\ UNCHANGED <<addons, bill>>

\* POST /:key/deactivate: immediate or not, the row is cancelled.
Deactivate(r, a) ==
    /\ a \in Unlocked
    /\ Begin(r, [pc |-> "deactivate", addon |-> a])
    /\ UNCHANGED addOnBilling

\* Mutant: the row forgets that the setup fee was charged.
WriteDeactivatedAnew(r) ==
    /\ At(r, "deactivate")
    /\ addons' = [addons EXCEPT ![req[r].addon] = [status |-> "cancelled", charged |-> FALSE]]
    /\ Return(r)
    /\ UNCHANGED <<fees, bill>>

WriteDeactivated(r) ==
    /\ At(r, "deactivate")
    /\ addons' = [addons EXCEPT ![req[r].addon].status = "cancelled"]
    /\ Return(r)
    /\ UNCHANGED <<fees, bill>>

\* POST /tenants/:id/payments of the platform: the payment is inserted, then what
\* the invoice was read to hold is written back with the amount added.
RecordPlatformPayment(r, amount) ==
    /\ bill.recorded <= BillTotal
    /\ Begin(r, [pc |-> "credit", amount |-> amount, paid |-> bill.paid])
    /\ bill' = [bill EXCEPT !.recorded = @ + amount]
    /\ UNCHANGED <<addons, fees>>

CreditBill(r) ==
    LET paid == req[r].paid + req[r].amount IN
    /\ At(r, "credit")
    /\ bill' = [bill EXCEPT !.paid = paid,
                            !.status = IF paid >= BillTotal THEN "paid" ELSE "partially_paid"]
    /\ Return(r)
    /\ UNCHANGED <<addons, fees>>

AddOnStep(r) ==
    \/ WriteActivated(r)
    \/ \E a \in AddOns : NextOfBundle(r, a)
    \/ RaiseInvoice(r)
    \/ WriteDeactivated(r)
    \/ CreditBill(r)

AddOnNext ==
    \/ \E r \in Requests :
          \/ \E a \in AddOns : Activate(r, a) \/ Deactivate(r, a)
          \/ ActivateBundle(r)
          \/ \E amount \in 1..BillTotal : RecordPlatformPayment(r, amount)
          \/ AddOnStep(r)
    \/ Restart /\ UNCHANGED addOnBilling

AddOnTypeOK ==
    /\ addons \in [AddOns -> [status : {"none", "active", "cancelled"}, charged : BOOLEAN]]
    /\ fees \in [AddOns -> Nat]
    /\ bill \in [paid : Nat, status : {"issued", "partially_paid", "paid"}, recorded : Nat]

\* addons.js: "The setup fee is charged once, ever".  However activations,
\* bundles, deactivations and restarts overlap, no add-on's fee is put on two
\* invoices.
SetupFeeAtMostOnce == \A a \in AddOns : fees[a] <= 1

\* The platform's invoice shows the sum of the payments recorded against it, and
\* is paid exactly when that covers it.  Claimed while no two handlers have
\* overlapped: the handler writes back what it read.
BillAgrees ==
    ~overlapped /\ Quiescent =>
      /\ bill.paid = bill.recorded
      /\ bill.status = "paid" <=> bill.recorded >= BillTotal
=============================================================================
