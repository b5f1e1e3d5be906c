----------------------------- MODULE MC_Surface -----------------------------
(***************************************************************************)
(* What the product shows, takes in and works out, for TLC: which rows a   *)
(* person is shown, which screens and controls the browser offers them,    *)
(* what providers and forms send in, and the tax of one client.  A         *)
(* behaviour follows one of the four, named by focus, and the tables of    *)
(* the others stay as they were first.                                     *)
(***************************************************************************)
EXTENDS Visibility, Browsing, Webhooks, TaxEngine

VARIABLE focus

surfaceVars == <<server, focus, visibility, browsing, webhooks, tax>>

One == {CHOOSE r \in Requests : TRUE}

\* Everybody who holds one role, the Super Admin inside and outside an
\* organisation, and somebody who holds two.
Staffing ==
    {<<{role}, role # "super_admin">> : role \in RoleKeys}
        \cup {<<{"super_admin"}, TRUE>>, <<{"finance_executive", "auditor"}, TRUE>>}

\* A sale on a document with cess, a supply taxed by its place, a purchase from
\* another state and an exempt sale.
Line(doc, direction, supply, place, taxable, cessPct) ==
    [doc |-> doc, direction |-> direction, supply |-> supply, place |-> place,
     taxable |-> taxable, rate |-> 18, cessPct |-> cessPct, itc |-> TRUE]
SalesAndPurchases ==
    {Line("bill", "outward", "intra", "33", 25, 12), Line(None, "outward", "rcm", "29", 5, 0),
     Line(None, "inward", "inter", "29", 25, 0), Line(None, "outward", "exempt", "33", 25, 12)}
Fixes == {"taxable" :> 5, "rate" :> 0, "place" :> "29", "itc" :> FALSE, "cessPct" :> 12}

\* Fees of one deductee below, across and beyond the threshold of 30, the last in
\* the next quarter, and a contractor with neither PAN nor day.
Fee(of, doc, section, pan, date, amount) ==
    [of |-> of, doc |-> doc, section |-> section, payee |-> "company", pan |-> pan,
     name |-> "ravi", date |-> date, amount |-> amount, deposited |-> 0]
Fees ==
    {Fee("q1", None, "194J", "pan", 1, 20), Fee("q1", "bill", "194J", "pan", 2, 40),
     Fee("q1", None, "194J", "pan", 3, 20), Fee("q2", None, "194J", "pan", 4, 20),
     Fee("q1", None, "194C", None, 0, 20)}
QuarterEnds == [q1 |-> 3, q2 |-> 6]

Rule(code, own, from, rate, threshold) ==
    [code |-> code, own |-> own, from |-> from, to |-> 9, rate |-> rate,
     threshold |-> threshold, verified |-> TRUE]
RateBook == {Rule("194J", FALSE, 0, 10, 30), Rule("194C_CO", FALSE, 0, 2, 30)}
OwnRates == {Rule("194J", TRUE, 3, 5, 0)}
RateChanges == {"verified" :> FALSE, "rate" :> 20}

\* The record, the caller, the account, the secret and the state that stand still.
AtRest ==
    /\ focus # "visibility" =>
         /\ caller.roles = {"accountant"} /\ row.kind = "task"
         /\ \A k \in people.assigned \cup {row.client} : k = CHOOSE c \in Customers : TRUE
    /\ focus # "browsing" => account.roles = {"accountant"} /\ account.features = {}
    /\ focus # "webhooks" => secret
    /\ focus # "tax" => home = "33"

Init ==
    /\ \/ focus = "visibility" /\ ServerInit({}, 0, 0)
       \/ focus = "browsing" /\ ServerInit({}, 0, 0)
       \/ focus = "webhooks" /\ (ServerInit(One, 3, 1) \/ ServerInit(Requests, 2, 1))
       \/ focus = "tax" /\ ServerInit(One, 6, 0)
    /\ VisibilityInit
    /\ BrowsingInit
    /\ HookInit
    /\ TaxInit
    /\ AtRest

On(f, action) ==
    /\ focus = f /\ action
    /\ f # "visibility" => UNCHANGED visibility
    /\ f # "browsing" => UNCHANGED browsing
    /\ f # "webhooks" => UNCHANGED webhooks
    /\ f # "tax" => UNCHANGED tax
    /\ UNCHANGED focus

Next ==
    \/ On("visibility", VisibilityNext)
    \/ On("browsing", BrowsingNext)
    \/ On("webhooks", HookNext)
    \/ On("tax", TaxNext)

Spec == Init /\ [][Next]_surfaceVars

=============================================================================
