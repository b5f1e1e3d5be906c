---------------------------- MODULE MC_Accounts -----------------------------
(***************************************************************************)
(* Signing in, the access of people, the subscription and the add-ons of   *)
(* one organisation, for TLC.  They meet in tables only at the edges, so a *)
(* behaviour follows the handlers of one of them, named by focus, and the  *)
(* tables of the others stay as they were first.                           *)
(***************************************************************************)
EXTENDS SignIn, Access, Subscription, AddOnBilling

VARIABLE focus

accountsVars == <<server, focus, signIn, access, subscription, addOnBilling>>

One == {CHOOSE r \in Requests : TRUE}

\* One handler at a time over a longer time, or two that overlap over a shorter.
Init ==
    /\ \/ focus = "signIn" /\ ServerInit(One, 3, 1)
       \/ focus = "access" /\ ServerInit(One, 4, 0)
       \/ focus = "subscription" /\ (ServerInit(One, 2, 1) \/ ServerInit(Requests, 1, 0))
       \/ focus = "addOns" /\ ServerInit(Requests, 4, 1)
    /\ SignInInit /\ (focus # "signIn" => ~account.twofa)
    /\ AccessInit /\ (focus # "access" => \A p \in People : Admin \in people[p].roles)
    /\ SubscriptionInit /\ (focus # "subscription" => sub.plan = FreePlan)
    /\ AddOnInit

On(f, action) ==
    /\ focus = f /\ action
    /\ f # "signIn" => UNCHANGED signIn
    /\ f # "access" => UNCHANGED access
    /\ f # "subscription" => UNCHANGED subscription
    /\ f # "addOns" => UNCHANGED addOnBilling
    /\ UNCHANGED focus

Next ==
    \/ On("signIn", SignInNext)
    \/ On("access", AccessNext)
    \/ On("subscription", SubscriptionNext)
    \/ On("addOns", AddOnNext)

\* Handlers run on to their end, and node-cron fires the daily job every day.
Fairness ==
    /\ \A r \in Requests : WF_accountsVars(On("subscription", SubscriptionStep(r)))
    /\ WF_accountsVars(On("subscription", \E r \in Requests : FlagRenewals(r)))

Spec == Init /\ [][Next]_accountsVars /\ Fairness

\* The same from a start with any slots, any number of requests and of restarts.
AccountsSpec ==
    /\ \E slots \in SUBSET Requests, requests, stops \in Nat : ServerInit(slots, requests, stops)
    /\ focus \in {"signIn", "access", "subscription", "addOns"}
    /\ SignInInit /\ AccessInit /\ SubscriptionInit /\ AddOnInit
    /\ [][Next]_accountsVars

\* Money of the organisation itself: a limit is exceeded only when somebody else shrank
\* it, a setup fee is charged once, and the platform's invoice shows what was paid on it.
BillingHolds ==
    /\ SubscriptionTypeOK
    /\ AddOnTypeOK
    /\ OverLimitIsImposed
    /\ SetupFeeAtMostOnce
    /\ BillAgrees

=============================================================================
