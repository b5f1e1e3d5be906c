---------------------------- MODULE Subscription ----------------------------
(***************************************************************************)
(* The subscription of one organisation: what the organisation does to it  *)
(* (modules/billing.js, modules/users.js), what the platform does to it    *)
(* (modules/platform.js), the daily job that ends and renews it            *)
(* (services/scheduler.js), and what it entitles to (services/features.js).*)
(*                                                                         *)
(* Provisioning inserts one subscriptions row per organisation and no code *)
(* deletes it, so sub is that row.  Time is counted in units; every date   *)
(* column is a time, and 0 is NULL.                                        *)
(***************************************************************************)
EXTENDS Handlers, Integers

CONSTANTS
    Plans,          \* the plans on sale
    FreePlan,       \* the plan without a price, Basic
    Month, Year,    \* lengths of the two billing cycles
    Grace,          \* the grace window of scheduler.js, 7 days
    MaxTime,        \* bound: time the model runs for
    MaxMembers      \* bound: users of the organisation

ASSUME SubscriptionConstants ==
    /\ FreePlan \in Plans
    /\ Month \in Nat \ {0} /\ Year \in Nat \ {0} /\ Grace \in Nat \ {0}
    /\ MaxTime \in Nat \ {0} /\ MaxMembers \in Nat \ {0}

VARIABLES
    now,            \* the clock
    sub,            \* the subscriptions row
    limit,          \* plans.max_users, per plan; -1 is unlimited
    members,        \* users counted by liveUsage: active and invited
    shrunk,         \* history: the limit in force fell by something else than a choice
    sold            \* history: the limit of the plan when it was last chosen

org == <<sub, limit, members>>
subHistory == <<shrunk, sold>>
subscription == <<now, org, subHistory>>

SubStatus == {"trialing", "active", "past_due", "paused", "cancelled", "expired"}

\* The limit of an organisation without a live subscription.
DefaultLimit == 1

\* getEntitlements: the plan counts while the row is trialing, active or past
\* due; otherwise the organisation is on Basic with the built-in limits.
Entitled == sub.status \in {"trialing", "active", "past_due"}
Limit == IF Entitled THEN limit[sub.plan] ELSE DefaultLimit
Within(n, max) == max < 0 \/ n <= max

CycleLength(cycle) == IF cycle = "yearly" THEN Year ELSE Month

SubscriptionInit ==
    /\ now = 1
    /\ \E p \in Plans :
          sub = [plan |-> p, status |-> IF p = FreePlan THEN "active" ELSE "trialing",
                 cycle |-> "monthly", end |-> now + Month,
                 trial |-> IF p = FreePlan THEN 0 ELSE now + 1,
                 grace |-> 0, auto |-> TRUE, cancelAtEnd |-> FALSE]
    /\ limit = [p \in Plans |-> IF p = FreePlan THEN 1 ELSE 2]
    /\ members = 1
    /\ shrunk = FALSE /\ sold = limit[sub.plan]

DaysPass ==
    /\ now < MaxTime
    /\ now' = now + 1
    /\ UNCHANGED <<server, org, subHistory>>

-----------------------------------------------------------------------------
\* Writing the row.  Each handler below reads, decides on a patch, and writes it
\* in a later statement.

Write(patch, op, next) == [pc |-> "update", patch |-> patch, op |-> op, next |-> next]

\* shrunk remembers that the limit in force fell although nobody of the
\* organisation chose a plan; a chosen plan wipes it out.
Shrinks(op) == IF op = "choose" THEN FALSE
               ELSE shrunk \/ ~Within(members', Limit')

UpdateSubscription(r) ==
    /\ At(r, "update")
    /\ sub' = Update(sub, req[r].patch)
    /\ Continue(r, IF req[r].next = "idle" THEN Idle ELSE [pc |-> req[r].next])
    /\ UNCHANGED <<now, limit, members>>
    /\ shrunk' = Shrinks(req[r].op)
    /\ sold' = IF req[r].op \in {"choose", "platform"} THEN limit[sub'.plan] ELSE sold

-----------------------------------------------------------------------------
\* The organisation's own routes.

\* POST /subscription/change-plan.  A plan smaller than what is in use is
\* refused.  The patch leaves auto_renew, cancel_at_period_end, trial_ends_at
\* and grace_until as they are.  The invoice of a paid plan is in Payments.
ChangePlan(r, p, cycle) ==
    /\ Within(members, limit[p])
    /\ Begin(r, Write([plan |-> p, cycle |-> cycle, status |-> "active",
                       end |-> now + CycleLength(cycle)],
                      "choose", "idle"))
    /\ UNCHANGED subscription

\* POST /subscription/cancel writes back the status it read.
Cancel(r, immediate) ==
    /\ Begin(r, Write([status |-> IF immediate THEN "cancelled" ELSE sub.status,
                       cancelAtEnd |-> ~immediate, auto |-> FALSE],
                      "cancel", "idle"))
    /\ UNCHANGED subscription

\* POST /subscription/resume.
Resume(r) ==
    /\ sub.status # "cancelled" /\ sub.cancelAtEnd
    /\ Begin(r, Write([cancelAtEnd |-> FALSE, auto |-> TRUE], "resume", "idle"))
    /\ UNCHANGED subscription

\* POST /users: the limit is checked, then the row is inserted.
CreateUser(r) ==
    /\ members < MaxMembers
    /\ Within(members + 1, Limit)
    /\ Begin(r, [pc |-> "insertUser"])
    /\ UNCHANGED subscription

InsertUser(r) ==
    /\ At(r, "insertUser")
    /\ members < MaxMembers
    /\ members' = members + 1
    /\ Return(r)
    /\ UNCHANGED <<now, sub, limit, subHistory>>

-----------------------------------------------------------------------------
\* The platform's routes.

\* POST /tenants/:id/plan.  Limits are reported, not enforced.
PlatformPlan(r, p, trial) ==
    /\ Begin(r, Write([plan |-> p, status |-> IF trial THEN "trialing" ELSE "active",
                       trial |-> IF trial THEN now + 1 ELSE 0, grace |-> 0,
                       end |-> now + Month],
                      "platform", "idle"))
    /\ UNCHANGED subscription

\* PATCH /tenants/:id/subscription, one of its five fields at a time.
Later(t) == IF t > now THEN t ELSE now
Adjustments ==
    {[end |-> Later(sub.end) + 1]} \cup
    {[trial |-> now + 1, status |-> "trialing"]} \cup
    {[grace |-> g] : g \in {0, now + 1}} \cup
    {[status |-> s] : s \in SubStatus \ {sub.status}}

Adjust(r) ==
    /\ \E patch \in Adjustments : Begin(r, Write(patch, "adjust", "idle"))
    /\ UNCHANGED subscription

\* PATCH /plans/:key changes the limit every subscriber of the plan is held to.
EditPlan(r, p, n) ==
    /\ limit[p] # n
    /\ limit' = [limit EXCEPT ![p] = n]
    /\ Begin(r, Idle)
    /\ UNCHANGED <<now, sub, members, sold>>
    /\ shrunk' = Shrinks("edit")

-----------------------------------------------------------------------------
\* The daily job, flagSubscriptionRenewals: four queries, each followed by the
\* updates of what it found.  Reminders change nothing here.

Stages == {"lapsed", "trials", "grace", "renewing"}
NextStage(stage) == CASE stage = "lapsed" -> "trials"
                      [] stage = "trials" -> "grace"
                      [] stage = "grace"  -> "renewing"
                      [] OTHER            -> "idle"

Due(stage) ==
    CASE stage = "lapsed"   -> sub.status \in {"active", "trialing"} /\ sub.end < now /\ ~sub.auto
      [] stage = "trials"   -> sub.status = "trialing" /\ sub.trial # 0 /\ sub.trial < now
      [] stage = "grace"    -> sub.status = "past_due" /\ sub.grace # 0 /\ sub.grace < now
      [] stage = "renewing" -> sub.status = "active" /\ sub.auto /\ sub.end < now

Outcome(stage) ==
    CASE stage \in {"lapsed", "grace"} -> [status |-> "expired"]
      [] stage = "trials"   -> [status |-> "past_due", grace |-> now + Grace]
      [] stage = "renewing" -> [end |-> sub.end + Month]

FlagRenewals(r) ==
    /\ Fire(r, [pc |-> "lapsed"])
    /\ UNCHANGED subscription

\* Mutant: what the query finds is not asked for.
SelectAny(r, stage) ==
    /\ At(r, stage)
    /\ Continue(r, Write(Outcome(stage), "job", NextStage(stage)))
    /\ UNCHANGED subscription

SelectDue(r, stage) ==
    /\ At(r, stage)
    /\ Continue(r, IF Due(stage) THEN Write(Outcome(stage), "job", NextStage(stage))
                   ELSE IF NextStage(stage) = "idle" THEN Idle
                   ELSE [pc |-> NextStage(stage)])
    /\ UNCHANGED subscription

-----------------------------------------------------------------------------
SubscriptionStep(r) ==
    \/ UpdateSubscription(r)
    \/ InsertUser(r)
    \/ \E stage \in Stages : SelectDue(r, stage)

SubscriptionRequest(r) ==
    \/ \E p \in Plans, cycle \in {"monthly", "yearly"} : ChangePlan(r, p, cycle)
    \/ \E immediate \in BOOLEAN : Cancel(r, immediate)
    \/ Resume(r)
    \/ CreateUser(r)
    \/ \E p \in Plans, trial \in BOOLEAN : PlatformPlan(r, p, trial)
    \/ Adjust(r)
    \/ \E p \in Plans, n \in {-1, 1} : EditPlan(r, p, n)
    \/ FlagRenewals(r)

SubscriptionNext ==
    \/ DaysPass
    \/ \E r \in Requests : SubscriptionRequest(r) \/ SubscriptionStep(r)
    \/ Restart /\ UNCHANGED subscription

subVars == <<server, subscription>>

\* A start with any slots, any number of requests and of restarts.
SubscriptionSpec ==
    /\ \E slots \in SUBSET Requests, requests, stops \in Nat : ServerInit(slots, requests, stops)
    /\ SubscriptionInit
    /\ [][SubscriptionNext]_subVars

SubscriptionTypeOK ==
    /\ now \in 1..MaxTime
    /\ sub \in [plan : Plans, status : SubStatus, cycle : {"monthly", "yearly"},
                end : Nat, trial : Nat, grace : Nat, auto : BOOLEAN,
                cancelAtEnd : BOOLEAN]
    /\ limit \in [Plans -> Int] /\ members \in 0..MaxMembers
    /\ shrunk \in BOOLEAN /\ sold \in Int

\* The job ends or renews only what is due when it writes: an organisation that
\* chose a plan or resumed is not expired, one that cancelled is not renewed.
\* Claimed while no two handlers have overlapped: the job writes what an earlier
\* query selected.
JobActsOnWhatIsDue ==
    [][\A r \in Requests :
         At(r, "update") /\ req'[r] # req[r] /\ ~overlapped' /\ req[r].op = "job"
           => \E stage \in Stages : Due(stage) /\ DOMAIN req[r].patch = DOMAIN Outcome(stage)]_subVars

\* More users than the limit in force is never the result of a plan the
\* organisation chose or a user it added: somebody else, or an ended
\* subscription, shrank the limit.  Claimed while no two handlers have overlapped.
OverLimitIsImposed == ~overlapped => Within(members, Limit) \/ shrunk

\* The daily job deals with a trial that has ended and with a grace window that
\* has run out: neither keeps the organisation entitled for good.
TrialsAndGraceEnd ==
    /\ Due("trials") ~> ~Due("trials")
    /\ Due("grace") ~> ~Due("grace")

\* platform.js:877: "Existing subscriptions keep the limits they were sold.
\* Changing a plan must not silently shrink an organisation that already paid
\* for more."
KeepsTheLimitSold == Entitled => limit[sub.plan] = sold

\* The daily job does what is due, all of it and nothing else.
DailyJobDoesItsWork == JobActsOnWhatIsDue /\ TrialsAndGraceEnd
=============================================================================
