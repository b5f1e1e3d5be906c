------------------------------ MODULE Browsing ------------------------------
(***************************************************************************)
(* One person in the browser application: the sidebar the server builds    *)
(* from roles, permissions and plan; the copy of them the browser keeps    *)
(* after /auth/me; the router, which may have several screens loading; and *)
(* what an administrator, the clock or the plan changes meanwhile.         *)
(***************************************************************************)
EXTENDS Screens

CONSTANTS
    Accounts,       \* <<roles, has an organisation>> of the people looked at
    Exceptions,     \* permissions an administrator grants or takes away singly
    PlanFeatures,   \* features the larger plan adds
    MaxMoves        \* bound: moves of the person and of the others

\* Everybody holds a role, and the wildcard is not a permission of the catalogue
\* that overrides are checked against (users.js).
ASSUME BrowsingConstants ==
    /\ Accounts \subseteq ((SUBSET RoleKeys) \ {{}}) \X BOOLEAN
    /\ Everything \notin Exceptions

VARIABLES
    account,        \* the server's tables: roles, overrides, plan, and whether the session row lives
    held,           \* the browser's session state, as the last /auth/me gave it
    me,             \* an /auth/me answer on its way
    page,           \* what is in the outlet
    url,            \* the address bar
    ticket,         \* the router's ticket
    loads,          \* screens loading: ticket and route
    era,            \* history: which of the person's sessions this is
    drifted,        \* history: the account changed after the copy was taken, and the session lives on
    late,           \* history: an /auth/me answer was applied after its session was gone
    moves           \* bound

browsing == <<account, held, me, page, url, ticket, loads, era, drifted, late, moves>>
browsingVars == <<server, browsing>>

----------------------------------------------------------------------------
\* The server.

\* identity.js: roles grant, single overrides add and take away.
Effective(a) == (PermissionsForRoles(a.roles) \cup a.granted) \ a.denied

Allowed(permissions, anyOf) == anyOf = {} \/ \E p \in anyOf : Covers(permissions, p)

\* authorize, for a call of a live session.
Admits(a, call) == Allowed(Effective(a), DemandOf(call))

\* An entry of the sidebar: where it leads and which permissions open it.
Item(key, path, anyOf) == [key |-> key, path |-> path, anyOf |-> anyOf, feature |-> None, roles |-> {}]
Locked(feature, item) == [item EXCEPT !.feature = feature]
Among(roles, item) == [item EXCEPT !.roles = roles]

Nav ==
    [platform |-> {
        Item("platform_dashboard", "/admin/dashboard", {"platform.analytics"}),
        Item("organisations", "/platform/organisations", {"tenants.view"}),
        Locked("franchise", Item("franchises", "/platform/franchises", {"franchises.view"})),
        Item("plans", "/platform/plans", {"plans.manage"}),
        Item("platform_revenue", "/platform/revenue", {"platform.analytics"}),
        Item("system_logs", "/platform/logs", {"platform.logs.view"})},
     workspace |-> {
        Among({"super_admin", "admin"}, Item("dashboard", "/admin/dashboard", {"platform.analytics", "analytics.view"})),
        Item("companies", "/companies", {"companies.view"}),
        Item("users_roles", "/settings/users", {"users.view"}),
        Item("subscriptions", "/billing/subscription", {"billing.view"}),
        Item("payments", "/billing/payments", {"payments.view"}),
        Item("analytics", "/analytics", {"analytics.view"}),
        Locked("audit_logs", Item("audit_logs", "/audit", {"audit.view"})),
        Item("backup", "/settings/backup", {"backup.view"})},
     finance |-> {
        Among({"finance_executive", "accountant"}, Item("finance_dashboard", "/finance/dashboard", {"documents.verify", "tax.calculate"})),
        Item("clients", "/clients", {"clients.view", "clients.view.assigned"}),
        Item("verification", "/verification", {"documents.verify"}),
        Item("tax", "/tax", {"tax.view"}),
        Item("reconciliation", "/tax/reconciliation", {"tax.reconcile"}),
        Item("tasks", "/tasks", {"tasks.view"}),
        Item("reports", "/reports", {"reports.view", "reports.view.own"}),
        Item("activity", "/activity", {"clients.view", "clients.view.assigned"})},
     manager |-> {
        Among({"finance_manager"}, Item("manager_dashboard", "/manager/dashboard", {"approvals.view"})),
        Item("approvals", "/approvals", {"approvals.view"}),
        Among({"finance_manager", "admin", "super_admin"}, Item("team", "/team", {"users.view"})),
        Among({"finance_manager", "admin", "super_admin"}, Item("performance", "/team/performance", {"analytics.view"})),
        Among({"finance_manager", "admin", "super_admin"}, Item("revenue", "/billing/payments", {"billing.view"}))},
     client |-> {
        Item("client_dashboard", "/client/dashboard", {"portal.access"}),
        Item("upload", "/client/upload", {"documents.upload"}),
        Item("filing_status", "/client/filings", {"portal.access"}),
        Item("client_queries", "/client/queries", {"queries.view.own"}),
        Item("client_reports", "/client/reports", {"reports.view.own"}),
        Item("client_payments", "/client/payments", {"payments.view"}),
        Item("client_invoices", "/client/invoices", {"invoices.view.own"}),
        Item("client_support", "/support", {"support.view.own", "support.view"})},
     auditor |-> {
        Among({"auditor"}, Item("auditor_dashboard", "/auditor/dashboard", {"audit.view"})),
        Among({"auditor"}, Item("verified_docs", "/documents", {"documents.view"})),
        Among({"auditor"}, Item("auditor_logs", "/audit", {"audit.view"})),
        Among({"auditor"}, Item("auditor_reports", "/reports", {"reports.view"}))},
     communication |-> {
        Locked("cloud_telephony", Item("calls", "/calls", {"calls.view", "calls.view.own"})),
        Locked("whatsapp_integration", Item("inbox", "/messaging/inbox", {"messaging.view"})),
        Locked("email_automation", Item("automation", "/automation", {"automation.manage"})),
        Locked("meta_lead_ads", Item("leads", "/leads", {"leads.view"})),
        Locked("voice_notes", Item("voice_notes", "/voice-notes", {"voicenotes.create"})),
        Locked("calendar_sync", Item("calendar", "/calendar", {"tasks.view"})),
        Item("support", "/support", {"support.view"})},
     intelligence |-> {
        Locked("ai_tax_assistant", Item("ai_assistant", "/ai/assistant", {"ai.assistant"})),
        Locked("ai_business_insights", Item("ai_insights", "/ai/insights", {"ai.insights"})),
        Locked("ocr_ai", Item("ai_ocr", "/ai/ocr", {"ai.ocr"})),
        Locked("advanced_reports", Item("report_builder", "/analytics/builder", {"analytics.build"}))},
     field |-> {
        Locked("gps_attendance", Item("attendance", "/attendance", {"attendance.self", "attendance.view"}))},
     configure |-> {
        Item("marketplace", "/marketplace", {"addons.view"}),
        Item("integrations", "/settings/integrations", {"integrations.view"}),
        Locked("white_label", Item("branding", "/settings/branding", {"whitelabel.manage"})),
        Locked("multi_branch", Item("branches", "/settings/branches", {"branches.view"})),
        Locked("api_access", Item("api", "/settings/api", {"api.view"})),
        Item("security", "/settings/security", {"security.view"}),
        Item("settings", "/settings", {"settings.view"})}]

PrimaryRole(roles) ==
    LET strength == <<"super_admin", "admin", "finance_manager", "finance_executive", "accountant", "auditor">>
        among == {i \in 1..6 : strength[i] \in roles}
    IN IF among = {} THEN "client" ELSE strength[CHOOSE i \in among : \A j \in among : i <= j]

GroupOrder ==
    LET everyday == {"communication", "intelligence", "configure"}
    IN [super_admin |-> everyday \cup {"platform", "workspace", "finance", "field"},
        admin |-> everyday \cup {"workspace", "finance", "manager", "field"},
        finance_manager |-> everyday \cup {"manager", "finance", "field"},
        finance_executive |-> everyday \cup {"finance", "field"},
        accountant |-> everyday \cup {"finance"},
        auditor |-> {"auditor", "configure"},
        client |-> {"client", "communication", "configure"}]

\* Mutant: only the role decides what is shown.
NavigationByRole(copy) ==
    LET groups == IF copy.tenant THEN GroupOrder[PrimaryRole(copy.roles)] ELSE {"platform"}
    IN {item \in UNION {Nav[g] : g \in groups} : item.roles = {} \/ item.roles \cap copy.roles # {}}

\* itemAllowed and navigationFor: an item outside the plan stays, with a lock on
\* it; the link under the lock is the same (shell.js, navItem).
NavigationFor(copy) ==
    LET groups == IF copy.tenant THEN GroupOrder[PrimaryRole(copy.roles)] ELSE {"platform"}
    IN {item \in UNION {Nav[g] : g \in groups} :
           /\ item.roles = {} \/ item.roles \cap copy.roles # {}
           /\ Allowed(copy.permissions, item.anyOf)}

----------------------------------------------------------------------------
\* The browser's copy.

NoOne == [user |-> FALSE, roles |-> {}, permissions |-> {}, features |-> {}, tenant |-> FALSE]

\* What /auth/me answers, and session.apply keeps.
Copy(a) == [user |-> TRUE, roles |-> a.roles, permissions |-> Effective(a), features |-> a.features,
            tenant |-> a.tenant]

Shown(item) ==
    /\ Allowed(held.permissions, item.gate)
    /\ item.staff => "client" \notin held.roles
    /\ item.feature # None => item.feature \in held.features

OffersOn(route) == {o \in ScreenAt(route).offers : Shown(o)}

\* The reads a screen makes for this person.
Reads(route) == ScreenAt(route).must \cup {a.call : a \in {b \in ScreenAt(route).may : Shown(b)}}

\* PLATFORM_OWNER_PATHS, of the routes there are.
PlatformOwnerPaths ==
    {"/admin/dashboard", "/settings", "/settings/profile", "/settings/password", "/settings/security",
     "/platform/organisations", "/platform/organisations/:id", "/platform/franchises", "/platform/plans",
     "/platform/revenue", "/platform/logs"}

\* The guard: where somebody who asks for path ends up.
Guard(copy, path) ==
    CASE ~copy.user /\ path \notin PublicPaths -> "/login"
      [] copy.user /\ path \in PublicPaths -> LandingPathFor(copy.roles)
      [] copy.user /\ ~copy.tenant /\ path \notin PublicPaths \cup PlatformOwnerPaths -> "/admin/dashboard"
      [] OTHER -> path

\* router.go: the address changes at once and the screen starts to load.
Visit(copy, path, others) ==
    LET target == Guard(copy, path)
    IN /\ url' = target
       /\ ticket' = ticket + 1
       /\ loads' = others \cup {[ticket |-> ticket + 1, route |-> target]}

\* Mutant: the last answer wins, whatever screen asked.
SupersededNever(l) == FALSE

\* The screen has been left while it loaded.
Superseded(l) == l.ticket # ticket

\* A call came back 401: onSessionLost forgets the person and goes to the sign-in
\* screen; with nobody signed in it does nothing.
Lost(others) ==
    IF held.user
    THEN /\ held' = NoOne /\ era' = era + 1 /\ drifted' = FALSE
         /\ Visit(NoOne, "/login", others)
    ELSE loads' = others /\ UNCHANGED <<held, era, drifted, url, ticket>>

Move == moves < MaxMoves /\ moves' = moves + 1

----------------------------------------------------------------------------
BrowsingInit ==
    /\ \E a \in Accounts, f \in {{}, PlanFeatures} :
          account = [roles |-> a[1], tenant |-> a[2], granted |-> {}, denied |-> {}, features |-> f, live |-> FALSE]
    /\ held = NoOne /\ me = [copy |-> NoOne, era |-> 0]
    /\ url = "/login" /\ page = [route |-> "/login", phase |-> "shown"]
    /\ ticket = 0 /\ loads = {}
    /\ era = 0 /\ drifted = FALSE /\ late = FALSE /\ moves = 0

\* The sign-in screen: the session is made, /auth/me read, and the person lands.
EnterApp ==
    /\ page = [route |-> "/login", phase |-> "shown"] /\ ~held.user /\ loads = {}
    /\ account' = [account EXCEPT !.live = TRUE]
    /\ held' = Copy(account) /\ era' = era + 1 /\ drifted' = FALSE
    /\ Visit(Copy(account), LandingPathFor(account.roles), {})
    /\ UNCHANGED <<me, page, late, moves>>

\* A link of the sidebar, or a row of the list on the page.
Follow ==
    /\ Move /\ held.user
    /\ \/ \E item \in NavigationFor(held) : Visit(held, item.path, loads)
       \/ /\ page.phase = "shown" /\ ScreenAt(page.route).row # None
          /\ Visit(held, ScreenAt(page.route).row, loads)
    /\ UNCHANGED <<account, held, me, page, era, drifted, late>>

\* A screen's reads come back.  What a superseded screen brings is thrown away.
Answer ==
    \E l \in loads :
        LET rest == loads \ {l}
            ended == ~account.live /\ Reads(l.route) # {}
            refused == \E call \in ScreenAt(l.route).must : ~Admits(account, call)
        IN /\ IF ended THEN Lost(rest)
              ELSE loads' = rest /\ UNCHANGED <<held, era, drifted, url, ticket>>
           /\ page' = IF ended \/ Superseded(l) THEN page
                      ELSE [route |-> l.route, phase |-> IF refused THEN "refused" ELSE "shown"]
           /\ UNCHANGED <<account, me, late, moves>>

\* A control of the page.  What changes the person's own session is followed by a
\* new /auth/me; the rest reload the screen, leave it, or leave it alone.
Press ==
    /\ Move /\ page.phase = "shown"
    /\ \E o \in OffersOn(page.route) :
          IF ~account.live
          THEN Lost(loads) /\ UNCHANGED <<account, me>>
          ELSE /\ Admits(account, o.call)
               /\ account' = IF o.call \in PlanCalls
                             THEN [account EXCEPT !.features = PlanFeatures \ account.features] ELSE account
               /\ drifted' = (drifted \/ account'.features # account.features)
               /\ me' = IF o.after = "session" THEN [copy |-> Copy(account'), era |-> era] ELSE me
               /\ CASE o.after = "reload" -> Visit(held, url, loads)
                    [] o.after = "go" -> Visit(held, LandingPathFor(held.roles), loads)
                    [] OTHER -> UNCHANGED <<url, ticket, loads>>
               /\ UNCHANGED <<held, era>>
    /\ UNCHANGED <<page, late>>

\* session.load gets its answer and applies it, whatever happened since.
Refresh ==
    /\ me.copy.user
    /\ held' = me.copy /\ me' = [copy |-> NoOne, era |-> 0]
    /\ late' = (late \/ me.era # era)
    /\ drifted' = (me.copy # Copy(account))
    /\ Visit(me.copy, url, loads)
    /\ UNCHANGED <<account, page, era, moves>>

SignOut ==
    /\ Move /\ held.user
    /\ account' = [account EXCEPT !.live = FALSE]
    /\ held' = NoOne /\ era' = era + 1 /\ drifted' = FALSE
    /\ Visit(NoOne, "/login", loads)
    /\ UNCHANGED <<me, page, late>>

\* The window is loaded again: boot reads /auth/me before the first screen.
Boot ==
    /\ Move
    /\ LET copy == IF account.live THEN Copy(account) ELSE NoOne
       IN /\ held' = copy
          /\ era' = IF copy.user THEN era ELSE era + 1
          /\ Visit(copy, url, {})
    /\ drifted' = FALSE /\ me' = [copy |-> NoOne, era |-> 0]
    /\ page' = [route |-> "/login", phase |-> "blank"]
    /\ UNCHANGED <<account, late>>

----------------------------------------------------------------------------
\* Meanwhile, elsewhere.

RevokeSessions(a) == [a EXCEPT !.live = FALSE]

\* An administrator gives the person other roles; every session of theirs ends.
PutRoles ==
    /\ Move /\ account.tenant
    /\ \E a \in Accounts : a[2] /\ account' = RevokeSessions([account EXCEPT !.roles = a[1]])
    /\ UNCHANGED <<held, me, page, url, ticket, loads, era, drifted, late>>

\* An administrator grants or takes away one permission; sessions end too.
PutPermission ==
    /\ Move /\ account.tenant
    /\ \E p \in Exceptions :
          account' = RevokeSessions(
             IF p \in Effective(account)
             THEN [account EXCEPT !.denied = @ \cup {p}, !.granted = @ \ {p}]
             ELSE [account EXCEPT !.granted = @ \cup {p}, !.denied = @ \ {p}])
    /\ UNCHANGED <<held, me, page, url, ticket, loads, era, drifted, late>>

\* An override runs out: the next request does not load it, and no session ends.
OverridesLapse ==
    /\ account.granted \cup account.denied # {}
    /\ account' = [account EXCEPT !.granted = {}, !.denied = {}]
    /\ drifted' = TRUE
    /\ UNCHANGED <<held, me, page, url, ticket, loads, era, late, moves>>

\* The plan changes under the person: a job, the platform or a colleague.
PlanChanges ==
    /\ Move
    /\ account' = [account EXCEPT !.features = PlanFeatures \ @]
    /\ drifted' = TRUE
    /\ UNCHANGED <<held, me, page, url, ticket, loads, era, late>>

BrowsingNext ==
    /\ \/ EnterApp \/ Follow \/ Answer \/ Press \/ Refresh \/ SignOut \/ Boot
       \/ PutRoles \/ PutPermission \/ OverridesLapse \/ PlanChanges
    /\ UNCHANGED server

BrowsingSpec == BrowsingInit /\ [][BrowsingNext]_browsingVars

----------------------------------------------------------------------------
BrowsingTypeOK ==
    /\ account.roles \subseteq RoleKeys /\ account.live \in BOOLEAN
    /\ account.granted \cup account.denied \subseteq Exceptions /\ account.granted \cap account.denied = {}
    /\ held.user \in BOOLEAN /\ held.features \subseteq PlanFeatures
    /\ url \in PublicPaths \cup Paths
    /\ page.route \in PublicPaths \cup Paths /\ page.phase \in {"shown", "refused", "blank"}
    /\ \A l \in loads : l.ticket \in 1..ticket /\ l.route \in PublicPaths \cup Paths

\* While a session lives, the browser decides by the permissions and the plan the
\* server decides by.  A change by an administrator ends the session, a change of
\* one's own is followed by a new /auth/me; only what lapses or is changed
\* elsewhere stays unknown until then.
BrowserCopyIsCurrent ==
    held.user /\ account.live /\ ~me.copy.user /\ ~drifted /\ ~late => held = Copy(account)

\* When nothing is loading any more, the outlet shows the screen of the address
\* bar, in whatever order the answers came.
OutletFollowsTheUrl == loads = {} => page.route = url

\* Somebody who is signed out looks at a public screen.
SignedOutSeesNothing == ~held.user /\ loads = {} => page.route \in PublicPaths

\* The window keeps up with the address bar, with the session and with the server: the
\* parts above, in whatever order screens, answers, sign-outs and changes come.
WindowKeepsUp ==
    /\ BrowsingTypeOK
    /\ BrowserCopyIsCurrent
    /\ OutletFollowsTheUrl
    /\ SignedOutSeesNothing

Fresh == held.user /\ held = Copy(account)

\* Entries of the sidebar asking for less than the screens under them.
WiderThanTheScreen == 
    {"calendar", "attendance", "revenue", "report_builder", "branding", "upload", "filing_status"}

\* Apart from those, what the sidebar shows opens: no role, no single permission
\* taken away and no plan leaves a link to a screen the server refuses.
SidebarOpens ==
    Fresh => \A item \in NavigationFor(held) :
                item.key \in WiderThanTheScreen
                \/ \A call \in ScreenAt(Guard(held, item.path)).must : Admits(account, call)

\* Controls shown for a permission that is not the one the server wants.
AskedOtherwise ==
    {"POST /tax/computations/:id/finalise", "PUT /users/:id/roles", "PUT /users/:id/permissions",
     "POST /documents/:id/comments", "POST /integrations/:key/test", "PATCH /branding", "POST /branding/logo",
     "POST /branding/domain", "POST /branding/domain/verify", "POST /backups", "POST /backups/:id/verify"}

\* Apart from those, a control that is shown for a permission and changes something
\* is one the server accepts.
OfferedIsAccepted ==
    Fresh /\ page.phase = "shown" =>
        \A o \in OffersOn(page.route) :
            o.gate = {} \/ o.after = "keep" \/ o.call \in AskedOtherwise \/ Admits(account, o.call)

\* The copy is what the server would answer, in a session that lives, and none of
\* it was left by an earlier session.
FreshInSession == Fresh /\ account.live /\ ~late

\* Approvals are opened as reports, which another permission allows.
DeniedReports == account.denied \cap {"reports.view", "reports.view.own"} # {}

\* A row of a list that was shown leads to a screen that opens.
RowsOpen ==
    FreshInSession /\ page.phase = "shown" /\ ScreenAt(page.route).row # None =>
        \/ page.route = "/approvals" /\ DeniedReports
        \/ \A call \in ScreenAt(ScreenAt(page.route).row).must : Admits(account, call)

\* A client, with at most permissions added to the role's; with settings.manage
\* alone they are asked for a setting they may not read.
AsTheRoleGrants ==
    account.roles = {"client"} /\ account.denied = {} /\ "settings.manage" \notin account.granted

\* The screens of a client ask for nothing the server refuses to a client: no
\* quiet refusal stands in for what the client should see.
PortalAsksForItsOwn ==
    FreshInSession /\ page.phase = "shown" /\ AsTheRoleGrants =>
        \A call \in Reads(page.route) : Admits(account, call)

\* What the browser offers the server gives: the parts above, for every role, every
\* single permission and both plans.
OffersAreGood ==
    /\ SidebarOpens
    /\ OfferedIsAccepted
    /\ RowsOpen
    /\ PortalAsksForItsOwn

\* navigation.js: "An item the user's *role* cannot access is omitted entirely."
OmittedWhenRefused ==
    Fresh => \A item \in NavigationFor(held) :
                \A call \in ScreenAt(Guard(held, item.path)).must : Admits(account, call)

=============================================================================
