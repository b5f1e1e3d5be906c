------------------------------ MODULE Screens ------------------------------
(***************************************************************************)
(* What each screen of the browser application asks the server for, what   *)
(* it offers to whom, and what the server demands for each call.           *)
(*                                                                         *)
(* A screen reads its must calls before it shows anything; a refusal of    *)
(* one of them leaves an error in its place.  It reads its may calls too,  *)
(* when their gate is held, and goes on without them.  Its offers are the  *)
(* controls that call the server; an offer with the empty gate is shown to *)
(* everybody.  row is where a row of its list leads.                       *)
(***************************************************************************)
EXTENDS Handlers, Roles

\* A read a screen can do without, made by those who hold a permission of gate.
Extra(gate, op) == [gate |-> gate, call |-> op, staff |-> FALSE, feature |-> None]

\* A control: shown to those who hold a permission of gate.  after: "keep" the
\* screen, "reload" it, load the "session" again, or "go" elsewhere.
Offer(gate, op, after) ==
    [gate |-> gate, call |-> op, staff |-> FALSE, feature |-> None, after |-> after]

\* Not for a client.
Staff(item) == [item EXCEPT !.staff = TRUE]

\* Only with this feature in the plan.
Given(feature, item) == [item EXCEPT !.feature = feature]

Screen(must, may, link, offers) == [must |-> must, may |-> may, row |-> link, offers |-> offers]

\* Clients.
ClientsControls ==
    {Offer({}, "GET /clients/export/csv", "keep"), Offer({"clients.create"}, "POST /clients", "reload")}
ClientsScreen == Screen({"GET /clients"}, {}, "/clients/:id", ClientsControls)
ClientHeader ==
    {Given("cloud_telephony", Offer({}, "POST /calls/dial", "keep")),
     Offer({"clients.assign"}, "POST /clients/:id/assign", "reload"),
     Offer({"clients.update"}, "PATCH /clients/:id", "reload")}
ClientPeriods ==
    {Offer({}, "GET /clients/:id/periods/:periodId", "keep"),
     Offer({"clients.update"}, "POST /clients/:id/periods", "reload")}
ClientDialogs ==
    {Offer({"clients.assign"}, "GET /users", "keep"),
     Offer({"clients.update"}, "POST /clients/:id/contacts", "reload"),
     Offer({"clients.update"}, "DELETE /clients/:id/contacts/:contactId", "reload")}
ClientScreen ==
    Screen({"GET /clients/:id"}, {Extra({}, "GET /clients/:id/timeline")}, None,
           ClientHeader \cup ClientPeriods \cup ClientDialogs)

\* Documents and verification.
DocumentsControls == {Offer({"documents.verify"}, "POST /verification/bulk", "reload")}
DocumentsScreen ==
    Screen({"GET /documents"}, {Extra({}, "GET /documents/types/list"), Extra({"clients.view",
           "clients.view.assigned"}, "GET /clients")}, "/documents/:id", DocumentsControls)
DocumentActions ==
    {Offer({"documents.download"}, "GET /documents/:id/download", "keep"),
     Offer({"documents.download"}, "POST /documents/:id/share-link", "keep"),
     Offer({"documents.lock"}, "POST /documents/:id/lock", "reload"),
     Offer({"documents.replace"}, "POST /documents/:id/versions", "reload")}
DocumentVersions == {Offer({}, "GET /documents/:id/download", "keep")}
DocumentTalk == {Offer({"documents.comment"}, "POST /documents/:id/comments", "reload")}
DocumentScreen ==
    Screen({"GET /documents/:id"}, {Extra({"documents.download"}, "GET /documents/:id/download")}, None,
           DocumentActions \cup DocumentVersions \cup DocumentTalk)
QueueControls == {Offer({"documents.verify"}, "POST /verification/bulk", "reload")}
QueueScreen ==
    Screen({"GET /verification/queue"}, {Extra({}, "GET /verification/stats")}, "/verification/:id", QueueControls)
Decision == {Offer({"documents.verify"}, "POST /verification/:id/decision", "reload")}
WorkspaceTalk == {Offer({"documents.note.internal"}, "POST /documents/:id/comments", "reload")}
WorkspacePreview == {Offer({}, "GET /documents/:id/download", "keep")}
WorkspaceScreen ==
    Screen({"GET /verification/:id"}, {Extra({"documents.verify"}, "POST /verification/:id/open"), Extra({},
           "GET /documents/:id/download")}, None, Decision \cup WorkspaceTalk \cup WorkspacePreview)

\* Queries.
QueriesControls == {Staff(Offer({"queries.create"}, "POST /queries", "reload"))}
QueriesScreen ==
    Screen({"GET /queries"}, {Staff(Extra({"clients.view", "clients.view.assigned"}, "GET /clients"))},
           "/queries/:id", QueriesControls)
ThreadReply ==
    {Offer({"queries.reply"}, "POST /queries/:id/replies", "reload"),
     Offer({"documents.replace"}, "POST /documents/:id/versions", "reload")}
ThreadControls ==
    {Offer({"queries.resolve"}, "POST /queries/:id/resolve", "reload"),
     Offer({"queries.resolve"}, "POST /queries/:id/reopen", "reload")}
ThreadScreen == Screen({"GET /queries/:id"}, {}, None, ThreadReply \cup ThreadControls)

\* Tax.
TaxControls ==
    {Offer({"tax.calculate"}, "GET /clients/:id/periods", "keep"),
     Offer({"tax.calculate"}, "POST /tax/computations/run", "reload")}
TaxScreen ==
    Screen({"GET /tax/computations"}, {Extra({"clients.view", "clients.view.assigned"}, "GET /clients"), Extra({},
           "GET /tax/summary")}, "/tax/:id", TaxControls)
ComputationControls == {Offer({"tax.calculate"}, "POST /tax/computations/:id/finalise", "reload")}
ComputationScreen == Screen({"GET /tax/computations/:id"}, {}, None, ComputationControls)
ReconciliationControls == {Offer({}, "GET /tax/reconciliation", "keep")}
ReconciliationScreen == Screen({}, {Extra({}, "GET /clients")}, None, ReconciliationControls)

\* Reports, approvals, tasks and the activity feed.
ReportsControls == {Offer({"reports.create"}, "POST /reports", "reload")}
ReportsScreen ==
    Screen({"GET /reports"}, {Extra({}, "GET /reports/types"), Staff(Extra({"clients.view", "clients.view.assigned"},
           "GET /clients"))}, "/reports/:id", ReportsControls)
ReportControls ==
    {Offer({"reports.export"}, "GET /reports/:id/export", "keep"),
     Offer({"reports.create"}, "POST /reports", "reload"),
     Offer({"reports.submit"}, "POST /reports/:id/submit", "reload"),
     Offer({"reports.approve"}, "POST /reports/:id/decision", "reload"),
     Offer({"reports.signoff"}, "POST /reports/:id/sign-off", "reload")}
ReportScreen == Screen({"GET /reports/:id"}, {}, None, ReportControls)
ApprovalsControls == {Offer({"approvals.decide"}, "POST /approvals/:id/decide", "reload")}
ApprovalsScreen == Screen({"GET /approvals"}, {Extra({}, "GET /approvals/stats")}, "/reports/:id", ApprovalsControls)
TasksBoard == {Offer({"tasks.manage"}, "PATCH /tasks/:id", "reload")}
TasksControls ==
    {Offer({"tasks.manage"}, "DELETE /tasks/:id", "reload"), Offer({"tasks.manage"}, "POST /tasks", "reload")}
TasksScreen ==
    Screen({"GET /tasks"}, {Extra({"users.view"}, "GET /users"), Extra({"clients.view", "clients.view.assigned"},
           "GET /clients")}, None, TasksBoard \cup TasksControls)
ActivityScreen ==
    Screen({"GET /activity"}, {Extra({"clients.view", "clients.view.assigned"}, "GET /clients")}, None, {})
DashboardScreen == Screen({"GET /dashboard"}, {}, None, {})

\* Billing and the marketplace.
SubscriptionControls ==
    {Offer({"subscriptions.manage"}, "POST /billing/subscription/change-plan", "session"),
     Offer({"subscriptions.manage"}, "POST /billing/subscription/cancel", "reload"),
     Offer({"subscriptions.manage"}, "POST /billing/subscription/resume", "reload")}
SubscriptionScreen == Screen({"GET /billing/subscription", "GET /billing/plans"}, {}, None, SubscriptionControls)
InvoicesControls == {Offer({"invoices.create"}, "POST /billing/invoices", "reload")}
InvoicesScreen ==
    Screen({"GET /billing/invoices"}, {Staff(Extra({"clients.view", "clients.view.assigned"}, "GET /clients"))},
           "/billing/invoices/:id", InvoicesControls)
InvoiceControls ==
    {Offer({}, "GET /billing/invoices/:id/pdf", "keep"),
     Offer({"payments.record"}, "POST /billing/payments/record", "reload"),
     Offer({}, "POST /billing/payments/checkout", "reload"),
     Offer({"invoices.void"}, "POST /billing/invoices/:id/void", "reload")}
InvoiceReceipts == {Offer({}, "GET /billing/payments/:id/receipt", "keep")}
InvoiceScreen == Screen({"GET /billing/invoices/:id"}, {}, None, InvoiceControls \cup InvoiceReceipts)
PaymentsControls ==
    {Offer({}, "GET /billing/payments/:id/receipt", "keep"),
     Offer({"payments.refund"}, "POST /billing/payments/:id/refund", "reload")}
PaymentsScreen ==
    Screen({"GET /billing/payments"}, {Staff(Extra({}, "GET /billing/gateways"))}, None, PaymentsControls)
AddOnControls ==
    {Offer({"addons.activate"}, "POST /addons/:key/activate", "session"),
     Offer({"addons.activate"}, "POST /addons/:key/deactivate", "session"),
     Offer({"addons.activate"}, "POST /addons/bundles/:plan", "session")}
MarketplaceScreen == Screen({"GET /addons"}, {}, None, AddOnControls)

\* Calls, messages, automation and leads.
DialPad ==
    {Offer({}, "POST /calls/dial", "keep"), Offer({}, "POST /calls/presence", "keep")}
LiveCalls == {Offer({}, "POST /calls/:id/control", "reload")}
CallPanes ==
    {Offer({}, "GET /calls/voicemails", "keep"), Offer({}, "POST /calls/voicemails/:id/status", "keep"),
     Offer({}, "GET /calls/analytics/overview", "keep")}
CallSettings ==
    {Offer({"calls.configure"}, "POST /calls/settings/test", "keep"),
     Offer({"calls.configure"}, "PATCH /calls/settings", "reload")}
CallsScreen ==
    Screen({"GET /calls/settings", "GET /calls"}, {Extra({}, "GET /calls/live"), Extra({}, "GET /clients")},
           "/calls/:id", DialPad \cup LiveCalls \cup CallPanes \cup CallSettings)
CallRecording == {Offer({"calls.recordings.download"}, "GET /calls/:id/recording", "keep")}
CallOutcome ==
    {Offer({"calls.notes"}, "GET /calls/settings", "keep"),
     Offer({"calls.notes"}, "POST /calls/:id/disposition", "reload"),
     Offer({"calls.notes"}, "POST /calls/:id/missed/handle", "reload"),
     Given("cloud_telephony", Offer({}, "POST /calls/dial", "keep"))}
CallNotes == {Offer({"calls.notes"}, "POST /calls/:id/notes", "reload")}
CallScreen ==
    Screen({"GET /calls/:id"}, {Extra({"calls.recordings.listen"}, "GET /calls/:id/recording")}, None,
           CallRecording \cup CallNotes \cup CallOutcome)
InboxThread ==
    {Offer({}, "GET /messaging/threads/:id", "keep"), Offer({}, "POST /messaging/threads/:id/reply", "reload")}
InboxFlows ==
    {Offer({"messaging.templates"}, "GET /messaging/flows", "keep"),
     Offer({"messaging.templates"}, "PATCH /messaging/flows/:id", "reload"),
     Offer({"messaging.templates"}, "POST /messaging/flows", "reload"),
     Offer({"messaging.templates"}, "DELETE /messaging/flows/:id", "reload"),
     Offer({"messaging.templates"}, "POST /messaging/flows/:id/simulate", "keep")}
InboxBroadcast ==
    {Offer({"messaging.broadcast"}, "GET /messaging/templates", "keep"),
     Offer({"messaging.broadcast"}, "POST /messaging/broadcasts", "keep")}
InboxScreen == Screen({"GET /messaging/threads"}, {}, None, InboxThread \cup InboxFlows \cup InboxBroadcast)
RuleControls ==
    {Offer({"automation.manage"}, "POST /automation", "reload"),
     Offer({"automation.manage"}, "PATCH /automation/:id", "reload"),
     Offer({"automation.manage"}, "DELETE /automation/:id", "reload"),
     Offer({"automation.manage"}, "POST /automation/:id/preview", "keep")}
AutomationScreen == Screen({"GET /automation"}, {}, None, RuleControls)
LeadDialog ==
    {Given("cloud_telephony", Offer({"leads.manage"}, "POST /calls/dial", "keep")),
     Offer({"leads.manage"}, "PATCH /leads/:id", "reload")}
LeadControls ==
    {Offer({"leads.manage"}, "POST /leads/:id/convert", "reload"), Offer({"leads.manage"}, "POST /leads", "reload")}
LeadsScreen == Screen({"GET /leads"}, {}, None, LeadDialog \cup LeadControls)
Recorder == {Offer({}, "POST /voice-notes", "reload")}
NoteControls ==
    {Offer({}, "GET /voice-notes/:id/audio", "keep"),
     Offer({"voicenotes.create"}, "POST /voice-notes/:id/transcribe", "reload"),
     Offer({"clients.assign"}, "DELETE /voice-notes/:id", "reload")}
VoiceNotesScreen == Screen({"GET /voice-notes"}, {Extra({}, "GET /clients")}, None, Recorder \cup NoteControls)

\* Support and the calendar.
TicketsControls ==
    {Staff(Offer({}, "GET /clients", "keep")), Offer({"support.create"}, "POST /support", "reload"),
     Staff(Offer({"support.view"}, "GET /support/stats/overview", "keep"))}
TicketsScreen == Screen({"GET /support"}, {}, "/support/:id", TicketsControls)
TicketReply == {Offer({}, "POST /support/:id/reply", "reload")}
TicketControls ==
    {Staff(Offer({"support.manage"}, "GET /users", "keep")),
     Staff(Offer({"support.manage"}, "PATCH /support/:id", "reload")),
     Offer({}, "POST /support/:id/rate", "reload")}
TicketScreen == Screen({"GET /support/:id"}, {}, None, TicketReply \cup TicketControls)
EventControls ==
    {Offer({}, "GET /clients", "keep"), Offer({"calendar.manage"}, "DELETE /calendar/:id", "reload"),
     Offer({"calendar.manage"}, "PATCH /calendar/:id", "reload"),
     Offer({"calendar.manage"}, "POST /calendar", "reload")}
CalendarScreen == Screen({"GET /calendar"}, {}, None, EventControls)

\* AI, analytics and field work.
AssistantControls ==
    {Offer({}, "GET /ai/conversations/:id", "keep"), Offer({}, "POST /ai/ask", "reload")}
AssistantScreen == Screen({"GET /ai/status"}, {Extra({}, "GET /ai/conversations")}, None, AssistantControls)
InsightControls ==
    {Offer({"ai.insights"}, "POST /ai/insights/refresh", "reload"),
     Offer({"ai.insights"}, "POST /ai/insights/:id/acknowledge", "reload")}
InsightsScreen == Screen({"GET /ai/insights"}, {Extra({}, "GET /ai/status")}, None, InsightControls)
OcrControls == {Offer({"ai.ocr"}, "POST /ai/ocr/:id/review", "reload")}
OcrScreen == Screen({"GET /ai/status", "GET /ai/ocr"}, {}, None, OcrControls)
AnalyticsScreen == Screen({"GET /analytics/trends"}, {}, None, {})
BuilderControls == {Offer({}, "DELETE /analytics/dashboards/:id", "reload")}
BuilderSave == {Offer({}, "POST /analytics/dashboards", "reload")}
BuilderScreen ==
    Screen({"GET /analytics/datasets"}, {Extra({}, "POST /analytics/query"), Extra({}, "GET /analytics/dashboards")},
           None, BuilderControls \cup BuilderSave)
AttendanceControls ==
    {Offer({}, "POST /attendance/check-in", "reload"), Offer({}, "POST /attendance/check-out", "reload"),
     Offer({}, "GET /clients", "keep"), Offer({}, "POST /attendance/visits", "reload"),
     Offer({}, "POST /attendance/visits/:id/complete", "reload")}
AttendanceScreen ==
    Screen({"GET /attendance/today"}, {Extra({"attendance.view"}, "GET /attendance/summary")}, None,
           AttendanceControls)

\* Team, companies and the organisation.
TeamControls == {Offer({"users.create"}, "POST /users", "reload")}
TeamScreen ==
    Screen({"GET /users"}, {Extra({}, "GET /users/assignable-roles"), Extra({}, "GET /branches")},
           "/settings/users/:id", TeamControls)
PersonControls ==
    {Offer({"users.update"}, "GET /branches", "keep"), Offer({"users.update"}, "PATCH /users/:id", "reload"),
     Offer({"users.update"}, "PUT /users/:id/roles", "reload"),
     Offer({"users.update"}, "PUT /users/:id/permissions", "reload")}
PersonAccess ==
    {Offer({"users.update"}, "GET /companies", "keep"),
     Offer({"users.update"}, "PUT /users/:id/companies", "reload"),
     Offer({"users.update"}, "POST /users/:id/reset-password", "keep"),
     Offer({"users.update"}, "DELETE /users/:id/sessions/:sessionId", "reload"),
     Offer({"users.delete"}, "DELETE /users/:id", "go")}
PersonScreen ==
    Screen({"GET /users/:id"}, {Extra({}, "GET /users/assignable-roles")}, None, PersonControls \cup PersonAccess)
PerformanceScreen ==
    Screen({}, {Extra({}, "GET /approvals/stats"), Extra({"branches.view"}, "GET /branches/performance"),
           Extra({"attendance.view"}, "GET /attendance/summary")}, None, {})
CompanyControls ==
    {Offer({}, "GET /branches", "keep"), Offer({"companies.create"}, "POST /companies", "reload"),
     Offer({"companies.update"}, "PATCH /companies/:id", "reload"),
     Offer({"companies.delete"}, "DELETE /companies/:id", "reload")}
CompaniesScreen == Screen({"GET /companies"}, {}, None, CompanyControls)

\* Settings.
OrganisationControls == {Offer({"settings.manage"}, "PUT /settings", "keep")}
SettingsScreen == Screen({}, {Extra({"settings.view"}, "GET /settings")}, None, OrganisationControls)
ProfileControls == {Offer({}, "PATCH /auth/profile", "session")}
ProfileScreen == Screen({}, {}, None, ProfileControls)
PasswordControls == {Offer({}, "POST /auth/change-password", "session")}
PasswordScreen == Screen({}, {Extra({}, "GET /settings/security")}, None, PasswordControls)
SecondFactor ==
    {Offer({}, "POST /auth/2fa/setup", "keep"), Offer({}, "POST /auth/2fa/enable", "session"),
     Offer({}, "POST /auth/2fa/backup-codes", "keep"), Offer({}, "POST /auth/2fa/disable", "session")}
OwnSessions ==
    {Offer({}, "DELETE /auth/sessions/:id", "reload"), Offer({}, "POST /auth/sessions/revoke-others", "reload")}
PolicyControls ==
    {Offer({"settings.manage"}, "PATCH /settings/security", "reload"),
     Offer({"settings.manage"}, "POST /settings/security/ip-allowlist", "reload"),
     Offer({"settings.manage"}, "DELETE /settings/security/ip-allowlist/:id", "reload")}
SecurityScreen ==
    Screen({"GET /auth/sessions"}, {Extra({"settings.manage"}, "GET /settings/security")}, None,
           SecondFactor \cup OwnSessions \cup PolicyControls)
PreferenceControls ==
    {Offer({}, "PUT /notifications/preferences", "reload"),
     Offer({"settings.manage"}, "POST /notifications/test", "keep"),
     Offer({"settings.manage"}, "GET /notifications/templates", "keep"),
     Offer({"settings.manage"}, "PUT /notifications/templates/:triggerKey/:channel", "keep")}
NotificationsScreen == Screen({"GET /notifications/preferences"}, {}, None, PreferenceControls)
StorageFolders ==
    {Offer({"integrations.manage"}, "POST /integrations/storage/folders", "reload"),
     Offer({"integrations.manage"}, "DELETE /integrations/storage/folders/:id", "reload")}
ConnectionControls ==
    {Offer({"integrations.view"}, "POST /integrations/:key/test", "reload"),
     Offer({"integrations.manage"}, "POST /integrations/:key/oauth/start", "go"),
     Offer({"integrations.manage"}, "DELETE /integrations/:key/oauth", "reload")}
IntegrationsScreen ==
    Screen({"GET /integrations"}, {Extra({}, "GET /integrations/storage/folders")}, None,
           StorageFolders \cup ConnectionControls)
BrandingControls == {Offer({"settings.manage"}, "PATCH /branding", "reload")}
LogoAndDomain ==
    {Offer({"settings.manage"}, "POST /branding/logo", "session"),
     Offer({"settings.manage"}, "POST /branding/domain", "reload"),
     Offer({"settings.manage"}, "POST /branding/domain/verify", "reload")}
BrandingScreen == Screen({"GET /branding"}, {}, None, BrandingControls \cup LogoAndDomain)
BranchControls ==
    {Offer({}, "GET /users", "keep"), Offer({"branches.manage"}, "POST /branches", "reload"),
     Offer({"branches.manage"}, "PATCH /branches/:id", "reload"),
     Offer({"branches.manage"}, "DELETE /branches/:id", "reload")}
BranchesScreen ==
    Screen({"GET /branches"}, {Extra({"branches.view"}, "GET /branches/performance")}, None, BranchControls)
KeyControls ==
    {Offer({"api.manage"}, "POST /api-keys", "reload"), Offer({"api.manage"}, "GET /api-keys/:id/usage", "keep"),
     Offer({"api.manage"}, "DELETE /api-keys/:id", "reload")}
KeysScreen == Screen({"GET /api-keys"}, {}, None, KeyControls)
BackupControls ==
    {Offer({"settings.manage"}, "POST /backups", "reload"),
     Offer({"settings.manage"}, "POST /backups/:id/verify", "reload"),
     Offer({"settings.manage"}, "GET /backups/:id/download", "keep")}
BackupScreen == Screen({"GET /backups"}, {}, None, BackupControls)
AuditControls ==
    {Offer({"audit.export"}, "GET /audit/export/csv", "keep"), Offer({}, "GET /audit/verify", "keep"),
     Offer({}, "GET /audit/:id", "keep")}
AuditScreen == Screen({"GET /audit"}, {}, None, AuditControls)

\* The client portal.
PortalDashboard == Screen({"GET /dashboard"}, {}, None, {})
UploadControls == {Offer({}, "POST /documents/upload", "keep")}
UploadScreen ==
    Screen({"GET /clients", "GET /documents/types/list"}, {Extra({}, "GET /dashboard"), Extra({},
           "GET /documents/limits")}, None, UploadControls)
FilingsScreen ==
    Screen({"GET /clients", "GET /clients/:id/periods"}, {Extra({}, "GET /clients/:id/periods/:periodId")}, None, {})

\* The platform owner's console.
TenantsControls == {Offer({"tenants.create"}, "POST /platform/tenants", "reload")}
TenantsScreen ==
    Screen({"GET /platform/tenants"}, {Extra({}, "GET /platform/plans")}, "/platform/organisations/:id",
           TenantsControls)
TenantActions ==
    {Offer({"tenants.update"}, "POST /platform/tenants/:id/plan", "reload"),
     Offer({"tenants.suspend"}, "PATCH /platform/tenants/:id", "reload"),
     Offer({"users.impersonate"}, "POST /platform/tenants/:id/impersonate", "go")}
TenantControls ==
    {Offer({"tenants.update"}, "PATCH /platform/tenants/:id", "reload"),
     Offer({"tenants.update"}, "PATCH /platform/tenants/:id/subscription", "reload"),
     Offer({"tenants.update"}, "POST /platform/tenants/:id/payments", "reload"),
     Offer({"tenants.update"}, "POST /platform/tenants/:id/notify", "reload")}
TenantScreen ==
    Screen({"GET /platform/tenants/:id"}, {Extra({}, "GET /platform/plans")}, None, TenantActions \cup TenantControls)
FranchiseControls ==
    {Offer({"franchises.manage"}, "POST /platform/franchises", "reload"),
     Offer({"franchises.manage"}, "PATCH /platform/franchises/:id", "reload")}
FranchisesScreen == Screen({"GET /platform/franchises"}, {}, None, FranchiseControls)
PlanControls == {Offer({"plans.manage"}, "PATCH /platform/plans/:key", "reload")}
PlansScreen == Screen({"GET /platform/plans"}, {}, None, PlanControls)
RevenueScreen == Screen({"GET /platform/revenue"}, {}, None, {})
LogsScreen == Screen({"GET /platform/logs"}, {}, None, {})

\* The signed-out screens ask for nothing before they are shown.
SignedOut == Screen({}, {}, None, {})

\* The routes of registerRoutes that need a session.
Paths ==
    {"/admin/dashboard", "/manager/dashboard", "/finance/dashboard", "/auditor/dashboard", "/client/dashboard",
     "/clients", "/clients/:id", "/documents", "/documents/:id", "/verification", "/verification/:id",
     "/queries", "/queries/:id", "/tax", "/tax/:id", "/tax/reconciliation", "/reports", "/reports/:id",
     "/approvals", "/tasks", "/activity", "/billing/subscription", "/billing/invoices",
     "/billing/invoices/:id", "/billing/payments", "/marketplace", "/calls", "/calls/:id", "/messaging/inbox",
     "/automation", "/leads", "/voice-notes", "/support", "/support/:id", "/calendar", "/ai/assistant",
     "/ai/insights", "/ai/ocr", "/analytics", "/analytics/builder", "/attendance", "/team",
     "/team/performance", "/companies", "/settings/users", "/settings/users/:id", "/settings",
     "/settings/profile", "/settings/password", "/settings/security", "/settings/notifications",
     "/settings/integrations", "/settings/branding", "/settings/branches", "/settings/api", "/settings/backup",
     "/audit", "/client/upload", "/client/filings", "/client/queries", "/client/reports", "/client/payments",
     "/client/invoices", "/platform/organisations", "/platform/organisations/:id", "/platform/franchises",
     "/platform/plans", "/platform/revenue", "/platform/logs"}

\* The routes that are open without a session.
PublicPaths == {"/", "/login", "/register", "/forgot-password", "/reset-password", "/verify-2fa", "/platform-access"}

\* registerRoutes: the screen a path shows.
ScreenAt(route) ==
    CASE route \in PublicPaths -> SignedOut
      [] route \in {"/admin/dashboard", "/manager/dashboard", "/finance/dashboard", "/auditor/dashboard"}
            -> DashboardScreen
      [] route = "/client/dashboard" -> PortalDashboard
      [] route = "/clients" -> ClientsScreen
      [] route = "/clients/:id" -> ClientScreen
      [] route = "/documents" -> DocumentsScreen
      [] route = "/documents/:id" -> DocumentScreen
      [] route = "/verification" -> QueueScreen
      [] route = "/verification/:id" -> WorkspaceScreen
      [] route \in {"/queries", "/client/queries"} -> QueriesScreen
      [] route = "/queries/:id" -> ThreadScreen
      [] route = "/tax" -> TaxScreen
      [] route = "/tax/:id" -> ComputationScreen
      [] route = "/tax/reconciliation" -> ReconciliationScreen
      [] route \in {"/reports", "/client/reports"} -> ReportsScreen
      [] route = "/reports/:id" -> ReportScreen
      [] route = "/approvals" -> ApprovalsScreen
      [] route = "/tasks" -> TasksScreen
      [] route = "/activity" -> ActivityScreen
      [] route = "/billing/subscription" -> SubscriptionScreen
      [] route \in {"/billing/invoices", "/client/invoices"} -> InvoicesScreen
      [] route = "/billing/invoices/:id" -> InvoiceScreen
      [] route \in {"/billing/payments", "/client/payments"} -> PaymentsScreen
      [] route = "/marketplace" -> MarketplaceScreen
      [] route = "/calls" -> CallsScreen
      [] route = "/calls/:id" -> CallScreen
      [] route = "/messaging/inbox" -> InboxScreen
      [] route = "/automation" -> AutomationScreen
      [] route = "/leads" -> LeadsScreen
      [] route = "/voice-notes" -> VoiceNotesScreen
      [] route = "/support" -> TicketsScreen
      [] route = "/support/:id" -> TicketScreen
      [] route = "/calendar" -> CalendarScreen
      [] route = "/ai/assistant" -> AssistantScreen
      [] route = "/ai/insights" -> InsightsScreen
      [] route = "/ai/ocr" -> OcrScreen
      [] route = "/analytics" -> AnalyticsScreen
      [] route = "/analytics/builder" -> BuilderScreen
      [] route = "/attendance" -> AttendanceScreen
      [] route \in {"/team", "/settings/users"} -> TeamScreen
      [] route = "/team/performance" -> PerformanceScreen
      [] route = "/companies" -> CompaniesScreen
      [] route = "/settings/users/:id" -> PersonScreen
      [] route = "/settings" -> SettingsScreen
      [] route = "/settings/profile" -> ProfileScreen
      [] route = "/settings/password" -> PasswordScreen
      [] route = "/settings/security" -> SecurityScreen
      [] route = "/settings/notifications" -> NotificationsScreen
      [] route = "/settings/integrations" -> IntegrationsScreen
      [] route = "/settings/branding" -> BrandingScreen
      [] route = "/settings/branches" -> BranchesScreen
      [] route = "/settings/api" -> KeysScreen
      [] route = "/settings/backup" -> BackupScreen
      [] route = "/audit" -> AuditScreen
      [] route = "/client/upload" -> UploadScreen
      [] route = "/client/filings" -> FilingsScreen
      [] route = "/platform/organisations" -> TenantsScreen
      [] route = "/platform/organisations/:id" -> TenantScreen
      [] route = "/platform/franchises" -> FranchisesScreen
      [] route = "/platform/plans" -> PlansScreen
      [] route = "/platform/revenue" -> RevenueScreen
      [] route = "/platform/logs" -> LogsScreen

\* The options each router call of src/src/modules gives its route: a permission,
\* or any of several.  With none of them, to be signed in is enough.
DemandOf(call) ==
    CASE call \in {"DELETE /analytics/dashboards/:id", "POST /analytics/dashboards", "POST /analytics/query"}
            -> {"analytics.build"}
      [] call \in {"DELETE /api-keys/:id", "POST /api-keys"} -> {"api.manage"}
      [] call \in {"DELETE /auth/sessions/:id", "GET /auth/sessions", "GET /billing/plans", "GET /dashboard",
                    "GET /notifications/preferences", "PATCH /auth/profile", "POST /auth/2fa/backup-codes",
                    "POST /auth/2fa/disable", "POST /auth/2fa/enable", "POST /auth/2fa/setup",
                    "POST /auth/change-password", "POST /auth/sessions/revoke-others",
                    "POST /support/:id/rate", "PUT /notifications/preferences"}
            -> {}
      [] call \in {"DELETE /automation/:id", "PATCH /automation/:id", "POST /automation"} -> {"automation.manage"}
      [] call \in {"DELETE /branches/:id", "PATCH /branches/:id", "POST /branches"} -> {"branches.manage"}
      [] call \in {"DELETE /calendar/:id", "PATCH /calendar/:id", "POST /calendar"} -> {"calendar.manage"}
      [] call \in {"DELETE /clients/:id/contacts/:contactId", "PATCH /clients/:id",
                    "POST /clients/:id/contacts", "POST /clients/:id/periods"}
            -> {"clients.update"}
      [] call = "DELETE /companies/:id" -> {"companies.delete"}
      [] call \in {"DELETE /integrations/:key/oauth", "DELETE /integrations/storage/folders/:id",
                    "POST /integrations/:key/oauth/start", "POST /integrations/:key/test",
                    "POST /integrations/storage/folders"}
            -> {"integrations.manage"}
      [] call \in {"DELETE /messaging/flows/:id", "PATCH /messaging/flows/:id", "POST /messaging/flows"}
            -> {"messaging.templates"}
      [] call \in {"DELETE /settings/security/ip-allowlist/:id", "PATCH /settings/security",
                    "POST /settings/security/ip-allowlist", "PUT /settings"}
            -> {"settings.manage"}
      [] call \in {"DELETE /tasks/:id", "PATCH /tasks/:id", "POST /tasks"} -> {"tasks.manage"}
      [] call = "DELETE /users/:id" -> {"users.delete"}
      [] call \in {"DELETE /users/:id/sessions/:sessionId", "PATCH /users/:id",
                    "POST /users/:id/reset-password", "PUT /users/:id/companies"}
            -> {"users.update"}
      [] call = "DELETE /voice-notes/:id" -> {"voicenotes.create", "clients.assign"}
      [] call \in {"GET /activity", "GET /clients", "GET /clients/:id", "GET /clients/:id/periods",
                    "GET /clients/:id/periods/:periodId", "GET /clients/:id/timeline",
                    "GET /clients/export/csv"}
            -> {"clients.view", "clients.view.assigned", "clients.view.own"}
      [] call = "GET /addons" -> {"addons.view"}
      [] call \in {"GET /ai/conversations", "GET /ai/conversations/:id", "POST /ai/ask"} -> {"ai.assistant"}
      [] call \in {"GET /ai/insights", "POST /ai/insights/:id/acknowledge", "POST /ai/insights/refresh"}
            -> {"ai.insights"}
      [] call \in {"GET /ai/ocr", "POST /ai/ocr/:id/review"} -> {"ai.ocr"}
      [] call = "GET /ai/status" -> {"ai.ocr", "ai.assistant", "ai.insights"}
      [] call \in {"GET /analytics/dashboards", "GET /analytics/datasets", "GET /analytics/trends"}
            -> {"analytics.view"}
      [] call \in {"GET /api-keys", "GET /api-keys/:id/usage"} -> {"api.view"}
      [] call \in {"GET /approvals", "GET /approvals/stats"} -> {"approvals.view"}
      [] call = "GET /attendance/summary" -> {"attendance.view"}
      [] call \in {"GET /attendance/today", "POST /attendance/check-in", "POST /attendance/check-out",
                    "POST /attendance/visits", "POST /attendance/visits/:id/complete"}
            -> {"attendance.self"}
      [] call \in {"GET /audit", "GET /audit/:id", "GET /audit/verify"} -> {"audit.view"}
      [] call = "GET /audit/export/csv" -> {"audit.export"}
      [] call \in {"GET /automation", "POST /automation/:id/preview"} -> {"automation.manage", "settings.view"}
      [] call = "GET /backups" -> {"backup.view"}
      [] call \in {"GET /backups/:id/download", "POST /backups", "POST /backups/:id/verify"} -> {"backup.manage"}
      [] call = "GET /billing/gateways" -> {"billing.view", "integrations.view"}
      [] call \in {"GET /billing/invoices", "GET /billing/invoices/:id", "GET /billing/invoices/:id/pdf"}
            -> {"invoices.view", "invoices.view.own"}
      [] call \in {"GET /billing/payments", "GET /billing/payments/:id/receipt"} -> {"payments.view"}
      [] call = "GET /billing/subscription" -> {"billing.view"}
      [] call \in {"GET /branches", "GET /branches/performance"} -> {"branches.view"}
      [] call \in {"GET /branding", "GET /settings", "GET /settings/security"} -> {"settings.view"}
      [] call = "GET /calendar" -> {"calendar.view"}
      [] call \in {"GET /calls", "GET /calls/:id", "GET /calls/live", "GET /calls/voicemails"}
            -> {"calls.view", "calls.view.own"}
      [] call = "GET /calls/:id/recording" -> {"calls.recordings.listen"}
      [] call = "GET /calls/analytics/overview" -> {"calls.analytics"}
      [] call = "GET /calls/settings" -> {"calls.configure", "calls.view", "calls.view.own"}
      [] call = "GET /companies" -> {"companies.view"}
      [] call \in {"GET /documents", "GET /documents/:id"} -> {"documents.view", "documents.view.own"}
      [] call \in {"GET /documents/:id/download", "POST /documents/:id/share-link"} -> {"documents.download"}
      [] call = "GET /documents/limits" -> {"documents.upload", "documents.view", "documents.view.own"}
      [] call = "GET /documents/types/list" -> {"documents.view", "documents.view.own", "documents.upload"}
      [] call \in {"GET /integrations", "GET /integrations/storage/folders"} -> {"integrations.view"}
      [] call = "GET /leads" -> {"leads.view"}
      [] call \in {"GET /messaging/flows", "GET /messaging/templates", "GET /messaging/threads",
                    "GET /messaging/threads/:id", "POST /messaging/flows/:id/simulate"}
            -> {"messaging.view"}
      [] call \in {"GET /notifications/templates", "POST /notifications/test",
                    "PUT /notifications/templates/:triggerKey/:channel"}
            -> {"notifications.manage"}
      [] call = "GET /platform/franchises" -> {"franchises.view"}
      [] call = "GET /platform/logs" -> {"platform.logs.view"}
      [] call \in {"GET /platform/plans", "PATCH /platform/plans/:key"} -> {"plans.manage"}
      [] call = "GET /platform/revenue" -> {"platform.analytics"}
      [] call \in {"GET /platform/tenants", "GET /platform/tenants/:id"} -> {"tenants.view"}
      [] call \in {"GET /queries", "GET /queries/:id"} -> {"queries.view", "queries.view.own"}
      [] call \in {"GET /reports", "GET /reports/:id", "GET /reports/types"} -> {"reports.view", "reports.view.own"}
      [] call = "GET /reports/:id/export" -> {"reports.export"}
      [] call \in {"GET /support", "GET /support/:id"} -> {"support.view", "support.view.own"}
      [] call = "GET /support/stats/overview" -> {"support.view"}
      [] call = "GET /tasks" -> {"tasks.view"}
      [] call \in {"GET /tax/computations", "GET /tax/computations/:id", "GET /tax/summary"} -> {"tax.view"}
      [] call = "GET /tax/reconciliation" -> {"tax.reconcile"}
      [] call \in {"GET /users", "GET /users/:id", "GET /users/assignable-roles"} -> {"users.view"}
      [] call \in {"GET /verification/:id", "GET /verification/queue", "GET /verification/stats",
                    "POST /verification/:id/decision", "POST /verification/:id/open", "POST /verification/bulk"}
            -> {"documents.verify"}
      [] call \in {"GET /voice-notes", "GET /voice-notes/:id/audio"}
            -> {"voicenotes.create", "clients.view", "clients.view.assigned"}
      [] call \in {"PATCH /branding", "POST /branding/domain", "POST /branding/domain/verify",
                    "POST /branding/logo"}
            -> {"whitelabel.manage"}
      [] call \in {"PATCH /calls/settings", "POST /calls/settings/test"} -> {"calls.configure"}
      [] call = "PATCH /companies/:id" -> {"companies.update"}
      [] call \in {"PATCH /leads/:id", "POST /leads", "POST /leads/:id/convert"} -> {"leads.manage"}
      [] call \in {"PATCH /platform/franchises/:id", "POST /platform/franchises"} -> {"franchises.manage"}
      [] call = "PATCH /platform/tenants/:id" -> {"tenants.update", "tenants.suspend"}
      [] call \in {"PATCH /platform/tenants/:id/subscription", "POST /platform/tenants/:id/notify",
                    "POST /platform/tenants/:id/payments", "POST /platform/tenants/:id/plan"}
            -> {"tenants.update"}
      [] call = "PATCH /support/:id" -> {"support.manage"}
      [] call \in {"POST /addons/:key/activate", "POST /addons/:key/deactivate", "POST /addons/bundles/:plan"}
            -> {"addons.activate"}
      [] call = "POST /approvals/:id/decide" -> {"approvals.decide"}
      [] call = "POST /billing/invoices" -> {"invoices.create"}
      [] call = "POST /billing/invoices/:id/void" -> {"invoices.void"}
      [] call = "POST /billing/payments/:id/refund" -> {"payments.refund"}
      [] call = "POST /billing/payments/checkout" -> {"payments.pay"}
      [] call = "POST /billing/payments/record" -> {"payments.record"}
      [] call \in {"POST /billing/subscription/cancel", "POST /billing/subscription/change-plan",
                    "POST /billing/subscription/resume"}
            -> {"subscriptions.manage"}
      [] call \in {"POST /calls/:id/control", "POST /calls/dial"} -> {"calls.place"}
      [] call \in {"POST /calls/:id/disposition", "POST /calls/:id/missed/handle", "POST /calls/:id/notes",
                    "POST /calls/voicemails/:id/status"}
            -> {"calls.notes"}
      [] call = "POST /calls/presence" -> {"calls.place", "calls.receive"}
      [] call = "POST /clients" -> {"clients.create"}
      [] call = "POST /clients/:id/assign" -> {"clients.assign"}
      [] call = "POST /companies" -> {"companies.create"}
      [] call = "POST /documents/:id/comments" -> {"documents.comment"}
      [] call = "POST /documents/:id/lock" -> {"documents.lock"}
      [] call = "POST /documents/:id/versions" -> {"documents.replace"}
      [] call = "POST /documents/upload" -> {"documents.upload"}
      [] call = "POST /messaging/broadcasts" -> {"messaging.broadcast"}
      [] call = "POST /messaging/threads/:id/reply" -> {"messaging.send"}
      [] call = "POST /platform/tenants" -> {"tenants.create"}
      [] call = "POST /platform/tenants/:id/impersonate" -> {"users.impersonate"}
      [] call = "POST /queries" -> {"queries.create"}
      [] call \in {"POST /queries/:id/reopen", "POST /queries/:id/resolve"} -> {"queries.resolve"}
      [] call = "POST /queries/:id/replies" -> {"queries.reply"}
      [] call = "POST /reports" -> {"reports.create"}
      [] call = "POST /reports/:id/decision" -> {"reports.approve"}
      [] call = "POST /reports/:id/sign-off" -> {"reports.signoff", "reports.approve"}
      [] call = "POST /reports/:id/submit" -> {"reports.submit"}
      [] call = "POST /support" -> {"support.create"}
      [] call = "POST /support/:id/reply" -> {"support.reply"}
      [] call = "POST /tax/computations/:id/finalise" -> {"tax.finalise"}
      [] call = "POST /tax/computations/run" -> {"tax.calculate"}
      [] call = "POST /users" -> {"users.create"}
      [] call \in {"POST /voice-notes", "POST /voice-notes/:id/transcribe"} -> {"voicenotes.create"}
      [] call \in {"PUT /users/:id/permissions", "PUT /users/:id/roles"} -> {"roles.manage"}

\* Calls that leave the plan or the add-ons other than they were.
PlanCalls ==
    {"POST /billing/subscription/change-plan", "POST /addons/:key/activate", "POST /addons/:key/deactivate",
     "POST /addons/bundles/:plan"}

=============================================================================
