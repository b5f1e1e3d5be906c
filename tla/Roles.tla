------------------------------- MODULE Roles -------------------------------
(***************************************************************************)
(* The system roles, what each grants, and how the server and the browser  *)
(* ask whether somebody holds a permission.  A person may hold several     *)
(* roles; an override takes single permissions away again.                 *)
(***************************************************************************)
EXTENDS Naturals

\* The wildcard the Super Admin holds instead of a list.
Everything == "*"

FinanceExecutive ==
    {"companies.view", "companies.switch", "clients.view.assigned", "clients.view", "clients.update",
     "documents.view", "documents.upload", "documents.replace", "documents.download", "documents.comment",
     "documents.note.internal", "documents.verify", "documents.lock", "documents.archive", "queries.view",
     "queries.create", "queries.reply", "queries.resolve", "tax.view", "tax.calculate", "tax.edit", "reports.view",
     "reports.create", "reports.submit", "reports.export", "tasks.view", "tasks.manage", "notifications.view",
     "messaging.view", "messaging.send", "voicenotes.create", "support.view", "support.create", "support.reply",
     "calls.view.own", "calls.view", "calls.place", "calls.receive", "calls.transfer", "calls.record",
     "calls.recordings.listen", "calls.notes", "leads.view", "leads.manage", "ai.ocr", "ai.verify", "ai.assistant",
     "attendance.self", "analytics.view", "profile.manage"}

Accountant ==
    {"companies.view", "companies.switch", "clients.view", "documents.view", "documents.download",
     "documents.comment", "documents.note.internal", "queries.view", "queries.reply", "tax.view", "tax.calculate",
     "tax.edit", "tax.reconcile", "reports.view", "reports.create", "reports.submit", "reports.export", "tasks.view",
     "tasks.manage", "notifications.view", "voicenotes.create", "support.view", "support.create", "support.reply",
     "calls.view.own", "calls.place", "calls.notes", "ai.ocr", "ai.assistant", "analytics.view", "invoices.view",
     "payments.view", "payments.record", "profile.manage"}

FinanceManager == FinanceExecutive \cup
    {"clients.create", "clients.assign", "clients.delete", "documents.assign", "documents.delete", "tax.finalise",
     "tax.reconcile", "reports.approve", "reports.schedule", "approvals.view", "approvals.decide", "users.view",
     "branches.view", "billing.view", "invoices.view", "invoices.create", "payments.view", "payments.record",
     "messaging.broadcast", "messaging.templates", "automation.manage", "support.manage", "calls.analytics",
     "campaigns.view", "ai.insights", "attendance.view", "analytics.build", "audit.view", "settings.view",
     "notifications.manage", "addons.view"}

AdminRole == FinanceManager \cup
    {"companies.create", "companies.update", "companies.delete", "branches.manage", "users.create", "users.update",
     "users.delete", "roles.view", "roles.manage", "tax.rules.manage", "billing.manage", "subscriptions.manage",
     "invoices.void", "payments.pay", "payments.refund", "addons.activate", "addons.configure", "audit.export",
     "security.view", "security.manage", "sessions.revoke", "settings.manage", "integrations.view",
     "integrations.manage", "api.view", "api.manage", "whitelabel.manage", "storage.manage", "backup.view",
     "backup.manage", "attendance.manage", "calls.configure", "calls.recordings.download", "calendar.view",
     "calendar.manage", "esign.view", "esign.send"}

ClientRole ==
    {"portal.access", "profile.manage", "clients.view.own", "companies.view", "companies.switch",
     "documents.view.own", "documents.upload", "documents.replace", "documents.download", "documents.delete",
     "documents.comment", "queries.view.own", "queries.reply", "reports.view.own", "reports.signoff",
     "reports.export", "invoices.view.own", "payments.view", "payments.pay", "support.view.own", "support.create",
     "support.reply", "notifications.view", "voicenotes.create", "calls.view.own"}

AuditorRole ==
    {"companies.view", "companies.switch", "clients.view", "documents.view", "documents.download", "queries.view",
     "tax.view", "reports.view", "reports.export", "approvals.view", "invoices.view", "payments.view", "calls.view",
     "calls.recordings.listen", "audit.view", "audit.export", "security.view", "analytics.view", "ai.verify",
     "attendance.view", "notifications.view", "settings.view", "profile.manage"}

\* ROLE_DEFINITIONS: what a role grants, how high it stands, where it lands.
RoleDefinitions ==
    [super_admin |-> [level |-> 100, permissions |-> {Everything}, landing |-> "/admin/dashboard"],
     admin |-> [level |-> 80, permissions |-> AdminRole, landing |-> "/admin/dashboard"],
     finance_manager |-> [level |-> 65, permissions |-> FinanceManager, landing |-> "/manager/dashboard"],
     finance_executive |-> [level |-> 50, permissions |-> FinanceExecutive, landing |-> "/finance/dashboard"],
     accountant |-> [level |-> 45, permissions |-> Accountant, landing |-> "/finance/dashboard"],
     auditor |-> [level |-> 30, permissions |-> AuditorRole, landing |-> "/auditor/dashboard"],
     client |-> [level |-> 20, permissions |-> ClientRole, landing |-> "/client/dashboard"]]

RoleKeys == DOMAIN RoleDefinitions

\* permissionsForRoles.
PermissionsForRoles(roles) == UNION {RoleDefinitions[role].permissions : role \in roles}

\* A set of permissions, wildcard included, covers one.
Covers(held, p) == Everything \in held \/ p \in held

HighestLevel(roles) == CHOOSE l \in {0} \cup {RoleDefinitions[role].level : role \in roles} :
                          \A role \in roles : RoleDefinitions[role].level <= l

\* landingPathFor: the strongest role decides.
LandingPathFor(roles) ==
    IF roles = {} THEN "/client/dashboard"
    ELSE RoleDefinitions[CHOOSE role \in roles : RoleDefinitions[role].level = HighestLevel(roles)].landing

\* The roles that only read; "the UI hides write affordances for them".
ReadOnlyRoles == {"auditor"}

=============================================================================
