----------------------------- MODULE Visibility -----------------------------
(***************************************************************************)
(* Who is shown which row of an organisation.  There is no row security in *)
(* the database: every list, every read of one row, the search palette and *)
(* the file endpoint narrow their own statement by the caller's roles,     *)
(* permissions and client records, each in its own words.  This module     *)
(* states each rule as a predicate of the row and asks whether they agree. *)
(* row is the record looked at, of any kind; the people, the clients and   *)
(* the row itself change under it.                                         *)
(***************************************************************************)
EXTENDS Handlers, Roles

CONSTANTS
    Customers,      \* client records of the organisation
    MaxChanges      \* bound: administrative changes

ASSUME VisibilityConstants == Customers # {} /\ None \notin Customers /\ MaxChanges \in Nat

VARIABLES
    caller,         \* the person asking: roles, permissions denied by an override
    people,         \* clients: those whose contact the caller is, those assigned to the caller,
                    \* those whose company the caller is assigned, those archived
    row,            \* the record asked for
    changes         \* changes made so far

visibility == <<caller, people, row, changes>>
visibilityVars == <<server, visibility>>

-----------------------------------------------------------------------------
\* The roles of a practice; the Super Admin belongs to none, and an
\* administrator reads everything a manager does.
Readers == RoleKeys \ {"super_admin", "admin"}

\* The context of a request.
Has(p) == p \notin caller.denied /\ p \in PermissionsForRoles(caller.roles)
HasAny(S) == \E p \in S : Has(p)
IsClient == "client" \in caller.roles

\* loadClientIdsForUser.
ClientIds == people.contactOf \ people.archived

-----------------------------------------------------------------------------
\* Clients: the list, its export, and one client with all that hangs on it.
ClientVisible(k) ==
    IF Has("clients.view") THEN TRUE
    ELSE IF IsClient \/ Has("clients.view.own") THEN k \in ClientIds
    ELSE Has("clients.view.assigned") /\ k \in people.assigned
MayReadClients == HasAny({"clients.view", "clients.view.assigned", "clients.view.own"})
ListsClient(x) == MayReadClients /\ x.client \notin people.archived /\ ClientVisible(x.client)
ExportsClient(x) == ListsClient(x)
OpensClient(x) == MayReadClients /\ x.client \notin people.archived /\ ClientVisible(x.client)
FindsClient(x) ==
    /\ HasAny({"clients.view", "clients.view.own"}) \/ IsClient
    /\ x.client \notin people.archived
    /\ IsClient => x.client \in ClientIds

\* Companies, one to a client here.
ListsCompany(x) ==
    /\ Has("companies.view")
    /\ IsClient => x.client \in people.companies
OpensCompany(x) ==
    /\ Has("companies.view")
    /\ ~(Has("companies.view") /\ ~IsClient) => x.client \in people.companies
SwitchesToCompany(x) ==
    IF Has("companies.view") /\ ~IsClient THEN TRUE ELSE x.client \in people.companies

\* The rule several modules write out for themselves: everything, or one's own.
Own(x, all, own) == Has(all) \/ ((Has(own) \/ IsClient) /\ x.client \in ClientIds)

\* Documents, and their bytes through two endpoints.
ListsDocument(x) == ~x.deleted /\ HasAny({"documents.view", "documents.view.own"})
                    /\ Own(x, "documents.view", "documents.view.own")
OpensDocument(x) == ~x.deleted /\ HasAny({"documents.view", "documents.view.own"})
                    /\ (~Has("documents.view") => x.client \in ClientIds)
DownloadsDocument(x) == ~x.deleted /\ Has("documents.download")
                        /\ (~Has("documents.view") => x.client \in ClientIds)
ServesDocument(x) ==
    /\ ~x.deleted
    /\ IF IsClient THEN x.client \in ClientIds
       ELSE Has("documents.view") \/ (Has("documents.view.own") /\ x.mine)
FindsDocument(x) ==
    /\ HasAny({"documents.view", "documents.view.own"}) \/ IsClient
    /\ ~x.deleted
    /\ IsClient => x.client \in ClientIds
\* The verification queue.
QueuesDocument(x) ==
    /\ Has("documents.verify") /\ ~x.deleted
    /\ ~Has("clients.view") /\ Has("clients.view.assigned") => x.mine \/ x.client \in people.assigned

\* Queries.
ListsQuery(x) == HasAny({"queries.view", "queries.view.own"}) /\ Own(x, "queries.view", "queries.view.own")
OpensQuery(x) == HasAny({"queries.view", "queries.view.own"}) /\ (~Has("queries.view") => x.client \in ClientIds)
FindsQuery(x) == (Has("queries.view") \/ IsClient) /\ (IsClient => x.client \in ClientIds)

\* Reports: a client never sees one that has not reached them.
Reached == {"client_review", "signed_off", "published", "archived", "approved"}
ListsReport(x) ==
    /\ HasAny({"reports.view", "reports.view.own"})
    /\ Has("reports.view") \/ (x.client \in ClientIds /\ x.status \in Reached)
\* Mutant: one report opens before it has reached the client.
OpensReportEarly(x) ==
    /\ HasAny({"reports.view", "reports.view.own"})
    /\ ~Has("reports.view") => x.client \in ClientIds

OpensReport(x) ==
    /\ HasAny({"reports.view", "reports.view.own"})
    /\ ~Has("reports.view") => x.client \in ClientIds /\ x.status \in Reached
FindsReport(x) ==
    /\ HasAny({"reports.view", "reports.view.own"}) \/ IsClient
    /\ IsClient => x.client \in ClientIds /\ x.status \in {"approved", "signed_off", "archived"}

\* Invoices and payments.
ListsInvoice(x) ==
    /\ HasAny({"invoices.view", "invoices.view.own"})
    /\ Has("invoices.view") \/ (x.client \in ClientIds /\ x.status # "draft")
OpensInvoice(x) ==
    /\ HasAny({"invoices.view", "invoices.view.own"})
    /\ ~Has("invoices.view") => x.client \in ClientIds /\ x.status # "draft"
FindsInvoice(x) == (Has("invoices.view") \/ IsClient) /\ (IsClient => x.client \in ClientIds)
ListsPayment(x) ==
    /\ Has("payments.view")
    /\ ~Has("payments.view") /\ IsClient => x.client \in ClientIds
OpensPayment(x) == Has("payments.view") /\ x.status = "success"

\* Support tickets; mine is raised by, or assigned to, the caller.
MayReadTickets == HasAny({"support.view", "support.view.own"})
ListsTicket(x) ==
    /\ MayReadTickets
    /\ \/ Has("support.view") /\ ~IsClient
       \/ IsClient /\ x.client \in ClientIds
       \/ ~IsClient /\ Has("support.view.own") /\ x.mine
OpensTicket(x) ==
    /\ MayReadTickets
    /\ IF Has("support.view") /\ ~IsClient THEN TRUE
       ELSE IF IsClient THEN x.client \in ClientIds ELSE x.mine

\* Calls, their recordings and voicemail; mine is the caller's as agent.
MayReadCalls == HasAny({"calls.view", "calls.view.own"})
ListsCall(x) == MayReadCalls /\ (~Has("calls.view") => IF IsClient THEN x.client \in ClientIds ELSE x.mine)
OpensCall(x) == MayReadCalls /\ (~Has("calls.view") => IF IsClient THEN x.client \in ClientIds ELSE x.mine)
FindsCall(x) == Has("calls.view")
ListensToCall(x) ==
    /\ Has("calls.recordings.listen")
    /\ ~Has("calls.view") => IF IsClient THEN x.client \in ClientIds ELSE x.mine
SearchesRecording(x) == Has("calls.recordings.listen") /\ (~Has("calls.view") => x.mine)

\* Activities, in the feed and in a client's timeline.
ListsActivity(x) ==
    /\ MayReadClients
    /\ IF IsClient THEN x.client \in ClientIds /\ x.shared
       ELSE ~Has("clients.view") /\ Has("clients.view.assigned") => x.client \in people.assigned
OpensActivity(x) == OpensClient(x) /\ (IsClient => x.shared)

\* Voice notes; mine is recorded by the caller.
MayHear == HasAny({"voicenotes.create", "clients.view", "clients.view.assigned"})
ListsVoiceNote(x) ==
    /\ MayHear
    /\ IF IsClient THEN x.client \in ClientIds
       ELSE ~Has("clients.view") /\ Has("clients.view.assigned") => x.mine \/ x.client \in people.assigned
OpensVoiceNote(x) == MayHear /\ (IsClient => x.client \in ClientIds)

\* Lists that are the organisation's as a whole.
ListsApproval(x) == Has("approvals.view")
ListsComputation(x) == Has("tax.view")
OpensComputation(x) == Has("tax.view")
ListsTask(x) == Has("tasks.view")

-----------------------------------------------------------------------------
Kinds == {"client", "company", "document", "query", "report", "invoice", "payment", "ticket", "call", "activity",
          "voice_note", "approval", "computation", "task"}

Listed == CASE row.kind = "client" -> ListsClient(row) \/ ExportsClient(row)
            [] row.kind = "company" -> ListsCompany(row)
            [] row.kind = "document" -> ListsDocument(row)
            [] row.kind = "query" -> ListsQuery(row)
            [] row.kind = "report" -> ListsReport(row)
            [] row.kind = "invoice" -> ListsInvoice(row)
            [] row.kind = "payment" -> ListsPayment(row)
            [] row.kind = "ticket" -> ListsTicket(row)
            [] row.kind = "call" -> ListsCall(row)
            [] row.kind = "activity" -> ListsActivity(row)
            [] row.kind = "voice_note" -> ListsVoiceNote(row)
            [] row.kind = "approval" -> ListsApproval(row)
            [] row.kind = "computation" -> ListsComputation(row)
            [] row.kind = "task" -> ListsTask(row)

Opened == CASE row.kind = "client" -> OpensClient(row)
            [] row.kind = "company" -> OpensCompany(row)
            [] row.kind = "document" -> OpensDocument(row)
            [] row.kind = "query" -> OpensQuery(row)
            [] row.kind = "report" -> OpensReport(row)
            [] row.kind = "invoice" -> OpensInvoice(row)
            [] row.kind = "payment" -> OpensPayment(row)
            [] row.kind = "ticket" -> OpensTicket(row)
            [] row.kind = "call" -> OpensCall(row)
            [] row.kind = "activity" -> OpensActivity(row)
            [] row.kind = "voice_note" -> OpensVoiceNote(row)
            [] row.kind = "computation" -> OpensComputation(row)
            [] OTHER -> FALSE

Found == CASE row.kind = "client" -> FindsClient(row)
           [] row.kind = "document" -> FindsDocument(row)
           [] row.kind = "query" -> FindsQuery(row)
           [] row.kind = "report" -> FindsReport(row)
           [] row.kind = "invoice" -> FindsInvoice(row)
           [] row.kind = "call" -> FindsCall(row) \/ SearchesRecording(row)
           [] OTHER -> FALSE

\* What a kind has by way of status, and whether ownership and sharing matter to it.
StatusesOf(kind) == CASE kind = "report" -> {"draft", "pending_approval", "approved", "client_review", "signed_off"}
                      [] kind = "invoice" -> {"draft", "issued"}
                      [] kind = "payment" -> {"success"}
                      [] OTHER -> {"open"}
Owned == {"document", "ticket", "call", "voice_note"}
Shareable == {"activity"}

VisibilityInit ==
    /\ \E roles \in (SUBSET Readers) \ {{}} :
          caller = [roles |-> roles, denied |-> {}]
    /\ \E k \in Customers :
          people = [contactOf |-> IF IsClient THEN {k} ELSE {}, assigned |-> {k}, companies |-> {k},
                    archived |-> {}]
    /\ \E kind \in Kinds, k \in Customers :
          \E s \in StatusesOf(kind) :
             row = [kind |-> kind, client |-> k, status |-> s, mine |-> FALSE, shared |-> FALSE, deleted |-> FALSE]
    /\ changes = 0

Change ==
    /\ changes < MaxChanges
    /\ changes' = changes + 1
    /\ UNCHANGED server

\* PUT /users/:id/permissions: an administrator denies what the role grants.
Deny(p) ==
    /\ Has(p)
    /\ caller' = [caller EXCEPT !.denied = @ \cup {p}]
    /\ Change
    /\ UNCHANGED <<people, row>>

\* Contacts (a login is only ever made for a portal user), assignments and archived
\* clients come and go.
Rearrange(field, k) ==
    /\ field = "contactOf" => IsClient
    /\ people' = [people EXCEPT ![field] = IF k \in @ THEN @ \ {k} ELSE @ \cup {k}]
    /\ Change
    /\ UNCHANGED <<caller, row>>

\* The row moves on.  Only those who may place calls are ever the agent of one.
RowChanges ==
    /\ \/ \E s \in StatusesOf(row.kind) \ {row.status} : row' = [row EXCEPT !.status = s]
       \/ row.kind \in Owned /\ (row.kind = "call" => Has("calls.view.own")) /\ row' = [row EXCEPT !.mine = ~@]
       \/ row.kind \in Shareable /\ row' = [row EXCEPT !.shared = ~@]
       \/ row.kind = "document" /\ row' = [row EXCEPT !.deleted = TRUE]
    /\ Change
    /\ UNCHANGED <<caller, people>>

Deniable == {"clients.view", "documents.view", "queries.view", "reports.view", "invoices.view", "support.view",
             "calls.view", "companies.view"}

VisibilityNext ==
    \/ \E p \in Deniable : Deny(p)
    \/ \E field \in {"contactOf", "assigned", "companies", "archived"}, k \in Customers : Rearrange(field, k)
    \/ RowChanges

VisibilitySpec == VisibilityInit /\ [][VisibilityNext]_visibilityVars

-----------------------------------------------------------------------------
VisibilityTypeOK ==
    /\ caller \in [roles : SUBSET Readers, denied : SUBSET Deniable]
    /\ people \in [contactOf : SUBSET Customers, assigned : SUBSET Customers, companies : SUBSET Customers,
                   archived : SUBSET Customers]
    /\ row.kind \in Kinds /\ row.client \in Customers /\ row.status \in StatusesOf(row.kind)
    /\ {row.mine, row.shared, row.deleted} \subseteq BOOLEAN
    /\ changes \in 0..MaxChanges

\* What a list offers can be opened, and what can be opened is on the list, however
\* roles are combined and cut back: the two rules are written apart in each module.
\* (A voice note opens for an executive whose list leaves it out, the feed goes on showing
\* archived clients whose timeline is closed, and a receipt exists only once the payment
\* has settled.)
ListsAndReadsAgree ==
    /\ Listed /\ row.kind \notin {"approval", "task", "activity"} => Opened
    /\ Opened /\ row.kind \notin {"voice_note", "activity"} => Listed

\* What the search palette or the search of recordings finds can be opened, but for the
\* drafts of invoices, which the palette shows a client who cannot open them, and for the
\* calls of a portal user who is on the staff as well and may not see all calls: the search
\* goes by the agent, the call by the client.
FoundMeansOpens ==
    Found =>
       \/ Opened
       \/ row.kind = "invoice" /\ row.status = "draft"
       \/ row.kind = "call" /\ row.mine /\ IsClient /\ caller.roles # {"client"} /\ ~Has("calls.view")

\* The bytes of a document or of a recording are served to nobody whom the record is kept
\* from, by the download, the file endpoint and the queue alike, and the switcher changes
\* to no company that does not open.
BytesFollowTheRecord ==
    /\ row.kind = "document" =>
         /\ DownloadsDocument(row) \/ ServesDocument(row) => OpensDocument(row)
         /\ QueuesDocument(row) /\ caller.denied = {} => OpensDocument(row)
    /\ row.kind = "call" /\ ListensToCall(row) => OpensCall(row)
    /\ row.kind = "company" /\ SwitchesToCompany(row) /\ Has("companies.view") => OpensCompany(row)

\* A portal user is shown records of their own clients only, whatever kind they are and
\* however they are reached, and no remark kept internal; payments are listed whole.
PortalShowsOwnRecords ==
    caller.roles = {"client"} /\ (Listed \/ Opened \/ Found) /\ row.kind # "payment" =>
      /\ row.client \in (IF row.kind = "company" THEN people.companies ELSE ClientIds)
      /\ row.kind = "activity" => row.shared

\* "Scoped to one client's own records and nothing about the firm that serves them", of
\* the list of payments as of the rest.
PortalListsOwnPayments ==
    caller.roles = {"client"} /\ row.kind = "payment" /\ Listed => row.client \in ClientIds

\* Every way to a row asks the same question: the parts above together, whatever roles
\* are combined, permissions denied and rows, contacts and assignments changed.
EveryWayAgrees ==
    /\ VisibilityTypeOK
    /\ ListsAndReadsAgree
    /\ FoundMeansOpens
    /\ BytesFollowTheRecord
    /\ PortalShowsOwnRecords
=============================================================================
