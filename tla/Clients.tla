------------------------------- MODULE Clients -------------------------------
(***************************************************************************)
(* Companies, the clients that are opened with them, their contacts, their *)
(* portal logins and their filing periods: modules/companies.js,           *)
(* modules/clients.js, provisionClient and openFilingPeriod of             *)
(* services/provisioning.js and the monthly job that opens periods.  Rows  *)
(* are numbered in the order they are inserted; a row that is archived     *)
(* stays in the table.                                                     *)
(***************************************************************************)
EXTENDS Handlers

CONSTANTS
    Gstins,         \* GST registration numbers
    StateOf,        \* the state each begins with
    HomeState,      \* '33', the state a form that names none is given
    Checklist,      \* document types a new period asks for
    MaxRows         \* bound: companies, and clients

ASSUME ClientConstants ==
    /\ DOMAIN StateOf = Gstins /\ MaxRows \in Nat \ {0}

VARIABLES
    company,        \* companies, by number
    client,         \* clients, by number; code is the number in client_code
    contacts,       \* client_contacts of each client, counted by is_primary
    period,         \* filing_periods of this month: the checklist items of each client's
    portal,         \* companies the portal user of the contact's address is linked to
    retired         \* history: numbers an archived company has or has had

clientele == <<company, client, contacts, period, portal, retired>>
clientVars == <<server, clientele>>

Rows == 1..MaxRows
States == {HomeState} \cup {StateOf[g] : g \in Gstins}
NoPeriod == {None}

ClientInit ==
    /\ company = [c \in Rows |-> [status |-> "absent", deleted |-> FALSE, gstin |-> None, state |-> HomeState]]
    /\ client = [k \in Rows |-> [status |-> "absent", deleted |-> FALSE, company |-> 0, code |-> 0]]
    /\ contacts = [k \in Rows |-> [primary |-> 0, other |-> 0]]
    /\ period = [k \in Rows |-> NoPeriod]
    /\ portal = {} /\ retired = {}

Present(table) == {i \in Rows : table[i].status # "absent"}
Fresh(table) == Cardinality(Present(table)) + 1
LiveCompanies == {c \in Present(company) : ~company[c].deleted}
With(g) == {c \in Present(company) : company[c].gstin = g}

-----------------------------------------------------------------------------
\* scope.first asks for one row with the number, deleted or not, in no order; only
\* the row it happens to get is looked at.
FirstIsFree(g, except) ==
    g = None \/ With(g) = {} \/ \E c \in With(g) : c = except \/ company[c].deleted

InStep(g, state) == g # None => StateOf[g] = state

\* POST /companies.  The state is the one named, or the one the number begins with.
PostCompany(r, g, state) ==
    /\ FirstIsFree(g, 0) /\ InStep(g, state)
    /\ Begin(r, [pc |-> "company", gstin |-> g, state |-> state, kind |-> "company", login |-> FALSE])
    /\ UNCHANGED clientele

\* POST /clients looks for a live company with the number and does not compare the
\* state, which is the home state when the form names none.
PostClient(r, g, state, login) ==
    /\ g = None \/ With(g) \cap LiveCompanies = {}
    /\ Begin(r, [pc |-> "company", gstin |-> g, state |-> state, kind |-> "client", login |-> login])
    /\ UNCHANGED clientele

InsertCompany(r) ==
    LET c == Fresh(company) IN
    /\ At(r, "company") /\ c \in Rows
    /\ company' = [company EXCEPT ![c] =
          [status |-> "active", deleted |-> FALSE, gstin |-> req[r].gstin, state |-> req[r].state]]
    /\ Continue(r, IF req[r].kind = "company" THEN Idle
                   ELSE [pc |-> "count", company |-> c, login |-> req[r].login])
    /\ UNCHANGED <<client, contacts, period, portal, retired>>

\* nextClientCode counts the clients there are; the code is unique, so a second
\* client with the same count is refused and its company stays behind.
CountClients(r) ==
    /\ At(r, "count")
    /\ Continue(r, [pc |-> "client", company |-> req[r].company, login |-> req[r].login,
                    code |-> Cardinality(Present(client)) + 1])
    /\ UNCHANGED clientele

InsertClient(r) ==
    LET k == Fresh(client)
        taken == \E j \in Present(client) : client[j].code = req[r].code
    IN
    /\ At(r, "client") /\ k \in Rows
    /\ client' = IF taken THEN client
                 ELSE [client EXCEPT ![k] = [status |-> "active", deleted |-> FALSE,
                                             company |-> req[r].company, code |-> req[r].code]]
    /\ Continue(r, IF taken THEN Idle
                   ELSE [pc |-> IF req[r].login THEN "login" ELSE "contact",
                         client |-> k, company |-> req[r].company])
    /\ UNCHANGED <<company, contacts, period, portal, retired>>

\* The contact's address has one portal user: the first client with a login makes
\* it and links it to its company, a later one finds it and links nothing.
CreateLogin(r) ==
    /\ At(r, "login")
    /\ portal' = IF portal = {} THEN {req[r].company} ELSE portal
    /\ Continue(r, [req[r] EXCEPT !.pc = "contact"])
    /\ UNCHANGED <<company, client, contacts, period, retired>>

InsertContact(r) ==
    /\ At(r, "contact")
    /\ contacts' = [contacts EXCEPT ![req[r].client].primary = @ + 1]
    /\ Continue(r, [pc |-> "open", client |-> req[r].client])
    /\ UNCHANGED <<company, client, period, portal, retired>>

\* openFilingPeriod: nothing for a period that is there; else the period, then its
\* checklist one item at a time.
OpenPeriod(r) ==
    LET k == req[r].client IN
    /\ At(r, "open")
    /\ IF period[k] # NoPeriod
       THEN Return(r) /\ UNCHANGED period
       ELSE /\ period' = [period EXCEPT ![k] = {}]
            /\ Continue(r, [pc |-> "items", client |-> k, left |-> Checklist])
    /\ UNCHANGED <<company, client, contacts, portal, retired>>

InsertItem(r) ==
    /\ At(r, "items")
    /\ IF req[r].left = {}
       THEN Return(r) /\ UNCHANGED period
       ELSE \E t \in req[r].left :
              /\ period' = [period EXCEPT ![req[r].client] = @ \cup {t}]
              /\ Continue(r, [req[r] EXCEPT !.left = @ \ {t}])
    /\ UNCHANGED <<company, client, contacts, portal, retired>>

\* POST /clients/:id/periods, and the job of the first days of a month for each
\* active client.
PostPeriod(r, k) ==
    /\ k \in Present(client) /\ period[k] = NoPeriod
    /\ Begin(r, [pc |-> "open", client |-> k])
    /\ UNCHANGED clientele

OpenMonthlyPeriods(r, k) ==
    /\ client[k].status = "active" /\ ~client[k].deleted /\ period[k] = NoPeriod
    /\ Fire(r, [pc |-> "open", client |-> k])
    /\ UNCHANGED clientele

-----------------------------------------------------------------------------
\* PATCH /companies/:id checks the number against one other row and the final
\* number against the final state.
PatchCompany(r, c, g, state) ==
    /\ c \in Present(company)
    /\ g # company[c].gstin => FirstIsFree(g, c)
    /\ LET final == [gstin |-> IF g = None THEN company[c].gstin ELSE g, state |-> state] IN
       /\ InStep(final.gstin, final.state)
       /\ Begin(r, [pc |-> "patchCompany", c |-> c,
                    patch |-> IF g = None THEN [state |-> state] ELSE final])
    /\ UNCHANGED clientele

\* Mutant: archived clients do not hold their company.
ArchiveCompanyUnderArchived(r, c) ==
    /\ c \in Present(company)
    /\ \A k \in Present(client) : client[k].company = c => client[k].deleted
    /\ Begin(r, [pc |-> "patchCompany", c |-> c, patch |-> [status |-> "archived", deleted |-> TRUE]])
    /\ UNCHANGED clientele

\* DELETE /companies/:id counts the clients of the company, the archived ones too.  The
\* status and the date are two statements, one here: nothing tells them apart.
ArchiveCompany(r, c) ==
    /\ c \in Present(company)
    /\ \A k \in Present(client) : client[k].company # c
    /\ Begin(r, [pc |-> "patchCompany", c |-> c, patch |-> [status |-> "archived", deleted |-> TRUE]])
    /\ UNCHANGED clientele

WriteCompany(r) ==
    LET row == Update(company[req[r].c], req[r].patch) IN
    /\ At(r, "patchCompany")
    /\ company' = [company EXCEPT ![req[r].c] = row]
    /\ retired' = IF row.deleted THEN retired \cup {row.gstin} ELSE retired
    /\ Return(r)
    /\ UNCHANGED <<client, contacts, period, portal>>

\* PATCH /clients/:id sets any status; DELETE, with nothing unpaid, also the date.
PatchClient(r, k, status) ==
    /\ k \in Present(client) /\ ~client[k].deleted
    /\ client' = [client EXCEPT ![k].status = status]
    /\ Begin(r, Idle)
    /\ UNCHANGED <<company, contacts, period, portal, retired>>

ArchiveClient(r, k) ==
    /\ k \in Present(client)
    /\ client' = [client EXCEPT ![k].status = "archived", ![k].deleted = TRUE]
    /\ Begin(r, Idle)
    /\ UNCHANGED <<company, contacts, period, portal, retired>>

\* A new primary contact first takes the flag from the others.
PostContact(r, k, primary) ==
    /\ k \in Present(client)
    /\ contacts' = IF ~primary THEN contacts
                   ELSE [contacts EXCEPT ![k] = [primary |-> 0, other |-> @.primary + @.other]]
    /\ Begin(r, [pc |-> "newContact", client |-> k, primary |-> primary])
    /\ UNCHANGED <<company, client, period, portal, retired>>

AddContact(r) ==
    LET k == req[r].client IN
    /\ At(r, "newContact")
    /\ contacts' = IF req[r].primary THEN [contacts EXCEPT ![k].primary = @ + 1]
                   ELSE [contacts EXCEPT ![k].other = @ + 1]
    /\ Return(r)
    /\ UNCHANGED <<company, client, period, portal, retired>>

\* The primary contact is not removed.
DeleteContact(r, k) ==
    /\ k \in Present(client) /\ contacts[k].other > 0
    /\ contacts' = [contacts EXCEPT ![k].other = @ - 1]
    /\ Begin(r, Idle)
    /\ UNCHANGED <<company, client, period, portal, retired>>

-----------------------------------------------------------------------------
ClientRequest(r) ==
    \/ \E g \in Gstins \cup {None}, state \in States :
          \/ PostCompany(r, g, state)
          \/ \E login \in BOOLEAN : PostClient(r, g, state, login)
          \/ \E c \in Rows : PatchCompany(r, c, g, state)
    \/ \E c \in Rows : ArchiveCompany(r, c)
    \/ \E k \in Rows : \/ PostPeriod(r, k) \/ OpenMonthlyPeriods(r, k)
                       \/ \E status \in {"active", "churned"} : PatchClient(r, k, status)
                       \/ ArchiveClient(r, k) \/ DeleteContact(r, k)
                       \/ \E primary \in BOOLEAN : PostContact(r, k, primary)

ClientStep(r) ==
    \/ InsertCompany(r) \/ CountClients(r) \/ InsertClient(r) \/ CreateLogin(r) \/ InsertContact(r)
    \/ OpenPeriod(r) \/ InsertItem(r) \/ WriteCompany(r) \/ AddContact(r)

ClientNext ==
    \/ \E r \in Requests : ClientRequest(r) \/ ClientStep(r)
    \/ Restart /\ UNCHANGED clientele

\* A start with any slots, any number of requests and of restarts.
ClientSpec ==
    /\ \E slots \in SUBSET Requests, requests, stops \in Nat : ServerInit(slots, requests, stops)
    /\ ClientInit
    /\ [][ClientNext]_clientVars

ClientTypeOK ==
    /\ company \in [Rows -> [status : {"absent", "active", "archived"}, deleted : BOOLEAN,
                             gstin : Gstins \cup {None}, state : States]]
    /\ client \in [Rows -> [status : {"absent", "active", "churned", "archived"}, deleted : BOOLEAN,
                            company : 0..MaxRows, code : 0..MaxRows]]
    /\ contacts \in [Rows -> [primary : Nat, other : Nat]]
    /\ \A k \in Rows : period[k] # NoPeriod => period[k] \subseteq Checklist
    /\ portal \subseteq Rows /\ retired \subseteq Gstins \cup {None}

\* modules/companies.js refuses a GSTIN that "is already registered".  Two live
\* companies have the same number only when an archived one has it or has had it:
\* the one row the check reads may then have been the archived one, which a later
\* PATCH may have given another number.  Claimed while no two requests have
\* overlapped; no index backs the check.
GstinOnce ==
    ~overlapped =>
      \A c, d \in LiveCompanies :
         c # d /\ company[c].gstin = company[d].gstin /\ company[c].gstin # None =>
           company[c].gstin \in retired

\* A client that is open has exactly one primary contact, whatever contacts are
\* added, promoted and removed, and a period that is open has its whole checklist.
\* Neither survives a handler cut off half way.
ClientsAreWhole ==
    ~overlapped /\ Quiescent =>
      \A k \in Present(client) :
         contacts[k].primary = 1 /\ (period[k] = NoPeriod \/ period[k] = Checklist)

\* No client's company is archived under it, also when it is archived while the
\* client is being opened - claimed while no two requests have overlapped.
CompanyOutlivesClients ==
    ~overlapped => \A k \in Present(client) : ~company[client[k].company].deleted

\* modules/companies.js: "A GSTIN whose state code contradicts the address makes
\* every later tax computation wrong, so the two are kept consistent at the point
\* of entry."
GstinMatchesState == \A c \in LiveCompanies : InStep(company[c].gstin, company[c].state)

\* The register of clients holds together: the parts above.
ClientsHold ==
    /\ ClientTypeOK
    /\ GstinOnce
    /\ ClientsAreWhole
    /\ CompanyOutlivesClients
=============================================================================
