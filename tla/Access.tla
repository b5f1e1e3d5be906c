------------------------------- MODULE Access -------------------------------
(***************************************************************************)
(* Who may do what in one organisation: the people's status, roles,        *)
(* permission overrides and companies (modules/users.js), the              *)
(* organisation's status, support sessions and the platform's owner        *)
(* (modules/platform.js, modules/auth.js), and how a request finds out     *)
(* (auth/middleware.js, auth/identity.js).                                 *)
(*                                                                         *)
(* One permission stands for users.update and roles.manage, which the      *)
(* routes below ask for and the administrator role carries.                *)
(***************************************************************************)
EXTENDS Handlers, Sequences

CONSTANTS
    People,         \* the users rows of the organisation
    Companies,      \* its companies
    Admin, Staff, Client,   \* roles, from the highest level to the lowest
    MaxSessions     \* bound: sessions ever opened

ASSUME AccessConstants ==
    /\ IsFiniteSet(People) /\ IsFiniteSet(Companies) /\ Companies # {}
    /\ Admin # Staff /\ Staff # Client /\ Admin # Client
    /\ MaxSessions \in Nat

VARIABLES
    people,         \* users, user_roles, user_permissions and user_companies, per person
    orgStatus,      \* tenants.status, and a history count of its blocks
    seats,          \* sessions, in the order they were opened
    owners,         \* users with the super_admin role
    exposed         \* history: a client's request was served without a company scope

access == <<people, orgStatus, seats, owners, exposed>>
accessVars == <<server, access>>

Highest(roles) == IF Admin \in roles THEN 80 ELSE IF Staff \in roles THEN 50
                  ELSE IF Client \in roles THEN 20 ELSE 0

\* Every person has the role provisioning or POST /users gave them; a client has
\* the companies it was invited to.  version counts changes of powers, and emptied
\* remembers that the last list of companies given to the person was empty.
AccessInit ==
    /\ \E role \in [People -> {Admin, Staff, Client}] :
          /\ \E p \in People : role[p] = Admin
          /\ people = [p \in People |->
                [status |-> "active", roles |-> {role[p]}, override |-> "none",
                 companies |-> IF role[p] = Client THEN {CHOOSE c \in Companies : TRUE} ELSE {},
                 client |-> role[p] = Client, version |-> 0, emptied |-> FALSE]]
    /\ orgStatus = [status |-> "active", blocks |-> 0]
    /\ seats = << >>
    /\ owners = 0
    /\ exposed = FALSE

-----------------------------------------------------------------------------
\* authenticate and authorize.

\* loadIdentity: overrides come last, and may take away as well as give.
Holds(p) == /\ people[p].override # "denied"
            /\ Admin \in people[p].roles \/ people[p].override = "granted"

Blocked == orgStatus.status \in {"suspended", "cancelled"}

\* resolveSession and loadIdentity: a support session may enter a blocked
\* organisation, nobody a suspended account.
Identified(i) ==
    /\ i \in DOMAIN seats /\ ~seats[i].revoked
    /\ people[seats[i].person].status = "active"
    /\ Blocked => seats[i].mode # "own"

\* authorize, for a route that changes something.
MayWrite(i) == Identified(i) /\ seats[i].mode # "view" /\ Holds(seats[i].person)

\* assertCanEdit: only people below the caller's own level, or the caller.
CanEdit(i, p) ==
    \/ seats[i].person = p
    \/ Highest(people[p].roles) < Highest(people[seats[i].person].roles)

Open(p, mode) ==
    Append(seats, [person |-> p, mode |-> mode, revoked |-> FALSE,
                   version |-> people[p].version, blocks |-> orgStatus.blocks])

\* Mutant: support sessions are left alone.
RevokeOwnOf(p) == [i \in DOMAIN seats |->
    IF seats[i].person = p /\ seats[i].mode = "own" THEN [seats[i] EXCEPT !.revoked = TRUE] ELSE seats[i]]

RevokeAllOf(p) == [i \in DOMAIN seats |->
    IF seats[i].person = p THEN [seats[i] EXCEPT !.revoked = TRUE] ELSE seats[i]]

\* A request that only reads.  The companies a person is a member of are the last
\* thing loadIdentity reads; no row means every company of the organisation.
Browse(r, i) ==
    /\ Identified(i)
    /\ Begin(r, [pc |-> "scope", person |-> seats[i].person])
    /\ UNCHANGED access

LoadScope(r) ==
    LET p == req[r].person IN
    /\ At(r, "scope")
    /\ exposed' = (exposed \/ (people[p].client /\ people[p].companies = {} /\ ~people[p].emptied))
    /\ Return(r)
    /\ UNCHANGED <<people, orgStatus, seats, owners>>

\* POST /login, after the password: the identity is loaded, the session inserted.
OpenOwn(r, p) ==
    /\ people[p].status = "active" /\ ~Blocked
    /\ Begin(r, [pc |-> "open", person |-> p, mode |-> "own"])
    /\ UNCHANGED access

\* POST /tenants/:id/impersonate asks for nothing about the person or the status.
Impersonate(r, p, mode) ==
    /\ Begin(r, [pc |-> "open", person |-> p, mode |-> mode])
    /\ UNCHANGED access

InsertSession(r) ==
    /\ At(r, "open") /\ Len(seats) < MaxSessions
    /\ seats' = Open(req[r].person, req[r].mode)
    /\ Return(r)
    /\ UNCHANGED <<people, orgStatus, owners, exposed>>

\* POST /support/exit, and the expiry of the session.
EndSupport(r, i) ==
    /\ i \in DOMAIN seats /\ ~seats[i].revoked /\ seats[i].mode # "own"
    /\ seats' = [seats EXCEPT ![i].revoked = TRUE]
    /\ Begin(r, Idle)
    /\ UNCHANGED <<people, orgStatus, owners, exposed>>

-----------------------------------------------------------------------------
\* Changing a person.

\* PATCH /users/:id with a status, and DELETE /users/:id.
PatchStatus(r, i, p, status) ==
    /\ MayWrite(i) /\ CanEdit(i, p) /\ seats[i].person # p
    /\ people[p].status # status
    /\ Begin(r, [pc |-> "status", person |-> p, status |-> status])
    /\ UNCHANGED access

WriteStatus(r) ==
    LET p == req[r].person ends == req[r].status # "active" IN
    /\ At(r, "status")
    /\ people' = [people EXCEPT ![p].status = req[r].status,
                                ![p].version = IF ends THEN @ + 1 ELSE @]
    /\ Continue(r, IF ends THEN [pc |-> "revoke", person |-> p] ELSE Idle)
    /\ UNCHANGED <<orgStatus, seats, owners, exposed>>

\* PUT /users/:id/roles: nobody above the caller's level is made.  The old rows
\* are deleted and the new ones inserted one at a time.
PutRoles(r, i, p, roles) ==
    /\ MayWrite(i) /\ CanEdit(i, p) /\ seats[i].person # p
    /\ Highest(roles) <= Highest(people[seats[i].person].roles)
    /\ Begin(r, [pc |-> "clearRoles", person |-> p, roles |-> roles])
    /\ UNCHANGED access

ClearRoles(r) ==
    LET p == req[r].person IN
    /\ At(r, "clearRoles")
    /\ people' = [people EXCEPT ![p].roles = {}, ![p].version = @ + 1]
    /\ Continue(r, [req[r] EXCEPT !.pc = "insertRole"])
    /\ UNCHANGED <<orgStatus, seats, owners, exposed>>

InsertRole(r, role) ==
    LET p == req[r].person rest == req[r].roles \ {role} IN
    /\ At(r, "insertRole") /\ role \in req[r].roles
    /\ people' = [people EXCEPT ![p].roles = @ \cup {role}]
    /\ Continue(r, IF rest = {} THEN [pc |-> "revoke", person |-> p]
                   ELSE [req[r] EXCEPT !.roles = rest])
    /\ UNCHANGED <<orgStatus, seats, owners, exposed>>

\* PUT /users/:id/permissions: delete, insert unless it is only cleared, revoke.
PutPermission(r, i, p, effect) ==
    /\ MayWrite(i) /\ CanEdit(i, p)
    /\ Begin(r, [pc |-> "clearOverride", person |-> p, effect |-> effect])
    /\ UNCHANGED access

ClearOverride(r) ==
    LET p == req[r].person IN
    /\ At(r, "clearOverride")
    /\ people' = [people EXCEPT ![p].override = "none", ![p].version = @ + 1]
    /\ Continue(r, IF req[r].effect = "none" THEN [pc |-> "revoke", person |-> p]
                   ELSE [req[r] EXCEPT !.pc = "override"])
    /\ UNCHANGED <<orgStatus, seats, owners, exposed>>

\* The row is unique per person and permission.
InsertOverride(r) ==
    LET p == req[r].person IN
    /\ At(r, "override")
    /\ IF people[p].override # "none"
       THEN Return(r) /\ UNCHANGED people
       ELSE /\ people' = [people EXCEPT ![p].override = req[r].effect]
            /\ Continue(r, [pc |-> "revoke", person |-> p])
    /\ UNCHANGED <<orgStatus, seats, owners, exposed>>

RevokePerson(r) ==
    /\ At(r, "revoke")
    /\ seats' = RevokeAllOf(req[r].person)
    /\ Return(r)
    /\ UNCHANGED <<people, orgStatus, owners, exposed>>

\* PUT /users/:id/companies, with companies that exist, or none.  No session is ended.
PutCompanies(r, i, p, companies) ==
    /\ MayWrite(i) /\ CanEdit(i, p)
    /\ Begin(r, [pc |-> "clearCompanies", person |-> p, companies |-> companies])
    /\ UNCHANGED access

ClearCompanies(r) ==
    /\ At(r, "clearCompanies")
    /\ people' = [people EXCEPT ![req[r].person].companies = {},
                                ![req[r].person].emptied = req[r].companies = {}]
    /\ Continue(r, IF req[r].companies = {} THEN Idle ELSE [req[r] EXCEPT !.pc = "insertCompany"])
    /\ UNCHANGED <<orgStatus, seats, owners, exposed>>

AssignCompany(r, c) ==
    LET rest == req[r].companies \ {c} IN
    /\ At(r, "insertCompany") /\ c \in req[r].companies
    /\ people' = [people EXCEPT ![req[r].person].companies = @ \cup {c}]
    /\ Continue(r, IF rest = {} THEN Idle ELSE [req[r] EXCEPT !.companies = rest])
    /\ UNCHANGED <<orgStatus, seats, owners, exposed>>

-----------------------------------------------------------------------------
\* The platform.

\* PATCH /tenants/:id with a status: what blocks ends every session first, one
\* person at a time, and writes the status last.
PatchTenant(r, status) ==
    /\ orgStatus.status # status
    /\ Begin(r, [pc |-> "tenant", status |-> status,
                 rest |-> IF status = "active" THEN {} ELSE People])
    /\ UNCHANGED access

RevokeForTenant(r, p) ==
    /\ At(r, "tenant") /\ p \in req[r].rest
    /\ seats' = RevokeAllOf(p)
    /\ Continue(r, [req[r] EXCEPT !.rest = @ \ {p}])
    /\ UNCHANGED <<people, orgStatus, owners, exposed>>

WriteTenant(r) ==
    /\ At(r, "tenant") /\ req[r].rest = {}
    /\ orgStatus' = [status |-> req[r].status,
                     blocks |-> orgStatus.blocks + (IF req[r].status = "active" THEN 0 ELSE 1)]
    /\ Return(r)
    /\ UNCHANGED <<people, seats, owners, exposed>>

\* POST /auth/platform-setup.
ClaimPlatform(r) ==
    /\ owners = 0
    /\ Begin(r, [pc |-> "claim"])
    /\ UNCHANGED access

InsertOwner(r) ==
    /\ At(r, "claim")
    /\ owners' = owners + 1
    /\ Return(r)
    /\ UNCHANGED <<people, orgStatus, seats, exposed>>

-----------------------------------------------------------------------------
AccessStep(r) ==
    \/ LoadScope(r) \/ InsertSession(r)
    \/ WriteStatus(r) \/ ClearRoles(r) \/ (\E role \in {Admin, Staff, Client} : InsertRole(r, role))
    \/ ClearOverride(r) \/ InsertOverride(r) \/ RevokePerson(r)
    \/ ClearCompanies(r) \/ (\E c \in Companies : AssignCompany(r, c))
    \/ (\E p \in People : RevokeForTenant(r, p)) \/ WriteTenant(r)
    \/ InsertOwner(r)

AccessRequest(r) ==
    \/ \E p \in People : OpenOwn(r, p) \/ \E mode \in {"view", "support"} : Impersonate(r, p, mode)
    \/ \E i \in DOMAIN seats :
          \/ Browse(r, i) \/ EndSupport(r, i)
          \/ \E p \in People :
                \/ \E status \in {"active", "suspended", "deactivated"} : PatchStatus(r, i, p, status)
                \/ \E roles \in (SUBSET {Admin, Staff, Client}) \ {{}} : PutRoles(r, i, p, roles)
                \/ \E effect \in {"none", "granted", "denied"} : PutPermission(r, i, p, effect)
                \/ \E cs \in SUBSET Companies : PutCompanies(r, i, p, cs)
    \/ \E status \in {"active", "suspended", "cancelled"} : PatchTenant(r, status)
    \/ ClaimPlatform(r)

AccessNext ==
    \/ \E r \in Requests : AccessRequest(r) \/ AccessStep(r)
    \/ Restart /\ UNCHANGED access

\* A start with any slots, any number of requests and of restarts.
AccessSpec ==
    /\ \E slots \in SUBSET Requests, requests, stops \in Nat : ServerInit(slots, requests, stops)
    /\ AccessInit
    /\ [][AccessNext]_accessVars

AccessTypeOK ==
    /\ people \in [People -> [status : {"active", "suspended", "deactivated"},
                              roles : SUBSET {Admin, Staff, Client},
                              override : {"none", "granted", "denied"},
                              companies : SUBSET Companies, client : BOOLEAN, version : Nat,
                              emptied : BOOLEAN]]
    /\ orgStatus \in [status : {"active", "suspended", "cancelled"}, blocks : Nat]
    /\ seats \in Seq([person : People, mode : {"own", "view", "support"}, revoked : BOOLEAN,
                      version : Nat, blocks : Nat])
    /\ Len(seats) <= MaxSessions
    /\ owners \in Nat /\ exposed \in BOOLEAN

\* Taking powers away ends the sessions that have them: no session outlives a
\* change of its person's status, roles or permissions, nor a block of the
\* organisation, however often it is restored later.  Claimed while no two
\* handlers have overlapped: a sign-in in between is not ended.
ChangeEndsSessions ==
    ~overlapped /\ Quiescent =>
      \A i \in DOMAIN seats :
         ~seats[i].revoked => /\ seats[i].version = people[seats[i].person].version
                              /\ seats[i].blocks = orgStatus.blocks

\* identity.js: "Client users always have explicit rows, so they are confined",
\* unless an administrator gives one an empty list, which the route accepts; and a
\* person needs at least one role.  Both lists are deleted and inserted again, so
\* claimed while no two handlers have overlapped.
ListsStayWhole ==
    ~overlapped =>
      /\ ~exposed
      /\ Quiescent => \A p \in People : people[p].roles # {}

\* auth.js: the claim endpoint refuses once the platform has an owner.  Claimed
\* while no two handlers have overlapped.
OneOwner == ~overlapped => owners <= 1

\* Access follows its tables: the parts above together, over every sequence of changes
\* by administrators, the platform and the people themselves.
AccessIsWhole ==
    /\ AccessTypeOK
    /\ ChangeEndsSessions
    /\ ListsStayWhole
    /\ OneOwner
=============================================================================
