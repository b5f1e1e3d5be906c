--------------------------- MODULE Accounts_proofs ---------------------------
(***************************************************************************)
(* Who may do what, how an account is signed in to, and what it is billed  *)
(* for, for any people, companies, plans, add-ons, handlers, requests and  *)
(* restarts: what Access, SignIn, Subscription and AddOnBilling promise.   *)
(***************************************************************************)
EXTENDS MC_Accounts, Handlers_proofs

-----------------------------------------------------------------------------
(***************************************************************************)
(* Access: the invariant                                                   *)
(***************************************************************************)

Roles == {Admin, Staff, Client}

\* What a handler keeps between two statements.
AccessSlot ==
    [pc : {"scope", "revoke"}, person : People]
    \cup [pc : {"open"}, person : People, mode : {"own", "view", "support"}]
    \cup [pc : {"status"}, person : People, status : {"active", "suspended", "deactivated"}]
    \cup [pc : {"clearRoles", "insertRole"}, person : People, roles : (SUBSET Roles) \ {{}}]
    \cup [pc : {"clearOverride", "override"}, person : People, effect : {"none", "granted", "denied"}]
    \cup [pc : {"clearCompanies", "insertCompany"}, person : People, companies : SUBSET Companies]
    \cup [pc : {"tenant"}, status : {"active", "suspended", "cancelled"}, rest : SUBSET People]
    \cup [pc : {"claim"}]

\* A handler between the deletion of a list and the row that fills it again, and one
\* that has changed a person's powers and not yet ended the sessions.
Refilling(l, pc, p) == l.pc = pc /\ l.person = p
Revoking(l, p) == l.pc \in {"insertRole", "override", "revoke"} /\ l.person = p

\* What holds when the handler l is alone, or none is in flight and l is Idle.
SeatsInStep(l) ==
    \A i \in DOMAIN seats : ~seats[i].revoked =>
       /\ \/ seats[i].version = people[seats[i].person].version
          \/ Revoking(l, seats[i].person)
       /\ seats[i].blocks = orgStatus.blocks
       /\ l.pc = "tenant" /\ l.status # "active" => seats[i].person \in l.rest

ListsFilled(l) ==
    \A p \in People :
       /\ people[p].roles # {} \/ Refilling(l, "insertRole", p)
       /\ people[p].client => \/ people[p].companies # {} \/ people[p].emptied
                              \/ Refilling(l, "insertCompany", p)

AccessAlone(l) ==
    /\ SeatsInStep(l)
    /\ ListsFilled(l)
    /\ ~exposed
    /\ owners <= 1 /\ (l.pc = "claim" => owners = 0)
    /\ l.pc = "override" => people[l.person].override = "none"

AccessAloneInv ==
    ~overlapped =>
      /\ Quiescent => AccessAlone(Idle)
      /\ \A r \in InFlight : AccessAlone(req[r])

AccessInv ==
    /\ AccessTypeOK
    /\ ServerOK
    /\ \A r \in Requests : req[r] \in {Idle, Unused} \cup AccessSlot
    /\ AccessAloneInv

-----------------------------------------------------------------------------
(***************************************************************************)
(* Rows in the order they were inserted                                    *)
(***************************************************************************)

\* Inserting a row keeps the others.
LEMMA RowInserted ==
    ASSUME NEW S, NEW rows \in Seq(S), NEW row \in S
    PROVE  /\ Append(rows, row) \in Seq(S)
           /\ Len(Append(rows, row)) = Len(rows) + 1
           /\ DOMAIN Append(rows, row) = DOMAIN rows \cup {Len(rows) + 1}
           /\ Append(rows, row)[Len(rows) + 1] = row
           /\ Len(rows) + 1 \notin DOMAIN rows
           /\ \A i \in DOMAIN rows : Append(rows, row)[i] = rows[i]
  OBVIOUS

\* An UPDATE of rows keeps their number and their order.
LEMMA RowsUpdated ==
    ASSUME NEW S, NEW rows \in Seq(S), NEW rows2, rows2 = [i \in DOMAIN rows |-> rows2[i]],
           \A i \in DOMAIN rows : rows2[i] \in S
    PROVE  /\ rows2 \in Seq(S)
           /\ Len(rows2) = Len(rows)
           /\ DOMAIN rows2 = DOMAIN rows
  OBVIOUS

LEMMA RowsOf ==
    ASSUME NEW S, NEW rows \in Seq(S)
    PROVE  /\ DOMAIN rows = 1..Len(rows) /\ Len(rows) \in Nat
           /\ \A i \in DOMAIN rows : rows[i] \in S
  OBVIOUS

-----------------------------------------------------------------------------
(***************************************************************************)
(* Access: what every step needs                                           *)
(***************************************************************************)

PersonRow == [status : {"active", "suspended", "deactivated"}, roles : SUBSET Roles,
              override : {"none", "granted", "denied"}, companies : SUBSET Companies,
              client : BOOLEAN, version : Nat, emptied : BOOLEAN]
SeatRow == [person : People, mode : {"own", "view", "support"}, revoked : BOOLEAN,
            version : Nat, blocks : Nat]

LEMMA AccessTypes ==
    AccessTypeOK <=> /\ people \in [People -> PersonRow]
                     /\ orgStatus \in [status : {"active", "suspended", "cancelled"}, blocks : Nat]
                     /\ seats \in Seq(SeatRow) /\ Len(seats) <= MaxSessions
                     /\ owners \in Nat /\ exposed \in BOOLEAN
  BY DEF AccessTypeOK, PersonRow, SeatRow, Roles

LEMMA SeatsOf ==
    ASSUME AccessTypeOK
    PROVE  \A i \in DOMAIN seats : seats[i] \in SeatRow /\ seats[i].person \in People
<1>1. seats \in Seq(SeatRow)
  BY AccessTypes
<1>2. \A i \in DOMAIN seats : seats[i] \in SeatRow
  BY <1>1
<1> QED
  BY <1>2 DEF SeatRow

\* What a slot at a statement is.
LEMMA AccessSlotKinds ==
    ASSUME NEW l \in AccessSlot
    PROVE  /\ l \notin {Idle, Unused}
           /\ l.pc \in {"scope", "revoke"} => l = [pc |-> l.pc, person |-> l.person]
           /\ l.pc \notin {"tenant", "claim"} => l.person \in People
           /\ l.pc = "open" => l.mode \in {"own", "view", "support"}
           /\ l.pc = "status" => l.status \in {"active", "suspended", "deactivated"}
           /\ l.pc \in {"clearRoles", "insertRole"} =>
                 /\ l = [pc |-> l.pc, person |-> l.person, roles |-> l.roles]
                 /\ l.roles \in (SUBSET Roles) \ {{}}
           /\ l.pc \in {"clearOverride", "override"} =>
                 /\ l = [pc |-> l.pc, person |-> l.person, effect |-> l.effect]
                 /\ l.effect \in {"none", "granted", "denied"}
           /\ l.pc \in {"clearCompanies", "insertCompany"} =>
                 /\ l = [pc |-> l.pc, person |-> l.person, companies |-> l.companies]
                 /\ l.companies \in SUBSET Companies
           /\ l.pc = "tenant" => /\ l = [pc |-> l.pc, status |-> l.status, rest |-> l.rest]
                                 /\ l.status \in {"active", "suspended", "cancelled"}
                                 /\ l.rest \in SUBSET People
  BY DEF AccessSlot, Idle, Unused

LEMMA AccessAt ==
    ASSUME AccessInv, NEW r \in Requests, req[r].pc \notin {"idle", "unused"}
    PROVE  req[r] \in AccessSlot
  BY DEF AccessInv, Idle, Unused

\* A handler that moves on: what held with it alone holds with it alone after the step.
LEMMA AccessContinues ==
    ASSUME AccessInv, NEW r \in Requests, req[r] \in AccessSlot,
           NEW l \in AccessSlot \cup {Idle}, Continue(r, l),
           AccessTypeOK',
           ~overlapped /\ AccessAlone(req[r]) /\ req'[r] = l => AccessAlone(req[r])'
    PROVE  AccessInv'
<1>1. /\ ServerOK' /\ req'[r] = l /\ overlapped' = overlapped
      /\ \A s \in Requests \ {r} : req'[s] = req[s]
      /\ ~overlapped => \A s \in Requests \ {r} : req[s] \in {Idle, Unused}
  BY Continued, AccessSlotKinds DEF AccessInv
<1>2. \A s \in Requests : req'[s] \in {Idle, Unused} \cup AccessSlot
  BY <1>1 DEF AccessInv
<1>3. r \in InFlight
  BY AccessSlotKinds DEF InFlight
<1>4. ~overlapped => AccessAlone(req[r])'
  BY <1>1, <1>3 DEF AccessInv, AccessAloneInv
<1>5. ~overlapped => InFlight' \subseteq {r}
  BY <1>1 DEF InFlight
<1>6. Quiescent' => req'[r] = Idle
  BY <1>1, AccessSlotKinds DEF Quiescent, InFlight
<1>7. ~overlapped /\ Quiescent' => AccessAlone(Idle)'
  BY <1>4, <1>6 DEF AccessAlone, SeatsInStep, ListsFilled, Revoking, Refilling, Idle
<1>8. ~overlapped => \A s \in InFlight' : AccessAlone(req[s])'
  BY <1>4, <1>5 DEF AccessAlone, SeatsInStep, ListsFilled, Revoking, Refilling
<1>9. AccessAloneInv'
  BY <1>1, <1>7, <1>8 DEF AccessAloneInv
<1> QED
  BY <1>1, <1>2, <1>9 DEF AccessInv

\* One that arrives, or is served in one step.
LEMMA AccessBegins ==
    ASSUME AccessInv, NEW r \in Requests, NEW l \in AccessSlot \cup {Idle}, Begin(r, l),
           AccessTypeOK',
           AccessAlone(Idle) /\ req'[r] = l => AccessAlone(req[r])'
    PROVE  AccessInv'
<1>1. /\ ServerOK' /\ req'[r] = l /\ (overlapped => overlapped')
      /\ \A s \in Requests \ {r} : req'[s] = req[s]
      /\ ~overlapped' => \A s \in Requests : req[s] \in {Idle, Unused}
  BY Begun DEF AccessInv
<1>2. \A s \in Requests : req'[s] \in {Idle, Unused} \cup AccessSlot
  BY <1>1 DEF AccessInv
<1>3. ~overlapped' => ~overlapped /\ Quiescent
  BY <1>1 DEF Quiescent, InFlight, AccessInv, ServerOK
<1>4. ~overlapped' => AccessAlone(req[r])'
  BY <1>1, <1>3 DEF AccessInv, AccessAloneInv
<1>5. ~overlapped' => InFlight' \subseteq {r}
  BY <1>1 DEF InFlight
<1>6. Quiescent' => req'[r] = Idle
  BY <1>1, AccessSlotKinds DEF Quiescent, InFlight
<1>7. ~overlapped' /\ Quiescent' => AccessAlone(Idle)'
  BY <1>4, <1>6 DEF AccessAlone, SeatsInStep, ListsFilled, Revoking, Refilling, Idle
<1>8. ~overlapped' => \A s \in InFlight' : AccessAlone(req[s])'
  BY <1>4, <1>5 DEF AccessAlone, SeatsInStep, ListsFilled, Revoking, Refilling
<1>9. AccessAloneInv'
  BY <1>7, <1>8 DEF AccessAloneInv
<1> QED
  BY <1>1, <1>2, <1>9 DEF AccessInv

\* A request that has only read: the first statement of its handler is still to come.
LEMMA AccessReads ==
    ASSUME AccessInv, NEW r \in Requests, NEW l \in AccessSlot, Begin(r, l), UNCHANGED access,
           l.pc \notin {"tenant", "claim", "override"}
    PROVE  AccessInv'
<1>1. AccessTypeOK'
  BY DEF AccessInv, AccessTypeOK, access
<1>2. AccessAlone(Idle) /\ req'[r] = l => AccessAlone(req[r])'
  BY DEF AccessAlone, SeatsInStep, ListsFilled, Revoking, Refilling, Idle, access
<1> QED
  BY <1>1, <1>2, AccessBegins

-----------------------------------------------------------------------------
(***************************************************************************)
(* Access: requests                                                        *)
(***************************************************************************)

LEMMA RequestReads ==
    ASSUME AccessInv, NEW r \in Requests, NEW p \in People,
           \/ OpenOwn(r, p)
           \/ \E mode \in {"view", "support"} : Impersonate(r, p, mode)
           \/ \E i \in DOMAIN seats :
                 \/ Browse(r, i)
                 \/ \E status \in {"active", "suspended", "deactivated"} : PatchStatus(r, i, p, status)
                 \/ \E roles \in (SUBSET {Admin, Staff, Client}) \ {{}} : PutRoles(r, i, p, roles)
                 \/ \E effect \in {"none", "granted", "denied"} : PutPermission(r, i, p, effect)
                 \/ \E cs \in SUBSET Companies : PutCompanies(r, i, p, cs)
    PROVE  AccessInv'
<1>1. CASE OpenOwn(r, p)
  <2>1. [pc |-> "open", person |-> p, mode |-> "own"] \in AccessSlot
    BY DEF AccessSlot
  <2> QED
    BY <1>1, <2>1, AccessReads DEF OpenOwn
<1>2. ASSUME NEW mode \in {"view", "support"}, Impersonate(r, p, mode) PROVE AccessInv'
  <2>1. [pc |-> "open", person |-> p, mode |-> mode] \in AccessSlot
    BY DEF AccessSlot
  <2> QED
    BY <1>2, <2>1, AccessReads DEF Impersonate
<1>3. ASSUME NEW i \in DOMAIN seats, Browse(r, i) PROVE AccessInv'
  <2>1. seats[i].person \in People
    BY SeatsOf DEF AccessInv
  <2>2. PICK q \in People : q = seats[i].person
    BY <2>1
  <2>3. [pc |-> "scope", person |-> q] \in AccessSlot
    BY DEF AccessSlot
  <2> QED
    BY <1>3, <2>2, <2>3, AccessReads DEF Browse
<1>4. ASSUME NEW i \in DOMAIN seats, NEW status \in {"active", "suspended", "deactivated"},
             PatchStatus(r, i, p, status)
      PROVE  AccessInv'
  <2>1. [pc |-> "status", person |-> p, status |-> status] \in AccessSlot
    BY DEF AccessSlot
  <2> QED
    BY <1>4, <2>1, AccessReads DEF PatchStatus
<1>5. ASSUME NEW i \in DOMAIN seats, NEW roles \in (SUBSET {Admin, Staff, Client}) \ {{}},
             PutRoles(r, i, p, roles)
      PROVE  AccessInv'
  <2>1. [pc |-> "clearRoles", person |-> p, roles |-> roles] \in AccessSlot
    BY DEF AccessSlot, Roles
  <2> QED
    BY <1>5, <2>1, AccessReads DEF PutRoles
<1>6. ASSUME NEW i \in DOMAIN seats, NEW effect \in {"none", "granted", "denied"},
             PutPermission(r, i, p, effect)
      PROVE  AccessInv'
  <2>1. [pc |-> "clearOverride", person |-> p, effect |-> effect] \in AccessSlot
    BY DEF AccessSlot
  <2> QED
    BY <1>6, <2>1, AccessReads DEF PutPermission
<1>7. ASSUME NEW i \in DOMAIN seats, NEW cs \in SUBSET Companies, PutCompanies(r, i, p, cs)
      PROVE  AccessInv'
  <2>1. [pc |-> "clearCompanies", person |-> p, companies |-> cs] \in AccessSlot
    BY DEF AccessSlot
  <2> QED
    BY <1>7, <2>1, AccessReads DEF PutCompanies
<1> QED
  BY <1>1, <1>2, <1>3, <1>4, <1>5, <1>6, <1>7

LEMMA EndSupportStep ==
    ASSUME AccessInv, NEW r \in Requests, NEW i \in DOMAIN seats, EndSupport(r, i)
    PROVE  AccessInv'
<1>1. /\ Begin(r, Idle) /\ seats' = [seats EXCEPT ![i].revoked = TRUE]
      /\ UNCHANGED <<people, orgStatus, owners, exposed>>
  BY DEF EndSupport
<1>2. seats \in Seq(SeatRow) /\ \A k \in DOMAIN seats : seats[k] \in SeatRow
  BY AccessTypes, SeatsOf DEF AccessInv
<1>3. \A k \in DOMAIN seats :
         /\ seats'[k] \in SeatRow
         /\ k # i => seats'[k] = seats[k]
         /\ k = i => seats'[k].revoked
  BY <1>1, <1>2 DEF SeatRow
<1>4. seats' = [k \in DOMAIN seats |-> seats'[k]]
  BY <1>1
<1>5. seats' \in Seq(SeatRow) /\ Len(seats') = Len(seats) /\ DOMAIN seats' = DOMAIN seats
  BY <1>2, <1>3, <1>4, RowsUpdated
<1>6. AccessTypeOK'
  BY <1>1, <1>5, AccessTypes DEF AccessInv, AccessTypeOK, SeatRow
<1>7. AccessAlone(Idle) /\ req'[r] = Idle => AccessAlone(req[r])'
  BY <1>1, <1>3, <1>5 DEF AccessAlone, SeatsInStep, ListsFilled, Revoking, Refilling, Idle
<1> QED
  BY <1>1, <1>6, <1>7, AccessBegins

LEMMA PlatformRequests ==
    ASSUME AccessInv, NEW r \in Requests,
           \/ \E status \in {"active", "suspended", "cancelled"} : PatchTenant(r, status)
           \/ ClaimPlatform(r)
    PROVE  AccessInv'
<1>1. AccessTypeOK' /\ UNCHANGED access
  BY DEF PatchTenant, ClaimPlatform, AccessInv, AccessTypeOK, access
<1>2. ASSUME NEW status \in {"active", "suspended", "cancelled"}, PatchTenant(r, status)
      PROVE  AccessInv'
  <2> DEFINE l == [pc |-> "tenant", status |-> status,
                   rest |-> IF status = "active" THEN {} ELSE People]
  <2>1. Begin(r, l)
    BY <1>2 DEF PatchTenant
  <2>2. l \in AccessSlot
    BY DEF AccessSlot
  <2>3. \A i \in DOMAIN seats : seats[i].person \in People
    BY SeatsOf DEF AccessInv
  <2>4. l.pc = "tenant" /\ l.status = status /\ (status # "active" => l.rest = People)
    OBVIOUS
  <2> HIDE DEF l
  <2>5. AccessAlone(Idle) /\ req'[r] = l => AccessAlone(req[r])'
    BY <1>1, <2>3, <2>4 DEF AccessAlone, SeatsInStep, ListsFilled, Revoking, Refilling, Idle, access
  <2> QED
    BY <1>1, <2>1, <2>2, <2>5, AccessBegins
<1>3. CASE ClaimPlatform(r)
  <2>1. owners = 0 /\ Begin(r, [pc |-> "claim"])
    BY <1>3 DEF ClaimPlatform
  <2>2. [pc |-> "claim"] \in AccessSlot
    BY DEF AccessSlot
  <2>3. AccessAlone(Idle) /\ req'[r] = [pc |-> "claim"] => AccessAlone(req[r])'
    BY <1>1, <2>1 DEF AccessAlone, SeatsInStep, ListsFilled, Revoking, Refilling, Idle, access
  <2> QED
    BY <1>1, <2>1, <2>2, <2>3, AccessBegins
<1> QED
  BY <1>2, <1>3

-----------------------------------------------------------------------------
(***************************************************************************)
(* Access: statements                                                      *)
(***************************************************************************)

LEMMA LoadScopeStep ==
    ASSUME AccessInv, NEW r \in Requests, LoadScope(r)
    PROVE  AccessInv'
<1> DEFINE p == req[r].person
<1>1. req[r] \in AccessSlot /\ req[r].pc = "scope" /\ p \in People
  BY AccessAt, AccessSlotKinds DEF LoadScope, At
<1>2. /\ Continue(r, Idle) /\ UNCHANGED <<people, orgStatus, seats, owners>>
      /\ exposed' = (exposed \/ (people[p].client /\ people[p].companies = {} /\ ~people[p].emptied))
  BY DEF LoadScope, Return
<1>3. AccessTypeOK'
  BY <1>2 DEF AccessInv, AccessTypeOK
<1>4. AccessAlone(req[r]) /\ req'[r] = Idle => AccessAlone(req[r])'
  <2> SUFFICES ASSUME AccessAlone(req[r]), req'[r] = Idle PROVE AccessAlone(req[r])'
    OBVIOUS
  <2>1. ~(people[p].client /\ people[p].companies = {} /\ ~people[p].emptied)
    BY <1>1 DEF AccessAlone, ListsFilled, Refilling
  <2>2. ~exposed'
    BY <1>2, <2>1 DEF AccessAlone
  <2>3. SeatsInStep(req[r])' /\ ListsFilled(req[r])'
    BY <1>1, <1>2 DEF AccessAlone, SeatsInStep, ListsFilled, Revoking, Refilling, Idle
  <2> QED
    BY <1>2, <2>2, <2>3 DEF AccessAlone, Idle
<1> QED
  BY <1>1, <1>2, <1>3, <1>4, AccessContinues

LEMMA InsertSessionStep ==
    ASSUME AccessInv, NEW r \in Requests, InsertSession(r)
    PROVE  AccessInv'
<1> DEFINE p == req[r].person
           row == [person |-> p, mode |-> req[r].mode, revoked |-> FALSE,
                   version |-> people[p].version, blocks |-> orgStatus.blocks]
           n == Len(seats) + 1
<1>1. req[r] \in AccessSlot /\ req[r].pc = "open" /\ p \in People /\ req[r].mode \in {"own", "view", "support"}
  BY AccessAt, AccessSlotKinds DEF InsertSession, At
<1>2. /\ Continue(r, Idle) /\ seats' = Append(seats, row) /\ Len(seats) < MaxSessions
      /\ UNCHANGED <<people, orgStatus, owners, exposed>>
  BY DEF InsertSession, Return, Open
<1>3. seats \in Seq(SeatRow) /\ people[p].version \in Nat /\ orgStatus.blocks \in Nat
  BY <1>1, AccessTypes DEF AccessInv, PersonRow
<1>4. row \in SeatRow
  BY <1>1, <1>3 DEF SeatRow
<1>5. row.person = p /\ row.version = people[p].version /\ row.blocks = orgStatus.blocks
  OBVIOUS
<1> HIDE DEF row
<1>6. /\ seats' \in Seq(SeatRow) /\ Len(seats') = n /\ DOMAIN seats' = DOMAIN seats \cup {n}
      /\ seats'[n] = row /\ \A i \in DOMAIN seats : seats'[i] = seats[i]
  BY <1>2, <1>3, <1>4, RowInserted
<1>7. Len(seats') <= MaxSessions
  BY <1>2, <1>3, <1>6, AccessConstants
<1>8. AccessTypeOK'
  BY <1>2, <1>6, <1>7, AccessTypes DEF AccessInv, AccessTypeOK, SeatRow
<1>9. AccessAlone(req[r]) /\ req'[r] = Idle => AccessAlone(req[r])'
  <2> SUFFICES ASSUME AccessAlone(req[r]), req'[r] = Idle PROVE AccessAlone(req[r])'
    OBVIOUS
  <2>1. \A i \in DOMAIN seats : ~seats[i].revoked =>
           /\ seats[i].version = people[seats[i].person].version
           /\ seats[i].blocks = orgStatus.blocks
    BY <1>1 DEF AccessAlone, SeatsInStep, Revoking
  <2>2. \A i \in DOMAIN seats' : ~seats'[i].revoked =>
           /\ seats'[i].version = people[seats'[i].person].version
           /\ seats'[i].blocks = orgStatus.blocks
    BY <1>5, <1>6, <2>1
  <2>3. SeatsInStep(req[r])'
    BY <1>2, <2>2 DEF SeatsInStep, Idle
  <2> QED
    BY <1>1, <1>2, <2>3 DEF AccessAlone, ListsFilled, Refilling, Idle
<1> QED
  BY <1>1, <1>2, <1>8, <1>9, AccessContinues

\* A person's row changes: the others are as they were.
LEMMA PersonChanged ==
    ASSUME AccessInv, NEW p \in People, NEW row \in PersonRow, people' = [people EXCEPT ![p] = row],
           UNCHANGED <<orgStatus, seats, owners, exposed>>
    PROVE  /\ AccessTypeOK'
           /\ people'[p] = row /\ \A q \in People \ {p} : people'[q] = people[q]
<1>1. people \in [People -> PersonRow]
  BY AccessTypes DEF AccessInv
<1>2. /\ people' \in [People -> PersonRow]
      /\ people'[p] = row /\ \A q \in People \ {p} : people'[q] = people[q]
  BY <1>1
<1> QED
  BY <1>2 DEF AccessInv, AccessTypeOK, PersonRow, Roles

LEMMA PersonOf ==
    ASSUME AccessTypeOK, NEW p \in People
    PROVE  /\ people[p] \in PersonRow
           /\ people[p] = [status |-> people[p].status, roles |-> people[p].roles,
                           override |-> people[p].override, companies |-> people[p].companies,
                           client |-> people[p].client, version |-> people[p].version,
                           emptied |-> people[p].emptied]
           /\ people[p].version \in Nat
<1>1. people[p] \in PersonRow
  BY AccessTypes
<1> QED
  BY <1>1 DEF PersonRow

\* A statement about one person: with the handler alone, what its step leaves of the
\* person's row is in order, or is what the handler will still put in order.
LEMMA PersonStep ==
    ASSUME AccessInv, NEW r \in Requests, req[r] \in AccessSlot,
           NEW p \in People, req[r].person = p, req[r].pc \notin {"tenant", "claim"},
           NEW row \in PersonRow, people' = [people EXCEPT ![p] = row],
           UNCHANGED <<orgStatus, seats, owners, exposed>>,
           NEW l \in AccessSlot \cup {Idle}, Continue(r, l), l # Idle => l.person = p,
           l.pc \notin {"tenant", "claim"},
           row.client = people[p].client,
           \/ Revoking(l, p)
           \/ row.version = people[p].version /\ ~Revoking(req[r], p),
           \/ row.roles # {} \/ l.pc = "insertRole"
           \/ row.roles = people[p].roles /\ req[r].pc # "insertRole",
           \/ row.companies # {} \/ row.emptied \/ l.pc = "insertCompany"
           \/ /\ row.companies = people[p].companies /\ row.emptied = people[p].emptied
              /\ req[r].pc # "insertCompany",
           l.pc = "override" => row.override = "none"
    PROVE  AccessInv'
<1>1. /\ AccessTypeOK'
      /\ people'[p] = row /\ \A q \in People \ {p} : people'[q] = people[q]
  BY PersonChanged
<1>2. AccessAlone(req[r]) /\ req'[r] = l => AccessAlone(req[r])'
  <2> SUFFICES ASSUME AccessAlone(req[r]), req'[r] = l PROVE AccessAlone(req[r])'
    OBVIOUS
  <2>1. \A i \in DOMAIN seats : seats[i].person \in People
    BY SeatsOf DEF AccessInv
  <2>2. l.pc \in {"insertRole", "insertCompany", "override", "revoke"} => l.person = p
    BY DEF Idle
  <2>3. SeatsInStep(req[r])'
    BY <1>1, <2>1, <2>2 DEF AccessAlone, SeatsInStep, Revoking
  <2>4. ListsFilled(req[r])'
    BY <1>1, <2>2 DEF AccessAlone, ListsFilled, Refilling
  <2>5. l.pc = "override" => people'[l.person].override = "none"
    BY <1>1, <2>2
  <2> QED
    BY <2>3, <2>4, <2>5 DEF AccessAlone
<1> QED
  BY <1>1, <1>2, AccessContinues

\* What is suspended or deactivated is revoked next.
LEMMA WriteStatusStep ==
    ASSUME AccessInv, NEW r \in Requests, WriteStatus(r)
    PROVE  AccessInv'
<1>1. /\ req[r] \in AccessSlot /\ req[r].pc = "status" /\ req[r].person \in People
      /\ req[r].status \in {"active", "suspended", "deactivated"}
  BY AccessAt, AccessSlotKinds DEF WriteStatus, At
<1>2. PICK p \in People, s \in {"active", "suspended", "deactivated"} :
         p = req[r].person /\ s = req[r].status
  BY <1>1
<1>3. people[p] \in PersonRow /\ people[p].version \in Nat
  BY PersonOf DEF AccessInv
<1> DEFINE v == IF s # "active" THEN people[p].version + 1 ELSE people[p].version
           row == [people[p] EXCEPT !.status = s, !.version = v]
           l == IF s # "active" THEN [pc |-> "revoke", person |-> p] ELSE Idle
<1>4. /\ Continue(r, l) /\ UNCHANGED <<orgStatus, seats, owners, exposed>>
      /\ people' = [people EXCEPT ![p] = row]
  BY <1>2 DEF WriteStatus
<1>5. v \in Nat
  BY <1>3
<1>6. /\ l \in AccessSlot \cup {Idle} /\ (s = "active" => l = Idle)
      /\ s # "active" => l.pc = "revoke" /\ l.person = p
  BY DEF AccessSlot, Idle
<1>7. /\ row \in PersonRow
      /\ row.roles = people[p].roles /\ row.companies = people[p].companies
      /\ row.client = people[p].client /\ row.emptied = people[p].emptied
      /\ s = "active" => row.version = people[p].version
  <2> HIDE DEF v
  <2>1. /\ row \in PersonRow
        /\ row.roles = people[p].roles /\ row.companies = people[p].companies
        /\ row.client = people[p].client /\ row.emptied = people[p].emptied
        /\ row.version = v
    BY <1>3, <1>5 DEF PersonRow
  <2> QED
    BY <2>1 DEF v
<1> HIDE DEF v, row, l
<1> QED
  BY <1>1, <1>2, <1>4, <1>6, <1>7, PersonStep DEF Revoking, Idle

LEMMA RolesStep ==
    ASSUME AccessInv, NEW r \in Requests,
           ClearRoles(r) \/ \E role \in {Admin, Staff, Client} : InsertRole(r, role)
    PROVE  AccessInv'
<1>1. /\ req[r] \in AccessSlot /\ req[r].pc \in {"clearRoles", "insertRole"}
      /\ req[r].person \in People /\ req[r].roles \in (SUBSET Roles) \ {{}}
      /\ req[r] = [pc |-> req[r].pc, person |-> req[r].person, roles |-> req[r].roles]
  BY AccessAt, AccessSlotKinds DEF ClearRoles, InsertRole, At
<1>2. PICK p \in People, roles \in (SUBSET Roles) \ {{}} : p = req[r].person /\ roles = req[r].roles
  BY <1>1
<1>3. PICK old \in PersonRow : old = people[p]
  BY PersonOf DEF AccessInv
<1>4. old.version \in Nat /\ old.roles \in SUBSET Roles
  BY DEF PersonRow
<1>a. UNCHANGED <<orgStatus, seats, owners, exposed>>
  BY DEF ClearRoles, InsertRole
<1>5. CASE ClearRoles(r)
  <2> DEFINE v == old.version + 1
             row == [old EXCEPT !.roles = {}, !.version = v]
             l == [pc |-> "insertRole", person |-> p, roles |-> roles]
  <2>1. [req[r] EXCEPT !.pc = "insertRole"] = l
    BY <1>1, <1>2
  <2>2. people' = [people EXCEPT ![p] = row]
    BY <1>2, <1>3, <1>5 DEF ClearRoles
  <2>3. Continue(r, l)
    BY <1>5, <2>1 DEF ClearRoles
  <2>4. v \in Nat
    BY <1>4
  <2>5. /\ row \in PersonRow /\ row.companies = old.companies
        /\ row.client = old.client /\ row.emptied = old.emptied
    <3> HIDE DEF v
    <3> QED
      BY <2>4 DEF PersonRow
  <2>6. l \in AccessSlot /\ l.pc = "insertRole" /\ l.person = p
    BY <1>2 DEF AccessSlot
  <2>7. req[r].pc = "clearRoles"
    BY <1>5 DEF ClearRoles, At
  <2> HIDE DEF row, l, v
  <2> QED
    BY <1>1, <1>2, <1>3, <1>a, <2>2, <2>3, <2>5, <2>6, <2>7, PersonStep DEF Revoking, Idle
<1>6. ASSUME NEW role \in Roles, InsertRole(r, role) PROVE AccessInv'
  <2> DEFINE filled == old.roles \cup {role}
             row == [old EXCEPT !.roles = filled]
             l == IF roles \ {role} = {} THEN [pc |-> "revoke", person |-> p]
                  ELSE [pc |-> "insertRole", person |-> p, roles |-> roles \ {role}]
  <2>1. req[r].pc = "insertRole"
    BY <1>6 DEF InsertRole, At
  <2>a. PICK rest : rest = roles \ {role}
    OBVIOUS
  <2>b. [req[r] EXCEPT !.roles = rest] = [pc |-> "insertRole", person |-> p, roles |-> rest]
    BY <1>1, <1>2, <2>1
  <2>2. Continue(r, l)
    BY <1>2, <1>6, <2>a, <2>b DEF InsertRole
  <2>3. people' = [people EXCEPT ![p] = row]
    BY <1>2, <1>3, <1>6 DEF InsertRole
  <2>4. filled \in SUBSET Roles /\ filled # {}
    BY <1>4, <1>6
  <2>5. /\ row \in PersonRow /\ row.companies = old.companies /\ row.version = old.version
        /\ row.client = old.client /\ row.emptied = old.emptied /\ row.roles # {}
    <3> HIDE DEF filled
    <3> QED
      BY <2>4 DEF PersonRow
  <2>6. l \in AccessSlot /\ l.pc \in {"insertRole", "revoke"} /\ l.person = p
    BY <1>2, <1>6 DEF AccessSlot
  <2> HIDE DEF row, l, filled
  <2> QED
    BY <1>1, <1>2, <1>3, <1>a, <2>1, <2>2, <2>3, <2>5, <2>6, PersonStep DEF Revoking, Idle
<1> QED
  BY <1>5, <1>6 DEF Roles

LEMMA OverrideStep ==
    ASSUME AccessInv, NEW r \in Requests, ClearOverride(r) \/ InsertOverride(r)
    PROVE  AccessInv'
<1>1. /\ req[r] \in AccessSlot /\ req[r].pc \in {"clearOverride", "override"}
      /\ req[r].person \in People /\ req[r].effect \in {"none", "granted", "denied"}
      /\ req[r] = [pc |-> req[r].pc, person |-> req[r].person, effect |-> req[r].effect]
  BY AccessAt, AccessSlotKinds DEF ClearOverride, InsertOverride, At
<1>2. PICK p \in People, effect \in {"none", "granted", "denied"} :
         p = req[r].person /\ effect = req[r].effect
  BY <1>1
<1>3. PICK old \in PersonRow : old = people[p]
  BY PersonOf DEF AccessInv
<1>4. old.version \in Nat
  BY DEF PersonRow
<1>5. UNCHANGED <<orgStatus, seats, owners, exposed>>
  BY DEF ClearOverride, InsertOverride
<1>6. CASE ClearOverride(r)
  <2> DEFINE v == old.version + 1
             row == [old EXCEPT !.override = "none", !.version = v]
             l == IF effect = "none" THEN [pc |-> "revoke", person |-> p]
                  ELSE [pc |-> "override", person |-> p, effect |-> effect]
  <2>1. [req[r] EXCEPT !.pc = "override"] = [pc |-> "override", person |-> p, effect |-> effect]
    BY <1>1, <1>2
  <2>2. Continue(r, l)
    BY <1>2, <1>6, <2>1 DEF ClearOverride
  <2>3. people' = [people EXCEPT ![p] = row]
    BY <1>2, <1>3, <1>6 DEF ClearOverride
  <2>4. v \in Nat
    BY <1>4
  <2>5. /\ row \in PersonRow /\ row.companies = old.companies /\ row.roles = old.roles
        /\ row.client = old.client /\ row.emptied = old.emptied /\ row.override = "none"
    <3> HIDE DEF v
    <3> QED
      BY <2>4 DEF PersonRow
  <2>6. l \in AccessSlot /\ l.pc \in {"override", "revoke"} /\ l.person = p
    BY DEF AccessSlot
  <2>7. req[r].pc = "clearOverride"
    BY <1>6 DEF ClearOverride, At
  <2> HIDE DEF row, l, v
  <2> QED
    BY <1>1, <1>2, <1>3, <1>5, <2>2, <2>3, <2>5, <2>6, <2>7, PersonStep DEF Revoking, Idle
<1>7. CASE InsertOverride(r) /\ people[p].override # "none"
  <2>1. Continue(r, Idle) /\ UNCHANGED people /\ req[r].pc = "override"
    BY <1>2, <1>7 DEF InsertOverride, Return, At
  <2>2. AccessTypeOK'
    BY <1>5, <2>1 DEF AccessInv, AccessTypeOK
  <2>3. ~AccessAlone(req[r])
    BY <1>2, <1>7, <2>1 DEF AccessAlone
  <2> QED
    BY <1>1, <2>1, <2>2, <2>3, AccessContinues
<1>8. CASE InsertOverride(r) /\ people[p].override = "none"
  <2> DEFINE row == [old EXCEPT !.override = effect]
             l == [pc |-> "revoke", person |-> p]
  <2>1. Continue(r, l) /\ req[r].pc = "override"
    BY <1>2, <1>8 DEF InsertOverride, At
  <2>2. people' = [people EXCEPT ![p] = row]
    BY <1>2, <1>3, <1>8 DEF InsertOverride
  <2>3. /\ row \in PersonRow /\ row.companies = old.companies /\ row.roles = old.roles
        /\ row.client = old.client /\ row.emptied = old.emptied
    BY DEF PersonRow
  <2>4. l \in AccessSlot /\ l.pc = "revoke" /\ l.person = p
    BY DEF AccessSlot
  <2> HIDE DEF row, l
  <2> QED
    BY <1>1, <1>2, <1>3, <1>5, <2>1, <2>2, <2>3, <2>4, PersonStep DEF Revoking, Idle
<1> QED
  BY <1>6, <1>7, <1>8

LEMMA CompaniesStep ==
    ASSUME AccessInv, NEW r \in Requests,
           ClearCompanies(r) \/ \E c \in Companies : AssignCompany(r, c)
    PROVE  AccessInv'
<1>1. /\ req[r] \in AccessSlot /\ req[r].pc \in {"clearCompanies", "insertCompany"}
      /\ req[r].person \in People /\ req[r].companies \in SUBSET Companies
      /\ req[r] = [pc |-> req[r].pc, person |-> req[r].person, companies |-> req[r].companies]
  BY AccessAt, AccessSlotKinds DEF ClearCompanies, AssignCompany, At
<1>2. PICK p \in People, companies \in SUBSET Companies :
         p = req[r].person /\ companies = req[r].companies
  BY <1>1
<1>3. PICK old \in PersonRow : old = people[p]
  BY PersonOf DEF AccessInv
<1>4. UNCHANGED <<orgStatus, seats, owners, exposed>>
  BY DEF ClearCompanies, AssignCompany
<1>5. CASE ClearCompanies(r)
  <2> DEFINE e == companies = {}
             row == [old EXCEPT !.companies = {}, !.emptied = e]
             l == IF companies = {} THEN Idle
                  ELSE [pc |-> "insertCompany", person |-> p, companies |-> companies]
  <2>1. [req[r] EXCEPT !.pc = "insertCompany"]
           = [pc |-> "insertCompany", person |-> p, companies |-> companies]
    BY <1>1, <1>2
  <2>2. Continue(r, l)
    BY <1>2, <1>5, <2>1 DEF ClearCompanies
  <2>3. people' = [people EXCEPT ![p] = row]
    BY <1>2, <1>3, <1>5 DEF ClearCompanies
  <2>4. e \in BOOLEAN /\ (e <=> companies = {})
    OBVIOUS
  <2>5. /\ row \in PersonRow /\ row.roles = old.roles /\ row.version = old.version
        /\ row.client = old.client /\ (row.emptied <=> e)
    <3> HIDE DEF e
    <3> QED
      BY <2>4 DEF PersonRow
  <2>6. /\ l \in AccessSlot \cup {Idle} /\ (e => l = Idle)
        /\ ~e => l.pc = "insertCompany" /\ l.person = p
    BY DEF AccessSlot
  <2>7. req[r].pc = "clearCompanies"
    BY <1>5 DEF ClearCompanies, At
  <2> HIDE DEF row, l, e
  <2> QED
    BY <1>1, <1>2, <1>3, <1>4, <2>2, <2>3, <2>4, <2>5, <2>6, <2>7, PersonStep DEF Revoking, Idle
<1>6. ASSUME NEW c \in Companies, AssignCompany(r, c) PROVE AccessInv'
  <2> DEFINE some == old.companies \cup {c}
             row == [old EXCEPT !.companies = some]
  <2>1. PICK rest \in SUBSET Companies : rest = companies \ {c}
    OBVIOUS
  <2>2. req[r].pc = "insertCompany"
    BY <1>6 DEF AssignCompany, At
  <2>3. [req[r] EXCEPT !.companies = rest] = [pc |-> "insertCompany", person |-> p, companies |-> rest]
    BY <1>1, <1>2, <2>2
  <2> DEFINE l == IF rest = {} THEN Idle ELSE [pc |-> "insertCompany", person |-> p, companies |-> rest]
  <2>4. Continue(r, l)
    BY <1>2, <1>6, <2>1, <2>3 DEF AssignCompany
  <2>5. people' = [people EXCEPT ![p] = row]
    BY <1>2, <1>3, <1>6 DEF AssignCompany
  <2>6. some \in SUBSET Companies /\ some # {}
    BY DEF PersonRow
  <2>7. /\ row \in PersonRow /\ row.roles = old.roles /\ row.version = old.version
        /\ row.client = old.client /\ row.companies # {}
    <3> HIDE DEF some
    <3> QED
      BY <2>6 DEF PersonRow
  <2>8. /\ l \in AccessSlot \cup {Idle}
        /\ l.pc \in {"idle", "insertCompany"} /\ (l # Idle => l.person = p)
    BY DEF AccessSlot, Idle
  <2> HIDE DEF row, l, some
  <2> QED
    BY <1>1, <1>2, <1>3, <1>4, <2>2, <2>4, <2>5, <2>7, <2>8, PersonStep DEF Revoking, Idle
<1> QED
  BY <1>5, <1>6

-----------------------------------------------------------------------------
(***************************************************************************)
(* Access: sessions that end, and the platform                             *)
(***************************************************************************)

LEMMA AllOfRevoked ==
    ASSUME AccessTypeOK, NEW p \in People, seats' = RevokeAllOf(p)
    PROVE  /\ seats' \in Seq(SeatRow) /\ Len(seats') = Len(seats) /\ DOMAIN seats' = DOMAIN seats
           /\ \A i \in DOMAIN seats : ~seats'[i].revoked =>
                 seats'[i] = seats[i] /\ seats[i].person # p
<1>1. seats \in Seq(SeatRow) /\ \A i \in DOMAIN seats : seats[i] \in SeatRow
  BY AccessTypes, SeatsOf
<1>2. \A i \in DOMAIN seats :
         seats'[i] = IF seats[i].person = p THEN [seats[i] EXCEPT !.revoked = TRUE] ELSE seats[i]
  BY DEF RevokeAllOf
<1>3. \A i \in DOMAIN seats : [seats[i] EXCEPT !.revoked = TRUE] \in SeatRow
                              /\ [seats[i] EXCEPT !.revoked = TRUE].revoked
  BY <1>1 DEF SeatRow
<1>4. \A i \in DOMAIN seats : seats'[i] \in SeatRow
  BY <1>1, <1>2, <1>3
<1>5. seats' = [i \in DOMAIN seats |-> seats'[i]]
  BY DEF RevokeAllOf
<1>6. seats' \in Seq(SeatRow) /\ Len(seats') = Len(seats) /\ DOMAIN seats' = DOMAIN seats
  BY <1>1, <1>4, <1>5, RowsUpdated
<1> QED
  BY <1>2, <1>3, <1>6

LEMMA RevokePersonStep ==
    ASSUME AccessInv, NEW r \in Requests, RevokePerson(r)
    PROVE  AccessInv'
<1>1. req[r] \in AccessSlot /\ req[r].pc = "revoke" /\ req[r].person \in People
  BY AccessAt, AccessSlotKinds DEF RevokePerson, At
<1>2. PICK p \in People : p = req[r].person
  BY <1>1
<1>3. /\ Continue(r, Idle) /\ seats' = RevokeAllOf(p)
      /\ UNCHANGED <<people, orgStatus, owners, exposed>>
  BY <1>2 DEF RevokePerson, Return
<1>4. /\ seats' \in Seq(SeatRow) /\ Len(seats') = Len(seats) /\ DOMAIN seats' = DOMAIN seats
      /\ \A i \in DOMAIN seats : ~seats'[i].revoked => seats'[i] = seats[i] /\ seats[i].person # p
  BY <1>3, AllOfRevoked DEF AccessInv
<1>5. AccessTypeOK'
  BY <1>3, <1>4 DEF AccessInv, AccessTypeOK, SeatRow
<1>6. AccessAlone(req[r]) /\ req'[r] = Idle => AccessAlone(req[r])'
  BY <1>1, <1>2, <1>3, <1>4 DEF AccessAlone, SeatsInStep, ListsFilled, Revoking, Refilling, Idle
<1> QED
  BY <1>1, <1>3, <1>5, <1>6, AccessContinues

\* Everybody's sessions end before the status is written.
LEMMA TenantStep ==
    ASSUME AccessInv, NEW r \in Requests,
           (\E p \in People : RevokeForTenant(r, p)) \/ WriteTenant(r)
    PROVE  AccessInv'
<1>1. /\ req[r] \in AccessSlot /\ req[r].pc = "tenant"
      /\ req[r].status \in {"active", "suspended", "cancelled"} /\ req[r].rest \in SUBSET People
      /\ req[r] = [pc |-> req[r].pc, status |-> req[r].status, rest |-> req[r].rest]
  BY AccessAt, AccessSlotKinds DEF RevokeForTenant, WriteTenant, At
<1>2. PICK s \in {"active", "suspended", "cancelled"} : s = req[r].status
  BY <1>1
<1>3. ASSUME NEW p \in People, RevokeForTenant(r, p) PROVE AccessInv'
  <2>1. PICK rest \in SUBSET People : rest = req[r].rest \ {p}
    BY <1>1
  <2> DEFINE l == [pc |-> "tenant", status |-> s, rest |-> rest]
  <2>2. [req[r] EXCEPT !.rest = rest] = l
    BY <1>1, <1>2
  <2>3. [req[r] EXCEPT !.rest = @ \ {p}] = [req[r] EXCEPT !.rest = rest]
    BY <2>1
  <2>4. Continue(r, l) /\ seats' = RevokeAllOf(p) /\ UNCHANGED <<people, orgStatus, owners, exposed>>
    BY <1>3, <2>2, <2>3 DEF RevokeForTenant
  <2>5. /\ seats' \in Seq(SeatRow) /\ Len(seats') = Len(seats) /\ DOMAIN seats' = DOMAIN seats
        /\ \A i \in DOMAIN seats : ~seats'[i].revoked => seats'[i] = seats[i] /\ seats[i].person # p
    BY <2>4, AllOfRevoked DEF AccessInv
  <2>6. AccessTypeOK'
    BY <2>4, <2>5 DEF AccessInv, AccessTypeOK, SeatRow
  <2>7. l \in AccessSlot /\ l.pc = "tenant" /\ l.status = s /\ l.rest = rest
    BY DEF AccessSlot
  <2> HIDE DEF l
  <2>8. \A i \in DOMAIN seats : seats[i].person \in People
    BY SeatsOf DEF AccessInv
  <2>9. AccessAlone(req[r]) /\ req'[r] = l => AccessAlone(req[r])'
    BY <1>1, <1>2, <2>1, <2>4, <2>5, <2>7, <2>8
       DEF AccessAlone, SeatsInStep, ListsFilled, Revoking, Refilling
  <2> QED
    BY <1>1, <2>4, <2>6, <2>7, <2>9, AccessContinues
<1>4. CASE WriteTenant(r)
  <2> DEFINE b == orgStatus.blocks + (IF s = "active" THEN 0 ELSE 1)
  <2>1. /\ Continue(r, Idle) /\ orgStatus' = [status |-> s, blocks |-> b] /\ req[r].rest = {}
        /\ UNCHANGED <<people, seats, owners, exposed>>
    BY <1>2, <1>4 DEF WriteTenant, Return
  <2>2. orgStatus.blocks \in Nat
    BY DEF AccessInv, AccessTypeOK
  <2>3. b \in Nat /\ (s = "active" => b = orgStatus.blocks)
    BY <2>2
  <2> HIDE DEF b
  <2>4. AccessTypeOK'
    BY <2>1, <2>3 DEF AccessInv, AccessTypeOK
  <2>5. AccessAlone(req[r]) /\ req'[r] = Idle => AccessAlone(req[r])'
    BY <1>1, <1>2, <2>1, <2>3 DEF AccessAlone, SeatsInStep, ListsFilled, Revoking, Refilling, Idle
  <2> QED
    BY <1>1, <2>1, <2>4, <2>5, AccessContinues
<1> QED
  BY <1>3, <1>4

LEMMA InsertOwnerStep ==
    ASSUME AccessInv, NEW r \in Requests, InsertOwner(r)
    PROVE  AccessInv'
<1>1. req[r] \in AccessSlot /\ req[r].pc = "claim"
  BY AccessAt DEF InsertOwner, At
<1>2. Continue(r, Idle) /\ owners' = owners + 1 /\ UNCHANGED <<people, orgStatus, seats, exposed>>
  BY DEF InsertOwner, Return
<1>3. AccessTypeOK'
  BY <1>2 DEF AccessInv, AccessTypeOK
<1>4. AccessAlone(req[r]) /\ req'[r] = Idle => AccessAlone(req[r])'
  BY <1>1, <1>2 DEF AccessAlone, SeatsInStep, ListsFilled, Revoking, Refilling, Idle
<1> QED
  BY <1>1, <1>2, <1>3, <1>4, AccessContinues

-----------------------------------------------------------------------------
(***************************************************************************)
(* Access: the theorem                                                     *)
(***************************************************************************)

LEMMA AccessInitial ==
    ASSUME NEW slots, NEW requests, NEW stops, ServerInit(slots, requests, stops), AccessInit
    PROVE  AccessInv
<1>1. ServerOK /\ ~overlapped /\ \A r \in Requests : req[r] \in {Idle, Unused}
  BY ServerStarts DEF ServerInit
<1>2. PICK role \in [People -> {Admin, Staff, Client}] :
         people = [p \in People |->
                [status |-> "active", roles |-> {role[p]}, override |-> "none",
                 companies |-> IF role[p] = Client THEN {CHOOSE c \in Companies : TRUE} ELSE {},
                 client |-> role[p] = Client, version |-> 0, emptied |-> FALSE]]
  BY DEF AccessInit
<1>3. PICK first \in Companies : first = CHOOSE c \in Companies : TRUE
  BY AccessConstants
<1>4. /\ orgStatus = [status |-> "active", blocks |-> 0] /\ seats = << >> /\ owners = 0
      /\ exposed = FALSE
  BY DEF AccessInit
<1>5. \A p \in People :
         people[p] = [status |-> "active", roles |-> {role[p]}, override |-> "none",
                      companies |-> IF role[p] = Client THEN {first} ELSE {},
                      client |-> role[p] = Client, version |-> 0, emptied |-> FALSE]
  BY <1>2, <1>3
<1>6. \A p \in People : /\ people[p] \in PersonRow /\ people[p].roles # {}
                        /\ people[p].client => people[p].companies # {}
  <2> SUFFICES ASSUME NEW p \in People
               PROVE  /\ people[p] \in PersonRow /\ people[p].roles # {}
                      /\ people[p].client => people[p].companies # {}
    OBVIOUS
  <2> DEFINE roles == {role[p]}
             companies == IF role[p] = Client THEN {first} ELSE {}
             client == role[p] = Client
  <2>1. /\ roles \in SUBSET Roles /\ roles # {} /\ companies \in SUBSET Companies
        /\ client \in BOOLEAN /\ (client => companies # {})
    BY DEF Roles
  <2>2. people[p] = [status |-> "active", roles |-> roles, override |-> "none",
                     companies |-> companies, client |-> client, version |-> 0, emptied |-> FALSE]
    BY <1>5
  <2> HIDE DEF roles, companies, client
  <2> QED
    BY <2>1, <2>2 DEF PersonRow
<1>7. people \in [People -> PersonRow]
  BY <1>2, <1>6
<1>8. seats \in Seq(SeatRow) /\ Len(seats) <= MaxSessions /\ DOMAIN seats = {}
  BY <1>4, AccessConstants
<1>9. AccessTypeOK
  BY <1>4, <1>7, <1>8, AccessTypes
<1>10. AccessAlone(Idle)
  BY <1>4, <1>6, <1>8 DEF AccessAlone, SeatsInStep, ListsFilled, Idle
<1>11. AccessAloneInv
  BY <1>1, <1>10 DEF AccessAloneInv, InFlight
<1> QED
  BY <1>1, <1>9, <1>11 DEF AccessInv

LEMMA AccessStepKeeps ==
    ASSUME AccessInv, [AccessNext]_accessVars
    PROVE  AccessInv'
<1>1. CASE UNCHANGED accessVars
  <2>1. UNCHANGED <<req, overlapped, people, orgStatus, seats, owners, exposed>>
    BY <1>1 DEF accessVars, access, server
  <2>2. ServerOK' /\ AccessTypeOK' /\ InFlight' = InFlight /\ Quiescent' = Quiescent
    BY <2>1 DEF AccessInv, AccessTypeOK, ServerOK, Quiescent, InFlight
  <2>3. \A r \in Requests : AccessAlone(req[r]) => AccessAlone(req[r])'
    BY <2>1 DEF AccessAlone, SeatsInStep, ListsFilled, Revoking, Refilling
  <2>4. AccessAlone(Idle) => AccessAlone(Idle)'
    BY <2>1 DEF AccessAlone, SeatsInStep, ListsFilled, Revoking, Refilling, Idle
  <2>5. AccessAloneInv'
    BY <2>1, <2>2, <2>3, <2>4 DEF AccessInv, AccessAloneInv, InFlight
  <2> QED
    BY <2>1, <2>2, <2>5 DEF AccessInv
<1>2. CASE Restart /\ UNCHANGED access
  <2>1. ServerOK' /\ overlapped' /\ \A r \in Requests : req'[r] \in {Idle, Unused}
    BY <1>2, Restarted DEF AccessInv
  <2> QED
    BY <1>2, <2>1 DEF access, AccessInv, AccessTypeOK, AccessAloneInv
<1>3. ASSUME NEW r \in Requests, AccessRequest(r) PROVE AccessInv'
  <2>1. \A i \in DOMAIN seats : seats[i].person \in People
    BY SeatsOf DEF AccessInv
  <2>2. CASE \E p \in People : OpenOwn(r, p) \/ \E mode \in {"view", "support"} : Impersonate(r, p, mode)
    BY <2>2, RequestReads
  <2>3. ASSUME NEW i \in DOMAIN seats, Browse(r, i) PROVE AccessInv'
    BY <2>1, <2>3, RequestReads
  <2>4. CASE \E i \in DOMAIN seats : EndSupport(r, i)
    BY <2>4, EndSupportStep
  <2>5. CASE \/ \E status \in {"active", "suspended", "cancelled"} : PatchTenant(r, status)
             \/ ClaimPlatform(r)
    BY <2>5, PlatformRequests
  <2>6. ASSUME NEW i \in DOMAIN seats, NEW p \in People,
               \/ \E status \in {"active", "suspended", "deactivated"} : PatchStatus(r, i, p, status)
               \/ \E roles \in (SUBSET {Admin, Staff, Client}) \ {{}} : PutRoles(r, i, p, roles)
               \/ \E effect \in {"none", "granted", "denied"} : PutPermission(r, i, p, effect)
               \/ \E cs \in SUBSET Companies : PutCompanies(r, i, p, cs)
        PROVE  AccessInv'
    BY <2>6, RequestReads
  <2> QED
    BY <1>3, <2>2, <2>3, <2>4, <2>5, <2>6 DEF AccessRequest
<1>4. ASSUME NEW r \in Requests, AccessStep(r) PROVE AccessInv'
  BY <1>4, LoadScopeStep, InsertSessionStep, WriteStatusStep, RolesStep, OverrideStep,
     RevokePersonStep, CompaniesStep, TenantStep, InsertOwnerStep DEF AccessStep
<1> QED
  BY <1>1, <1>2, <1>3, <1>4 DEF AccessNext

LEMMA AccessImplies ==
    ASSUME AccessInv
    PROVE  AccessIsWhole
<1>1. ChangeEndsSessions
  BY DEF AccessInv, AccessAloneInv, AccessAlone, SeatsInStep, Revoking, ChangeEndsSessions, Idle
<1>2. ~overlapped => owners <= 1 /\ ~exposed
  BY DEF AccessInv, AccessAloneInv, AccessAlone, Quiescent
<1>3. ListsStayWhole
  BY <1>2 DEF AccessInv, AccessAloneInv, AccessAlone, ListsFilled, Refilling, ListsStayWhole, Idle
<1> QED
  BY <1>1, <1>2, <1>3 DEF AccessInv, AccessIsWhole, OneOwner

\* modules/users.js and platform.js: a change that takes powers away ends the sessions
\* that have them, nobody loses their roles or a client its companies, and the platform
\* has one owner, for any people, companies and handlers and however many requests are
\* served, as long as no two overlap.
THEOREM AccessCorrect == AccessSpec => []AccessIsWhole
<1>1. (\E slots \in SUBSET Requests, requests, stops \in Nat : ServerInit(slots, requests, stops))
         /\ AccessInit => AccessInv
  BY AccessInitial
<1>2. AccessInv /\ [AccessNext]_accessVars => AccessInv'
  BY AccessStepKeeps
<1>3. AccessInv => AccessIsWhole
  BY AccessImplies
<1> QED
  BY <1>1, <1>2, <1>3, PTL DEF AccessSpec

-----------------------------------------------------------------------------
(***************************************************************************)
(* Signing in: the invariant                                               *)
(***************************************************************************)

AccountRow == [pw : 1..MaxPw, twofa : BOOLEAN, secret : BOOLEAN, codes : 0..1,
               failed : 0..(MaxFailed - 1), locked : BOOLEAN, mustChange : BOOLEAN]
SessionRow == [pw : 1..MaxPw, via : {"password", "code"}, revoked : BOOLEAN, kept : 0..MaxPw]
ChallengeRow == [tries : 0..MaxTries, consumed : BOOLEAN, pw : 1..MaxPw, opened : Nat]
LinkRow == [used : BOOLEAN, uses : Nat]
HistoryRow == [codeUses : [CodeSteps -> Nat], backupUses : Nat, guesses : Nat, admitted : Nat]

Patches == {[secret |-> TRUE], [twofa |-> TRUE, codes |-> 1],
            [twofa |-> FALSE, secret |-> FALSE, codes |-> 0], [codes |-> 1]}

\* What a handler keeps between two statements.
SignInSlot ==
    [pc : {"spend"}, pw : 0..MaxPw, row : {-1} \cup Nat]
    \cup [pc : {"failed", "challenge", "session"}, seen : AccountRow, via : {"password", "code"}]
    \cup [pc : {"clear"}]
    \cup [pc : {"verify", "wrong"}, chal : Nat, code : {"totp", "backup"}, row : ChallengeRow,
          seen : AccountRow]
    \cup [pc : {"consume"}, chal : Nat, seen : AccountRow]
    \cup [pc : {"write2fa"}, patch : Patches]
    \cup [pc : {"password", "used", "revoke"}, link : Nat, except : Nat, must : BOOLEAN,
          unlock : BOOLEAN]

\* The rows a handler has read are still there, and what it checked of them held.
RowsAreThere(l) ==
    /\ l.pc = "spend" => l.row < MaxAttempts
    /\ l.pc \in {"verify", "wrong"} => l.chal \in DOMAIN challenges /\ l.row.tries < MaxTries
    /\ l.pc = "consume" => l.chal \in DOMAIN challenges
    /\ l.pc \in {"password", "used", "revoke"} => l.link \in {0} \cup DOMAIN resets
    /\ l.pc = "used" => l.link # 0

SignInRows ==
    /\ step \in 0..MaxStep
    /\ account \in AccountRow
    /\ sessions \in Seq(SessionRow)
    /\ challenges \in Seq(ChallengeRow)
    /\ resets \in Seq(LinkRow)
    /\ totp \in [last : -1..(MaxStep + Window), at : 0..MaxStep]
    /\ attempts \in {-1} \cup Nat
    /\ signHistory \in HistoryRow

\* The memory of the last code: a code accepted before it is refused by it, or is too
\* old; and the row lives until the codes it remembers are.
CodesSpent ==
    /\ \A s \in CodeSteps :
          /\ signHistory.codeUses[s] <= 1
          /\ signHistory.codeUses[s] # 0 => s <= totp.last \/ s < step - Window
    /\ totp.at <= step
    /\ totp.last <= totp.at + Window

\* What holds when the handler l is alone, or none is in flight and l is Idle.
ChallengesInStep(l) ==
    /\ \A c \in DOMAIN challenges : /\ challenges[c].opened <= 1
                                    /\ ~challenges[c].consumed => challenges[c].opened = 0
    /\ l.pc \in {"verify", "consume"} => ~challenges[l.chal].consumed

LinksInStep(l) ==
    /\ \A k \in DOMAIN resets :
          /\ resets[k].uses <= 1
          /\ ~resets[k].used /\ resets[k].uses # 0 => l.pc = "used" /\ l.link = k
    /\ l.pc = "password" /\ l.link # 0 => ~resets[l.link].used

CodesInStep(l) ==
    /\ signHistory.backupUses + account.codes <= 1
    /\ l.pc = "verify" => l.seen.codes = account.codes

GuessesInStep(l) ==
    /\ signHistory.guesses <= account.failed
    /\ l.pc = "failed" => l.seen.failed = account.failed

AttemptsInStep(l) ==
    /\ signHistory.admitted <= IF attempts < 0 THEN 0 ELSE attempts
    /\ attempts <= MaxAttempts
    /\ l.pc = "spend" => attempts \in {-1, l.row}

SessionsInStep(l) ==
    /\ l.pc \notin {"used", "revoke"} =>
          \A i \in DOMAIN sessions : ~sessions[i].revoked =>
             \/ sessions[i].pw = account.pw
             \/ sessions[i].kept = account.pw
             \/ sessions[i].via = "code"
    /\ l.pc = "session" /\ l.via = "password" => l.seen.pw = account.pw

SignInAlone(l) ==
    /\ ChallengesInStep(l)
    /\ LinksInStep(l)
    /\ CodesInStep(l)
    /\ GuessesInStep(l)
    /\ AttemptsInStep(l)
    /\ SessionsInStep(l)

SignInAloneInv ==
    ~overlapped =>
      /\ Quiescent => SignInAlone(Idle)
      /\ \A r \in InFlight : SignInAlone(req[r])

SignInSlots ==
    /\ \A r \in Requests : req[r] \in {Idle, Unused} \cup SignInSlot
    /\ \A r \in InFlight : RowsAreThere(req[r])

SignInInv ==
    /\ ServerOK
    /\ SignInRows
    /\ SignInSlots
    /\ CodesSpent
    /\ SignInAloneInv

-----------------------------------------------------------------------------
(***************************************************************************)
(* Signing in: what every step needs                                       *)
(***************************************************************************)

\* An UPDATE of one row.
LEMMA RowUpdated ==
    ASSUME NEW S, NEW rows \in Seq(S), NEW i \in DOMAIN rows, NEW row \in S
    PROVE  /\ [rows EXCEPT ![i] = row] \in Seq(S)
           /\ DOMAIN [rows EXCEPT ![i] = row] = DOMAIN rows
           /\ [rows EXCEPT ![i] = row][i] = row
           /\ \A k \in DOMAIN rows \ {i} : [rows EXCEPT ![i] = row][k] = rows[k]
<1>1. \A k \in DOMAIN rows : [rows EXCEPT ![i] = row][k] \in S
  BY RowsOf
<1> QED
  BY <1>1, RowsUpdated

LEMMA SignInSlotKinds ==
    ASSUME NEW l \in SignInSlot
    PROVE  /\ l \notin {Idle, Unused}
           /\ l.pc = "spend" => l.pw \in 0..MaxPw /\ l.row \in {-1} \cup Nat
           /\ l.pc \in {"failed", "challenge", "session"} =>
                 l.seen \in AccountRow /\ l.via \in {"password", "code"}
           /\ l.pc \in {"verify", "wrong"} =>
                 /\ l = [pc |-> l.pc, chal |-> l.chal, code |-> l.code, row |-> l.row, seen |-> l.seen]
                 /\ l.chal \in Nat /\ l.code \in {"totp", "backup"} /\ l.row \in ChallengeRow
                 /\ l.seen \in AccountRow
           /\ l.pc = "consume" => l.chal \in Nat /\ l.seen \in AccountRow
           /\ l.pc = "write2fa" => l.patch \in Patches
           /\ l.pc \in {"password", "used", "revoke"} =>
                 /\ l = [pc |-> l.pc, link |-> l.link, except |-> l.except, must |-> l.must,
                         unlock |-> l.unlock]
                 /\ l.link \in Nat /\ l.except \in Nat /\ l.must \in BOOLEAN /\ l.unlock \in BOOLEAN
<1>1. l \notin {Idle, Unused}
  BY DEF SignInSlot, Idle, Unused
<1>2. l.pc = "spend" => l.pw \in 0..MaxPw /\ l.row \in {-1} \cup Nat
  BY DEF SignInSlot
<1>3. l.pc \in {"failed", "challenge", "session"} =>
         l.seen \in AccountRow /\ l.via \in {"password", "code"}
  BY DEF SignInSlot
<1>4. l.pc \in {"verify", "wrong"} =>
         /\ l = [pc |-> l.pc, chal |-> l.chal, code |-> l.code, row |-> l.row, seen |-> l.seen]
         /\ l.chal \in Nat /\ l.code \in {"totp", "backup"} /\ l.row \in ChallengeRow
         /\ l.seen \in AccountRow
  BY DEF SignInSlot
<1>5. l.pc = "consume" => l.chal \in Nat /\ l.seen \in AccountRow
  BY DEF SignInSlot
<1>6. l.pc = "write2fa" => l.patch \in Patches
  BY DEF SignInSlot
<1>7. l.pc \in {"password", "used", "revoke"} =>
         /\ l = [pc |-> l.pc, link |-> l.link, except |-> l.except, must |-> l.must,
                 unlock |-> l.unlock]
         /\ l.link \in Nat /\ l.except \in Nat /\ l.must \in BOOLEAN /\ l.unlock \in BOOLEAN
  BY DEF SignInSlot
<1> QED
  BY <1>1, <1>2, <1>3, <1>4, <1>5, <1>6, <1>7

LEMMA SignInAt ==
    ASSUME SignInInv, NEW r \in Requests, req[r].pc \notin {"idle", "unused"}
    PROVE  req[r] \in SignInSlot /\ RowsAreThere(req[r])
<1>1. req[r] \in SignInSlot
  BY DEF SignInInv, SignInSlots, Idle, Unused
<1>2. r \in InFlight
  BY <1>1, SignInSlotKinds DEF InFlight
<1> QED
  BY <1>1, <1>2 DEF SignInInv, SignInSlots

\* A handler that moves on: what held with it alone holds with it alone after the step.
LEMMA SignInContinues ==
    ASSUME SignInInv, NEW r \in Requests, req[r] \in SignInSlot,
           NEW l \in SignInSlot \cup {Idle}, Continue(r, l), RowsAreThere(l),
           SignInRows', CodesSpent',
           DOMAIN challenges \subseteq DOMAIN challenges', DOMAIN resets \subseteq DOMAIN resets',
           SignInAlone(req[r]) /\ req'[r] = l => SignInAlone(req[r])'
    PROVE  SignInInv'
<1>1. /\ ServerOK' /\ req'[r] = l /\ overlapped' = overlapped
      /\ \A s \in Requests \ {r} : req'[s] = req[s]
      /\ ~overlapped => \A s \in Requests \ {r} : req[s] \in {Idle, Unused}
  BY Continued, SignInSlotKinds DEF SignInInv
<1>2. \A s \in Requests : req'[s] \in {Idle, Unused} \cup SignInSlot
  BY <1>1 DEF SignInInv, SignInSlots
<1>3. r \in InFlight
  BY SignInSlotKinds DEF InFlight
<1>4. \A s \in InFlight' : RowsAreThere(req[s])'
  <2> SUFFICES ASSUME NEW s \in InFlight' PROVE RowsAreThere(req[s])'
    OBVIOUS
  <2>1. CASE s = r
    BY <1>1, <2>1 DEF RowsAreThere
  <2>2. CASE s # r
    <3>1. s \in Requests \ {r} /\ req'[s] = req[s] /\ s \in InFlight
      BY <1>1, <2>2 DEF InFlight
    <3>2. RowsAreThere(req[s])
      BY <3>1 DEF SignInInv, SignInSlots
    <3> QED
      BY <3>1, <3>2 DEF RowsAreThere
  <2> QED
    BY <2>1, <2>2
<1>5. ~overlapped => SignInAlone(req[r])'
  BY <1>1, <1>3 DEF SignInInv, SignInAloneInv
<1>6. ~overlapped => InFlight' \subseteq {r}
  BY <1>1 DEF InFlight
<1>7. Quiescent' => req'[r] = Idle
  BY <1>1, SignInSlotKinds DEF Quiescent, InFlight
<1>8. ~overlapped /\ Quiescent' => SignInAlone(Idle)'
  BY <1>5, <1>7 DEF SignInAlone, ChallengesInStep, LinksInStep, CodesInStep, GuessesInStep,
                    AttemptsInStep, SessionsInStep, Idle
<1>9. \A s \in InFlight' : s \in {r} => (SignInAlone(req[r])' => SignInAlone(req[s])')
  BY DEF SignInAlone, ChallengesInStep, LinksInStep, CodesInStep, GuessesInStep,
         AttemptsInStep, SessionsInStep
<1>10. SignInAloneInv'
  BY <1>1, <1>5, <1>6, <1>8, <1>9 DEF SignInAloneInv
<1>11. SignInSlots'
  BY <1>2, <1>4 DEF SignInSlots
<1> QED
  BY <1>1, <1>10, <1>11 DEF SignInInv

\* One that arrives, or is served in one step.
LEMMA SignInBegins ==
    ASSUME SignInInv, NEW r \in Requests, NEW l \in SignInSlot \cup {Idle}, Begin(r, l),
           RowsAreThere(l),
           SignInRows', CodesSpent',
           DOMAIN challenges \subseteq DOMAIN challenges', DOMAIN resets \subseteq DOMAIN resets',
           SignInAlone(Idle) /\ req'[r] = l => SignInAlone(req[r])'
    PROVE  SignInInv'
<1>1. /\ ServerOK' /\ req'[r] = l /\ (overlapped => overlapped')
      /\ \A s \in Requests \ {r} : req'[s] = req[s]
      /\ ~overlapped' => \A s \in Requests : req[s] \in {Idle, Unused}
  BY Begun DEF SignInInv
<1>2. \A s \in Requests : req'[s] \in {Idle, Unused} \cup SignInSlot
  BY <1>1 DEF SignInInv, SignInSlots
<1>3. ~overlapped' => ~overlapped /\ Quiescent
  BY <1>1 DEF Quiescent, InFlight, SignInInv, ServerOK
<1>4. \A s \in InFlight' : RowsAreThere(req[s])'
  <2> SUFFICES ASSUME NEW s \in InFlight' PROVE RowsAreThere(req[s])'
    OBVIOUS
  <2>1. CASE s = r
    BY <1>1, <2>1 DEF RowsAreThere
  <2>2. CASE s # r
    <3>1. s \in Requests \ {r} /\ req'[s] = req[s] /\ s \in InFlight
      BY <1>1, <2>2 DEF InFlight
    <3>2. RowsAreThere(req[s])
      BY <3>1 DEF SignInInv, SignInSlots
    <3> QED
      BY <3>1, <3>2 DEF RowsAreThere
  <2> QED
    BY <2>1, <2>2
<1>5. ~overlapped' => SignInAlone(req[r])'
  BY <1>1, <1>3 DEF SignInInv, SignInAloneInv
<1>6. ~overlapped' => InFlight' \subseteq {r}
  BY <1>1 DEF InFlight
<1>7. Quiescent' => req'[r] = Idle
  BY <1>1, SignInSlotKinds DEF Quiescent, InFlight
<1>8. ~overlapped' /\ Quiescent' => SignInAlone(Idle)'
  BY <1>5, <1>7 DEF SignInAlone, ChallengesInStep, LinksInStep, CodesInStep, GuessesInStep,
                    AttemptsInStep, SessionsInStep, Idle
<1>9. \A s \in InFlight' : s \in {r} => (SignInAlone(req[r])' => SignInAlone(req[s])')
  BY DEF SignInAlone, ChallengesInStep, LinksInStep, CodesInStep, GuessesInStep,
         AttemptsInStep, SessionsInStep
<1>10. SignInAloneInv'
  BY <1>1, <1>5, <1>6, <1>8, <1>9 DEF SignInAloneInv
<1>11. SignInSlots'
  BY <1>2, <1>4 DEF SignInSlots
<1> QED
  BY <1>1, <1>10, <1>11 DEF SignInInv

LEMMA SignInRowsOf ==
    ASSUME SignInRows
    PROVE  /\ \A i \in DOMAIN sessions : sessions[i] \in SessionRow
           /\ \A c \in DOMAIN challenges : challenges[c] \in ChallengeRow /\ c \in Nat
           /\ \A k \in DOMAIN resets : resets[k] \in LinkRow /\ k \in Nat
<1>1. sessions \in Seq(SessionRow) /\ challenges \in Seq(ChallengeRow) /\ resets \in Seq(LinkRow)
  BY DEF SignInRows
<1> QED
  BY <1>1, RowsOf

\* Time, which passes without a handler.
LEMMA SignInElapses ==
    ASSUME SignInInv, UNCHANGED <<server, challenges, resets>>, SignInRows', CodesSpent',
           \A l : SignInAlone(l) => SignInAlone(l)'
    PROVE  SignInInv'
<1>1. req' = req /\ overlapped' = overlapped
  BY DEF server
<1>2. ServerOK' /\ SignInSlots' /\ InFlight' = InFlight /\ Quiescent' = Quiescent
  BY <1>1 DEF SignInInv, SignInSlots, ServerOK, Quiescent, InFlight, RowsAreThere
<1>3. \A r \in Requests : SignInAlone(req[r]) => SignInAlone(req[r])'
  <2> SUFFICES ASSUME NEW r \in Requests, SignInAlone(req[r]) PROVE SignInAlone(req[r])'
    OBVIOUS
  <2>1. PICK l : l = req[r]
    OBVIOUS
  <2>2. SignInAlone(l)'
    BY <2>1
  <2> QED
    BY <1>1, <2>1, <2>2 DEF SignInAlone, ChallengesInStep, LinksInStep, CodesInStep, GuessesInStep,
                            AttemptsInStep, SessionsInStep
<1>4. SignInAlone(Idle) => SignInAlone(Idle)'
  OBVIOUS
<1>5. SignInAloneInv'
  BY <1>1, <1>2, <1>3, <1>4 DEF SignInInv, SignInAloneInv, InFlight
<1> QED
  BY <1>2, <1>5 DEF SignInInv

\* A request that has only read: the first statement of its handler is still to come.
LEMMA SignInReads ==
    ASSUME SignInInv, NEW r \in Requests, NEW l \in SignInSlot, Begin(r, l), UNCHANGED signIn,
           RowsAreThere(l), l.pc \in {"spend", "verify", "write2fa", "password"},
           l.pc = "spend" => l.row = attempts,
           l.pc = "verify" => ~challenges[l.chal].consumed /\ l.seen = account,
           l.pc = "password" /\ l.link # 0 => ~resets[l.link].used
    PROVE  SignInInv'
<1>1. UNCHANGED <<step, account, sessions, challenges, resets, totp, attempts, signHistory>>
  BY DEF signIn
<1>2. SignInRows' /\ CodesSpent'
  BY <1>1 DEF SignInInv, SignInRows, CodesSpent
<1>3. SignInAlone(Idle) /\ req'[r] = l => SignInAlone(req[r])'
  BY <1>1 DEF SignInAlone, ChallengesInStep, LinksInStep, CodesInStep, GuessesInStep,
              AttemptsInStep, SessionsInStep, Idle
<1> QED
  BY <1>1, <1>2, <1>3, SignInBegins

-----------------------------------------------------------------------------
(***************************************************************************)
(* Signing in: requests                                                    *)
(***************************************************************************)

LEMMA SignInRequestReads ==
    ASSUME SignInInv, NEW r \in Requests,
           \/ \E pw \in 0..account.pw : Login(r, pw)
           \/ \E c \in DOMAIN challenges, code \in {"totp", "backup"} : VerifyChallenge(r, c, code)
           \/ \E i \in DOMAIN sessions :
                 Setup2fa(r, i) \/ Disable2fa(r, i) \/ RegenerateCodes(r, i) \/ ChangePassword(r, i)
           \/ \E k \in DOMAIN resets : ResetPassword(r, k)
           \/ AdminResetPassword(r)
    PROVE  SignInInv'
<1>1. /\ account \in AccountRow /\ account.pw \in 0..MaxPw /\ attempts \in {-1} \cup Nat
      /\ \A c \in DOMAIN challenges : challenges[c] \in ChallengeRow /\ c \in Nat
      /\ \A k \in DOMAIN resets : k \in Nat
      /\ \A i \in DOMAIN sessions : i \in Nat
  BY SignInRowsOf DEF SignInInv, SignInRows, AccountRow
<1>2. ASSUME NEW pw \in 0..account.pw, Login(r, pw) PROVE SignInInv'
  <2> DEFINE l == [pc |-> "spend", pw |-> pw, row |-> attempts]
  <2>1. attempts < MaxAttempts /\ Begin(r, l) /\ UNCHANGED signIn
    BY <1>2 DEF Login
  <2>2. pw \in 0..MaxPw
    BY <1>1, SignInConstants
  <2>3. l \in SignInSlot /\ l.pc = "spend" /\ l.row = attempts
    BY <1>1, <2>2 DEF SignInSlot
  <2> HIDE DEF l
  <2>4. RowsAreThere(l)
    BY <2>1, <2>3 DEF RowsAreThere
  <2> QED
    BY <2>1, <2>3, <2>4, SignInReads
<1>3. ASSUME NEW c \in DOMAIN challenges, NEW code \in {"totp", "backup"}, VerifyChallenge(r, c, code)
      PROVE  SignInInv'
  <2>1. PICK row \in ChallengeRow, seen \in AccountRow : row = challenges[c] /\ seen = account
    BY <1>1
  <2> DEFINE l == [pc |-> "verify", chal |-> c, code |-> code, row |-> row, seen |-> seen]
  <2>2. /\ ~challenges[c].consumed /\ row.tries < MaxTries /\ Begin(r, l) /\ UNCHANGED signIn
    BY <1>3, <2>1 DEF VerifyChallenge
  <2>3. /\ l \in SignInSlot /\ l.pc = "verify" /\ l.chal = c /\ l.row = row /\ l.seen = seen
    BY <1>1 DEF SignInSlot
  <2> HIDE DEF l
  <2>4. RowsAreThere(l)
    BY <2>2, <2>3 DEF RowsAreThere
  <2> QED
    BY <2>1, <2>2, <2>3, <2>4, SignInReads
<1>4. ASSUME NEW patch \in Patches, Begin(r, [pc |-> "write2fa", patch |-> patch]), UNCHANGED signIn
      PROVE  SignInInv'
  <2> DEFINE l == [pc |-> "write2fa", patch |-> patch]
  <2>1. l \in SignInSlot /\ l.pc = "write2fa"
    BY DEF SignInSlot
  <2> HIDE DEF l
  <2>2. RowsAreThere(l)
    BY <2>1 DEF RowsAreThere
  <2>3. Begin(r, l)
    BY <1>4 DEF l
  <2> QED
    BY <1>4, <2>1, <2>2, <2>3, SignInReads
<1>5. ASSUME NEW i \in DOMAIN sessions, Setup2fa(r, i) \/ Disable2fa(r, i) \/ RegenerateCodes(r, i)
      PROVE  SignInInv'
  <2>1. [secret |-> TRUE] \in Patches /\ [codes |-> 1] \in Patches
        /\ [twofa |-> FALSE, secret |-> FALSE, codes |-> 0] \in Patches
    BY DEF Patches
  <2> QED
    BY <1>4, <1>5, <2>1 DEF Setup2fa, Disable2fa, RegenerateCodes
<1>6. ASSUME NEW k \in {0} \cup DOMAIN resets, NEW except \in Nat, NEW must \in BOOLEAN,
             NEW unlock \in BOOLEAN, k # 0 => ~resets[k].used,
             Begin(r, [pc |-> "password", link |-> k, except |-> except, must |-> must,
                       unlock |-> unlock]),
             UNCHANGED signIn
      PROVE  SignInInv'
  <2> DEFINE l == [pc |-> "password", link |-> k, except |-> except, must |-> must, unlock |-> unlock]
  <2>1. k \in Nat
    BY <1>1
  <2>2. l \in SignInSlot /\ l.pc = "password" /\ l.link = k
    BY <2>1 DEF SignInSlot
  <2>3. Begin(r, l)
    BY <1>6
  <2> HIDE DEF l
  <2>4. RowsAreThere(l)
    BY <2>2 DEF RowsAreThere
  <2> QED
    BY <1>6, <2>2, <2>3, <2>4, SignInReads
<1>7. ASSUME NEW i \in DOMAIN sessions, ChangePassword(r, i) PROVE SignInInv'
  BY <1>1, <1>6, <1>7 DEF ChangePassword
<1>8. ASSUME NEW k \in DOMAIN resets, ResetPassword(r, k) PROVE SignInInv'
  BY <1>6, <1>8 DEF ResetPassword
<1>9. CASE AdminResetPassword(r)
  BY <1>6, <1>9 DEF AdminResetPassword
<1> QED
  BY <1>2, <1>3, <1>5, <1>7, <1>8, <1>9

\* ConsumeTotpStep's conditional UPDATE: the code had not been used.
LEMMA CodeAccepted ==
    ASSUME SignInInv, NEW s \in CodeSteps, Accepted(s), ConsumeTotpStep(s),
           UNCHANGED <<step, account, sessions, challenges, resets, attempts>>
    PROVE  /\ SignInRows' /\ CodesSpent'
           /\ signHistory'.backupUses = signHistory.backupUses
           /\ signHistory'.guesses = signHistory.guesses
           /\ signHistory'.admitted = signHistory.admitted
<1>1. /\ totp' = [last |-> s, at |-> step]
      /\ signHistory' = [signHistory EXCEPT !.codeUses[s] = @ + 1]
      /\ step - Window <= s /\ s <= step + Window /\ totp.last < s
  BY DEF ConsumeTotpStep, Accepted
<1>2. /\ step \in 0..MaxStep /\ totp.last \in Int /\ Window \in Nat /\ MaxStep \in Nat /\ s \in Int
      /\ signHistory.codeUses \in [CodeSteps -> Nat]
  BY SignInConstants DEF SignInInv, SignInRows, HistoryRow, CodeSteps
<1>3. signHistory.codeUses[s] = 0
  BY <1>1, <1>2 DEF SignInInv, CodesSpent
<1>4. PICK uses : uses = [signHistory.codeUses EXCEPT ![s] = 1]
  OBVIOUS
<1>5. /\ uses \in [CodeSteps -> Nat] /\ uses[s] = 1
      /\ \A t \in CodeSteps \ {s} : uses[t] = signHistory.codeUses[t]
  BY <1>2, <1>4
<1>6. signHistory' = [signHistory EXCEPT !.codeUses = uses]
  BY <1>1, <1>3, <1>4
<1>7. /\ signHistory'.codeUses = uses
      /\ signHistory' \in HistoryRow
      /\ signHistory'.backupUses = signHistory.backupUses
      /\ signHistory'.guesses = signHistory.guesses
      /\ signHistory'.admitted = signHistory.admitted
  BY <1>5, <1>6 DEF SignInInv, SignInRows, HistoryRow
<1>8. totp' \in [last : -1..(MaxStep + Window), at : 0..MaxStep] /\ totp'.last = s /\ totp'.at = step
  BY <1>1, <1>2 DEF CodeSteps
<1>9. SignInRows'
  BY <1>7, <1>8 DEF SignInInv, SignInRows
<1>10. CodesSpent'
  <2>1. \A t \in CodeSteps : t \in Int
    BY <1>2 DEF CodeSteps
  <2>2. \A t \in CodeSteps : /\ uses[t] <= 1
                             /\ uses[t] # 0 => t <= s \/ t < step - Window
    BY <1>1, <1>2, <1>5, <2>1 DEF SignInInv, CodesSpent
  <2> QED
    BY <1>1, <1>2, <1>7, <1>8, <2>2 DEF CodesSpent
<1> QED
  BY <1>7, <1>9, <1>10

LEMMA CodeRequests ==
    ASSUME SignInInv, NEW r \in Requests, NEW i \in DOMAIN sessions, NEW s \in CodeSteps,
           Enable2fa(r, i, s) \/ StepUp(r, i, s)
    PROVE  SignInInv'
<1>1. /\ Accepted(s) /\ ConsumeTotpStep(s)
      /\ UNCHANGED <<step, account, sessions, challenges, resets, attempts>>
  BY DEF Enable2fa, StepUp
<1>2. PICK l \in {Idle, [pc |-> "write2fa", patch |-> [twofa |-> TRUE, codes |-> 1]]} : Begin(r, l)
  BY DEF Enable2fa, StepUp
<1>3. l \in SignInSlot \cup {Idle} /\ l.pc \in {"idle", "write2fa"}
  BY <1>2 DEF SignInSlot, Patches, Idle
<1>4. RowsAreThere(l)
  BY <1>3 DEF RowsAreThere
<1>5. /\ SignInRows' /\ CodesSpent'
      /\ signHistory'.backupUses = signHistory.backupUses
      /\ signHistory'.guesses = signHistory.guesses
      /\ signHistory'.admitted = signHistory.admitted
  BY <1>1, CodeAccepted
<1>6. SignInAlone(Idle) /\ req'[r] = l => SignInAlone(req[r])'
  BY <1>1, <1>3, <1>5 DEF SignInAlone, ChallengesInStep, LinksInStep, CodesInStep, GuessesInStep,
                          AttemptsInStep, SessionsInStep, Idle
<1> QED
  BY <1>1, <1>2, <1>3, <1>4, <1>5, <1>6, SignInBegins

LEMMA ForgotPasswordStep ==
    ASSUME SignInInv, NEW r \in Requests, ForgotPassword(r)
    PROVE  SignInInv'
<1> DEFINE link == [used |-> FALSE, uses |-> 0]
           n == Len(resets) + 1
<1>1. /\ resets' = Append(resets, link) /\ Begin(r, Idle)
      /\ UNCHANGED <<step, account, sessions, challenges, totp, attempts, signHistory>>
  BY DEF ForgotPassword
<1>2. link \in LinkRow /\ resets \in Seq(LinkRow) /\ ~link.used /\ link.uses = 0
  BY DEF LinkRow, SignInInv, SignInRows
<1> HIDE DEF link
<1>3. /\ resets' \in Seq(LinkRow) /\ DOMAIN resets' = DOMAIN resets \cup {n}
      /\ resets'[n] = link /\ \A k \in DOMAIN resets : resets'[k] = resets[k]
  BY <1>1, <1>2, RowInserted
<1>4. SignInRows' /\ CodesSpent' /\ RowsAreThere(Idle)
  BY <1>1, <1>3 DEF SignInInv, SignInRows, CodesSpent, RowsAreThere, Idle
<1>5. ASSUME SignInAlone(Idle), req'[r] = Idle PROVE SignInAlone(req[r])'
  <2>1. LinksInStep(req[r])'
    BY <1>2, <1>3, <1>5 DEF SignInAlone, LinksInStep, Idle
  <2> QED
    BY <1>1, <1>5, <2>1 DEF SignInAlone, ChallengesInStep, CodesInStep, GuessesInStep,
                            AttemptsInStep, SessionsInStep, Idle
<1> QED
  BY <1>1, <1>3, <1>4, <1>5, SignInBegins

\* A session that is open after others were ended was open before.
LEMMA SessionsEnded ==
    ASSUME SignInInv, NEW except, sessions' = RevokeAll(except)
    PROVE  /\ sessions' \in Seq(SessionRow) /\ DOMAIN sessions' = DOMAIN sessions
           /\ \A i \in DOMAIN sessions : ~sessions'[i].revoked =>
                 i = except /\ sessions'[i].kept = account.pw /\ ~sessions[i].revoked
<1>1. /\ sessions \in Seq(SessionRow) /\ account.pw \in 0..MaxPw
      /\ \A i \in DOMAIN sessions : sessions[i] \in SessionRow
  BY SignInConstants, SignInRowsOf DEF SignInInv, SignInRows, AccountRow
<1>2. PICK pw \in 0..MaxPw : pw = account.pw
  BY <1>1
<1>3. \A i \in DOMAIN sessions :
         sessions'[i] = IF i = except THEN [sessions[i] EXCEPT !.kept = pw]
                        ELSE [sessions[i] EXCEPT !.revoked = TRUE]
  BY <1>2 DEF RevokeAll
<1>4. \A row \in SessionRow :
         /\ [row EXCEPT !.kept = pw] \in SessionRow /\ [row EXCEPT !.revoked = TRUE] \in SessionRow
         /\ [row EXCEPT !.kept = pw].kept = pw /\ [row EXCEPT !.revoked = TRUE].revoked
         /\ [row EXCEPT !.kept = pw].revoked = row.revoked
  BY DEF SessionRow
<1>5. \A i \in DOMAIN sessions : sessions'[i] \in SessionRow
  BY <1>1, <1>3, <1>4
<1>6. sessions' = [i \in DOMAIN sessions |-> sessions'[i]]
  BY DEF RevokeAll
<1>7. sessions' \in Seq(SessionRow) /\ DOMAIN sessions' = DOMAIN sessions
  BY <1>1, <1>5, <1>6, RowsUpdated
<1>8. ASSUME NEW i \in DOMAIN sessions, ~sessions'[i].revoked
      PROVE  i = except /\ sessions'[i].kept = pw /\ ~sessions[i].revoked
  <2>1. PICK row \in SessionRow : row = sessions[i]
    BY <1>1
  <2>2. sessions'[i] = IF i = except THEN [row EXCEPT !.kept = pw] ELSE [row EXCEPT !.revoked = TRUE]
    BY <1>3, <2>1
  <2> QED
    BY <1>4, <1>8, <2>1, <2>2
<1> QED
  BY <1>2, <1>7, <1>8

LEMMA SessionRequests ==
    ASSUME SignInInv, NEW r \in Requests, NEW i \in DOMAIN sessions,
           RevokeSession(r, i) \/ RevokeOthers(r, i)
    PROVE  SignInInv'
<1>1. /\ Begin(r, Idle)
      /\ UNCHANGED <<step, account, challenges, resets, totp, attempts, signHistory>>
  BY DEF RevokeSession, RevokeOthers
<1>2. /\ sessions' \in Seq(SessionRow) /\ DOMAIN sessions' = DOMAIN sessions
      /\ \A k \in DOMAIN sessions : ~sessions'[k].revoked =>
            \/ sessions'[k].kept = account.pw
            \/ sessions'[k] = sessions[k]
  <2>1. CASE RevokeOthers(r, i)
    BY <2>1, SessionsEnded DEF RevokeOthers
  <2>2. CASE RevokeSession(r, i)
    <3>1. sessions \in Seq(SessionRow) /\ sessions[i] \in SessionRow
      BY SignInRowsOf DEF SignInInv, SignInRows
    <3>2. PICK row : row = [sessions[i] EXCEPT !.revoked = TRUE]
      OBVIOUS
    <3>3. row \in SessionRow /\ row.revoked
      BY <3>1, <3>2 DEF SessionRow
    <3>4. sessions' = [sessions EXCEPT ![i] = row]
      BY <2>2, <3>2 DEF RevokeSession
    <3> QED
      BY <3>1, <3>3, <3>4, RowUpdated
  <2> QED
    BY <2>1, <2>2
<1>3. SignInRows' /\ CodesSpent' /\ RowsAreThere(Idle)
  BY <1>1, <1>2 DEF SignInInv, SignInRows, CodesSpent, RowsAreThere, Idle
<1>4. ASSUME SignInAlone(Idle), req'[r] = Idle PROVE SignInAlone(req[r])'
  <2>1. SessionsInStep(req[r])'
    BY <1>1, <1>2, <1>4 DEF SignInAlone, SessionsInStep, Idle
  <2> QED
    BY <1>1, <1>4, <2>1 DEF SignInAlone, ChallengesInStep, LinksInStep, CodesInStep, GuessesInStep,
                            AttemptsInStep, Idle
<1> QED
  BY <1>1, <1>3, <1>4, SignInBegins

-----------------------------------------------------------------------------
(***************************************************************************)
(* Signing in: statements                                                  *)
(***************************************************************************)

\* The row of the rate window that was read is the one that counts, or is gone.
LEMMA SpendAttemptStep ==
    ASSUME SignInInv, NEW r \in Requests, SpendAttempt(r)
    PROVE  SignInInv'
<1>1. /\ req[r] \in SignInSlot /\ req[r].pc = "spend" /\ req[r].row \in {-1} \cup Nat
      /\ req[r].row < MaxAttempts
  BY SignInAt, SignInSlotKinds DEF SpendAttempt, At, RowsAreThere
<1>2. PICK seen \in AccountRow : seen = account
  BY DEF SignInInv, SignInRows
<1>3. PICK pc \in {"failed", "challenge", "session"} :
         /\ pc = IF req[r].pw # account.pw THEN "failed"
                 ELSE IF account.twofa THEN "challenge" ELSE "session"
         /\ pc # "failed" => req[r].pw = account.pw
  OBVIOUS
<1> DEFINE l == IF account.locked THEN Idle ELSE [pc |-> pc, seen |-> seen, via |-> "password"]
<1>4. /\ Continue(r, l)
      /\ UNCHANGED <<step, account, sessions, challenges, resets, totp>>
      /\ attempts' = IF req[r].row >= 0 \/ attempts < 0
                     THEN IF attempts < 0 THEN 1 ELSE attempts + 1
                     ELSE attempts
      /\ signHistory' = [signHistory EXCEPT !.admitted = signHistory.admitted + 1]
  BY <1>2, <1>3 DEF SpendAttempt
<1>5. /\ l \in SignInSlot \cup {Idle}
      /\ l = Idle \/ (l.pc \in {"failed", "challenge", "session"} /\ l.seen = account)
  BY <1>2 DEF SignInSlot
<1> HIDE DEF l
<1>6. attempts \in {-1} \cup Nat /\ signHistory \in HistoryRow
  BY DEF SignInInv, SignInRows
<1>7. /\ signHistory' \in HistoryRow
      /\ signHistory'.codeUses = signHistory.codeUses
      /\ signHistory'.backupUses = signHistory.backupUses
      /\ signHistory'.guesses = signHistory.guesses
      /\ signHistory'.admitted = signHistory.admitted + 1
      /\ signHistory.admitted \in Nat
  BY <1>4, <1>6 DEF HistoryRow
<1>8. attempts' \in {-1} \cup Nat
  BY <1>4, <1>6
<1>9. SignInRows' /\ CodesSpent' /\ RowsAreThere(l)
  <2>1. SignInRows'
    BY <1>4, <1>7, <1>8 DEF SignInInv, SignInRows
  <2>2. CodesSpent'
    BY <1>4, <1>7 DEF SignInInv, CodesSpent
  <2> QED
    BY <1>5, <2>1, <2>2 DEF RowsAreThere, Idle
<1>10. ASSUME SignInAlone(req[r]), req'[r] = l PROVE SignInAlone(req[r])'
  <2>1. AttemptsInStep(req[r])'
    BY <1>1, <1>4, <1>5, <1>6, <1>7, <1>10, SignInConstants DEF SignInAlone, AttemptsInStep, Idle
  <2>2. ChallengesInStep(req[r])' /\ LinksInStep(req[r])'
    BY <1>1, <1>4, <1>5, <1>10 DEF SignInAlone, ChallengesInStep, LinksInStep, Idle
  <2>3. CodesInStep(req[r])' /\ GuessesInStep(req[r])' /\ SessionsInStep(req[r])'
    BY <1>1, <1>4, <1>5, <1>7, <1>10 DEF SignInAlone, CodesInStep, GuessesInStep, SessionsInStep, Idle
  <2> QED
    BY <2>1, <2>2, <2>3 DEF SignInAlone
<1> QED
  BY <1>1, <1>4, <1>5, <1>9, <1>10, SignInContinues

\* The count is of the row that was read: it is the row's, when the handler is alone.
LEMMA RegisterFailedLoginStep ==
    ASSUME SignInInv, NEW r \in Requests, RegisterFailedLogin(r)
    PROVE  SignInInv'
<1>1. req[r] \in SignInSlot /\ req[r].pc = "failed" /\ req[r].seen \in AccountRow
  BY SignInAt, SignInSlotKinds DEF RegisterFailedLogin, At
<1>2. PICK count \in Nat : count = req[r].seen.failed + 1
  BY <1>1 DEF AccountRow
<1>3. PICK old \in AccountRow : old = account
  BY DEF SignInInv, SignInRows
<1>4. /\ Continue(r, Idle)
      /\ UNCHANGED <<step, sessions, challenges, resets, totp, attempts>>
      /\ account' = IF count >= MaxFailed THEN [old EXCEPT !.failed = 0, !.locked = TRUE]
                    ELSE [old EXCEPT !.failed = count]
      /\ signHistory' = [signHistory EXCEPT !.guesses = IF account'.locked THEN 0
                                                        ELSE signHistory.guesses + 1]
  BY <1>2, <1>3 DEF RegisterFailedLogin, Return
<1>5. MaxFailed \in Nat \ {0}
  BY SignInConstants
<1>8. /\ account' \in AccountRow /\ account'.pw = account.pw /\ account'.codes = account.codes
      /\ account'.failed \in 0..(MaxFailed - 1)
      /\ count >= MaxFailed => account'.locked
      /\ count < MaxFailed => account'.failed = count
  <2>1. CASE count >= MaxFailed
    <3>1. PICK zero \in 0..(MaxFailed - 1) : zero = 0
      BY <1>5
    <3>2. account' = [old EXCEPT !.failed = zero, !.locked = TRUE]
      BY <1>4, <2>1, <3>1
    <3>3. /\ account' \in AccountRow /\ account'.failed = zero /\ account'.locked
          /\ account'.pw = old.pw /\ account'.codes = old.codes
      BY <3>2 DEF AccountRow
    <3> QED
      BY <1>3, <1>5, <2>1, <3>3
  <2>2. CASE count < MaxFailed
    <3>1. PICK failed \in 0..(MaxFailed - 1) : failed = count
      BY <1>5, <2>2
    <3>2. account' = [old EXCEPT !.failed = failed]
      BY <1>4, <1>5, <2>2, <3>1
    <3>3. /\ account' \in AccountRow /\ account'.failed = failed
          /\ account'.pw = old.pw /\ account'.codes = old.codes
      BY <3>2 DEF AccountRow
    <3> QED
      BY <1>3, <1>5, <2>2, <3>1, <3>3
  <2> QED
    BY <1>5, <2>1, <2>2
<1>9. signHistory \in HistoryRow
  BY DEF SignInInv, SignInRows
<1>10. PICK guesses \in Nat : guesses = IF account'.locked THEN 0 ELSE signHistory.guesses + 1
  BY <1>9 DEF HistoryRow
<1>11. /\ signHistory' \in HistoryRow
       /\ signHistory'.codeUses = signHistory.codeUses
       /\ signHistory'.backupUses = signHistory.backupUses
       /\ signHistory'.guesses = guesses
       /\ signHistory'.admitted = signHistory.admitted
       /\ signHistory.guesses \in Nat
  BY <1>4, <1>9, <1>10 DEF HistoryRow
<1>12. SignInRows' /\ CodesSpent' /\ RowsAreThere(Idle)
  <2>1. SignInRows'
    BY <1>4, <1>8, <1>11 DEF SignInInv, SignInRows
  <2>2. CodesSpent'
    BY <1>4, <1>11 DEF SignInInv, CodesSpent
  <2> QED
    BY <2>1, <2>2 DEF RowsAreThere, Idle
<1>13. ASSUME SignInAlone(req[r]), req'[r] = Idle PROVE SignInAlone(req[r])'
  <2>1. signHistory.guesses < count
    BY <1>1, <1>2, <1>11, <1>13 DEF SignInAlone, GuessesInStep, AccountRow
  <2>2. guesses <= account'.failed
    BY <1>5, <1>8, <1>10, <1>11, <2>1
  <2>3. GuessesInStep(req[r])'
    BY <1>11, <1>13, <2>2 DEF GuessesInStep, Idle
  <2>4. ChallengesInStep(req[r])' /\ LinksInStep(req[r])' /\ AttemptsInStep(req[r])'
    BY <1>1, <1>4, <1>11, <1>13 DEF SignInAlone, ChallengesInStep, LinksInStep, AttemptsInStep, Idle
  <2>5. CodesInStep(req[r])' /\ SessionsInStep(req[r])'
    BY <1>1, <1>4, <1>8, <1>11, <1>13 DEF SignInAlone, CodesInStep, SessionsInStep, Idle
  <2> QED
    BY <2>3, <2>4, <2>5 DEF SignInAlone
<1> QED
  BY <1>1, <1>4, <1>12, <1>13, SignInContinues

LEMMA ClearFailedLoginsStep ==
    ASSUME SignInInv, NEW r \in Requests, ClearFailedLogins(r)
    PROVE  SignInInv'
<1>1. req[r] \in SignInSlot /\ req[r].pc = "clear"
  BY SignInAt, SignInSlotKinds DEF ClearFailedLogins, At
<1>2. PICK old \in AccountRow : old = account
  BY DEF SignInInv, SignInRows
<1>3. PICK history \in HistoryRow : history = signHistory
  BY DEF SignInInv, SignInRows
<1>4. /\ Continue(r, Idle)
      /\ UNCHANGED <<step, sessions, challenges, resets, totp, attempts>>
      /\ account' = [old EXCEPT !.failed = 0, !.locked = FALSE]
      /\ signHistory' = [history EXCEPT !.guesses = 0]
  BY <1>2, <1>3 DEF ClearFailedLogins, Return
<1>5. /\ account' \in AccountRow /\ account'.pw = account.pw /\ account'.codes = account.codes
      /\ account'.failed = 0
  <2>1. PICK zero \in 0..(MaxFailed - 1) : zero = 0
    BY SignInConstants
  <2>2. /\ account' \in AccountRow /\ account'.pw = old.pw /\ account'.codes = old.codes
        /\ account'.failed = zero
    <3>1. account' = [old EXCEPT !.failed = zero, !.locked = FALSE]
      BY <1>4, <2>1
    <3> QED
      BY <3>1 DEF AccountRow
  <2> QED
    BY <1>2, <2>1, <2>2
<1>6. /\ signHistory' \in HistoryRow
      /\ signHistory'.codeUses = signHistory.codeUses
      /\ signHistory'.backupUses = signHistory.backupUses
      /\ signHistory'.guesses = 0
      /\ signHistory'.admitted = signHistory.admitted
  BY <1>3, <1>4 DEF HistoryRow
<1>7. SignInRows' /\ CodesSpent' /\ RowsAreThere(Idle)
  <2>1. SignInRows'
    BY <1>4, <1>5, <1>6 DEF SignInInv, SignInRows
  <2>2. CodesSpent'
    BY <1>4, <1>6 DEF SignInInv, CodesSpent
  <2> QED
    BY <2>1, <2>2 DEF RowsAreThere, Idle
<1>8. ASSUME SignInAlone(req[r]), req'[r] = Idle PROVE SignInAlone(req[r])'
  <2>1. ChallengesInStep(req[r])' /\ LinksInStep(req[r])' /\ AttemptsInStep(req[r])'
    BY <1>1, <1>4, <1>6, <1>8 DEF SignInAlone, ChallengesInStep, LinksInStep, AttemptsInStep, Idle
  <2>2. CodesInStep(req[r])' /\ SessionsInStep(req[r])' /\ GuessesInStep(req[r])'
    BY <1>1, <1>4, <1>5, <1>6, <1>8 DEF SignInAlone, CodesInStep, SessionsInStep, GuessesInStep, Idle
  <2> QED
    BY <2>1, <2>2 DEF SignInAlone
<1> QED
  BY <1>1, <1>4, <1>7, <1>8, SignInContinues

LEMMA InsertChallengeStep ==
    ASSUME SignInInv, NEW r \in Requests, InsertChallenge(r)
    PROVE  SignInInv'
<1>1. req[r] \in SignInSlot /\ req[r].pc = "challenge" /\ req[r].seen \in AccountRow
  BY SignInAt, SignInSlotKinds DEF InsertChallenge, At
<1>2. PICK pw \in 1..MaxPw : pw = req[r].seen.pw
  BY <1>1 DEF AccountRow
<1> DEFINE row == [tries |-> 0, consumed |-> FALSE, pw |-> pw, opened |-> 0]
           n == Len(challenges) + 1
<1>3. /\ Continue(r, Idle) /\ challenges' = Append(challenges, row)
      /\ UNCHANGED <<step, account, sessions, resets, totp, attempts, signHistory>>
  BY <1>2 DEF InsertChallenge, Return
<1>4. row \in ChallengeRow /\ challenges \in Seq(ChallengeRow) /\ row.opened = 0
  BY SignInConstants DEF ChallengeRow, SignInInv, SignInRows
<1> HIDE DEF row
<1>5. /\ challenges' \in Seq(ChallengeRow) /\ DOMAIN challenges' = DOMAIN challenges \cup {n}
      /\ challenges'[n] = row /\ \A c \in DOMAIN challenges : challenges'[c] = challenges[c]
  BY <1>3, <1>4, RowInserted
<1>6. SignInRows' /\ CodesSpent' /\ RowsAreThere(Idle)
  BY <1>3, <1>5 DEF SignInInv, SignInRows, CodesSpent, RowsAreThere, Idle
<1>7. ASSUME SignInAlone(req[r]), req'[r] = Idle PROVE SignInAlone(req[r])'
  <2>1. ChallengesInStep(req[r])'
    BY <1>4, <1>5, <1>7 DEF SignInAlone, ChallengesInStep, Idle
  <2> QED
    BY <1>1, <1>3, <1>7, <2>1 DEF SignInAlone, LinksInStep, CodesInStep, GuessesInStep,
                                  AttemptsInStep, SessionsInStep, Idle
<1> QED
  BY <1>1, <1>3, <1>5, <1>6, <1>7, SignInContinues

\* The session of a password that was checked, or of a challenge that was answered.
LEMMA CreateSessionStep ==
    ASSUME SignInInv, NEW r \in Requests, CreateSession(r)
    PROVE  SignInInv'
<1>1. /\ req[r] \in SignInSlot /\ req[r].pc = "session" /\ req[r].seen \in AccountRow
      /\ req[r].via \in {"password", "code"}
  BY SignInAt, SignInSlotKinds DEF CreateSession, At
<1>2. PICK pw \in 1..MaxPw, via \in {"password", "code"} : pw = req[r].seen.pw /\ via = req[r].via
  BY <1>1 DEF AccountRow
<1> DEFINE row == [pw |-> pw, via |-> via, revoked |-> FALSE, kept |-> 0]
           l == [pc |-> "clear"]
           n == Len(sessions) + 1
<1>3. /\ Continue(r, l) /\ sessions' = Append(sessions, row)
      /\ UNCHANGED <<step, account, challenges, resets, totp, attempts, signHistory>>
  BY <1>2 DEF CreateSession, NewSession
<1>4. row \in SessionRow /\ sessions \in Seq(SessionRow) /\ row.pw = pw /\ row.via = via
  BY SignInConstants DEF SessionRow, SignInInv, SignInRows
<1>5. l \in SignInSlot /\ l.pc = "clear"
  BY DEF SignInSlot
<1> HIDE DEF row, l
<1>6. /\ sessions' \in Seq(SessionRow) /\ DOMAIN sessions' = DOMAIN sessions \cup {n}
      /\ sessions'[n] = row /\ \A i \in DOMAIN sessions : sessions'[i] = sessions[i]
  BY <1>3, <1>4, RowInserted
<1>7. SignInRows' /\ CodesSpent' /\ RowsAreThere(l)
  BY <1>3, <1>5, <1>6 DEF SignInInv, SignInRows, CodesSpent, RowsAreThere
<1>8. ASSUME SignInAlone(req[r]), req'[r] = l PROVE SignInAlone(req[r])'
  <2>1. SessionsInStep(req[r])'
    BY <1>1, <1>2, <1>3, <1>4, <1>5, <1>6, <1>8 DEF SignInAlone, SessionsInStep
  <2> QED
    BY <1>1, <1>3, <1>5, <1>8, <2>1 DEF SignInAlone, ChallengesInStep, LinksInStep, CodesInStep,
                                        GuessesInStep, AttemptsInStep
<1> QED
  BY <1>1, <1>3, <1>5, <1>7, <1>8, SignInContinues

\* A code that was refused changes nothing yet.
LEMMA CodeRefused ==
    ASSUME SignInInv, NEW r \in Requests, req[r] \in SignInSlot, RowsAreThere(req[r]),
           req[r].pc = "verify", Continue(r, [req[r] EXCEPT !.pc = "wrong"]), UNCHANGED signIn
    PROVE  SignInInv'
<1>1. PICK c \in Nat, code \in {"totp", "backup"}, row \in ChallengeRow, seen \in AccountRow :
         req[r] = [pc |-> "verify", chal |-> c, code |-> code, row |-> row, seen |-> seen]
  <2>1. /\ req[r] = [pc |-> req[r].pc, chal |-> req[r].chal, code |-> req[r].code,
                     row |-> req[r].row, seen |-> req[r].seen]
        /\ req[r].chal \in Nat /\ req[r].code \in {"totp", "backup"}
        /\ req[r].row \in ChallengeRow /\ req[r].seen \in AccountRow
    BY SignInSlotKinds
  <2> QED
    BY <2>1
<1> DEFINE l == [pc |-> "wrong", chal |-> c, code |-> code, row |-> row, seen |-> seen]
<1>2. [req[r] EXCEPT !.pc = "wrong"] = l
  BY <1>1
<1>3. /\ l \in SignInSlot /\ l.pc = "wrong" /\ l.chal = req[r].chal /\ l.row = req[r].row
  BY <1>1 DEF SignInSlot
<1>4. Continue(r, l)
  BY <1>2
<1> HIDE DEF l
<1>5. UNCHANGED <<step, account, sessions, challenges, resets, totp, attempts, signHistory>>
  BY DEF signIn
<1>6. SignInRows' /\ CodesSpent'
  BY <1>5 DEF SignInInv, SignInRows, CodesSpent
<1>7. RowsAreThere(l)
  BY <1>3 DEF RowsAreThere
<1>8. ASSUME SignInAlone(req[r]), req'[r] = l PROVE SignInAlone(req[r])'
  BY <1>3, <1>5, <1>8 DEF SignInAlone, ChallengesInStep, LinksInStep, CodesInStep, GuessesInStep,
                          AttemptsInStep, SessionsInStep
<1> QED
  BY <1>3, <1>4, <1>5, <1>6, <1>7, <1>8, SignInContinues

\* The handler of a code that was accepted goes on to consume its challenge.
LEMMA ConsumeIsNext ==
    ASSUME SignInInv, NEW r \in Requests, req[r] \in SignInSlot, RowsAreThere(req[r]),
           req[r].pc = "verify"
    PROVE  LET l == [pc |-> "consume", chal |-> req[r].chal,
                     seen |-> [req[r].seen EXCEPT !.pw = req[r].row.pw]]
           IN  l \in SignInSlot /\ l.pc = "consume" /\ l.chal = req[r].chal /\ RowsAreThere(l)
<1>1. PICK c \in Nat, row \in ChallengeRow, seen \in AccountRow :
         c = req[r].chal /\ row = req[r].row /\ seen = req[r].seen
  BY SignInSlotKinds
<1>2. PICK pw \in 1..MaxPw : pw = row.pw
  BY DEF ChallengeRow
<1>3. PICK new \in AccountRow : new = [seen EXCEPT !.pw = pw]
  BY DEF AccountRow
<1> DEFINE l == [pc |-> "consume", chal |-> c, seen |-> new]
<1>4. l \in SignInSlot /\ l.pc = "consume" /\ l.chal = c
  BY DEF SignInSlot
<1>5. c \in DOMAIN challenges
  BY <1>1 DEF RowsAreThere
<1>6. RowsAreThere(l)
  BY <1>4, <1>5 DEF RowsAreThere
<1>7. l = [pc |-> "consume", chal |-> req[r].chal,
           seen |-> [req[r].seen EXCEPT !.pw = req[r].row.pw]]
  BY <1>1, <1>2, <1>3
<1> HIDE DEF l
<1> QED
  BY <1>1, <1>4, <1>6, <1>7

LEMMA VerifyTotpStep ==
    ASSUME SignInInv, NEW r \in Requests, NEW s \in CodeSteps, VerifyTotp(r, s)
    PROVE  SignInInv'
<1>1. req[r] \in SignInSlot /\ req[r].pc = "verify" /\ RowsAreThere(req[r])
  BY SignInAt DEF VerifyTotp, At
<1>2. UNCHANGED <<step, account, sessions, challenges, resets, attempts>>
  BY DEF VerifyTotp
<1>3. CASE ~Accepted(s)
  BY <1>1, <1>2, <1>3, CodeRefused DEF VerifyTotp, signIn
<1>4. CASE Accepted(s)
  <2> DEFINE l == [pc |-> "consume", chal |-> req[r].chal,
                   seen |-> [req[r].seen EXCEPT !.pw = req[r].row.pw]]
  <2>1. Continue(r, l) /\ ConsumeTotpStep(s)
    BY <1>4 DEF VerifyTotp
  <2>2. l \in SignInSlot /\ l.pc = "consume" /\ l.chal = req[r].chal /\ RowsAreThere(l)
    BY <1>1, ConsumeIsNext
  <2>3. PICK loc : loc = l
    OBVIOUS
  <2> HIDE DEF l
  <2>4. /\ SignInRows' /\ CodesSpent'
        /\ signHistory'.backupUses = signHistory.backupUses
        /\ signHistory'.guesses = signHistory.guesses
        /\ signHistory'.admitted = signHistory.admitted
    BY <1>2, <1>4, <2>1, CodeAccepted
  <2>5. ASSUME SignInAlone(req[r]), req'[r] = loc PROVE SignInAlone(req[r])'
    <3>1. ChallengesInStep(req[r])' /\ LinksInStep(req[r])'
      BY <1>1, <1>2, <2>2, <2>3, <2>5 DEF SignInAlone, ChallengesInStep, LinksInStep
    <3> QED
      BY <1>1, <1>2, <2>2, <2>3, <2>4, <2>5, <3>1
         DEF SignInAlone, CodesInStep, GuessesInStep, AttemptsInStep, SessionsInStep
  <2> QED
    BY <1>1, <1>2, <2>1, <2>2, <2>3, <2>4, <2>5, SignInContinues
<1> QED
  BY <1>3, <1>4

\* The list of recovery codes that was read is written back without the code: it is
\* the account's, when the handler is alone.
LEMMA VerifyBackupStep ==
    ASSUME SignInInv, NEW r \in Requests, VerifyBackup(r)
    PROVE  SignInInv'
<1>1. /\ req[r] \in SignInSlot /\ req[r].pc = "verify" /\ RowsAreThere(req[r])
      /\ req[r].seen \in AccountRow
  BY SignInAt, SignInSlotKinds DEF VerifyBackup, At
<1>2. UNCHANGED <<step, sessions, challenges, resets, totp, attempts>>
  BY DEF VerifyBackup
<1>3. CASE ~(req[r].seen.codes > 0)
  BY <1>1, <1>2, <1>3, CodeRefused DEF VerifyBackup, signIn
<1>4. CASE req[r].seen.codes > 0
  <2> DEFINE l == [pc |-> "consume", chal |-> req[r].chal,
                   seen |-> [req[r].seen EXCEPT !.pw = req[r].row.pw]]
  <2>1. PICK codes \in 0..1 : codes = req[r].seen.codes - 1
    BY <1>1, <1>4 DEF AccountRow
  <2>2. PICK old \in AccountRow, history \in HistoryRow : old = account /\ history = signHistory
    BY DEF SignInInv, SignInRows
  <2>3. PICK uses \in Nat : uses = history.backupUses + 1
    BY DEF HistoryRow
  <2>4. /\ Continue(r, l) /\ account' = [old EXCEPT !.codes = codes]
        /\ signHistory' = [history EXCEPT !.backupUses = uses]
    BY <1>4, <2>1, <2>2, <2>3 DEF VerifyBackup
  <2>5. l \in SignInSlot /\ l.pc = "consume" /\ l.chal = req[r].chal /\ RowsAreThere(l)
    BY <1>1, ConsumeIsNext
  <2>6. PICK loc : loc = l
    OBVIOUS
  <2> HIDE DEF l
  <2>7. /\ account' \in AccountRow /\ account'.codes = codes /\ account'.pw = account.pw
        /\ account'.failed = account.failed
    BY <2>2, <2>4 DEF AccountRow
  <2>8. /\ signHistory' \in HistoryRow
        /\ signHistory'.codeUses = signHistory.codeUses
        /\ signHistory'.backupUses = signHistory.backupUses + 1
        /\ signHistory'.guesses = signHistory.guesses
        /\ signHistory'.admitted = signHistory.admitted
    BY <2>2, <2>3, <2>4 DEF HistoryRow
  <2>9. SignInRows'
    BY <1>2, <2>7, <2>8 DEF SignInInv, SignInRows
  <2>10. CodesSpent'
    BY <1>2, <2>8 DEF SignInInv, CodesSpent
  <2>11. ASSUME SignInAlone(req[r]), req'[r] = loc PROVE SignInAlone(req[r])'
    <3>1. ChallengesInStep(req[r])' /\ LinksInStep(req[r])'
      BY <1>1, <1>2, <2>5, <2>6, <2>11 DEF SignInAlone, ChallengesInStep, LinksInStep
    <3>2. /\ signHistory.backupUses + account.codes <= 1 /\ req[r].seen.codes = account.codes
          /\ signHistory.backupUses \in Nat /\ account.codes \in 0..1
      BY <1>1, <2>2, <2>11 DEF SignInAlone, CodesInStep, HistoryRow, AccountRow
    <3>3. CodesInStep(req[r])'
      BY <1>4, <2>1, <2>5, <2>6, <2>7, <2>8, <2>11, <3>2 DEF CodesInStep
    <3>4. GuessesInStep(req[r])' /\ AttemptsInStep(req[r])' /\ SessionsInStep(req[r])'
      BY <1>1, <1>2, <2>5, <2>6, <2>7, <2>8, <2>11
         DEF SignInAlone, GuessesInStep, AttemptsInStep, SessionsInStep
    <3> QED
      BY <3>1, <3>3, <3>4 DEF SignInAlone
  <2> QED
    BY <1>1, <1>2, <2>4, <2>5, <2>6, <2>9, <2>10, <2>11, SignInContinues
<1> QED
  BY <1>3, <1>4

\* A challenge changes: the others are as they were.
LEMMA ChallengeChanged ==
    ASSUME SignInInv, NEW c \in DOMAIN challenges, NEW row \in ChallengeRow,
           challenges' = [challenges EXCEPT ![c] = row],
           UNCHANGED <<step, account, sessions, resets, totp, attempts, signHistory>>
    PROVE  /\ SignInRows' /\ CodesSpent' /\ DOMAIN challenges' = DOMAIN challenges
           /\ challenges'[c] = row
           /\ \A k \in DOMAIN challenges \ {c} : challenges'[k] = challenges[k]
<1>1. challenges \in Seq(ChallengeRow)
  BY DEF SignInInv, SignInRows
<1>2. /\ challenges' \in Seq(ChallengeRow) /\ DOMAIN challenges' = DOMAIN challenges
      /\ challenges'[c] = row
      /\ \A k \in DOMAIN challenges \ {c} : challenges'[k] = challenges[k]
  BY <1>1, RowUpdated
<1>3. SignInRows' /\ CodesSpent'
  BY <1>2 DEF SignInInv, SignInRows, CodesSpent
<1> QED
  BY <1>2, <1>3

LEMMA CountWrongCodeStep ==
    ASSUME SignInInv, NEW r \in Requests, CountWrongCode(r)
    PROVE  SignInInv'
<1>1. /\ req[r] \in SignInSlot /\ req[r].pc = "wrong" /\ req[r].row \in ChallengeRow
      /\ req[r].chal \in DOMAIN challenges /\ req[r].row.tries < MaxTries
  BY SignInAt, SignInSlotKinds DEF CountWrongCode, At, RowsAreThere
<1>2. PICK c \in DOMAIN challenges : c = req[r].chal
  BY <1>1
<1>3. PICK tries \in 0..MaxTries : tries = req[r].row.tries + 1
  BY <1>1, SignInConstants DEF ChallengeRow
<1>4. PICK old \in ChallengeRow : old = challenges[c]
  BY SignInRowsOf DEF SignInInv
<1>5. PICK row \in ChallengeRow : row = [old EXCEPT !.tries = tries]
  BY DEF ChallengeRow
<1>6. /\ Continue(r, Idle) /\ challenges' = [challenges EXCEPT ![c] = row]
      /\ UNCHANGED <<step, account, sessions, resets, totp, attempts, signHistory>>
  BY <1>2, <1>3, <1>4, <1>5 DEF CountWrongCode, Return
<1>7. row.consumed = old.consumed /\ row.opened = old.opened
  BY <1>5 DEF ChallengeRow
<1>8. /\ SignInRows' /\ CodesSpent' /\ DOMAIN challenges' = DOMAIN challenges
      /\ challenges'[c] = row
      /\ \A k \in DOMAIN challenges \ {c} : challenges'[k] = challenges[k]
  BY <1>6, ChallengeChanged
<1>9. ASSUME SignInAlone(req[r]), req'[r] = Idle PROVE SignInAlone(req[r])'
  <2>1. ChallengesInStep(req[r])'
    BY <1>4, <1>7, <1>8, <1>9 DEF SignInAlone, ChallengesInStep, Idle
  <2> QED
    BY <1>1, <1>6, <1>9, <2>1 DEF SignInAlone, LinksInStep, CodesInStep, GuessesInStep,
                                  AttemptsInStep, SessionsInStep, Idle
<1>10. RowsAreThere(Idle)
  BY DEF RowsAreThere, Idle
<1> QED
  BY <1>1, <1>6, <1>8, <1>9, <1>10, SignInContinues

LEMMA ConsumeChallengeStep ==
    ASSUME SignInInv, NEW r \in Requests, ConsumeChallenge(r)
    PROVE  SignInInv'
<1>1. /\ req[r] \in SignInSlot /\ req[r].pc = "consume" /\ req[r].seen \in AccountRow
      /\ req[r].chal \in DOMAIN challenges
  BY SignInAt, SignInSlotKinds DEF ConsumeChallenge, At, RowsAreThere
<1>2. PICK c \in DOMAIN challenges, seen \in AccountRow : c = req[r].chal /\ seen = req[r].seen
  BY <1>1
<1>3. PICK old \in ChallengeRow : old = challenges[c]
  BY SignInRowsOf DEF SignInInv
<1>4. PICK opened \in Nat : opened = old.opened + 1
  BY DEF ChallengeRow
<1>5. PICK row \in ChallengeRow : row = [old EXCEPT !.consumed = TRUE, !.opened = opened]
  BY DEF ChallengeRow
<1> DEFINE l == [pc |-> "session", seen |-> seen, via |-> "code"]
<1>6. /\ Continue(r, l) /\ challenges' = [challenges EXCEPT ![c] = row]
      /\ UNCHANGED <<step, account, sessions, resets, totp, attempts, signHistory>>
  BY <1>2, <1>3, <1>4, <1>5 DEF ConsumeChallenge
<1>7. l \in SignInSlot /\ l.pc = "session" /\ l.via = "code"
  BY DEF SignInSlot
<1> HIDE DEF l
<1>8. row.consumed /\ row.opened = old.opened + 1
  BY <1>4, <1>5 DEF ChallengeRow
<1>9. /\ SignInRows' /\ CodesSpent' /\ DOMAIN challenges' = DOMAIN challenges
      /\ challenges'[c] = row
      /\ \A k \in DOMAIN challenges \ {c} : challenges'[k] = challenges[k]
  BY <1>6, ChallengeChanged
<1>10. ASSUME SignInAlone(req[r]), req'[r] = l PROVE SignInAlone(req[r])'
  <2>1. old.opened = 0
    BY <1>1, <1>2, <1>3, <1>10 DEF SignInAlone, ChallengesInStep
  <2>2. ChallengesInStep(req[r])'
    BY <1>7, <1>8, <1>9, <1>10, <2>1 DEF SignInAlone, ChallengesInStep
  <2> QED
    BY <1>1, <1>6, <1>7, <1>10, <2>2 DEF SignInAlone, LinksInStep, CodesInStep, GuessesInStep,
                                         AttemptsInStep, SessionsInStep
<1>11. RowsAreThere(l)
  BY <1>7 DEF RowsAreThere
<1> QED
  BY <1>1, <1>6, <1>7, <1>9, <1>10, <1>11, SignInContinues

LEMMA PatchedAccount ==
    ASSUME NEW old \in AccountRow, NEW patch \in Patches
    PROVE  /\ Update(old, patch) \in AccountRow
           /\ Update(old, patch).pw = old.pw /\ Update(old, patch).failed = old.failed
           /\ "codes" \notin DOMAIN patch => Update(old, patch).codes = old.codes
<1> DEFINE new == Update(old, patch)
<1>1. DOMAIN old = {"pw", "twofa", "secret", "codes", "failed", "locked", "mustChange"}
  BY DEF AccountRow
<1>2. /\ DOMAIN patch \subseteq {"secret", "twofa", "codes"}
      /\ "secret" \in DOMAIN patch => patch["secret"] \in BOOLEAN
      /\ "twofa" \in DOMAIN patch => patch["twofa"] \in BOOLEAN
      /\ "codes" \in DOMAIN patch => patch["codes"] \in 0..1
  <2>1. CASE patch = [secret |-> TRUE]
    BY <2>1
  <2>2. CASE patch = [twofa |-> TRUE, codes |-> 1]
    BY <2>2
  <2>3. CASE patch = [twofa |-> FALSE, secret |-> FALSE, codes |-> 0]
    BY <2>3
  <2>4. CASE patch = [codes |-> 1]
    BY <2>4
  <2> QED
    BY <2>1, <2>2, <2>3, <2>4 DEF Patches
<1>3. new = [f \in {"pw", "twofa", "secret", "codes", "failed", "locked", "mustChange"} |->
                IF f \in DOMAIN patch THEN patch[f] ELSE old[f]]
  BY <1>1, <1>2 DEF Update
<1> HIDE DEF new
<1>4. /\ old["pw"] \in 1..MaxPw /\ old["twofa"] \in BOOLEAN /\ old["secret"] \in BOOLEAN
      /\ old["codes"] \in 0..1 /\ old["failed"] \in 0..(MaxFailed - 1)
      /\ old["locked"] \in BOOLEAN /\ old["mustChange"] \in BOOLEAN
  BY DEF AccountRow
<1>5. /\ new["pw"] = old["pw"] /\ new["failed"] = old["failed"]
      /\ new["twofa"] \in BOOLEAN /\ new["secret"] \in BOOLEAN /\ new["codes"] \in 0..1
      /\ new["locked"] \in BOOLEAN /\ new["mustChange"] \in BOOLEAN
      /\ "codes" \notin DOMAIN patch => new["codes"] = old["codes"]
  BY <1>2, <1>3, <1>4
<1>6. new \in AccountRow
  BY <1>3, <1>4, <1>5 DEF AccountRow
<1> QED
  BY <1>5, <1>6 DEF new

LEMMA Write2faStep ==
    ASSUME SignInInv, NEW r \in Requests, Write2fa(r)
    PROVE  SignInInv'
<1>1. req[r] \in SignInSlot /\ req[r].pc = "write2fa" /\ req[r].patch \in Patches
  BY SignInAt, SignInSlotKinds DEF Write2fa, At
<1>2. PICK patch \in Patches : patch = req[r].patch
  BY <1>1
<1>3. PICK old \in AccountRow, history \in HistoryRow : old = account /\ history = signHistory
  BY DEF SignInInv, SignInRows
<1>4. /\ Continue(r, Idle) /\ account' = Update(old, patch)
      /\ signHistory' = IF "codes" \in DOMAIN patch THEN [history EXCEPT !.backupUses = 0] ELSE history
      /\ UNCHANGED <<step, sessions, challenges, resets, totp, attempts>>
  BY <1>2, <1>3 DEF Write2fa, Return
<1>5. /\ account' \in AccountRow /\ account'.pw = account.pw /\ account'.failed = account.failed
      /\ "codes" \notin DOMAIN patch => account'.codes = account.codes
  BY <1>3, <1>4, PatchedAccount
<1>6. /\ signHistory' \in HistoryRow
      /\ signHistory'.codeUses = signHistory.codeUses
      /\ signHistory'.guesses = signHistory.guesses
      /\ signHistory'.admitted = signHistory.admitted
      /\ signHistory'.backupUses = IF "codes" \in DOMAIN patch THEN 0 ELSE signHistory.backupUses
  <2>1. CASE "codes" \in DOMAIN patch
    BY <1>3, <1>4, <2>1 DEF HistoryRow
  <2>2. CASE "codes" \notin DOMAIN patch
    BY <1>3, <1>4, <2>2
  <2> QED
    BY <2>1, <2>2
<1>7. SignInRows'
  BY <1>4, <1>5, <1>6 DEF SignInInv, SignInRows
<1>8. CodesSpent'
  BY <1>4, <1>6 DEF SignInInv, CodesSpent
<1>9. ASSUME SignInAlone(req[r]), req'[r] = Idle PROVE SignInAlone(req[r])'
  <2>1. ChallengesInStep(req[r])' /\ LinksInStep(req[r])'
    BY <1>1, <1>4, <1>9 DEF SignInAlone, ChallengesInStep, LinksInStep, Idle
  <2>2. account'.codes \in 0..1
    BY <1>5 DEF AccountRow
  <2>3. CodesInStep(req[r])'
    BY <1>5, <1>6, <1>9, <2>2 DEF SignInAlone, CodesInStep, Idle
  <2>4. GuessesInStep(req[r])' /\ AttemptsInStep(req[r])' /\ SessionsInStep(req[r])'
    BY <1>1, <1>4, <1>5, <1>6, <1>9 DEF SignInAlone, GuessesInStep, AttemptsInStep, SessionsInStep, Idle
  <2> QED
    BY <2>1, <2>3, <2>4 DEF SignInAlone
<1>10. RowsAreThere(Idle)
  BY DEF RowsAreThere, Idle
<1> QED
  BY <1>1, <1>4, <1>7, <1>8, <1>9, <1>10, SignInContinues

\* A reset link changes: the others are as they were.
LEMMA LinkChanged ==
    ASSUME resets \in Seq(LinkRow), NEW k \in DOMAIN resets, NEW row \in LinkRow,
           resets' = [resets EXCEPT ![k] = row]
    PROVE  /\ resets' \in Seq(LinkRow) /\ DOMAIN resets' = DOMAIN resets
           /\ resets'[k] = row
           /\ \A n \in DOMAIN resets \ {k} : resets'[n] = resets[n]
  BY RowUpdated

LEMMA WritePasswordStep ==
    ASSUME SignInInv, NEW r \in Requests, WritePassword(r)
    PROVE  SignInInv'
<1>1. /\ req[r] \in SignInSlot /\ req[r].pc = "password" /\ RowsAreThere(req[r])
      /\ req[r] = [pc |-> req[r].pc, link |-> req[r].link, except |-> req[r].except,
                   must |-> req[r].must, unlock |-> req[r].unlock]
      /\ req[r].link \in Nat /\ req[r].except \in Nat /\ req[r].must \in BOOLEAN
      /\ req[r].unlock \in BOOLEAN
  BY SignInAt, SignInSlotKinds DEF WritePassword, At
<1>2. PICK k \in Nat, except \in Nat, must \in BOOLEAN, unlock \in BOOLEAN :
         req[r] = [pc |-> "password", link |-> k, except |-> except, must |-> must, unlock |-> unlock]
  BY <1>1
<1>3. k = 0 \/ k \in DOMAIN resets
  BY <1>1, <1>2 DEF RowsAreThere
<1>4. PICK old \in AccountRow, history \in HistoryRow : old = account /\ history = signHistory
  BY DEF SignInInv, SignInRows
<1>5. PICK pw \in 1..MaxPw : pw = account.pw + 1
  BY <1>4, SignInConstants DEF WritePassword, AccountRow
<1>6. PICK failed \in 0..(MaxFailed - 1), locked \in BOOLEAN :
         /\ failed = IF unlock THEN 0 ELSE old.failed
         /\ locked = IF unlock THEN FALSE ELSE old.locked
  <2>1. 0 \in 0..(MaxFailed - 1) /\ old.failed \in 0..(MaxFailed - 1) /\ old.locked \in BOOLEAN
    BY SignInConstants DEF AccountRow
  <2> QED
    BY <2>1
<1>7. PICK pc \in {"used", "revoke"} : pc = IF k = 0 THEN "revoke" ELSE "used"
  OBVIOUS
<1> DEFINE l == [pc |-> pc, link |-> k, except |-> except, must |-> must, unlock |-> unlock]
<1>8. [req[r] EXCEPT !.pc = pc] = l /\ req[r].link = k /\ req[r].must = must /\ req[r].unlock = unlock
  BY <1>2
<1>9. /\ Continue(r, l)
      /\ account' = [account EXCEPT !.pw = account.pw + 1, !.mustChange = must,
                                    !.failed = IF unlock THEN 0 ELSE account.failed,
                                    !.locked = IF unlock THEN FALSE ELSE account.locked]
      /\ resets' = IF k = 0 THEN resets ELSE [resets EXCEPT ![k].uses = resets[k].uses + 1]
      /\ signHistory' = IF unlock THEN [history EXCEPT !.guesses = 0] ELSE history
      /\ UNCHANGED <<step, sessions, challenges, totp, attempts>>
  BY <1>4, <1>7, <1>8 DEF WritePassword
<1>10. l \in SignInSlot /\ l.pc = pc /\ l.link = k
  BY DEF SignInSlot
<1> HIDE DEF l
<1>11. account' = [old EXCEPT !.pw = pw, !.mustChange = must, !.failed = failed, !.locked = locked]
  BY <1>4, <1>5, <1>6, <1>9
<1>12. /\ account' \in AccountRow /\ account'.failed = failed /\ account'.codes = account.codes
  BY <1>4, <1>11 DEF AccountRow
<1>13. /\ signHistory' \in HistoryRow
       /\ signHistory'.codeUses = signHistory.codeUses
       /\ signHistory'.backupUses = signHistory.backupUses
       /\ signHistory'.admitted = signHistory.admitted
       /\ signHistory'.guesses = IF unlock THEN 0 ELSE signHistory.guesses
  <2>1. CASE unlock
    BY <1>4, <1>9, <2>1 DEF HistoryRow
  <2>2. CASE ~unlock
    BY <1>4, <1>9, <2>2
  <2> QED
    BY <2>1, <2>2
<1>14. /\ resets' \in Seq(LinkRow) /\ DOMAIN resets' = DOMAIN resets
       /\ \A n \in DOMAIN resets \ {k} : resets'[n] = resets[n]
       /\ k # 0 => resets'[k].uses = resets[k].uses + 1 /\ resets'[k].used = resets[k].used
  <2>1. resets \in Seq(LinkRow)
    BY DEF SignInInv, SignInRows
  <2>2. CASE k = 0
    BY <1>9, <2>1, <2>2
  <2>3. CASE k # 0
    <3>1. k \in DOMAIN resets
      BY <1>3, <2>3
    <3>2. PICK link \in LinkRow : link = resets[k]
      BY <3>1, SignInRowsOf DEF SignInInv
    <3>3. PICK uses \in Nat : uses = link.uses + 1
      BY DEF LinkRow
    <3>4. PICK row \in LinkRow : row = [link EXCEPT !.uses = uses]
      BY DEF LinkRow
    <3>5. resets' = [resets EXCEPT ![k] = row]
      BY <1>9, <2>3, <3>2, <3>3, <3>4
    <3>6. row.uses = uses /\ row.used = link.used
      BY <3>4 DEF LinkRow
    <3> QED
      BY <2>1, <3>1, <3>2, <3>3, <3>5, <3>6, LinkChanged
  <2> QED
    BY <2>2, <2>3
<1>15. SignInRows'
  BY <1>9, <1>12, <1>13, <1>14 DEF SignInInv, SignInRows
<1>16. CodesSpent'
  BY <1>9, <1>13 DEF SignInInv, CodesSpent
<1>17. RowsAreThere(l)
  BY <1>3, <1>7, <1>10 DEF RowsAreThere
<1>18. ASSUME SignInAlone(req[r]), req'[r] = l PROVE SignInAlone(req[r])'
  <2>1. ChallengesInStep(req[r])' /\ AttemptsInStep(req[r])' /\ CodesInStep(req[r])'
    BY <1>1, <1>7, <1>9, <1>10, <1>12, <1>13, <1>18
       DEF SignInAlone, ChallengesInStep, AttemptsInStep, CodesInStep
  <2>2. GuessesInStep(req[r])'
    BY <1>4, <1>6, <1>7, <1>10, <1>12, <1>13, <1>18 DEF SignInAlone, GuessesInStep
  <2>3. SessionsInStep(req[r])'
    BY <1>7, <1>10, <1>18 DEF SessionsInStep
  <2>4. \A n \in DOMAIN resets : /\ resets[n].uses \in Nat /\ resets[n].uses <= 1
                                 /\ ~resets[n].used => resets[n].uses = 0
    BY <1>1, <1>18, SignInRowsOf DEF SignInAlone, LinksInStep, SignInInv, LinkRow
  <2>5. k # 0 => ~resets[k].used
    BY <1>1, <1>8, <1>18 DEF SignInAlone, LinksInStep
  <2>6. LinksInStep(req[r])'
    BY <1>3, <1>7, <1>10, <1>14, <1>18, <2>4, <2>5 DEF LinksInStep
  <2> QED
    BY <2>1, <2>2, <2>3, <2>6 DEF SignInAlone
<1> QED
  BY <1>1, <1>9, <1>10, <1>14, <1>15, <1>16, <1>17, <1>18, SignInContinues

LEMMA MarkUsedStep ==
    ASSUME SignInInv, NEW r \in Requests, MarkUsed(r)
    PROVE  SignInInv'
<1>1. /\ req[r] \in SignInSlot /\ req[r].pc = "used" /\ RowsAreThere(req[r])
      /\ req[r] = [pc |-> req[r].pc, link |-> req[r].link, except |-> req[r].except,
                   must |-> req[r].must, unlock |-> req[r].unlock]
      /\ req[r].link \in Nat /\ req[r].except \in Nat /\ req[r].must \in BOOLEAN
      /\ req[r].unlock \in BOOLEAN
  BY SignInAt, SignInSlotKinds DEF MarkUsed, At
<1>2. PICK k \in Nat, except \in Nat, must \in BOOLEAN, unlock \in BOOLEAN :
         req[r] = [pc |-> "used", link |-> k, except |-> except, must |-> must, unlock |-> unlock]
  BY <1>1
<1>3. k \in DOMAIN resets
  BY <1>1, <1>2 DEF RowsAreThere
<1> DEFINE l == [pc |-> "revoke", link |-> k, except |-> except, must |-> must, unlock |-> unlock]
<1>4. [req[r] EXCEPT !.pc = "revoke"] = l /\ req[r].link = k
  BY <1>2
<1>5. /\ Continue(r, l) /\ resets' = [resets EXCEPT ![k].used = TRUE]
      /\ UNCHANGED <<step, account, sessions, challenges, totp, attempts, signHistory>>
  BY <1>4 DEF MarkUsed
<1>6. l \in SignInSlot /\ l.pc = "revoke" /\ l.link = k
  BY DEF SignInSlot
<1> HIDE DEF l
<1>7. /\ resets' \in Seq(LinkRow) /\ DOMAIN resets' = DOMAIN resets
      /\ \A n \in DOMAIN resets \ {k} : resets'[n] = resets[n]
      /\ resets'[k].uses = resets[k].uses /\ resets'[k].used
  <2>1. resets \in Seq(LinkRow)
    BY DEF SignInInv, SignInRows
  <2>2. PICK link \in LinkRow : link = resets[k]
    BY <1>3, SignInRowsOf DEF SignInInv
  <2>3. PICK row \in LinkRow : row = [link EXCEPT !.used = TRUE]
    BY DEF LinkRow
  <2>4. resets' = [resets EXCEPT ![k] = row]
    BY <1>5, <2>2, <2>3
  <2>5. row.uses = link.uses /\ row.used
    BY <2>3 DEF LinkRow
  <2> QED
    BY <1>3, <2>1, <2>2, <2>4, <2>5, LinkChanged
<1>8. SignInRows' /\ CodesSpent'
  BY <1>5, <1>7 DEF SignInInv, SignInRows, CodesSpent
<1>9. RowsAreThere(l)
  BY <1>3, <1>6 DEF RowsAreThere
<1>10. ASSUME SignInAlone(req[r]), req'[r] = l PROVE SignInAlone(req[r])'
  <2>1. LinksInStep(req[r])'
    BY <1>1, <1>3, <1>4, <1>6, <1>7, <1>10 DEF SignInAlone, LinksInStep
  <2> QED
    BY <1>1, <1>5, <1>6, <1>10, <2>1
       DEF SignInAlone, ChallengesInStep, CodesInStep, GuessesInStep, AttemptsInStep, SessionsInStep
<1> QED
  BY <1>1, <1>5, <1>6, <1>7, <1>8, <1>9, <1>10, SignInContinues

LEMMA RevokeSessionsStep ==
    ASSUME SignInInv, NEW r \in Requests, RevokeSessions(r)
    PROVE  SignInInv'
<1>1. req[r] \in SignInSlot /\ req[r].pc = "revoke"
  BY SignInAt DEF RevokeSessions, At
<1>2. PICK except : except = req[r].except
  OBVIOUS
<1>3. /\ Continue(r, Idle) /\ sessions' = RevokeAll(except)
      /\ UNCHANGED <<step, account, challenges, resets, totp, attempts, signHistory>>
  BY <1>2 DEF RevokeSessions, Return
<1>4. /\ sessions' \in Seq(SessionRow) /\ DOMAIN sessions' = DOMAIN sessions
      /\ \A i \in DOMAIN sessions : ~sessions'[i].revoked => sessions'[i].kept = account.pw
  BY <1>3, SessionsEnded
<1>5. SignInRows' /\ CodesSpent' /\ RowsAreThere(Idle)
  BY <1>3, <1>4 DEF SignInInv, SignInRows, CodesSpent, RowsAreThere, Idle
<1>6. ASSUME SignInAlone(req[r]), req'[r] = Idle PROVE SignInAlone(req[r])'
  <2>1. SessionsInStep(req[r])'
    BY <1>3, <1>4, <1>6 DEF SessionsInStep, Idle
  <2> QED
    BY <1>1, <1>3, <1>6, <2>1 DEF SignInAlone, ChallengesInStep, LinksInStep, CodesInStep,
                                  GuessesInStep, AttemptsInStep, Idle
<1> QED
  BY <1>1, <1>3, <1>5, <1>6, SignInContinues

-----------------------------------------------------------------------------
(***************************************************************************)
(* Signing in: time, and the theorem                                       *)
(***************************************************************************)

\* A purge of the memory of the last code leaves no code to be accepted again: the row
\* outlives the acceptance window twice over.
LEMMA TimePasses ==
    ASSUME SignInInv, Tick30 \/ LockoutEnds \/ RateWindowEnds \/ PurgeRateLimits
    PROVE  SignInInv'
<1>1. /\ UNCHANGED <<server, sessions, challenges, resets>>
      /\ Window \in Nat /\ Keep \in Nat /\ MaxStep \in Nat /\ MaxAttempts \in Nat /\ Keep >= 2 * Window
  BY SignInConstants DEF Tick30, LockoutEnds, RateWindowEnds, PurgeRateLimits
<1>2. PICK old \in AccountRow, history \in HistoryRow : old = account /\ history = signHistory
  BY DEF SignInInv, SignInRows
<1>3. step \in 0..MaxStep /\ totp.at \in 0..MaxStep /\ totp.last \in -1..(MaxStep + Window)
  BY DEF SignInInv, SignInRows
<1>4. \A s \in CodeSteps : s \in Nat
  BY <1>1 DEF CodeSteps
<1>5. CASE Tick30
  <2>1. step' = step + 1 /\ step < MaxStep /\ UNCHANGED <<account, totp, attempts, signHistory>>
    BY <1>5 DEF Tick30
  <2>2. SignInRows'
    BY <1>1, <1>3, <2>1 DEF SignInInv, SignInRows
  <2>3. CodesSpent'
    BY <1>1, <1>3, <1>4, <2>1 DEF SignInInv, CodesSpent
  <2>4. \A l : SignInAlone(l) => SignInAlone(l)'
    BY <1>1, <2>1 DEF SignInAlone, ChallengesInStep, LinksInStep, CodesInStep, GuessesInStep,
                      AttemptsInStep, SessionsInStep
  <2> QED
    BY <1>1, <2>2, <2>3, <2>4, SignInElapses
<1>6. CASE LockoutEnds
  <2>1. account' = [old EXCEPT !.locked = FALSE] /\ UNCHANGED <<step, totp, attempts, signHistory>>
    BY <1>2, <1>6 DEF LockoutEnds
  <2>2. /\ account' \in AccountRow /\ account'.pw = account.pw /\ account'.codes = account.codes
        /\ account'.failed = account.failed
    BY <1>2, <2>1 DEF AccountRow
  <2>3. SignInRows' /\ CodesSpent'
    BY <1>1, <2>1, <2>2 DEF SignInInv, SignInRows, CodesSpent
  <2>4. \A l : SignInAlone(l) => SignInAlone(l)'
    BY <1>1, <2>1, <2>2 DEF SignInAlone, ChallengesInStep, LinksInStep, CodesInStep, GuessesInStep,
                            AttemptsInStep, SessionsInStep
  <2> QED
    BY <1>1, <2>3, <2>4, SignInElapses
<1>7. CASE RateWindowEnds
  <2>1. /\ attempts' = -1 /\ signHistory' = [history EXCEPT !.admitted = 0]
        /\ UNCHANGED <<step, account, totp>>
    BY <1>2, <1>7 DEF RateWindowEnds
  <2>2. /\ signHistory' \in HistoryRow /\ signHistory'.admitted = 0
        /\ signHistory'.codeUses = signHistory.codeUses
        /\ signHistory'.backupUses = signHistory.backupUses
        /\ signHistory'.guesses = signHistory.guesses
    BY <1>2, <2>1 DEF HistoryRow
  <2>3. SignInRows'
    BY <1>1, <2>1, <2>2 DEF SignInInv, SignInRows
  <2>4. CodesSpent'
    BY <1>1, <2>1, <2>2 DEF SignInInv, CodesSpent
  <2>5. \A l : AttemptsInStep(l)'
    BY <1>1, <2>1, <2>2 DEF AttemptsInStep
  <2>6. \A l : SignInAlone(l) => SignInAlone(l)'
    BY <1>1, <2>1, <2>2, <2>5 DEF SignInAlone, ChallengesInStep, LinksInStep, CodesInStep,
                                  GuessesInStep, SessionsInStep
  <2> QED
    BY <1>1, <2>3, <2>4, <2>6, SignInElapses
<1>8. CASE PurgeRateLimits
  <2>1. /\ totp' = [last |-> -1, at |-> 0] /\ totp.at + Keep < step
        /\ UNCHANGED <<step, account, attempts, signHistory>>
    BY <1>8 DEF PurgeRateLimits
  <2>2. SignInRows'
    BY <1>1, <2>1 DEF SignInInv, SignInRows
  <2>3. totp.last <= totp.at + Window
    BY DEF SignInInv, CodesSpent
  <2>4. totp.last < step - Window
    BY <1>1, <1>3, <2>1, <2>3
  <2>5. \A s \in CodeSteps : signHistory.codeUses[s] <= 1
                             /\ (signHistory.codeUses[s] # 0 => s < step - Window)
    BY <1>1, <1>3, <1>4, <2>4 DEF SignInInv, CodesSpent
  <2>6. CodesSpent'
    BY <1>1, <1>3, <2>1, <2>5 DEF CodesSpent
  <2>7. \A l : SignInAlone(l) => SignInAlone(l)'
    BY <1>1, <2>1 DEF SignInAlone, ChallengesInStep, LinksInStep, CodesInStep, GuessesInStep,
                      AttemptsInStep, SessionsInStep
  <2> QED
    BY <1>1, <2>2, <2>6, <2>7, SignInElapses
<1> QED
  BY <1>5, <1>6, <1>7, <1>8

LEMMA SignInInitial ==
    ASSUME NEW slots, NEW requests, NEW stops, ServerInit(slots, requests, stops), SignInInit
    PROVE  SignInInv
<1>1. ServerOK /\ ~overlapped /\ \A r \in Requests : req[r] \in {Idle, Unused}
  BY ServerStarts DEF ServerInit
<1>2. PICK on \in BOOLEAN :
         account = [pw |-> 1, twofa |-> on, secret |-> on, codes |-> IF on THEN 1 ELSE 0,
                    failed |-> 0, locked |-> FALSE, mustChange |-> FALSE]
  BY DEF SignInInit
<1> DEFINE row == [pw |-> 1, via |-> "password", revoked |-> FALSE, kept |-> 0]
<1>3. /\ step = 0 /\ sessions = <<row>> /\ challenges = << >> /\ resets = << >>
      /\ totp = [last |-> -1, at |-> 0] /\ attempts = -1
      /\ signHistory = [codeUses |-> [s \in 0..(MaxStep + Window) |-> 0],
                        backupUses |-> 0, guesses |-> 0, admitted |-> 0]
  BY DEF SignInInit
<1>4. /\ Window \in Nat /\ MaxStep \in Nat /\ MaxPw \in Nat \ {0} /\ MaxFailed \in Nat \ {0}
      /\ MaxAttempts \in Nat
  BY SignInConstants
<1>5. PICK codes \in 0..1 : codes = IF on THEN 1 ELSE 0
  OBVIOUS
<1>6. /\ account \in AccountRow /\ account.pw = 1 /\ account.codes = codes /\ account.failed = 0
  <2>1. account = [pw |-> 1, twofa |-> on, secret |-> on, codes |-> codes, failed |-> 0,
                   locked |-> FALSE, mustChange |-> FALSE]
    BY <1>2, <1>5
  <2> QED
    BY <1>4, <2>1 DEF AccountRow
<1>7. row \in SessionRow /\ row.pw = 1
  BY <1>4 DEF SessionRow
<1> HIDE DEF row
<1>8. /\ sessions \in Seq(SessionRow) /\ DOMAIN sessions = {1} /\ sessions[1] = row
      /\ challenges \in Seq(ChallengeRow) /\ DOMAIN challenges = {}
      /\ resets \in Seq(LinkRow) /\ DOMAIN resets = {}
  BY <1>3, <1>7
<1>9. /\ signHistory \in HistoryRow /\ \A s \in CodeSteps : signHistory.codeUses[s] = 0
      /\ signHistory.backupUses = 0 /\ signHistory.guesses = 0 /\ signHistory.admitted = 0
  BY <1>3 DEF HistoryRow, CodeSteps
<1>10. SignInRows
  BY <1>3, <1>4, <1>6, <1>8, <1>9 DEF SignInRows
<1>11. CodesSpent
  BY <1>3, <1>4, <1>9 DEF CodesSpent
<1>12. SignInAlone(Idle)
  BY <1>3, <1>4, <1>6, <1>7, <1>8, <1>9
     DEF SignInAlone, ChallengesInStep, LinksInStep, CodesInStep, GuessesInStep,
         AttemptsInStep, SessionsInStep, Idle
<1>13. SignInAloneInv /\ SignInSlots
  BY <1>1, <1>12 DEF SignInAloneInv, SignInSlots, InFlight
<1> QED
  BY <1>1, <1>10, <1>11, <1>13 DEF SignInInv

LEMMA SignInStepKeeps ==
    ASSUME SignInInv, [SignInNext]_signInVars
    PROVE  SignInInv'
<1>1. CASE UNCHANGED signInVars
  <2>1. UNCHANGED <<server, step, account, sessions, challenges, resets, totp, attempts, signHistory>>
    BY <1>1 DEF signInVars, signIn
  <2>2. SignInRows' /\ CodesSpent'
    BY <2>1 DEF SignInInv, SignInRows, CodesSpent
  <2>3. \A l : SignInAlone(l) => SignInAlone(l)'
    BY <2>1 DEF SignInAlone, ChallengesInStep, LinksInStep, CodesInStep, GuessesInStep,
                AttemptsInStep, SessionsInStep
  <2> QED
    BY <2>1, <2>2, <2>3, SignInElapses
<1>2. CASE Restart /\ UNCHANGED signIn
  <2>1. ServerOK' /\ overlapped' /\ \A r \in Requests : req'[r] \in {Idle, Unused}
    BY <1>2, Restarted DEF SignInInv
  <2>2. UNCHANGED <<step, account, sessions, challenges, resets, totp, attempts, signHistory>>
    BY <1>2 DEF signIn
  <2>3. SignInRows' /\ CodesSpent'
    BY <2>2 DEF SignInInv, SignInRows, CodesSpent
  <2>4. SignInSlots' /\ SignInAloneInv'
    BY <2>1 DEF SignInSlots, SignInAloneInv, InFlight
  <2> QED
    BY <2>1, <2>3, <2>4 DEF SignInInv
<1>3. ASSUME NEW r \in Requests, SignInRequest(r) PROVE SignInInv'
  BY <1>3, SignInRequestReads, CodeRequests, ForgotPasswordStep, SessionRequests DEF SignInRequest
<1>4. ASSUME NEW r \in Requests, SignInStep(r) PROVE SignInInv'
  BY <1>4, SpendAttemptStep, RegisterFailedLoginStep, InsertChallengeStep, CreateSessionStep,
     ClearFailedLoginsStep, VerifyTotpStep, VerifyBackupStep, CountWrongCodeStep,
     ConsumeChallengeStep, Write2faStep, WritePasswordStep, MarkUsedStep, RevokeSessionsStep
     DEF SignInStep
<1> QED
  BY <1>1, <1>2, <1>3, <1>4, TimePasses DEF SignInNext

LEMMA SignInImplies ==
    ASSUME SignInInv
    PROVE  SignInIsSafe
<1>1. SignInTypeOK
  <2>1. account \in [pw : 1..MaxPw, twofa : BOOLEAN, secret : BOOLEAN, codes : 0..1,
                     failed : 0..MaxFailed, locked : BOOLEAN, mustChange : BOOLEAN]
    BY SignInConstants DEF SignInInv, SignInRows, AccountRow
  <2> QED
    BY <2>1 DEF SignInInv, SignInRows, SignInTypeOK, SessionRow, ChallengeRow, LinkRow
<1>2. TotpCodeOnce
  BY DEF SignInInv, CodesSpent, TotpCodeOnce
<1>3. ~overlapped => \E l : SignInAlone(l)
  BY DEF SignInInv, SignInAloneInv, Quiescent
<1>4. OneTimeMeansOnce
  <2>1. signHistory.backupUses \in Nat /\ account.codes \in 0..1
    BY DEF SignInInv, SignInRows, HistoryRow, AccountRow
  <2> QED
    BY <1>3, <2>1 DEF SignInAlone, ChallengesInStep, LinksInStep, CodesInStep, OneTimeMeansOnce
<1>5. NewPasswordEndsSessions
  BY DEF SignInInv, SignInAloneInv, SignInAlone, SessionsInStep, NewPasswordEndsSessions, Live, Idle
<1>6. GuessingIsBounded
  <2>1. /\ signHistory.guesses \in Nat /\ signHistory.admitted \in Nat /\ attempts \in {-1} \cup Nat
        /\ account.failed \in 0..(MaxFailed - 1) /\ MaxFailed \in Nat /\ MaxAttempts \in Nat
    BY SignInConstants DEF SignInInv, SignInRows, HistoryRow, AccountRow
  <2> QED
    BY <1>3, <2>1 DEF SignInAlone, GuessesInStep, AttemptsInStep, GuessingIsBounded
<1> QED
  BY <1>1, <1>2, <1>4, <1>5, <1>6 DEF SignInIsSafe

\* modules/auth.js, services/security.js and ratelimit.js: the code of a time step is
\* accepted once, whatever overlaps; and as long as no two handlers overlap, a challenge,
\* a link and a recovery code work once, a new password ends the sessions of the old one,
\* and wrong passwords and attempts stay below their limits, for any limits, acceptance
\* window and number of handlers and requests.
THEOREM SignInCorrect == SignInSpec => []SignInIsSafe
<1>1. (\E slots \in SUBSET Requests, requests, stops \in Nat : ServerInit(slots, requests, stops))
         /\ SignInInit => SignInInv
  BY SignInInitial
<1>2. SignInInv /\ [SignInNext]_signInVars => SignInInv'
  BY SignInStepKeeps
<1>3. SignInInv => SignInIsSafe
  BY SignInImplies
<1> QED
  BY <1>1, <1>2, <1>3, PTL DEF SignInSpec

-----------------------------------------------------------------------------
(***************************************************************************)
(* The subscription: the invariant                                         *)
(***************************************************************************)

SubColumns == {"plan", "status", "cycle", "end", "trial", "grace", "auto", "cancelAtEnd"}
SubRow == [plan : Plans, status : SubStatus, cycle : {"monthly", "yearly"}, end : Nat, trial : Nat,
           grace : Nat, auto : BOOLEAN, cancelAtEnd : BOOLEAN]

\* What a patch may set, and to what.
SubPatch(patch) ==
    /\ DOMAIN patch \subseteq SubColumns
    /\ "plan" \in DOMAIN patch => patch["plan"] \in Plans
    /\ "status" \in DOMAIN patch => patch["status"] \in SubStatus
    /\ "cycle" \in DOMAIN patch => patch["cycle"] \in {"monthly", "yearly"}
    /\ "end" \in DOMAIN patch => patch["end"] \in Nat
    /\ "trial" \in DOMAIN patch => patch["trial"] \in Nat
    /\ "grace" \in DOMAIN patch => patch["grace"] \in Nat
    /\ "auto" \in DOMAIN patch => patch["auto"] \in BOOLEAN
    /\ "cancelAtEnd" \in DOMAIN patch => patch["cancelAtEnd"] \in BOOLEAN

UpdateSlot(l) ==
    /\ l = [pc |-> "update", patch |-> l.patch, op |-> l.op, next |-> l.next]
    /\ SubPatch(l.patch)
    /\ l.op \in {"choose", "cancel", "resume", "platform", "adjust", "job"}
    /\ l.next \in {"idle", "trials", "grace", "renewing"}

SubSlot(l) == l \in {Idle, Unused} \/ l \in [pc : Stages \cup {"insertUser"}] \/ UpdateSlot(l)

\* What a handler that is alone still owes: a plan that was chosen is large enough, a
\* user who is about to be added fits, and what the job has selected is due.
SubAlone(l) ==
    /\ Within(members, Limit) \/ shrunk
    /\ l.pc = "insertUser" => Within(members + 1, Limit)
    /\ l.pc = "update" /\ l.op = "choose" =>
         /\ {"plan", "status"} \subseteq DOMAIN l.patch
         /\ l.patch["status"] = "active" /\ Within(members, limit[l.patch["plan"]])
    /\ l.pc = "update" /\ l.op = "job" =>
         \E stage \in Stages : Due(stage) /\ DOMAIN l.patch = DOMAIN Outcome(stage)

SubscriptionInv ==
    /\ SubscriptionTypeOK
    /\ ServerOK
    /\ \A r \in Requests : SubSlot(req[r])
    /\ ~overlapped => (Quiescent => SubAlone(Idle)) /\ \A r \in InFlight : SubAlone(req[r])

-----------------------------------------------------------------------------
LEMMA SubSlotKinds ==
    ASSUME NEW l, SubSlot(l), l.pc = "update"
    PROVE  UpdateSlot(l) /\ l \notin {Idle, Unused}
<1>1. l \notin {Idle, Unused}
  BY DEF Idle, Unused
<1>2. l \notin [pc : Stages \cup {"insertUser"}]
  BY DEF Stages
<1> QED
  BY <1>1, <1>2 DEF SubSlot

LEMMA SubAt ==
    ASSUME SubscriptionInv, NEW r \in Requests, req[r].pc \in Stages \cup {"insertUser", "update"}
    PROVE  /\ req[r] \notin {Idle, Unused}
           /\ ~overlapped => SubAlone(req[r])
<1>1. req[r] \notin {Idle, Unused}
  BY DEF Idle, Unused, Stages
<1> QED
  BY <1>1 DEF SubscriptionInv, InFlight

\* A handler that begins alone finds the tables at rest.
LEMMA SubQuiet ==
    ASSUME SubscriptionInv, NEW r \in Requests, NEW l, Begin(r, l) \/ Fire(r, l), ~overlapped'
    PROVE  ~overlapped /\ SubAlone(Idle)
<1>1. ~overlapped /\ \A s \in Requests : req[s] \in {Idle, Unused}
  BY Begun DEF SubscriptionInv, ServerOK
<1>2. Quiescent
  BY <1>1 DEF Quiescent, InFlight
<1> QED
  BY <1>1, <1>2 DEF SubscriptionInv

\* A step of a slot that goes on with l, in a state where it owes what it should.
LEMMA SubMoves ==
    ASSUME SubscriptionInv, NEW r \in Requests, NEW l, SubSlot(l),
           \/ Begin(r, l) \/ Fire(r, l)
           \/ req[r] \notin {Idle, Unused} /\ Continue(r, l),
           SubscriptionTypeOK', ~overlapped' => SubAlone(l)'
    PROVE  SubscriptionInv'
<1>1. /\ ServerOK' /\ req'[r] = l /\ \A s \in Requests \ {r} : req'[s] = req[s]
      /\ ~overlapped' => \A s \in Requests \ {r} : req[s] \in {Idle, Unused}
  <2>1. CASE Begin(r, l) \/ Fire(r, l)
    BY <2>1, Begun DEF SubscriptionInv
  <2>2. CASE req[r] \notin {Idle, Unused} /\ Continue(r, l)
    BY <2>2, Continued DEF SubscriptionInv
  <2> QED
    BY <2>1, <2>2
<1>2. \A s \in Requests : SubSlot(req'[s])
  BY <1>1 DEF SubscriptionInv
<1>3. ASSUME ~overlapped', NEW s \in InFlight' PROVE SubAlone(req[s])'
  <2>1. s = r
    BY <1>1, <1>3 DEF InFlight
  <2> QED
    BY <1>1, <1>3, <2>1 DEF SubAlone
<1>4. ASSUME ~overlapped', Quiescent' PROVE SubAlone(Idle)'
  <2>1. l \in {Idle, Unused}
    BY <1>1, <1>4 DEF Quiescent, InFlight
  <2> QED
    BY <1>4, <2>1 DEF SubAlone, Idle, Unused
<1> QED
  BY <1>1, <1>2, <1>3, <1>4 DEF SubscriptionInv, SubSlot

\* A step that only reads.
LEMMA SubReads ==
    ASSUME SubscriptionInv, NEW r \in Requests, NEW l, SubSlot(l),
           \/ Begin(r, l) \/ Fire(r, l)
           \/ req[r] \notin {Idle, Unused} /\ Continue(r, l),
           UNCHANGED subscription, ~overlapped' => SubAlone(l)
    PROVE  SubscriptionInv'
<1>1. UNCHANGED <<now, sub, limit, members, shrunk, sold>>
  BY DEF subscription, org, subHistory
<1>2. SubscriptionTypeOK'
  BY <1>1 DEF SubscriptionInv, SubscriptionTypeOK
<1>3. SubAlone(l) => SubAlone(l)'
  BY <1>1 DEF SubAlone, Limit, Entitled, Due, Outcome
<1> QED
  BY <1>2, <1>3, SubMoves

-----------------------------------------------------------------------------
(***************************************************************************)
(* The subscription: its steps                                             *)
(***************************************************************************)

LEMMA SubUpdated ==
    ASSUME NEW row \in SubRow, NEW patch, SubPatch(patch)
    PROVE  /\ Update(row, patch) \in SubRow
           /\ "plan" \in DOMAIN patch => Update(row, patch).plan = patch["plan"]
           /\ "status" \in DOMAIN patch => Update(row, patch).status = patch["status"]
<1> DEFINE new == Update(row, patch)
<1>1. DOMAIN row = SubColumns
  BY DEF SubRow, SubColumns
<1>2. new = [f \in SubColumns |-> IF f \in DOMAIN patch THEN patch[f] ELSE row[f]]
  BY <1>1 DEF Update, SubPatch
<1> HIDE DEF new
<1>3. /\ row["plan"] \in Plans /\ row["status"] \in SubStatus /\ row["cycle"] \in {"monthly", "yearly"}
      /\ row["end"] \in Nat /\ row["trial"] \in Nat /\ row["grace"] \in Nat
      /\ row["auto"] \in BOOLEAN /\ row["cancelAtEnd"] \in BOOLEAN
  BY DEF SubRow
<1>4. /\ new["plan"] = IF "plan" \in DOMAIN patch THEN patch["plan"] ELSE row["plan"]
      /\ new["status"] = IF "status" \in DOMAIN patch THEN patch["status"] ELSE row["status"]
      /\ new["cycle"] = IF "cycle" \in DOMAIN patch THEN patch["cycle"] ELSE row["cycle"]
      /\ new["end"] = IF "end" \in DOMAIN patch THEN patch["end"] ELSE row["end"]
      /\ new["trial"] = IF "trial" \in DOMAIN patch THEN patch["trial"] ELSE row["trial"]
      /\ new["grace"] = IF "grace" \in DOMAIN patch THEN patch["grace"] ELSE row["grace"]
      /\ new["auto"] = IF "auto" \in DOMAIN patch THEN patch["auto"] ELSE row["auto"]
      /\ new["cancelAtEnd"] = IF "cancelAtEnd" \in DOMAIN patch THEN patch["cancelAtEnd"] ELSE row["cancelAtEnd"]
  BY <1>2 DEF SubColumns
<1>5. /\ new["plan"] \in Plans /\ new["status"] \in SubStatus /\ new["cycle"] \in {"monthly", "yearly"}
      /\ new["end"] \in Nat /\ new["trial"] \in Nat /\ new["grace"] \in Nat
      /\ new["auto"] \in BOOLEAN /\ new["cancelAtEnd"] \in BOOLEAN
  BY <1>3, <1>4 DEF SubPatch
<1>6. new = [plan |-> new["plan"], status |-> new["status"], cycle |-> new["cycle"], end |-> new["end"],
             trial |-> new["trial"], grace |-> new["grace"], auto |-> new["auto"],
             cancelAtEnd |-> new["cancelAtEnd"]]
  BY <1>2 DEF SubColumns
<1>7. new \in SubRow
  BY <1>5, <1>6 DEF SubRow
<1> QED
  BY <1>4, <1>7 DEF new

LEMMA UpdateSubscriptionStep ==
    ASSUME SubscriptionInv, NEW r \in Requests, UpdateSubscription(r)
    PROVE  SubscriptionInv'
<1> DEFINE l == req[r]
<1>1. PICK next : next = l.next
  OBVIOUS
<1>2. l.pc = "update" /\ SubSlot(l)
  BY DEF UpdateSubscription, At, SubscriptionInv
<1>3. UpdateSlot(l) /\ l \notin {Idle, Unused}
  BY <1>2, SubSlotKinds
<1>4. /\ SubPatch(l.patch) /\ next \in {"idle", "trials", "grace", "renewing"}
  BY <1>1, <1>3 DEF UpdateSlot
<1>5. PICK new : new = IF next = "idle" THEN Idle ELSE [pc |-> next]
  OBVIOUS
<1>6. /\ Continue(r, new) /\ sub' = Update(sub, l.patch) /\ UNCHANGED <<now, limit, members>>
      /\ shrunk' = Shrinks(l.op)
      /\ sold' = IF l.op \in {"choose", "platform"} THEN limit[sub'.plan] ELSE sold
  BY <1>1, <1>5 DEF UpdateSubscription
<1>7. SubSlot(new)
  BY <1>4, <1>5 DEF SubSlot, Stages
<1>8. sub \in SubRow
  BY DEF SubscriptionInv, SubscriptionTypeOK, SubRow
<1>9. /\ sub' \in SubRow
      /\ "plan" \in DOMAIN l.patch => sub'.plan = l.patch["plan"]
      /\ "status" \in DOMAIN l.patch => sub'.status = l.patch["status"]
  BY <1>4, <1>6, <1>8, SubUpdated
<1>10. limit \in [Plans -> Int] /\ sold \in Int /\ shrunk \in BOOLEAN /\ sub'.plan \in Plans
  BY <1>9 DEF SubscriptionInv, SubscriptionTypeOK, SubRow
<1>11. shrunk' \in BOOLEAN /\ (l.op # "choose" => Within(members', Limit') \/ shrunk')
  BY <1>6, <1>10 DEF Shrinks
<1>12. SubscriptionTypeOK'
  <2>1. sold' \in Int
    BY <1>6, <1>10
  <2>2. now' \in 1..MaxTime /\ limit' \in [Plans -> Int] /\ members' \in 0..MaxMembers
    BY <1>6 DEF SubscriptionInv, SubscriptionTypeOK
  <2> QED
    BY <1>9, <1>11, <2>1, <2>2 DEF SubscriptionTypeOK, SubRow
<1>13. ASSUME ~overlapped' PROVE SubAlone(new)'
  <2>1. ~overlapped /\ SubAlone(l)
    BY <1>2, <1>13, <1>6, SubAt DEF Continue
  <2>2. l.op = "choose" => Within(members', Limit')
    <3>1. CASE l.op = "choose"
      <4>1. /\ sub'.status = "active" /\ sub'.plan = l.patch["plan"]
            /\ Within(members, limit[l.patch["plan"]])
        BY <1>2, <1>9, <2>1, <3>1 DEF SubAlone
      <4>2. Limit' = limit[l.patch["plan"]]
        BY <1>6, <4>1 DEF Limit, Entitled
      <4> QED
        BY <1>6, <4>1, <4>2
    <3> QED
      BY <3>1
  <2>3. Within(members, Limit)' \/ shrunk'
    BY <1>11, <2>2 DEF Within
  <2>4. new.pc \notin {"insertUser", "update"}
    BY <1>4, <1>5 DEF Idle
  <2> QED
    BY <2>3, <2>4 DEF SubAlone
<1> QED
  BY <1>3, <1>6, <1>7, <1>12, <1>13, SubMoves

LEMMA InsertUserStep ==
    ASSUME SubscriptionInv, NEW r \in Requests, InsertUser(r)
    PROVE  SubscriptionInv'
<1>1. /\ req[r].pc = "insertUser" /\ Continue(r, Idle) /\ members < MaxMembers /\ members' = members + 1
      /\ UNCHANGED <<now, sub, limit, shrunk, sold>>
  BY DEF InsertUser, At, Return, subHistory
<1>2. req[r] \notin {Idle, Unused} /\ (~overlapped => SubAlone(req[r]))
  BY <1>1, SubAt
<1>3. SubscriptionTypeOK'
  BY <1>1, SubscriptionConstants DEF SubscriptionInv, SubscriptionTypeOK
<1>4. ASSUME ~overlapped' PROVE SubAlone(Idle)'
  <2>1. Within(members + 1, Limit)
    BY <1>1, <1>2, <1>4 DEF Continue, SubAlone
  <2>2. Within(members, Limit)'
    BY <1>1, <2>1 DEF Within, Limit, Entitled
  <2> QED
    BY <2>2 DEF SubAlone, Idle
<1> QED
  BY <1>1, <1>2, <1>3, <1>4, SubMoves DEF SubSlot

LEMMA EditPlanStep ==
    ASSUME SubscriptionInv, NEW r \in Requests, NEW p \in Plans, NEW n \in {-1, 1}, EditPlan(r, p, n)
    PROVE  SubscriptionInv'
<1>1. /\ limit' = [limit EXCEPT ![p] = n] /\ Begin(r, Idle) /\ UNCHANGED <<now, sub, members, sold>>
      /\ shrunk' = (shrunk \/ ~Within(members', Limit'))
  BY DEF EditPlan, Shrinks
<1>2. shrunk \in BOOLEAN /\ shrunk' \in BOOLEAN
  BY <1>1 DEF SubscriptionInv, SubscriptionTypeOK
<1>3. SubscriptionTypeOK'
  BY <1>1, <1>2 DEF SubscriptionInv, SubscriptionTypeOK
<1>4. SubAlone(Idle)'
  BY <1>1, <1>2 DEF SubAlone, Idle
<1> QED
  BY <1>1, <1>3, <1>4, SubMoves DEF SubSlot

\* The routes that decide on a patch and write it later.
LEMMA WriteBegins ==
    ASSUME SubscriptionInv, NEW r \in Requests, NEW patch, SubPatch(patch),
           NEW op \in {"cancel", "resume", "platform", "adjust"},
           Begin(r, Write(patch, op, "idle")), UNCHANGED subscription
    PROVE  SubscriptionInv'
<1> DEFINE l == Write(patch, op, "idle")
<1>1. SubSlot(l) /\ l.pc = "update" /\ l.op = op
  BY DEF Write, SubSlot, UpdateSlot
<1>2. ~overlapped' => SubAlone(Idle)
  BY SubQuiet
<1>3. ~overlapped' => SubAlone(l)
  BY <1>1, <1>2 DEF SubAlone
<1> HIDE DEF l
<1> QED
  BY <1>1, <1>3, SubReads DEF l

LEMMA ChangePlanStep ==
    ASSUME SubscriptionInv, NEW r \in Requests, NEW p \in Plans, NEW cycle \in {"monthly", "yearly"},
           ChangePlan(r, p, cycle)
    PROVE  SubscriptionInv'
<1> DEFINE patch == [plan |-> p, cycle |-> cycle, status |-> "active", end |-> now + CycleLength(cycle)]
           l == Write(patch, "choose", "idle")
<1>1. Within(members, limit[p]) /\ Begin(r, l) /\ UNCHANGED subscription
  BY DEF ChangePlan
<1>2. now + CycleLength(cycle) \in Nat
  BY SubscriptionConstants DEF CycleLength, SubscriptionInv, SubscriptionTypeOK
<1>3. SubPatch(patch) /\ patch["plan"] = p /\ patch["status"] = "active" /\ {"plan", "status"} \subseteq DOMAIN patch
  BY <1>2 DEF SubPatch, SubColumns, SubStatus
<1> HIDE DEF patch
<1>4. SubSlot(l) /\ l.pc = "update" /\ l.op = "choose" /\ l.patch = patch
  BY <1>3 DEF Write, SubSlot, UpdateSlot
<1>5. ~overlapped' => SubAlone(Idle)
  BY <1>1, SubQuiet
<1>6. ~overlapped' => SubAlone(l)
  BY <1>1, <1>3, <1>4, <1>5 DEF SubAlone
<1> HIDE DEF l
<1> QED
  BY <1>1, <1>4, <1>6, SubReads

LEMMA SubscriptionRequests ==
    ASSUME SubscriptionInv, NEW r \in Requests,
           \/ \E immediate \in BOOLEAN : Cancel(r, immediate)
           \/ Resume(r)
           \/ \E p \in Plans, trial \in BOOLEAN : PlatformPlan(r, p, trial)
           \/ Adjust(r)
    PROVE  SubscriptionInv'
<1>1. sub \in SubRow /\ now \in Nat
  BY SubscriptionConstants DEF SubscriptionInv, SubscriptionTypeOK, SubRow
<1>2. ASSUME NEW immediate \in BOOLEAN, Cancel(r, immediate) PROVE SubscriptionInv'
  <2> DEFINE patch == [status |-> IF immediate THEN "cancelled" ELSE sub.status,
                       cancelAtEnd |-> ~immediate, auto |-> FALSE]
  <2>1. SubPatch(patch)
    BY <1>1 DEF SubPatch, SubColumns, SubStatus, SubRow
  <2>2. Begin(r, Write(patch, "cancel", "idle")) /\ UNCHANGED subscription
    BY <1>2 DEF Cancel
  <2> HIDE DEF patch
  <2> QED
    BY <2>1, <2>2, WriteBegins
<1>3. CASE Resume(r)
  <2> DEFINE patch == [cancelAtEnd |-> FALSE, auto |-> TRUE]
  <2>1. SubPatch(patch)
    BY DEF SubPatch, SubColumns
  <2>2. Begin(r, Write(patch, "resume", "idle")) /\ UNCHANGED subscription
    BY <1>3 DEF Resume
  <2> HIDE DEF patch
  <2> QED
    BY <2>1, <2>2, WriteBegins
<1>4. ASSUME NEW p \in Plans, NEW trial \in BOOLEAN, PlatformPlan(r, p, trial) PROVE SubscriptionInv'
  <2> DEFINE patch == [plan |-> p, status |-> IF trial THEN "trialing" ELSE "active",
                       trial |-> IF trial THEN now + 1 ELSE 0, grace |-> 0, end |-> now + Month]
  <2>1. SubPatch(patch)
    BY <1>1, SubscriptionConstants DEF SubPatch, SubColumns, SubStatus
  <2>2. Begin(r, Write(patch, "platform", "idle")) /\ UNCHANGED subscription
    BY <1>4 DEF PlatformPlan
  <2> HIDE DEF patch
  <2> QED
    BY <2>1, <2>2, WriteBegins
<1>5. CASE Adjust(r)
  <2>1. PICK patch \in Adjustments : Begin(r, Write(patch, "adjust", "idle"))
    BY <1>5 DEF Adjust
  <2>2. SubPatch(patch)
    <3>1. CASE patch = [end |-> Later(sub.end) + 1]
      BY <1>1, <3>1 DEF SubPatch, SubColumns, Later, SubRow
    <3>2. CASE patch = [trial |-> now + 1, status |-> "trialing"]
      BY <1>1, <3>2 DEF SubPatch, SubColumns, SubStatus
    <3>3. CASE \E g \in {0, now + 1} : patch = [grace |-> g]
      BY <1>1, <3>3 DEF SubPatch, SubColumns
    <3>4. CASE \E s \in SubStatus : patch = [status |-> s]
      BY <3>4 DEF SubPatch, SubColumns
    <3> QED
      BY <3>1, <3>2, <3>3, <3>4 DEF Adjustments
  <2>3. UNCHANGED subscription
    BY <1>5 DEF Adjust
  <2> QED
    BY <2>1, <2>2, <2>3, WriteBegins
<1> QED
  BY <1>2, <1>3, <1>4, <1>5

LEMMA CreateUserStep ==
    ASSUME SubscriptionInv, NEW r \in Requests, CreateUser(r)
    PROVE  SubscriptionInv'
<1> DEFINE l == [pc |-> "insertUser"]
<1>1. Within(members + 1, Limit) /\ Begin(r, l) /\ UNCHANGED subscription
  BY DEF CreateUser
<1>2. SubSlot(l) /\ l.pc = "insertUser"
  BY DEF SubSlot
<1>3. ~overlapped' => SubAlone(Idle)
  BY <1>1, SubQuiet
<1>4. ~overlapped' => SubAlone(l)
  BY <1>1, <1>3 DEF SubAlone
<1> HIDE DEF l
<1> QED
  BY <1>1, <1>2, <1>4, SubReads

LEMMA FlagRenewalsStep ==
    ASSUME SubscriptionInv, NEW r \in Requests, FlagRenewals(r)
    PROVE  SubscriptionInv'
<1> DEFINE l == [pc |-> "lapsed"]
<1>1. Fire(r, l) /\ UNCHANGED subscription
  BY DEF FlagRenewals
<1>2. SubSlot(l) /\ l.pc = "lapsed"
  BY DEF SubSlot, Stages
<1>3. ~overlapped' => SubAlone(Idle)
  BY <1>1, SubQuiet
<1>4. ~overlapped' => SubAlone(l)
  BY <1>3 DEF SubAlone
<1> HIDE DEF l
<1> QED
  BY <1>1, <1>2, <1>4, SubReads

LEMMA OutcomeIsPatch ==
    ASSUME SubscriptionInv, NEW stage \in Stages
    PROVE  SubPatch(Outcome(stage))
<1>1. sub \in SubRow /\ now \in Nat /\ sub.end \in Nat
  BY SubscriptionConstants DEF SubscriptionInv, SubscriptionTypeOK, SubRow
<1>2. CASE stage \in {"lapsed", "grace"}
  <2>1. Outcome(stage) = [status |-> "expired"]
    BY <1>2 DEF Outcome
  <2> QED
    BY <2>1 DEF SubPatch, SubColumns, SubStatus
<1>3. CASE stage = "trials"
  <2>1. Outcome(stage) = [status |-> "past_due", grace |-> now + Grace]
    BY <1>3 DEF Outcome
  <2> QED
    BY <1>1, <2>1, SubscriptionConstants DEF SubPatch, SubColumns, SubStatus
<1>4. CASE stage = "renewing"
  <2>1. Outcome(stage) = [end |-> sub.end + Month]
    BY <1>4 DEF Outcome
  <2> QED
    BY <1>1, <2>1, SubscriptionConstants DEF SubPatch, SubColumns
<1> QED
  BY <1>2, <1>3, <1>4 DEF Stages

LEMMA SelectDueStep ==
    ASSUME SubscriptionInv, NEW r \in Requests, NEW stage \in Stages, SelectDue(r, stage)
    PROVE  SubscriptionInv'
<1> DEFINE patch == Outcome(stage)
           next == NextStage(stage)
<1>1. SubPatch(patch)
  BY OutcomeIsPatch
<1>2. next \in {"idle", "trials", "grace", "renewing"}
  BY DEF NextStage, Stages
<1>3. /\ req[r].pc = stage /\ UNCHANGED subscription
      /\ Continue(r, IF Due(stage) THEN Write(patch, "job", next) ELSE IF next = "idle" THEN Idle ELSE [pc |-> next])
  BY DEF SelectDue, At
<1>4. req[r] \notin {Idle, Unused} /\ (~overlapped' => SubAlone(req[r]))
  BY <1>3, SubAt DEF Continue
<1> HIDE DEF patch, next
<1>5. PICK l : l = IF Due(stage) THEN Write(patch, "job", next) ELSE IF next = "idle" THEN Idle ELSE [pc |-> next]
  OBVIOUS
<1>6. SubSlot(l)
  <2>1. SubSlot(Write(patch, "job", next))
    BY <1>1, <1>2 DEF Write, SubSlot, UpdateSlot
  <2>2. SubSlot(IF next = "idle" THEN Idle ELSE [pc |-> next])
    BY <1>2 DEF SubSlot, Stages
  <2> QED
    BY <1>5, <2>1, <2>2
<1>7. ~overlapped' => SubAlone(l)
  <2>1. ~overlapped' => Within(members, Limit) \/ shrunk
    BY <1>4 DEF SubAlone
  <2>2. CASE Due(stage)
    <3>1. l.pc = "update" /\ l.op = "job" /\ l.patch = Outcome(stage)
      BY <1>5, <2>2 DEF Write, patch
    <3> QED
      BY <2>1, <2>2, <3>1 DEF SubAlone
  <2>3. CASE ~Due(stage)
    <3>1. l.pc \notin {"insertUser", "update"}
      BY <1>2, <1>5, <2>3 DEF Idle
    <3> QED
      BY <2>1, <3>1 DEF SubAlone
  <2> QED
    BY <2>2, <2>3
<1> QED
  BY <1>3, <1>4, <1>5, <1>6, <1>7, SubReads

\* What is due stays due as days pass.
LEMMA DaysPassStep ==
    ASSUME SubscriptionInv, DaysPass
    PROVE  SubscriptionInv'
<1>1. now < MaxTime /\ now' = now + 1 /\ UNCHANGED <<req, overlapped, sub, limit, members, shrunk, sold>>
  BY DEF DaysPass, server, org, subHistory
<1>2. SubscriptionTypeOK'
  BY <1>1, SubscriptionConstants DEF SubscriptionInv, SubscriptionTypeOK
<1>3. ServerOK' /\ InFlight' = InFlight /\ Quiescent' = Quiescent
  BY <1>1 DEF SubscriptionInv, ServerOK, InFlight, Quiescent
<1>4. now \in Nat /\ sub.end \in Nat /\ sub.trial \in Nat /\ sub.grace \in Nat
  BY SubscriptionConstants DEF SubscriptionInv, SubscriptionTypeOK
<1>5. \A stage \in Stages : Due(stage) => Due(stage)'
  <2>1. Due("lapsed") => Due("lapsed")'
    BY <1>1, <1>4 DEF Due
  <2>2. Due("trials") => Due("trials")'
    BY <1>1, <1>4 DEF Due
  <2>3. Due("grace") => Due("grace")'
    BY <1>1, <1>4 DEF Due
  <2>4. Due("renewing") => Due("renewing")'
    BY <1>1, <1>4 DEF Due
  <2> QED
    BY <2>1, <2>2, <2>3, <2>4 DEF Stages
<1>6. \A stage \in Stages : DOMAIN Outcome(stage) = DOMAIN Outcome(stage)'
  BY DEF Outcome, Stages
<1>7. ASSUME NEW l, SubAlone(l) PROVE SubAlone(l)'
  <2>1. Limit' = Limit
    BY <1>1 DEF Limit, Entitled
  <2> QED
    BY <1>1, <1>5, <1>6, <1>7, <2>1 DEF SubAlone
<1> QED
  BY <1>1, <1>2, <1>3, <1>7 DEF SubscriptionInv

LEMMA SubscriptionStarts ==
    ASSUME SubscriptionInit
    PROVE  /\ SubscriptionTypeOK
           /\ SubAlone(Idle)
<1>1. PICK p \in Plans :
         sub = [plan |-> p, status |-> IF p = FreePlan THEN "active" ELSE "trialing", cycle |-> "monthly",
                end |-> now + Month, trial |-> IF p = FreePlan THEN 0 ELSE now + 1, grace |-> 0,
                auto |-> TRUE, cancelAtEnd |-> FALSE]
  BY DEF SubscriptionInit
<1>2. /\ now = 1 /\ limit = [q \in Plans |-> IF q = FreePlan THEN 1 ELSE 2] /\ members = 1
      /\ shrunk = FALSE /\ sold = limit[p]
  BY <1>1 DEF SubscriptionInit
<1>3. limit \in [Plans -> Int] /\ limit[p] \in 1..2 /\ sold \in Int
  BY <1>2
<1>4. sub \in SubRow
  BY <1>1, <1>2, SubscriptionConstants DEF SubRow, SubStatus
<1>5. SubscriptionTypeOK
  <2>1. now \in 1..MaxTime /\ members \in 0..MaxMembers
    BY <1>2, SubscriptionConstants
  <2>2. shrunk \in BOOLEAN
    BY <1>2
  <2> QED
    BY <1>3, <1>4, <2>1, <2>2 DEF SubscriptionTypeOK, SubRow
<1>6. Within(members, Limit)
  BY <1>1, <1>2, <1>3 DEF Within, Limit, DefaultLimit
<1> QED
  BY <1>5, <1>6 DEF SubAlone, Idle

LEMMA SubscriptionSteps ==
    ASSUME SubscriptionInv, [SubscriptionNext]_subVars
    PROVE  SubscriptionInv'
<1>1. ASSUME UNCHANGED <<req, overlapped>>, UNCHANGED subscription PROVE SubscriptionInv'
  <2>1. UNCHANGED <<now, sub, limit, members, shrunk, sold>>
    BY <1>1 DEF subscription, org, subHistory
  <2>2. \A l : SubAlone(l) => SubAlone(l)'
    BY <2>1 DEF SubAlone, Limit, Entitled, Due, Outcome
  <2>3. SubscriptionTypeOK' /\ ServerOK' /\ InFlight' = InFlight /\ Quiescent' = Quiescent
    BY <1>1, <2>1 DEF SubscriptionInv, SubscriptionTypeOK, ServerOK, InFlight, Quiescent
  <2> QED
    BY <1>1, <2>2, <2>3 DEF SubscriptionInv
<1>2. CASE UNCHANGED subVars
  BY <1>1, <1>2 DEF subVars, server
<1>3. CASE Restart /\ UNCHANGED subscription
  <2>1. ServerOK' /\ overlapped' /\ \A r \in Requests : req'[r] \in {Idle, Unused}
    BY <1>3, Restarted DEF SubscriptionInv
  <2>2. SubscriptionTypeOK'
    BY <1>3 DEF SubscriptionInv, SubscriptionTypeOK, subscription, org, subHistory
  <2> QED
    BY <2>1, <2>2 DEF SubscriptionInv, SubSlot
<1>4. ASSUME NEW r \in Requests, SubscriptionRequest(r) PROVE SubscriptionInv'
  BY <1>4, ChangePlanStep, SubscriptionRequests, CreateUserStep, EditPlanStep, FlagRenewalsStep
     DEF SubscriptionRequest
<1>5. ASSUME NEW r \in Requests, SubscriptionStep(r) PROVE SubscriptionInv'
  BY <1>5, UpdateSubscriptionStep, InsertUserStep, SelectDueStep DEF SubscriptionStep
<1> QED
  BY <1>2, <1>3, <1>4, <1>5, DaysPassStep DEF SubscriptionNext

LEMMA SubscriptionImplies ==
    ASSUME SubscriptionInv
    PROVE  SubscriptionTypeOK /\ OverLimitIsImposed
<1>1. ~overlapped => \E l : SubAlone(l)
  BY DEF SubscriptionInv, Quiescent
<1> QED
  BY <1>1 DEF SubscriptionInv, SubAlone, OverLimitIsImposed

\* services/scheduler.js flagSubscriptionRenewals: until two handlers have overlapped,
\* the daily job writes only what is due when it writes, however long after its query
\* and whatever plans, edits and decisions of the platform came before.
THEOREM JobCorrect == SubscriptionSpec => JobActsOnWhatIsDue
<1> DEFINE Acts == \A r \in Requests :
              At(r, "update") /\ req'[r] # req[r] /\ ~overlapped' /\ req[r].op = "job"
                => \E stage \in Stages : Due(stage) /\ DOMAIN req[r].patch = DOMAIN Outcome(stage)
<1>1. (\E slots \in SUBSET Requests, requests, stops \in Nat : ServerInit(slots, requests, stops))
         /\ SubscriptionInit => SubscriptionInv
  BY ServerStarts, SubscriptionStarts DEF SubscriptionInv, SubSlot, InFlight, SubAlone
<1>2. SubscriptionInv /\ [SubscriptionNext]_subVars => SubscriptionInv'
  BY SubscriptionSteps
<1>3. SubscriptionInv /\ [SubscriptionNext]_subVars => [Acts]_subVars
  <2> SUFFICES ASSUME SubscriptionInv, SubscriptionNext, NEW r \in Requests,
                      At(r, "update"), ~overlapped', req[r].op = "job"
               PROVE  \E stage \in Stages : Due(stage) /\ DOMAIN req[r].patch = DOMAIN Outcome(stage)
    OBVIOUS
  <2>1. ~overlapped
    <3>1. ASSUME NEW s \in Requests, NEW l, Begin(s, l) \/ Fire(s, l) PROVE ~overlapped
      BY <3>1, Begun DEF SubscriptionInv, ServerOK
    <3>2. ASSUME NEW s \in Requests, SubscriptionRequest(s) PROVE ~overlapped
      BY <3>1, <3>2 DEF SubscriptionRequest, ChangePlan, Cancel, Resume, CreateUser, PlatformPlan,
                        Adjust, EditPlan, FlagRenewals
    <3>3. ASSUME NEW s \in Requests, SubscriptionStep(s) PROVE ~overlapped
      BY <3>3 DEF SubscriptionStep, UpdateSubscription, InsertUser, SelectDue, Return, Continue
    <3> QED
      BY <3>2, <3>3, Restarted DEF SubscriptionNext, DaysPass, server, SubscriptionInv
  <2>2. SubAlone(req[r])
    BY <2>1, SubAt DEF At
  <2> QED
    BY <2>2 DEF SubAlone, At
<1> QED
  BY <1>1, <1>2, <1>3, PTL DEF SubscriptionSpec, JobActsOnWhatIsDue

-----------------------------------------------------------------------------
(***************************************************************************)
(* Add-ons and the platform's payment record                               *)
(***************************************************************************)

AddOnRow == [status : {"none", "active", "cancelled"}, charged : BOOLEAN]

\* A row was charged for unless it has never been there.
RowInStep(row) == row.charged <=> row.status # "none"

AddOnSlots ==
    [pc : {"activate"}, addon : AddOns, seen : {row \in AddOnRow : RowInStep(row)}, rest : SUBSET AddOns,
     items : SUBSET AddOns]
    \cup [pc : {"bundle", "invoice"}, rest : SUBSET AddOns, items : SUBSET AddOns]
    \cup [pc : {"deactivate"}, addon : AddOns]
    \cup [pc : {"credit"}, amount : Nat, paid : Nat]

\* The add-ons whose fee a handler is going to put on its invoice.
FeesOf(l) == IF l.pc \in {"activate", "bundle", "invoice"} THEN l.items ELSE {}

\* A fee is on no invoice and on its way to none before the row is charged, and after
\* that on one invoice or on its way to one.
FeesInv ==
    \A a \in AddOns :
       /\ ~addons[a].charged => fees[a] = 0 /\ \A r \in Requests : a \notin FeesOf(req[r])
       /\ \A r \in Requests : a \in FeesOf(req[r]) => fees[a] = 0
       /\ \A r, s \in Requests : a \in FeesOf(req[r]) /\ a \in FeesOf(req[s]) => r = s
       /\ fees[a] <= 1

\* What is being cancelled was charged for.
CancelsCharged(l) == l.pc = "deactivate" => addons[l.addon].charged

\* The invoice shows what was recorded, or will when the one handler has written.
BillAlone(l) ==
    IF l.pc = "credit" THEN bill.recorded = l.paid + l.amount
    ELSE bill.paid = bill.recorded /\ (bill.status = "paid" <=> bill.recorded >= BillTotal)

AddOnInv ==
    /\ AddOnTypeOK
    /\ \A a \in AddOns : RowInStep(addons[a])
    /\ ServerOK
    /\ \A r \in Requests : req[r] \in AddOnSlots \cup {Idle, Unused} /\ CancelsCharged(req[r])
    /\ FeesInv
    /\ ~overlapped => (Quiescent => BillAlone(Idle)) /\ \A r \in InFlight : BillAlone(req[r])

LEMMA AddOnTypes ==
    AddOnTypeOK <=> /\ addons \in [AddOns -> AddOnRow] /\ fees \in [AddOns -> Nat]
                    /\ bill \in [paid : Nat, status : {"issued", "partially_paid", "paid"}, recorded : Nat]
BY DEF AddOnTypeOK, AddOnRow

LEMMA AddOnAt ==
    ASSUME NEW l, l \in AddOnSlots \cup {Idle, Unused}
    PROVE  /\ l \in AddOnSlots => l \notin {Idle, Unused}
           /\ l \notin {Idle, Unused} => l \in AddOnSlots
           /\ l.pc = "activate" => /\ l \in AddOnSlots
                                   /\ l.addon \in AddOns /\ l.seen \in AddOnRow /\ RowInStep(l.seen)
                                   /\ l.rest \in SUBSET AddOns /\ l.items \in SUBSET AddOns
           /\ l.pc \in {"bundle", "invoice"} =>
                 l \in AddOnSlots /\ l.rest \in SUBSET AddOns /\ l.items \in SUBSET AddOns
           /\ l.pc = "deactivate" => l \in AddOnSlots /\ l.addon \in AddOns
           /\ l.pc = "credit" => l \in AddOnSlots /\ l.amount \in Nat /\ l.paid \in Nat
BY DEF AddOnSlots, Idle, Unused

\* A step of one slot, after which its fees are those it had or are counted.
LEMMA AddOnMoves ==
    ASSUME AddOnInv, NEW r \in Requests, NEW l \in AddOnSlots \cup {Idle, Unused},
           \/ Begin(r, l) \/ Fire(r, l)
           \/ req[r] \notin {Idle, Unused} /\ Continue(r, l),
           AddOnTypeOK', \A a \in AddOns : RowInStep(addons'[a]), CancelsCharged(l),
           \A a \in AddOns :
              /\ addons[a].charged => addons'[a].charged
              /\ \/ fees'[a] = fees[a] /\ (a \in FeesOf(l) => a \in FeesOf(req[r]))
                 \/ a \in FeesOf(req[r]) /\ a \notin FeesOf(l) /\ fees'[a] = 1
                 \/ ~addons[a].charged /\ addons'[a].charged /\ fees'[a] = fees[a],
           ~overlapped' => BillAlone(l)'
    PROVE  AddOnInv'
<1>1. /\ ServerOK' /\ req'[r] = l /\ \A s \in Requests \ {r} : req'[s] = req[s]
      /\ ~overlapped' => \A s \in Requests \ {r} : req[s] \in {Idle, Unused}
  <2>1. CASE Begin(r, l) \/ Fire(r, l)
    BY <2>1, Begun DEF AddOnInv
  <2>2. CASE req[r] \notin {Idle, Unused} /\ Continue(r, l)
    BY <2>2, Continued DEF AddOnInv
  <2> QED
    BY <2>1, <2>2
<1>2. FeesInv'
  <2> SUFFICES ASSUME NEW a \in AddOns
               PROVE  /\ ~addons'[a].charged => fees'[a] = 0 /\ \A s \in Requests : a \notin FeesOf(req'[s])
                      /\ \A s \in Requests : a \in FeesOf(req'[s]) => fees'[a] = 0
                      /\ \A s, t \in Requests : a \in FeesOf(req'[s]) /\ a \in FeesOf(req'[t]) => s = t
                      /\ fees'[a] <= 1
    BY DEF FeesInv, FeesOf
  <2>1. /\ ~addons[a].charged => fees[a] = 0 /\ \A s \in Requests : a \notin FeesOf(req[s])
        /\ \A s \in Requests : a \in FeesOf(req[s]) => fees[a] = 0
        /\ \A s, t \in Requests : a \in FeesOf(req[s]) /\ a \in FeesOf(req[t]) => s = t
        /\ fees[a] <= 1
    BY DEF AddOnInv, FeesInv
  <2>2. \A s \in Requests \ {r} : FeesOf(req'[s]) = FeesOf(req[s])
    BY <1>1
  <2>3. FeesOf(req'[r]) = FeesOf(l)
    BY <1>1
  <2>4. addons[a].charged => addons'[a].charged
    OBVIOUS
  <2> HIDE DEF FeesOf
  <2>5. CASE fees'[a] = fees[a] /\ (a \in FeesOf(l) => a \in FeesOf(req[r]))
    BY <2>1, <2>2, <2>3, <2>4, <2>5
  <2>6. CASE a \in FeesOf(req[r]) /\ a \notin FeesOf(l) /\ fees'[a] = 1
    BY <2>1, <2>2, <2>3, <2>4, <2>6
  <2>7. CASE ~addons[a].charged /\ addons'[a].charged /\ fees'[a] = fees[a]
    BY <2>1, <2>2, <2>3, <2>7
  <2> QED
    BY <2>5, <2>6, <2>7
<1>3. ASSUME ~overlapped', NEW s \in InFlight' PROVE BillAlone(req[s])'
  <2>1. s = r
    BY <1>1, <1>3 DEF InFlight
  <2> QED
    BY <1>1, <1>3, <2>1 DEF BillAlone
<1>4. ASSUME ~overlapped', Quiescent' PROVE BillAlone(Idle)'
  <2>1. l \in {Idle, Unused}
    BY <1>1, <1>4 DEF Quiescent, InFlight
  <2> QED
    BY <1>4, <2>1 DEF BillAlone, Idle, Unused
<1>5. \A s \in Requests : req'[s] \in AddOnSlots \cup {Idle, Unused}
  BY <1>1 DEF AddOnInv
<1>7. ASSUME NEW s \in Requests PROVE CancelsCharged(req[s])'
  <2>1. CancelsCharged(req'[s])
    BY <1>1 DEF AddOnInv
  <2>2. req'[s].pc = "deactivate" => req'[s].addon \in AddOns
    BY <1>5, AddOnAt
  <2> QED
    BY <2>1, <2>2 DEF CancelsCharged
<1>6. (\A a \in AddOns : RowInStep(addons[a]))'
  BY DEF RowInStep
<1> QED
  BY <1>1, <1>2, <1>3, <1>4, <1>5, <1>6, <1>7 DEF AddOnInv, AddOnSlots, AddOnRow, RowInStep

\* The steps that leave the platform's invoice alone.
LEMMA BillKept ==
    ASSUME AddOnInv, NEW r \in Requests, NEW l, l.pc # "credit", req[r].pc # "credit",
           \/ Begin(r, l) \/ Fire(r, l)
           \/ req[r] \notin {Idle, Unused} /\ Continue(r, l),
           bill' = bill, ~overlapped'
    PROVE  BillAlone(l)'
<1>1. CASE Begin(r, l) \/ Fire(r, l)
  <2>1. ~overlapped /\ \A s \in Requests : req[s] \in {Idle, Unused}
    BY <1>1, Begun DEF AddOnInv, ServerOK
  <2>2. BillAlone(Idle)
    BY <2>1 DEF AddOnInv, Quiescent, InFlight
  <2> QED
    BY <2>2 DEF BillAlone, Idle
<1>2. CASE req[r] \notin {Idle, Unused} /\ Continue(r, l)
  <2>1. BillAlone(req[r])
    BY <1>2 DEF AddOnInv, InFlight, Continue
  <2> QED
    BY <2>1 DEF BillAlone
<1> QED
  BY <1>1, <1>2

\* The steps that read, or have no fee to add.
LEMMA AddOnReads ==
    ASSUME AddOnInv, NEW r \in Requests, NEW l \in AddOnSlots \cup {Idle, Unused},
           l.pc # "credit", req[r].pc # "credit", CancelsCharged(l), FeesOf(l) \subseteq FeesOf(req[r]),
           \/ Begin(r, l) \/ Fire(r, l)
           \/ req[r] \notin {Idle, Unused} /\ Continue(r, l),
           UNCHANGED addOnBilling
    PROVE  AddOnInv'
<1>1. addons' = addons /\ fees' = fees /\ bill' = bill
  BY DEF addOnBilling
<1>2. AddOnTypeOK' /\ \A a \in AddOns : RowInStep(addons'[a])
  BY <1>1 DEF AddOnInv, AddOnTypeOK
<1>3. ~overlapped' => BillAlone(l)'
  BY <1>1, BillKept
<1> QED
  BY <1>1, <1>2, <1>3, AddOnMoves

LEMMA ActivateStep ==
    ASSUME AddOnInv, NEW r \in Requests, NEW a \in AddOns, Activate(r, a)
    PROVE  AddOnInv'
<1> DEFINE l == [pc |-> "activate", addon |-> a, seen |-> addons[a], rest |-> {}, items |-> {}]
<1>1. Begin(r, l) /\ UNCHANGED addOnBilling
  BY DEF Activate
<1>2. l \in AddOnSlots /\ l.pc = "activate" /\ FeesOf(l) = {} /\ CancelsCharged(l)
  BY AddOnTypes DEF AddOnSlots, AddOnInv, FeesOf, CancelsCharged
<1>3. req[r] = Idle
  BY <1>1, Begun DEF AddOnInv
<1> HIDE DEF l
<1> QED
  BY <1>1, <1>2, <1>3, AddOnReads DEF Idle

LEMMA ActivateBundleStep ==
    ASSUME AddOnInv, NEW r \in Requests, ActivateBundle(r)
    PROVE  AddOnInv'
<1> DEFINE l == [pc |-> "bundle", rest |-> AddOns, items |-> {}]
<1>1. Begin(r, l) /\ UNCHANGED addOnBilling
  BY DEF ActivateBundle
<1>2. l \in AddOnSlots /\ l.pc = "bundle" /\ FeesOf(l) = {} /\ CancelsCharged(l)
  BY DEF AddOnSlots, FeesOf, CancelsCharged
<1>3. req[r] = Idle
  BY <1>1, Begun DEF AddOnInv
<1> HIDE DEF l
<1> QED
  BY <1>1, <1>2, <1>3, AddOnReads DEF Idle

LEMMA DeactivateStep ==
    ASSUME AddOnInv, NEW r \in Requests, NEW a \in AddOns, Deactivate(r, a)
    PROVE  AddOnInv'
<1> DEFINE l == [pc |-> "deactivate", addon |-> a]
<1>1. Begin(r, l) /\ UNCHANGED addOnBilling /\ addons[a].status = "active"
  BY DEF Deactivate, Unlocked
<1>2. l \in AddOnSlots /\ l.pc = "deactivate" /\ FeesOf(l) = {}
  BY DEF AddOnSlots, FeesOf
<1>4. CancelsCharged(l)
  BY <1>1 DEF CancelsCharged, AddOnInv, RowInStep
<1>3. req[r] = Idle
  BY <1>1, Begun DEF AddOnInv
<1> HIDE DEF l
<1> QED
  BY <1>1, <1>2, <1>3, <1>4, AddOnReads DEF Idle

LEMMA NextOfBundleStep ==
    ASSUME AddOnInv, NEW r \in Requests, NEW a \in AddOns, NextOfBundle(r, a)
    PROVE  AddOnInv'
<1> DEFINE rest == req[r].rest \ {a}
<1>1. /\ req[r].pc = "bundle" /\ UNCHANGED addOnBilling
      /\ Continue(r, IF a \notin Unlocked
                     THEN [pc |-> "activate", addon |-> a, seen |-> addons[a], rest |-> rest, items |-> req[r].items]
                     ELSE [pc |-> IF rest = {} THEN "invoice" ELSE "bundle", rest |-> rest, items |-> req[r].items])
  BY DEF NextOfBundle, At
<1>2. /\ req[r] \notin {Idle, Unused} /\ req[r].items \in SUBSET AddOns /\ rest \in SUBSET AddOns
      /\ FeesOf(req[r]) = req[r].items
  BY <1>1, AddOnAt DEF AddOnInv, FeesOf
<1>3. PICK items : items = req[r].items
  OBVIOUS
<1>4. addons[a] \in AddOnRow /\ RowInStep(addons[a])
  BY AddOnTypes DEF AddOnInv
<1>5. PICK l : l = IF a \notin Unlocked
                   THEN [pc |-> "activate", addon |-> a, seen |-> addons[a], rest |-> rest, items |-> items]
                   ELSE [pc |-> IF rest = {} THEN "invoice" ELSE "bundle", rest |-> rest, items |-> items]
  OBVIOUS
<1> HIDE DEF rest
<1>6. l \in AddOnSlots /\ l.pc \in {"activate", "bundle", "invoice"} /\ FeesOf(l) = items
  <2>1. CASE a \notin Unlocked
    BY <1>2, <1>3, <1>4, <1>5, <2>1 DEF AddOnSlots, FeesOf
  <2>2. CASE a \in Unlocked
    BY <1>2, <1>3, <1>5, <2>2 DEF AddOnSlots, FeesOf
  <2> QED
    BY <2>1, <2>2
<1> QED
  BY <1>1, <1>2, <1>3, <1>5, <1>6, AddOnReads DEF CancelsCharged

LEMMA WriteActivatedStep ==
    ASSUME AddOnInv, NEW r \in Requests, WriteActivated(r)
    PROVE  AddOnInv'
<1>1. PICK a, seen, rest, items : a = req[r].addon /\ seen = req[r].seen /\ rest = req[r].rest /\ items = req[r].items
  OBVIOUS
<1>2. /\ req[r].pc = "activate" /\ req[r] \notin {Idle, Unused}
      /\ a \in AddOns /\ seen \in AddOnRow /\ RowInStep(seen) /\ rest \in SUBSET AddOns /\ items \in SUBSET AddOns
      /\ FeesOf(req[r]) = items
  BY <1>1, AddOnAt DEF WriteActivated, At, AddOnInv, FeesOf
<1>3. UNCHANGED <<fees, bill>>
  BY DEF WriteActivated
<1>4. CASE seen.status = "none" /\ addons[a].status # "none"
  <2>1. Continue(r, Idle) /\ UNCHANGED addOnBilling
    BY <1>1, <1>3, <1>4 DEF WriteActivated, Return, addOnBilling
  <2>2. Idle.pc # "credit" /\ FeesOf(Idle) = {} /\ CancelsCharged(Idle)
    BY DEF Idle, FeesOf, CancelsCharged
  <2> QED
    BY <1>2, <2>1, <2>2, AddOnReads
<1>5. CASE ~(seen.status = "none" /\ addons[a].status # "none")
  <2> DEFINE with == IF seen.charged THEN items ELSE items \cup {a}
             l == [pc |-> IF rest = {} THEN "invoice" ELSE "bundle", rest |-> rest, items |-> with]
  <2>1. /\ addons' = [addons EXCEPT ![a] = [status |-> "active", charged |-> TRUE]]
        /\ Continue(r, l)
    BY <1>1, <1>5 DEF WriteActivated
  <2>2. l \in AddOnSlots /\ l.pc # "credit" /\ FeesOf(l) = with /\ CancelsCharged(l)
    BY <1>2 DEF AddOnSlots, FeesOf, CancelsCharged
  <2>3. addons \in [AddOns -> AddOnRow] /\ [status |-> "active", charged |-> TRUE] \in AddOnRow
    BY AddOnTypes DEF AddOnInv, AddOnRow
  <2>4. /\ addons' \in [AddOns -> AddOnRow] /\ addons'[a] = [status |-> "active", charged |-> TRUE]
        /\ \A b \in AddOns \ {a} : addons'[b] = addons[b]
    BY <1>2, <2>1, <2>3
  <2>5. AddOnTypeOK' /\ \A b \in AddOns : RowInStep(addons'[b])
    <3>1. \A b \in AddOns : RowInStep(addons'[b])
      BY <2>4 DEF RowInStep, AddOnInv
    <3> QED
      BY <1>3, <2>4, <3>1, AddOnTypes DEF AddOnInv, AddOnTypeOK, AddOnRow
  <2>6. seen.charged \/ ~addons[a].charged
    BY <1>2, <1>5 DEF RowInStep, AddOnInv
  <2>7. ~overlapped' => BillAlone(l)'
    <3> HIDE DEF l
    <3> QED
      BY <1>2, <1>3, <2>1, <2>2, BillKept
  <2>8. \A b \in AddOns :
           /\ addons[b].charged => addons'[b].charged
           /\ \/ fees'[b] = fees[b] /\ (b \in FeesOf(l) => b \in FeesOf(req[r]))
              \/ ~addons[b].charged /\ addons'[b].charged /\ fees'[b] = fees[b]
    <3> HIDE DEF l
    <3> QED
      BY <1>2, <1>3, <2>2, <2>4, <2>6
  <2> HIDE DEF l
  <2> QED
    BY <1>2, <2>1, <2>2, <2>5, <2>7, <2>8, AddOnMoves
<1> QED
  BY <1>4, <1>5

LEMMA RaiseInvoiceStep ==
    ASSUME AddOnInv, NEW r \in Requests, RaiseInvoice(r)
    PROVE  AddOnInv'
<1>1. /\ req[r].pc = "invoice" /\ Continue(r, Idle) /\ addons' = addons /\ bill' = bill
      /\ fees' = [a \in AddOns |-> fees[a] + (IF a \in req[r].items THEN 1 ELSE 0)]
  BY DEF RaiseInvoice, At, Return
<1>2. req[r] \notin {Idle, Unused} /\ FeesOf(req[r]) = req[r].items
  BY <1>1, AddOnAt DEF AddOnInv, FeesOf
<1>3. Idle.pc # "credit" /\ FeesOf(Idle) = {} /\ CancelsCharged(Idle)
  BY DEF Idle, FeesOf, CancelsCharged
<1>4. fees \in [AddOns -> Nat] /\ \A a \in AddOns : a \in FeesOf(req[r]) => fees[a] = 0
  BY DEF AddOnInv, AddOnTypeOK, FeesInv
<1>5. AddOnTypeOK' /\ \A a \in AddOns : RowInStep(addons'[a])
  BY <1>1, <1>4 DEF AddOnInv, AddOnTypeOK
<1>6. \A a \in AddOns : fees'[a] = IF a \in FeesOf(req[r]) THEN 1 ELSE fees[a]
  BY <1>1, <1>2, <1>4
<1>7. ~overlapped' => BillAlone(Idle)'
  BY <1>1, <1>2, <1>3, BillKept
<1> QED
  BY <1>1, <1>2, <1>3, <1>5, <1>6, <1>7, AddOnMoves

LEMMA WriteDeactivatedStep ==
    ASSUME AddOnInv, NEW r \in Requests, WriteDeactivated(r)
    PROVE  AddOnInv'
<1>1. PICK a : a = req[r].addon
  OBVIOUS
<1>2. /\ req[r].pc = "deactivate" /\ Continue(r, Idle) /\ UNCHANGED <<fees, bill>>
      /\ addons' = [addons EXCEPT ![a].status = "cancelled"]
  BY <1>1 DEF WriteDeactivated, At, Return
<1>3. req[r] \notin {Idle, Unused} /\ a \in AddOns /\ FeesOf(req[r]) = {}
  BY <1>1, <1>2, AddOnAt DEF AddOnInv, FeesOf
<1>4. Idle.pc # "credit" /\ FeesOf(Idle) = {} /\ CancelsCharged(Idle)
  BY DEF Idle, FeesOf, CancelsCharged
<1>5. addons \in [AddOns -> AddOnRow] /\ \A b \in AddOns : RowInStep(addons[b])
  BY AddOnTypes DEF AddOnInv
<1>6. /\ addons' \in [AddOns -> AddOnRow] /\ addons'[a].status = "cancelled"
      /\ \A b \in AddOns : addons'[b].charged = addons[b].charged
      /\ \A b \in AddOns \ {a} : addons'[b] = addons[b]
  BY <1>2, <1>3, <1>5 DEF AddOnRow
<1>7. addons[a].charged
  BY <1>1, <1>2 DEF AddOnInv, CancelsCharged
<1>8. \A b \in AddOns : RowInStep(addons'[b])
  BY <1>3, <1>5, <1>6, <1>7 DEF RowInStep
<1>9. AddOnTypeOK'
  BY <1>2, <1>6, AddOnTypes DEF AddOnInv, AddOnTypeOK, AddOnRow
<1>10. ~overlapped' => BillAlone(Idle)'
  BY <1>2, <1>3, <1>4, BillKept
<1> QED
  BY <1>2, <1>3, <1>4, <1>6, <1>8, <1>9, <1>10, AddOnMoves

LEMMA RecordPlatformPaymentStep ==
    ASSUME AddOnInv, NEW r \in Requests, NEW amount \in 1..BillTotal, RecordPlatformPayment(r, amount)
    PROVE  AddOnInv'
<1>1. PICK paid : paid = bill.paid
  OBVIOUS
<1> DEFINE l == [pc |-> "credit", amount |-> amount, paid |-> paid]
<1>2. Begin(r, l) /\ bill' = [bill EXCEPT !.recorded = @ + amount] /\ UNCHANGED <<addons, fees>>
  BY <1>1 DEF RecordPlatformPayment
<1>3. /\ bill \in [paid : Nat, status : {"issued", "partially_paid", "paid"}, recorded : Nat]
      /\ amount \in Nat
  BY AddOnConstants DEF AddOnInv, AddOnTypeOK
<1>4. /\ bill' \in [paid : Nat, status : {"issued", "partially_paid", "paid"}, recorded : Nat]
      /\ bill'.recorded = bill.recorded + amount
  BY <1>2, <1>3
<1>5. l \in AddOnSlots /\ FeesOf(l) = {} /\ CancelsCharged(l)
  BY <1>1, <1>3 DEF AddOnSlots, FeesOf, CancelsCharged
<1>6. AddOnTypeOK' /\ \A a \in AddOns : RowInStep(addons'[a])
  BY <1>2, <1>4 DEF AddOnInv, AddOnTypeOK
<1>7. ASSUME ~overlapped' PROVE BillAlone(l)'
  <2>1. ~overlapped /\ \A s \in Requests : req[s] \in {Idle, Unused}
    BY <1>2, <1>7, Begun DEF AddOnInv, ServerOK
  <2>2. bill.paid = bill.recorded
    BY <2>1 DEF AddOnInv, Quiescent, InFlight, BillAlone, Idle
  <2> QED
    BY <1>1, <1>4, <2>2 DEF BillAlone
<1> HIDE DEF l
<1> QED
  BY <1>2, <1>5, <1>6, <1>7, AddOnMoves

LEMMA CreditBillStep ==
    ASSUME AddOnInv, NEW r \in Requests, CreditBill(r)
    PROVE  AddOnInv'
<1> DEFINE paid == req[r].paid + req[r].amount
<1>1. /\ req[r].pc = "credit" /\ Continue(r, Idle) /\ UNCHANGED <<addons, fees>>
      /\ bill' = [bill EXCEPT !.paid = paid, !.status = IF paid >= BillTotal THEN "paid" ELSE "partially_paid"]
  BY DEF CreditBill, At, Return
<1>2. req[r] \notin {Idle, Unused} /\ paid \in Nat
  BY <1>1, AddOnAt DEF AddOnInv
<1>3. bill \in [paid : Nat, status : {"issued", "partially_paid", "paid"}, recorded : Nat]
  BY DEF AddOnInv, AddOnTypeOK
<1> HIDE DEF paid
<1>4. /\ bill' \in [paid : Nat, status : {"issued", "partially_paid", "paid"}, recorded : Nat]
      /\ bill'.paid = paid /\ bill'.recorded = bill.recorded
      /\ bill'.status = IF paid >= BillTotal THEN "paid" ELSE "partially_paid"
  BY <1>1, <1>2, <1>3
<1>5. Idle.pc # "credit" /\ FeesOf(Idle) = {} /\ CancelsCharged(Idle)
  BY DEF Idle, FeesOf, CancelsCharged
<1>6. AddOnTypeOK' /\ \A a \in AddOns : RowInStep(addons'[a])
  BY <1>1, <1>4 DEF AddOnInv, AddOnTypeOK
<1>7. ASSUME ~overlapped' PROVE BillAlone(Idle)'
  <2>1. BillAlone(req[r])
    BY <1>1, <1>2, <1>7 DEF AddOnInv, InFlight, Continue
  <2>2. bill.recorded = paid
    BY <1>1, <2>1 DEF BillAlone, paid
  <2> QED
    BY <1>4, <2>2 DEF BillAlone, Idle
<1> QED
  BY <1>1, <1>2, <1>5, <1>6, <1>7, AddOnMoves

LEMMA AddOnSteps ==
    ASSUME AddOnInv, [AddOnNext]_addOnVars
    PROVE  AddOnInv'
<1>1. ASSUME UNCHANGED <<req, overlapped>>, UNCHANGED addOnBilling PROVE AddOnInv'
  <2>1. UNCHANGED <<addons, fees, bill>>
    BY <1>1 DEF addOnBilling
  <2>2. \A l : BillAlone(l) => BillAlone(l)'
    BY <2>1 DEF BillAlone
  <2>3. AddOnTypeOK' /\ ServerOK' /\ InFlight' = InFlight /\ Quiescent' = Quiescent
    BY <1>1, <2>1 DEF AddOnInv, AddOnTypeOK, ServerOK, InFlight, Quiescent
  <2>4. FeesInv' /\ \A r \in Requests : CancelsCharged(req[r])'
    BY <1>1, <2>1 DEF AddOnInv, FeesInv, FeesOf, CancelsCharged
  <2> QED
    BY <1>1, <2>1, <2>2, <2>3, <2>4 DEF AddOnInv
<1>2. CASE UNCHANGED addOnVars
  BY <1>1, <1>2 DEF addOnVars, server
<1>3. CASE Restart /\ UNCHANGED addOnBilling
  <2>1. ServerOK' /\ overlapped' /\ \A r \in Requests : req'[r] \in {Idle, Unused}
    BY <1>3, Restarted DEF AddOnInv
  <2>2. UNCHANGED <<addons, fees, bill>>
    BY <1>3 DEF addOnBilling
  <2>3. \A r \in Requests : FeesOf(req'[r]) = {} /\ CancelsCharged(req[r])'
    BY <2>1 DEF FeesOf, CancelsCharged, Idle, Unused
  <2>4. FeesInv'
    <3> SUFFICES ASSUME NEW a \in AddOns
                 PROVE  /\ ~addons'[a].charged => fees'[a] = 0 /\ \A s \in Requests : a \notin FeesOf(req'[s])
                        /\ \A s \in Requests : a \in FeesOf(req'[s]) => fees'[a] = 0
                        /\ \A s, t \in Requests : a \in FeesOf(req'[s]) /\ a \in FeesOf(req'[t]) => s = t
                        /\ fees'[a] <= 1
      BY DEF FeesInv, FeesOf
    <3> QED
      BY <2>2, <2>3 DEF AddOnInv, FeesInv
  <2> QED
    BY <2>1, <2>2, <2>3, <2>4 DEF AddOnInv, AddOnTypeOK
<1>4. ASSUME NEW r \in Requests, AddOnStep(r) PROVE AddOnInv'
  BY <1>4, WriteActivatedStep, NextOfBundleStep, RaiseInvoiceStep, WriteDeactivatedStep, CreditBillStep
     DEF AddOnStep
<1> QED
  BY <1>2, <1>3, <1>4, ActivateStep, DeactivateStep, ActivateBundleStep, RecordPlatformPaymentStep
     DEF AddOnNext

LEMMA AddOnStarts ==
    ASSUME AddOnInit
    PROVE  /\ AddOnTypeOK /\ (\A a \in AddOns : RowInStep(addons[a]) /\ fees[a] = 0)
           /\ BillAlone(Idle)
<1>1. /\ addons = [a \in AddOns |-> [status |-> "none", charged |-> FALSE]]
      /\ fees = [a \in AddOns |-> 0]
      /\ bill = [paid |-> 0, status |-> "issued", recorded |-> 0]
  BY DEF AddOnInit
<1>2. AddOnTypeOK
  BY <1>1 DEF AddOnTypeOK
<1> QED
  BY <1>1, <1>2, AddOnConstants DEF RowInStep, BillAlone, Idle

LEMMA AddOnImplies ==
    ASSUME AddOnInv
    PROVE  AddOnTypeOK /\ SetupFeeAtMostOnce /\ BillAgrees
BY DEF AddOnInv, FeesInv, SetupFeeAtMostOnce, BillAgrees, BillAlone, Idle

-----------------------------------------------------------------------------
(***************************************************************************)
(* The subscription and the add-ons beside the other accounts              *)
(***************************************************************************)

\* The tables of a component that is not followed are as they were first.
BillingInv ==
    /\ IF focus = "subscription" THEN SubscriptionInv ELSE SubscriptionInit
    /\ IF focus = "addOns" THEN AddOnInv ELSE AddOnInit

LEMMA BillingImplies ==
    ASSUME BillingInv
    PROVE  BillingHolds
<1>1. SubscriptionTypeOK /\ OverLimitIsImposed
  BY SubscriptionStarts, SubscriptionImplies DEF BillingInv, SubAlone, OverLimitIsImposed
<1>2. AddOnTypeOK /\ SetupFeeAtMostOnce /\ BillAgrees
  <2>1. CASE focus = "addOns"
    BY <2>1, AddOnImplies DEF BillingInv
  <2>2. CASE focus # "addOns"
    BY <2>2, AddOnStarts DEF BillingInv, SetupFeeAtMostOnce, BillAgrees, BillAlone, Idle
  <2> QED
    BY <2>1, <2>2
<1> QED
  BY <1>1, <1>2 DEF BillingHolds

LEMMA BillingSteps ==
    ASSUME BillingInv, [Next]_accountsVars
    PROVE  BillingInv'
<1>1. UNCHANGED subscription /\ SubscriptionInit => SubscriptionInit'
  BY DEF subscription, org, subHistory, SubscriptionInit
<1>2. UNCHANGED addOnBilling /\ AddOnInit => AddOnInit'
  BY DEF addOnBilling, AddOnInit
<1>3. focus' = focus
  BY DEF Next, On, accountsVars
<1>4. CASE focus = "subscription"
  <2>1. [SubscriptionNext]_subVars /\ UNCHANGED addOnBilling
    BY <1>4 DEF Next, On, accountsVars, subVars
  <2> QED
    BY <1>2, <1>3, <1>4, <2>1, SubscriptionSteps DEF BillingInv
<1>5. CASE focus = "addOns"
  <2>1. [AddOnNext]_addOnVars /\ UNCHANGED subscription
    BY <1>5 DEF Next, On, accountsVars, addOnVars
  <2> QED
    BY <1>1, <1>3, <1>5, <2>1, AddOnSteps DEF BillingInv
<1>6. CASE focus \notin {"subscription", "addOns"}
  <2>1. UNCHANGED subscription /\ UNCHANGED addOnBilling
    BY <1>6 DEF Next, On, accountsVars
  <2> QED
    BY <1>1, <1>2, <1>3, <1>6, <2>1 DEF BillingInv
<1> QED
  BY <1>4, <1>5, <1>6

\* modules/billing.js, users.js, platform.js, addons.js and services/scheduler.js: a limit
\* is exceeded only when somebody else shrank it and the platform's invoice shows what was
\* recorded, until two handlers have overlapped; an add-on's setup fee is charged at most
\* once however activations, bundles and deactivations overlap and wherever the process
\* stops; for any plans, users, add-ons, amounts, handlers and requests.
THEOREM BillingCorrect == AccountsSpec => []BillingHolds
<1>1. ASSUME NEW slots, NEW requests, NEW stops, ServerInit(slots, requests, stops),
             SubscriptionInit, AddOnInit
      PROVE  BillingInv
  <2>1. /\ ServerOK /\ overlapped = FALSE /\ Quiescent /\ InFlight = {}
        /\ \A r \in Requests : req[r] \in {Idle, Unused}
    BY <1>1, ServerStarts DEF ServerInit, Quiescent, InFlight
  <2>2. SubscriptionInv
    BY <1>1, <2>1, SubscriptionStarts DEF SubscriptionInv, SubSlot
  <2>3. \A r \in Requests : FeesOf(req[r]) = {} /\ CancelsCharged(req[r])
    BY <2>1 DEF FeesOf, CancelsCharged, Idle, Unused
  <2>4. AddOnInv
    <3> HIDE DEF FeesOf
    <3> QED
      BY <1>1, <2>1, <2>3, AddOnStarts DEF AddOnInv, FeesInv
  <2> QED
    BY <1>1, <2>2, <2>4 DEF BillingInv
<1>2. BillingInv /\ [Next]_accountsVars => BillingInv'
  BY BillingSteps
<1>3. (\E slots \in SUBSET Requests, requests, stops \in Nat : ServerInit(slots, requests, stops))
         /\ SubscriptionInit /\ AddOnInit => BillingInv
  BY <1>1
<1> QED
  BY <1>2, <1>3, BillingImplies, PTL DEF AccountsSpec

=============================================================================
