-------------------------- MODULE Practice_proofs ---------------------------
(***************************************************************************)
(* The day's work of a practice, for any tables, handlers, requests and    *)
(* restarts: the register of clients, the book of leads, the field staff's *)
(* day and the desk.  Each part has the same plan: the kinds of handler    *)
(* its slots may hold, what every state says of the rows, what a state     *)
(* before the first overlap says of the rows and of the one handler in     *)
(* flight, a lemma for every operation and the theorem.  Last, the figures *)
(* of the tax engine hold together, for any lines, rates, thresholds,      *)
(* corrections and runs in any order.                                      *)
(***************************************************************************)
EXTENDS Clients, Leads, FieldWork, Desk, TaxEngine, Handlers_proofs, Sums_proofs

-----------------------------------------------------------------------------
(***************************************************************************)
(* Clients: the invariant                                                  *)
(***************************************************************************)

Numbers == Gstins \cup {None}
CompanyRow == [status : {"absent", "active", "archived"}, deleted : BOOLEAN, gstin : Numbers, state : States]
ClientRow == [status : {"absent", "active", "churned", "archived"}, deleted : BOOLEAN,
              company : 0..MaxRows, code : 0..MaxRows]
ContactRow == [primary : Nat, other : Nat]

\* What an update of a company may set.
CompanyPatch(patch) ==
    /\ DOMAIN patch \subseteq {"status", "deleted", "gstin", "state"}
    /\ "status" \in DOMAIN patch => patch["status"] = "archived"
    /\ "deleted" \in DOMAIN patch => patch["deleted"] = TRUE
    /\ "gstin" \in DOMAIN patch => patch["gstin"] \in Numbers
    /\ "state" \in DOMAIN patch => patch["state"] \in States

ClientSlots ==
    [pc : {"company"}, gstin : Numbers, state : States, kind : {"company", "client"}, login : BOOLEAN]
    \cup [pc : {"count"}, company : Rows, login : BOOLEAN]
    \cup [pc : {"client"}, company : Rows, login : BOOLEAN, code : Nat]
    \cup [pc : {"login", "contact"}, client : Rows, company : Rows]
    \cup [pc : {"open"}, client : Rows]
    \cup [pc : {"items"}, client : Rows, left : SUBSET Checklist]
    \cup [pc : {"newContact"}, client : Rows, primary : BOOLEAN]

CompanySlot(l) ==
    /\ l = [pc |-> "patchCompany", c |-> l.c, patch |-> l.patch]
    /\ l.c \in Rows /\ CompanyPatch(l.patch)

ClientSlot(l) == l \in {Idle, Unused} \/ l \in ClientSlots \/ CompanySlot(l)

\* The steps of a handler that are about a client.
OfClient == {"login", "contact", "open", "items", "newContact"}

\* The rows a handler holds are there.
SlotFits(l) ==
    /\ l.pc \in OfClient => l.client \in Present(client)
    /\ l.pc = "items" => period[l.client] \subseteq Checklist
    /\ l.pc = "patchCompany" => l.c \in Present(company)
    /\ l.pc = "client" => \A k \in Rows : k < l.code => k \in Present(client)

\* Rows fill a table from the first.
InOrder(table) == \E n \in 0..MaxRows : \A i \in Rows : i \in Present(table) <=> i <= n

\* Nothing belongs to a client that is not there, and a company belongs to one that is.
RowsTogether ==
    /\ InOrder(company) /\ InOrder(client)
    /\ \A k \in Rows : k \notin Present(client) =>
          contacts[k] = [primary |-> 0, other |-> 0] /\ period[k] = NoPeriod
    /\ \A k \in Present(client) : client[k].company \in Rows
    /\ \A c \in Rows : company[c].deleted => company[c].gstin \in retired

\* A number no live company has, or that an archived one has had.
Free(g) == g = None \/ g \in retired \/ \A c \in LiveCompanies : company[c].gstin # g

NumbersAlone(l) ==
    /\ \A c, d \in LiveCompanies :
          c # d /\ company[c].gstin = company[d].gstin => company[c].gstin \in retired \cup {None}
    /\ l.pc = "company" => Free(l.gstin)
    /\ l.pc = "patchCompany" /\ "gstin" \in DOMAIN l.patch =>
          l.patch["gstin"] = company[l.c].gstin \/ Free(l.patch["gstin"])

\* A company is archived before it has clients, and a client opened in one that is not.
CompaniesAlone(l) ==
    /\ \A k \in Present(client) : ~company[client[k].company].deleted
    /\ l.pc \in {"count", "client"} => ~company[l.company].deleted
    /\ l.pc = "patchCompany" /\ "deleted" \in DOMAIN l.patch =>
          \A k \in Present(client) : client[k].company # l.c

\* The handler has still to give the client its primary contact.
Lacks(l, k) == (l.pc \in {"login", "contact"} \/ (l.pc = "newContact" /\ l.primary = TRUE)) /\ l.client = k

WholeAlone(l) ==
    \A k \in Present(client) :
       /\ contacts[k].primary = IF Lacks(l, k) THEN 0 ELSE 1
       /\ IF l.pc = "items" /\ l.client = k THEN period[k] \cup l.left = Checklist
          ELSE period[k] \in {NoPeriod, Checklist}

ClientAlone(l) == NumbersAlone(l) /\ CompaniesAlone(l) /\ WholeAlone(l)

ClientTypes == ClientTypeOK /\ period \in [Rows -> SUBSET (Checklist \cup {None})]

ClientInv ==
    /\ ClientTypes
    /\ ServerOK
    /\ \A r \in Requests : ClientSlot(req[r]) /\ SlotFits(req[r])
    /\ RowsTogether
    /\ ~overlapped => (Quiescent => ClientAlone(Idle)) /\ \A r \in InFlight : ClientAlone(req[r])

-----------------------------------------------------------------------------
LEMMA ClientRows ==
    ASSUME ClientInv
    PROVE  /\ company \in [Rows -> CompanyRow] /\ client \in [Rows -> ClientRow]
           /\ contacts \in [Rows -> ContactRow]
           /\ period \in [Rows -> SUBSET (Checklist \cup {None})]
           /\ portal \subseteq Rows /\ retired \subseteq Numbers
BY DEF ClientInv, ClientTypes, ClientTypeOK, CompanyRow, ClientRow, ContactRow, Numbers

\* The row the next insert takes.
LEMMA NextRow ==
    ASSUME NEW table, InOrder(table)
    PROVE  /\ Fresh(table) \in 1..(MaxRows + 1)
           /\ \A i \in Rows : i \in Present(table) <=> i < Fresh(table)
<1>1. PICK n \in 0..MaxRows : \A i \in Rows : i \in Present(table) <=> i <= n
  BY DEF InOrder
<1>2. n \in Nat /\ MaxRows \in Nat
  BY ClientConstants
<1>3. Present(table) = 1..n
  BY <1>1, <1>2 DEF Present, Rows
<1>4. Cardinality(Present(table)) = n
  BY <1>2, <1>3, FS_Interval
<1>5. Fresh(table) = n + 1
  BY <1>4 DEF Fresh
<1> QED
  BY <1>1, <1>2, <1>5 DEF Rows

LEMMA ClientSlotKinds ==
    ASSUME NEW l, ClientSlot(l), l \notin {Idle, Unused}
    PROVE  /\ l.pc = "patchCompany" => CompanySlot(l)
           /\ l.pc # "patchCompany" => l \in ClientSlots
           /\ l.pc \in OfClient => l.client \in Rows
BY DEF ClientSlot, ClientSlots, CompanySlot, OfClient

\* What the tables keep, whatever the step: rows that are there stay.
RowsKept ==
    /\ Present(client) \subseteq Present(client)' /\ Present(company) \subseteq Present(company)'
    /\ \A k \in Rows : period[k] \subseteq Checklist => period'[k] \subseteq Checklist

LEMMA ClientKeeps ==
    ASSUME ClientInv, NEW r \in Requests, NEW l, ClientSlot(l),
           Begin(r, l) \/ Fire(r, l) \/ (req[r] \notin {Idle, Unused} /\ Continue(r, l)),
           ClientTypes', RowsTogether', RowsKept,
           req'[r] = l => SlotFits(req[r])',
           ~overlapped' /\ ClientAlone(req[r]) /\ req'[r] = l => ClientAlone(req[r])'
    PROVE  ClientInv'
<1>1. /\ ServerOK' /\ req'[r] = l
      /\ \A s \in Requests \ {r} : req'[s] = req[s]
      /\ ~overlapped' => ~overlapped /\ \A s \in Requests \ {r} : req[s] \in {Idle, Unused}
      /\ req[r] = Idle \/ req[r] \notin {Idle, Unused}
  BY Begun, Continued DEF ClientInv
<1>2. \A s \in Requests : ClientSlot(req[s])'
  <2>1. ClientSlot(req'[r])
    BY <1>1
  <2>2. \A s \in Requests \ {r} : ClientSlot(req'[s])
    BY <1>1 DEF ClientInv
  <2> QED
    BY <2>1, <2>2
<1>3. \A s \in Requests : SlotFits(req[s])'
  <2> SUFFICES ASSUME NEW s \in Requests \ {r}
               PROVE  SlotFits(req[s])'
    BY <1>1
  <2>1. SlotFits(req[s]) /\ req'[s] = req[s]
    BY <1>1 DEF ClientInv
  <2>2. req[s].pc \in OfClient => req[s].client \in Rows
    BY <2>1 DEF SlotFits, Present
  <2> QED
    BY <2>1, <2>2 DEF SlotFits, RowsKept, OfClient
<1>4. ~overlapped' => ClientAlone(req[r])
  <2>1. ~overlapped' /\ req[r] = Idle => Quiescent
    BY <1>1 DEF Quiescent, InFlight
  <2> QED
    BY <1>1, <2>1 DEF ClientInv, InFlight
<1>5. ~overlapped' => ClientAlone(req[r])'
  BY <1>1, <1>4
<1>6. ~overlapped' => \A s \in InFlight' : s = r
  BY <1>1 DEF InFlight
<1>7. ~overlapped' /\ Quiescent' => req'[r] \in {Idle, Unused}
  BY <1>1 DEF Quiescent, InFlight
<1>8. ~overlapped' /\ Quiescent' => ClientAlone(Idle)'
  BY <1>5, <1>7 DEF ClientAlone, NumbersAlone, CompaniesAlone, WholeAlone, Lacks, Idle, Unused
<1>9. ~overlapped' => \A s \in InFlight' : ClientAlone(req[s])'
  BY <1>5, <1>6
<1> QED
  BY <1>1, <1>2, <1>3, <1>8, <1>9 DEF ClientInv

\* A step that leaves some of the tables alone keeps what is said of them.
LEMMA NumbersStay ==
    ASSUME NEW r \in Requests, NumbersAlone(req[r]), UNCHANGED <<company, retired>>,
           (req'[r]).pc \notin {"company", "patchCompany"}
    PROVE  NumbersAlone(req[r])'
<1>1. LiveCompanies' = LiveCompanies
  BY DEF LiveCompanies, Present
<1> QED
  BY <1>1 DEF NumbersAlone

LEMMA CompaniesStay ==
    ASSUME NEW r \in Requests, CompaniesAlone(req[r]), UNCHANGED <<company, client>>,
           (req'[r]).pc \notin {"count", "client", "patchCompany"}
    PROVE  CompaniesAlone(req[r])'
<1>1. Present(client)' = Present(client)
  BY DEF Present
<1> QED
  BY <1>1 DEF CompaniesAlone

LEMMA WholeStays ==
    ASSUME NEW r \in Requests, WholeAlone(req[r]), UNCHANGED <<client, contacts, period>>,
           req[r].pc \notin OfClient, (req'[r]).pc \notin OfClient \ {"open"}
    PROVE  WholeAlone(req[r])'
<1>1. Present(client)' = Present(client)
  BY DEF Present
<1>2. \A k : ~Lacks(req[r], k) /\ ~Lacks(req'[r], k)
  BY DEF Lacks, OfClient
<1> QED
  BY <1>1, <1>2 DEF WholeAlone, OfClient, Lacks

LEMMA RowsStay ==
    ASSUME ClientInv, UNCHANGED clientele
    PROVE  ClientTypes' /\ RowsTogether' /\ RowsKept
<1>1. ClientTypes'
  BY DEF ClientInv, ClientTypes, ClientTypeOK, clientele
<1>2. Present(client)' = Present(client) /\ Present(company)' = Present(company)
  BY DEF Present, clientele
<1>3. RowsTogether'
  BY <1>2 DEF ClientInv, RowsTogether, InOrder, clientele
<1> QED
  BY <1>1, <1>2, <1>3 DEF RowsKept, clientele

LEMMA ClientStarts ==
    ASSUME NEW slots, NEW requests, NEW stops, ServerInit(slots, requests, stops), ClientInit
    PROVE  ClientInv
<1>1. ServerOK /\ \A r \in Requests : req[r] \in {Idle, Unused}
  BY ServerStarts
<1>2. ClientTypes
  <2>1. HomeState \in States /\ 0 \in 0..MaxRows
    BY ClientConstants DEF States
  <2> QED
    BY <2>1 DEF ClientInit, ClientTypes, ClientTypeOK, NoPeriod
<1>3. Present(company) = {} /\ Present(client) = {}
  BY DEF ClientInit, Present
<1>4. RowsTogether
  <2>1. 0 \in 0..MaxRows /\ \A i \in Rows : ~(i <= 0)
    BY ClientConstants DEF Rows
  <2>2. InOrder(company) /\ InOrder(client)
    BY <1>3, <2>1 DEF InOrder
  <2> QED
    BY <1>3, <2>2 DEF RowsTogether, ClientInit
<1>5. InFlight = {}
  BY <1>1 DEF InFlight
<1>6. ClientAlone(Idle)
  BY <1>3 DEF ClientAlone, NumbersAlone, CompaniesAlone, WholeAlone, LiveCompanies, Idle
<1>7. \A r \in Requests : ClientSlot(req[r]) /\ SlotFits(req[r])
  BY <1>1 DEF ClientSlot, SlotFits, OfClient, Idle, Unused
<1> QED
  BY <1>1, <1>2, <1>4, <1>5, <1>6, <1>7 DEF ClientInv

\* A step that leaves the tables as they are.
LEMMA ClientLooks ==
    ASSUME ClientInv, NEW r \in Requests, NEW l, ClientSlot(l),
           Begin(r, l) \/ Fire(r, l) \/ (req[r] \notin {Idle, Unused} /\ Continue(r, l)),
           UNCHANGED clientele, SlotFits(l), ClientAlone(req[r]) => ClientAlone(l)
    PROVE  ClientInv'
<1>1. Present(client)' = Present(client) /\ LiveCompanies' = LiveCompanies /\ Present(company)' = Present(company)
  BY DEF Present, LiveCompanies, clientele
<1>2. req'[r] = l => SlotFits(req[r])'
  BY <1>1 DEF SlotFits, clientele
<1>3. ClientAlone(req[r]) /\ req'[r] = l => ClientAlone(req[r])'
  <2> SUFFICES ASSUME ClientAlone(l), req'[r] = l
               PROVE  ClientAlone(req[r])'
    OBVIOUS
  <2>1. NumbersAlone(req[r])'
    BY <1>1 DEF ClientAlone, NumbersAlone, Free, clientele
  <2>2. CompaniesAlone(req[r])'
    BY <1>1 DEF ClientAlone, CompaniesAlone, clientele
  <2>3. WholeAlone(req[r])'
    BY <1>1 DEF ClientAlone, WholeAlone, Lacks, clientele
  <2> QED
    BY <2>1, <2>2, <2>3 DEF ClientAlone
<1> QED
  BY <1>2, <1>3, RowsStay, ClientKeeps

LEMMA FreeNumber ==
    ASSUME ClientInv, NEW g, NEW except, FirstIsFree(g, except)
    PROVE  Free(g) \/ (except \in Rows /\ company[except].gstin = g)
<1>1. CASE g = None
  BY <1>1 DEF Free
<1>2. CASE With(g) = {}
  BY <1>2 DEF Free, With, LiveCompanies
<1>3. CASE \E c \in With(g) : c = except \/ company[c].deleted
  <2>1. PICK c \in With(g) : c = except \/ company[c].deleted
    BY <1>3
  <2>2. c \in Rows /\ company[c].gstin = g
    BY <2>1 DEF With, Present
  <2> QED
    BY <2>1, <2>2 DEF ClientInv, RowsTogether, Free
<1> QED
  BY <1>1, <1>2, <1>3 DEF FirstIsFree

LEMMA PostCompanyKeeps ==
    ASSUME ClientInv, NEW r \in Requests, NEW g \in Numbers, NEW state \in States, PostCompany(r, g, state)
    PROVE  ClientInv'
<1> DEFINE l == [pc |-> "company", gstin |-> g, state |-> state, kind |-> "company", login |-> FALSE]
<1>1. Begin(r, l) /\ UNCHANGED clientele /\ FirstIsFree(g, 0)
  BY DEF PostCompany
<1>2. req[r] = Idle
  BY <1>1, Begun DEF ClientInv
<1>3. Free(g)
  BY <1>1, FreeNumber, ClientConstants DEF Rows
<1>4. ClientSlot(l) /\ SlotFits(l)
  BY DEF ClientSlot, ClientSlots, SlotFits, OfClient
<1>5. ClientAlone(Idle) => ClientAlone(l)
  BY <1>3 DEF ClientAlone, NumbersAlone, CompaniesAlone, WholeAlone, Lacks, Idle
<1> HIDE DEF l
<1> QED
  BY <1>1, <1>2, <1>4, <1>5, ClientLooks

LEMMA PostClientKeeps ==
    ASSUME ClientInv, NEW r \in Requests, NEW g \in Numbers, NEW state \in States, NEW login \in BOOLEAN,
           PostClient(r, g, state, login)
    PROVE  ClientInv'
<1> DEFINE l == [pc |-> "company", gstin |-> g, state |-> state, kind |-> "client", login |-> login]
<1>1. Begin(r, l) /\ UNCHANGED clientele /\ (g = None \/ With(g) \cap LiveCompanies = {})
  BY DEF PostClient
<1>2. req[r] = Idle
  BY <1>1, Begun DEF ClientInv
<1>3. Free(g)
  BY <1>1 DEF Free, With, LiveCompanies
<1>4. ClientSlot(l) /\ SlotFits(l)
  BY DEF ClientSlot, ClientSlots, SlotFits, OfClient
<1>5. ClientAlone(Idle) => ClientAlone(l)
  BY <1>3 DEF ClientAlone, NumbersAlone, CompaniesAlone, WholeAlone, Lacks, Idle
<1> HIDE DEF l
<1> QED
  BY <1>1, <1>2, <1>4, <1>5, ClientLooks

\* A row that is there and the number a client is given.
LEMMA ClientTable ==
    ASSUME ClientInv
    PROVE  /\ Fresh(client) \in 1..(MaxRows + 1)
           /\ \A i \in Rows : i \in Present(client) <=> i < Fresh(client)
           /\ Fresh(company) \in 1..(MaxRows + 1)
           /\ \A i \in Rows : i \in Present(company) <=> i < Fresh(company)
BY NextRow DEF ClientInv, RowsTogether

LEMMA CountClientsKeeps ==
    ASSUME ClientInv, NEW r \in Requests, CountClients(r)
    PROVE  ClientInv'
<1> DEFINE l == [pc |-> "client", company |-> req[r].company, login |-> req[r].login,
                 code |-> Cardinality(Present(client)) + 1]
<1>1. Continue(r, l) /\ UNCHANGED clientele /\ req[r].pc = "count"
  BY DEF CountClients, At
<1>2. req[r] \notin {Idle, Unused} /\ ClientSlot(req[r])
  BY <1>1 DEF ClientInv, Idle, Unused
<1>3. req[r] \in ClientSlots
  BY <1>1, <1>2, ClientSlotKinds
<1>4. req[r].company \in Rows /\ req[r].login \in BOOLEAN
  BY <1>1, <1>3 DEF ClientSlots
<1>5. l.code = Fresh(client)
  BY DEF Fresh
<1>6. l.code \in Nat /\ \A i \in Rows : i < l.code => i \in Present(client)
  BY <1>5, ClientTable
<1>7. l.pc = "client" /\ l.company = req[r].company
  OBVIOUS
<1>8. ClientSlot(l)
  <2>1. Cardinality(Present(client)) + 1 \in Nat
    BY <1>6
  <2> QED
    BY <1>4, <2>1 DEF ClientSlot, ClientSlots
<1> HIDE DEF l
<1>9. SlotFits(l)
  BY <1>6, <1>7 DEF SlotFits, OfClient
<1>10. ClientAlone(req[r]) => ClientAlone(l)
  BY <1>1, <1>7 DEF ClientAlone, NumbersAlone, CompaniesAlone, WholeAlone, Lacks
<1> QED
  BY <1>1, <1>2, <1>8, <1>9, <1>10, ClientLooks

LEMMA PeriodKeeps ==
    ASSUME ClientInv, NEW r \in Requests, NEW k \in Rows, PostPeriod(r, k) \/ OpenMonthlyPeriods(r, k)
    PROVE  ClientInv'
<1> DEFINE l == [pc |-> "open", client |-> k]
<1>1. (Begin(r, l) \/ Fire(r, l)) /\ UNCHANGED clientele /\ k \in Present(client)
  BY DEF PostPeriod, OpenMonthlyPeriods, Present
<1>2. req[r] = Idle
  BY <1>1, Begun DEF ClientInv
<1>3. ClientSlot(l) /\ SlotFits(l)
  BY <1>1 DEF ClientSlot, ClientSlots, SlotFits, OfClient
<1>4. ClientAlone(Idle) => ClientAlone(l)
  BY DEF ClientAlone, NumbersAlone, CompaniesAlone, WholeAlone, Lacks, Idle
<1> HIDE DEF l
<1> QED
  BY <1>1, <1>2, <1>3, <1>4, ClientLooks

LEMMA PatchCompanyKeeps ==
    ASSUME ClientInv, NEW r \in Requests, NEW c \in Rows, NEW g \in Numbers, NEW state \in States,
           PatchCompany(r, c, g, state)
    PROVE  ClientInv'
<1> DEFINE final == [gstin |-> IF g = None THEN company[c].gstin ELSE g, state |-> state]
           patch == IF g = None THEN [state |-> state] ELSE final
           l == [pc |-> "patchCompany", c |-> c, patch |-> patch]
<1>1. Begin(r, l) /\ UNCHANGED clientele /\ c \in Present(company)
  BY DEF PatchCompany
<1>2. g # company[c].gstin => FirstIsFree(g, c)
  BY DEF PatchCompany
<1>3. req[r] = Idle
  BY <1>1, Begun DEF ClientInv
<1>4. g = company[c].gstin \/ Free(g)
  BY <1>2, FreeNumber
<1>5. /\ CompanyPatch(patch) /\ "deleted" \notin DOMAIN patch
      /\ "gstin" \in DOMAIN patch => patch["gstin"] = g
  <2>1. CASE g = None
    BY <2>1 DEF CompanyPatch
  <2>2. CASE g # None
    <3>1. patch = final /\ final = [gstin |-> g, state |-> state]
      BY <2>2
    <3> QED
      BY <3>1 DEF CompanyPatch
  <2> QED
    BY <2>1, <2>2
<1>6. l.pc = "patchCompany" /\ l.c = c /\ l.patch = patch /\ l = [pc |-> "patchCompany", c |-> c, patch |-> patch]
  OBVIOUS
<1> HIDE DEF l, patch
<1>7. ClientSlot(l) /\ SlotFits(l)
  BY <1>1, <1>5, <1>6 DEF ClientSlot, CompanySlot, SlotFits, OfClient
<1>8. ClientAlone(Idle) => ClientAlone(l)
  BY <1>4, <1>5, <1>6 DEF ClientAlone, NumbersAlone, CompaniesAlone, WholeAlone, Lacks, Idle
<1> QED
  BY <1>1, <1>3, <1>7, <1>8, ClientLooks

LEMMA ArchiveCompanyKeeps ==
    ASSUME ClientInv, NEW r \in Requests, NEW c \in Rows, ArchiveCompany(r, c)
    PROVE  ClientInv'
<1> DEFINE patch == [status |-> "archived", deleted |-> TRUE]
           l == [pc |-> "patchCompany", c |-> c, patch |-> patch]
<1>1. /\ Begin(r, l) /\ UNCHANGED clientele /\ c \in Present(company)
      /\ \A k \in Present(client) : client[k].company # c
  BY DEF ArchiveCompany
<1>2. req[r] = Idle
  BY <1>1, Begun DEF ClientInv
<1>3. CompanyPatch(patch) /\ "gstin" \notin DOMAIN patch
  BY DEF CompanyPatch
<1>4. l.pc = "patchCompany" /\ l.c = c /\ l.patch = patch /\ l = [pc |-> "patchCompany", c |-> c, patch |-> patch]
  OBVIOUS
<1> HIDE DEF l, patch
<1>5. ClientSlot(l) /\ SlotFits(l)
  BY <1>1, <1>3, <1>4 DEF ClientSlot, CompanySlot, SlotFits, OfClient
<1>6. ClientAlone(Idle) => ClientAlone(l)
  BY <1>1, <1>3, <1>4 DEF ClientAlone, NumbersAlone, CompaniesAlone, WholeAlone, Lacks, Idle
<1> QED
  BY <1>1, <1>2, <1>5, <1>6, ClientLooks

\* A row that is inserted is the next one.
LEMMA Inserted ==
    ASSUME NEW table, DOMAIN table = Rows, InOrder(table), Fresh(table) \in Rows, NEW row, row.status # "absent",
           NEW after, after = [table EXCEPT ![Fresh(table)] = row]
    PROVE  /\ Present(after) = Present(table) \cup {Fresh(table)}
           /\ Fresh(table) \notin Present(table)
           /\ InOrder(after)
           /\ after[Fresh(table)] = row /\ \A i \in Rows \ {Fresh(table)} : after[i] = table[i]
<1> DEFINE c == Fresh(table)
<1>1. c \in Rows /\ \A i \in Rows : i \in Present(table) <=> i < c
  BY NextRow
<1>2. c \in 0..MaxRows /\ \A i \in Rows : i \in Nat
  BY <1>1, ClientConstants DEF Rows
<1> HIDE DEF c
<1>3. after[c] = row /\ \A i \in Rows \ {c} : after[i] = table[i]
  BY <1>1 DEF c
<1>4. \A i \in Rows : i \in Present(after) <=> i \in Present(table) \/ i = c
  BY <1>3 DEF Present
<1>5. Present(after) = Present(table) \cup {c}
  BY <1>1, <1>4 DEF Present
<1>6. \A i \in Rows : i < c \/ i = c <=> i <= c
  BY <1>2
<1>7. InOrder(after)
  BY <1>1, <1>2, <1>4, <1>6 DEF InOrder
<1>8. c \notin Present(table)
  BY <1>1, <1>2
<1> QED
  BY <1>3, <1>5, <1>7, <1>8 DEF c

LEMMA InsertCompanyKeeps ==
    ASSUME ClientInv, NEW r \in Requests, InsertCompany(r)
    PROVE  ClientInv'
<1> DEFINE c == Fresh(company)
           g == req[r].gstin
           row == [status |-> "active", deleted |-> FALSE, gstin |-> g, state |-> req[r].state]
           l == IF req[r].kind = "company" THEN Idle
                ELSE [pc |-> "count", company |-> c, login |-> req[r].login]
<1>1. /\ Continue(r, l) /\ req[r].pc = "company" /\ c \in Rows
      /\ company' = [company EXCEPT ![c] = row]
      /\ UNCHANGED <<client, contacts, period, portal, retired>>
  BY DEF InsertCompany, At
<1>2. req[r] \notin {Idle, Unused} /\ ClientSlot(req[r])
  BY <1>1 DEF ClientInv, Idle, Unused
<1>3. req[r] \in ClientSlots
  BY <1>1, <1>2, ClientSlotKinds
<1>4. g \in Numbers /\ req[r].state \in States /\ req[r].login \in BOOLEAN
  BY <1>1, <1>3 DEF ClientSlots
<1>5. row \in CompanyRow /\ row.status = "active" /\ ~row.deleted /\ row.gstin = g
  BY <1>4 DEF CompanyRow
<1>6. ClientSlot(l)
  BY <1>1, <1>4 DEF ClientSlot, ClientSlots
<1>7. l = Idle \/ (l.pc = "count" /\ l.company = c)
  OBVIOUS
<1>8. company \in [Rows -> CompanyRow] /\ InOrder(company)
  BY ClientRows DEF ClientInv, RowsTogether
<1> HIDE DEF row, l
<1>9. /\ Present(company)' = Present(company) \cup {c}
      /\ c \notin Present(company)
      /\ InOrder(company)'
      /\ company'[c] = row /\ \A i \in Rows \ {c} : company'[i] = company[i]
  <2>1. DOMAIN company = Rows /\ Fresh(company) \in Rows /\ row.status # "absent"
    BY <1>1, <1>5, <1>8
  <2>2. company' = [company EXCEPT ![Fresh(company)] = row]
    BY <1>1
  <2>3. /\ Present(company') = Present(company) \cup {Fresh(company)}
        /\ Fresh(company) \notin Present(company)
        /\ InOrder(company')
        /\ company'[Fresh(company)] = row /\ \A i \in Rows \ {Fresh(company)} : company'[i] = company[i]
    BY <1>8, <2>1, <2>2, Inserted
  <2> QED
    BY <2>3
<1> HIDE DEF c, g
<1>10. LiveCompanies' = LiveCompanies \cup {c} /\ c \notin LiveCompanies
  BY <1>5, <1>9 DEF LiveCompanies, Present
<1>11. Present(client)' = Present(client)
  BY <1>1 DEF Present
<1>12. ClientTypes'
  <2>1. company' \in [Rows -> CompanyRow]
    BY <1>1, <1>5, <1>8
  <2> QED
    BY <1>1, <2>1 DEF ClientInv, ClientTypes, ClientTypeOK, CompanyRow, Numbers
<1>13. RowsTogether'
  <2>1. InOrder(client)'
    BY <1>1, <1>11 DEF ClientInv, RowsTogether, InOrder
  <2>2. \A i \in Rows : company'[i].deleted => company'[i].gstin \in retired'
    BY <1>1, <1>5, <1>9 DEF ClientInv, RowsTogether
  <2> QED
    BY <1>1, <1>9, <1>11, <2>1, <2>2 DEF ClientInv, RowsTogether
<1>14. RowsKept
  BY <1>1, <1>9, <1>11 DEF RowsKept
<1>15. req'[r] = l => SlotFits(req[r])'
  BY <1>7 DEF SlotFits, OfClient, Idle
<1>16. ASSUME ClientAlone(req[r]), req'[r] = l
       PROVE  ClientAlone(req[r])'
  <2>1. NumbersAlone(req[r])'
    <3>1. Free(g) /\ \A i \in LiveCompanies : i \in Rows \ {c}
      BY <1>1, <1>9, <1>16 DEF ClientAlone, NumbersAlone, g, LiveCompanies, Present
    <3>2. \A i \in LiveCompanies : company'[i] = company[i]
      BY <1>9, <3>1
    <3>3. ASSUME NEW i \in LiveCompanies', NEW j \in LiveCompanies', i # j,
                 company'[i].gstin = company'[j].gstin
          PROVE  company'[i].gstin \in retired \cup {None}
      <4>1. CASE i = c
        BY <1>5, <1>9, <1>10, <3>1, <3>2, <3>3, <4>1 DEF Free
      <4>2. CASE j = c
        BY <1>5, <1>9, <1>10, <3>1, <3>2, <3>3, <4>2 DEF Free
      <4>3. CASE i # c /\ j # c
        BY <1>10, <1>16, <3>2, <3>3, <4>3 DEF ClientAlone, NumbersAlone
      <4> QED
        BY <4>1, <4>2, <4>3
    <3> QED
      BY <1>1, <1>7, <1>16, <3>3 DEF NumbersAlone, Idle
  <2>2. CompaniesAlone(req[r])'
    BY <1>1, <1>5, <1>7, <1>9, <1>11, <1>16 DEF ClientAlone, CompaniesAlone, ClientInv, RowsTogether, Idle, Present
  <2>3. WholeAlone(req[r])'
    BY <1>1, <1>7, <1>16, WholeStays DEF ClientAlone, OfClient, Idle
  <2> QED
    BY <2>1, <2>2, <2>3 DEF ClientAlone
<1> QED
  BY <1>1, <1>2, <1>6, <1>12, <1>13, <1>14, <1>15, <1>16, ClientKeeps

LEMMA InsertClientKeeps ==
    ASSUME ClientInv, NEW r \in Requests, InsertClient(r)
    PROVE  ClientInv'
<1> DEFINE k == Fresh(client)
           taken == \E j \in Present(client) : client[j].code = req[r].code
           row == [status |-> "active", deleted |-> FALSE, company |-> req[r].company, code |-> req[r].code]
           l == IF taken THEN Idle
                ELSE [pc |-> IF req[r].login THEN "login" ELSE "contact",
                      client |-> k, company |-> req[r].company]
<1>1. /\ Continue(r, l) /\ req[r].pc = "client" /\ k \in Rows
      /\ client' = IF taken THEN client ELSE [client EXCEPT ![k] = row]
      /\ UNCHANGED <<company, contacts, period, portal, retired>>
  BY DEF InsertClient, At
<1>2. req[r] \notin {Idle, Unused} /\ ClientSlot(req[r])
  BY <1>1 DEF ClientInv, Idle, Unused
<1>3. req[r] \in ClientSlots
  BY <1>1, <1>2, ClientSlotKinds
<1>4. req[r].company \in Rows /\ req[r].code \in Nat
  BY <1>1, <1>3 DEF ClientSlots
<1>5. CASE taken
  <2>1. Continue(r, Idle) /\ UNCHANGED clientele
    BY <1>1, <1>5 DEF clientele
  <2>2. ClientSlot(Idle) /\ SlotFits(Idle)
    BY DEF ClientSlot, SlotFits, OfClient, Idle
  <2>3. ClientAlone(req[r]) => ClientAlone(Idle)
    BY <1>1 DEF ClientAlone, NumbersAlone, CompaniesAlone, WholeAlone, Lacks, Idle
  <2> QED
    BY <1>2, <2>1, <2>2, <2>3, ClientLooks
<1>6. CASE ~taken
  <2>1. client' = [client EXCEPT ![k] = row]
    BY <1>1, <1>6
  <2>2. l.pc \in {"login", "contact"} /\ l.client = k /\ ClientSlot(l)
    BY <1>1, <1>4, <1>6 DEF ClientSlot, ClientSlots
  <2>3. row.company = req[r].company /\ row.status = "active"
    OBVIOUS
  <2>4. client \in [Rows -> ClientRow] /\ InOrder(client)
    BY ClientRows DEF ClientInv, RowsTogether
  <2>5. req[r].code \in 0..MaxRows
    <3>1. \A i \in Rows : i < req[r].code => i < k
      BY <1>1, ClientTable DEF ClientInv, SlotFits
    <3>2. k \in Nat /\ 1 <= k /\ k <= MaxRows /\ MaxRows \in Nat /\ Rows = 1..MaxRows
      BY <1>1, ClientConstants DEF Rows
    <3> HIDE DEF k
    <3> QED
      BY <1>4, <3>1, <3>2
  <2>6. row \in ClientRow
    BY <1>4, <2>5, ClientConstants DEF ClientRow, Rows
  <2> HIDE DEF row, l
  <2>7. /\ Present(client)' = Present(client) \cup {k}
        /\ k \notin Present(client)
        /\ InOrder(client)'
        /\ client'[k] = row /\ \A i \in Rows \ {k} : client'[i] = client[i]
    <3>1. DOMAIN client = Rows /\ Fresh(client) \in Rows /\ row.status # "absent"
      BY <1>1, <2>3, <2>4
    <3>2. client' = [client EXCEPT ![Fresh(client)] = row]
      BY <2>1
    <3>3. /\ Present(client') = Present(client) \cup {Fresh(client)}
          /\ Fresh(client) \notin Present(client)
          /\ InOrder(client')
          /\ client'[Fresh(client)] = row /\ \A i \in Rows \ {Fresh(client)} : client'[i] = client[i]
      BY <2>4, <3>1, <3>2, Inserted
    <3> QED
      BY <3>3
  <2> HIDE DEF k
  <2>8. \A i \in Present(client) : i \in Rows \ {k} /\ client'[i] = client[i]
    BY <2>7 DEF Present
  <2>9. Present(company)' = Present(company) /\ LiveCompanies' = LiveCompanies
    BY <1>1 DEF Present, LiveCompanies
  <2>10. ClientTypes'
    <3>1. client' \in [Rows -> ClientRow]
      BY <2>1, <2>4, <2>6
    <3> QED
      BY <1>1, <3>1 DEF ClientInv, ClientTypes, ClientTypeOK, ClientRow
  <2>11. RowsTogether'
    <3>1. InOrder(company)'
      BY <1>1, <2>9 DEF ClientInv, RowsTogether, InOrder
    <3>2. \A i \in Present(client)' : client'[i].company \in Rows
      BY <1>4, <2>3, <2>7, <2>8 DEF ClientInv, RowsTogether
    <3> QED
      BY <1>1, <2>7, <2>9, <3>1, <3>2 DEF ClientInv, RowsTogether
  <2>12. RowsKept
    BY <1>1, <2>7, <2>9 DEF RowsKept
  <2>13. req'[r] = l => SlotFits(req[r])'
    BY <2>2, <2>7 DEF SlotFits, OfClient
  <2>14. ASSUME ClientAlone(req[r]), req'[r] = l
         PROVE  ClientAlone(req[r])'
    <3>1. NumbersAlone(req[r])'
      BY <1>1, <2>2, <2>14, NumbersStay DEF ClientAlone
    <3>2. CompaniesAlone(req[r])'
      <4>1. ~company[req[r].company].deleted /\ \A i \in Present(client) : ~company[client[i].company].deleted
        BY <1>1, <2>14 DEF ClientAlone, CompaniesAlone
      <4>2. ASSUME NEW i \in Present(client)'
            PROVE  ~company'[client'[i].company].deleted
        <5>1. i = k \/ (i \in Present(client) /\ i # k)
          BY <2>7, <4>2
        <5>2. CASE i = k
          BY <1>1, <2>3, <2>7, <4>1, <5>2
        <5>3. CASE i \in Present(client)
          BY <1>1, <2>8, <4>1, <5>3
        <5> QED
          BY <5>1, <5>2, <5>3
      <4>3. (req'[r]).pc \in {"login", "contact"}
        BY <2>2, <2>14
      <4> QED
        BY <4>2, <4>3 DEF CompaniesAlone
    <3>3. WholeAlone(req[r])'
      <4>1. contacts[k].primary = 0 /\ period[k] = NoPeriod
        BY <1>1, <2>7 DEF ClientInv, RowsTogether
      <4>2. \A i \in Present(client) : contacts[i].primary = 1 /\ period[i] \in {NoPeriod, Checklist}
        BY <1>1, <2>14 DEF ClientAlone, WholeAlone, Lacks
      <4>3. \A i : Lacks(req[r], i)' <=> i = k
        BY <2>2, <2>14 DEF Lacks
      <4>4. ASSUME NEW i \in Present(client)'
            PROVE  /\ contacts'[i].primary = IF Lacks(req[r], i)' THEN 0 ELSE 1
                   /\ period'[i] \in {NoPeriod, Checklist}
        <5>1. i = k \/ (i \in Present(client) /\ i # k)
          BY <2>7, <4>4
        <5> QED
          BY <1>1, <4>1, <4>2, <4>3, <5>1
      <4> QED
        BY <2>2, <2>14, <4>4 DEF WholeAlone
    <3> QED
      BY <3>1, <3>2, <3>3 DEF ClientAlone
  <2> QED
    BY <1>1, <1>2, <2>2, <2>10, <2>11, <2>12, <2>13, <2>14, ClientKeeps
<1> QED
  BY <1>5, <1>6

\* A step on the clients that are there, their contacts, periods and logins.
LEMMA SameClients ==
    ASSUME ClientInv, UNCHANGED <<company, retired>>,
           client' \in [Rows -> ClientRow], contacts' \in [Rows -> ContactRow],
           period' \in [Rows -> SUBSET (Checklist \cup {None})], portal' \subseteq Rows,
           \A i \in Rows : /\ client'[i].status = "absent" <=> client[i].status = "absent"
                           /\ client'[i].company = client[i].company
                           /\ period'[i] = period[i] \/ period'[i] \subseteq Checklist,
           \A i \in Rows \ Present(client) : contacts'[i] = contacts[i] /\ period'[i] = period[i]
    PROVE  /\ ClientTypes' /\ RowsTogether' /\ RowsKept
           /\ Present(client)' = Present(client) /\ LiveCompanies' = LiveCompanies
           /\ Present(company)' = Present(company)
<1>1. /\ Present(client)' = Present(client) /\ LiveCompanies' = LiveCompanies
      /\ Present(company)' = Present(company)
  BY DEF Present, LiveCompanies
<1>2. \A i \in Rows : period'[i] # NoPeriod => period'[i] \subseteq Checklist
  BY DEF ClientInv, ClientTypes, ClientTypeOK
<1>3. ClientTypes'
  BY <1>2 DEF ClientInv, ClientTypes, ClientTypeOK, ClientRow, ContactRow
<1>4. RowsTogether'
  <2>1. InOrder(company)' /\ InOrder(client)'
    BY <1>1 DEF ClientInv, RowsTogether, InOrder
  <2>2. \A k \in Present(client)' : client'[k].company \in Rows
    BY <1>1 DEF ClientInv, RowsTogether, Present
  <2> QED
    BY <1>1, <2>1, <2>2 DEF ClientInv, RowsTogether
<1>5. RowsKept
  BY <1>1 DEF RowsKept
<1> QED
  BY <1>1, <1>3, <1>4, <1>5

LEMMA OthersStay ==
    ASSUME NEW r \in Requests, NumbersAlone(req[r]), CompaniesAlone(req[r]), UNCHANGED <<company, retired>>,
           Present(client)' = Present(client), \A i \in Rows : client'[i].company = client[i].company,
           (req'[r]).pc \in OfClient \cup {"idle"}
    PROVE  NumbersAlone(req[r])' /\ CompaniesAlone(req[r])'
<1>1. NumbersAlone(req[r])'
  BY NumbersStay DEF OfClient
<1>2. CompaniesAlone(req[r])'
  BY DEF CompaniesAlone, OfClient, Present
<1> QED
  BY <1>1, <1>2

\* The handler of a slot that is about a client.
LEMMA AClient ==
    ASSUME ClientInv, NEW r \in Requests, req[r].pc \in OfClient
    PROVE  /\ req[r] \notin {Idle, Unused} /\ req[r] \in ClientSlots
           /\ req[r].client \in Rows /\ req[r].client \in Present(client)
<1>1. req[r] \notin {Idle, Unused} /\ ClientSlot(req[r]) /\ SlotFits(req[r])
  BY DEF ClientInv, OfClient, Idle, Unused
<1>2. req[r].pc # "patchCompany"
  BY DEF OfClient
<1> QED
  BY <1>1, <1>2, ClientSlotKinds DEF SlotFits

LEMMA CreateLoginKeeps ==
    ASSUME ClientInv, NEW r \in Requests, CreateLogin(r)
    PROVE  ClientInv'
<1> DEFINE l == [req[r] EXCEPT !.pc = "contact"]
<1>1. /\ Continue(r, l) /\ req[r].pc = "login" /\ UNCHANGED <<company, client, contacts, period, retired>>
      /\ portal' = IF portal = {} THEN {req[r].company} ELSE portal
  BY DEF CreateLogin, At
<1>2. req[r] \notin {Idle, Unused} /\ req[r] \in ClientSlots /\ req[r].client \in Present(client)
  BY <1>1, AClient DEF OfClient
<1>3. req[r] \in [pc : {"login", "contact"}, client : Rows, company : Rows]
  BY <1>1, <1>2 DEF ClientSlots
<1>4. l.pc = "contact" /\ l.client = req[r].client /\ l \in ClientSlots
  BY <1>3 DEF ClientSlots
<1> HIDE DEF l
<1>5. portal' \subseteq Rows
  BY <1>1, <1>3, ClientRows
<1>6. /\ ClientTypes' /\ RowsTogether' /\ RowsKept
      /\ Present(client)' = Present(client)
  BY <1>1, <1>5, ClientRows, SameClients
<1>7. req'[r] = l => SlotFits(req[r])'
  BY <1>2, <1>4, <1>6 DEF SlotFits
<1>8. ASSUME ClientAlone(req[r]), req'[r] = l
      PROVE  ClientAlone(req[r])'
  <2>1. NumbersAlone(req[r])' /\ CompaniesAlone(req[r])'
    BY <1>1, <1>4, <1>6, <1>8, OthersStay DEF ClientAlone, OfClient
  <2>2. \A i : Lacks(req[r], i)' <=> Lacks(req[r], i)
    BY <1>1, <1>4, <1>8 DEF Lacks
  <2>3. WholeAlone(req[r])'
    BY <1>1, <1>4, <1>6, <1>8, <2>2 DEF ClientAlone, WholeAlone
  <2> QED
    BY <2>1, <2>3 DEF ClientAlone
<1> QED
  BY <1>1, <1>2, <1>4, <1>6, <1>7, <1>8, ClientKeeps DEF ClientSlot

LEMMA InsertContactKeeps ==
    ASSUME ClientInv, NEW r \in Requests, InsertContact(r)
    PROVE  ClientInv'
<1> DEFINE k == req[r].client
           l == [pc |-> "open", client |-> k]
<1>1. /\ Continue(r, l) /\ req[r].pc = "contact" /\ UNCHANGED <<company, client, period, portal, retired>>
      /\ contacts' = [contacts EXCEPT ![k].primary = @ + 1]
  BY DEF InsertContact, At
<1>2. req[r] \notin {Idle, Unused} /\ k \in Present(client) /\ k \in Rows
  BY <1>1, AClient DEF OfClient
<1> HIDE DEF k
<1>3. l.pc = "open" /\ l.client = k /\ l \in ClientSlots
  BY <1>2 DEF ClientSlots
<1> HIDE DEF l
<1>4. contacts \in [Rows -> ContactRow]
  BY ClientRows
<1>5. /\ contacts' \in [Rows -> ContactRow]
      /\ contacts'[k].primary = contacts[k].primary + 1
      /\ \A i \in Rows \ {k} : contacts'[i] = contacts[i]
  BY <1>1, <1>2, <1>4 DEF ContactRow
<1>6. /\ ClientTypes' /\ RowsTogether' /\ RowsKept
      /\ Present(client)' = Present(client)
  BY <1>1, <1>2, <1>5, ClientRows, SameClients
<1>7. req'[r] = l => SlotFits(req[r])'
  BY <1>2, <1>3, <1>6 DEF SlotFits
<1>8. ASSUME ClientAlone(req[r]), req'[r] = l
      PROVE  ClientAlone(req[r])'
  <2>1. NumbersAlone(req[r])' /\ CompaniesAlone(req[r])'
    BY <1>1, <1>3, <1>6, <1>8, OthersStay DEF ClientAlone, OfClient
  <2>2. \A i : ~Lacks(req[r], i)' /\ (Lacks(req[r], i) <=> i = k)
    BY <1>1, <1>3, <1>8 DEF Lacks, k
  <2>3. \A i \in Present(client) : contacts'[i].primary = 1
    BY <1>5, <1>8, <2>2 DEF ClientAlone, WholeAlone, Present
  <2>4. WholeAlone(req[r])'
    BY <1>1, <1>3, <1>6, <1>8, <2>2, <2>3 DEF ClientAlone, WholeAlone
  <2> QED
    BY <2>1, <2>4 DEF ClientAlone
<1> QED
  BY <1>1, <1>2, <1>3, <1>6, <1>7, <1>8, ClientKeeps DEF ClientSlot

\* A handler that returns without a change.
LEMMA NothingDone ==
    ASSUME ClientInv, NEW r \in Requests, req[r].pc \in {"open", "items"}, Continue(r, Idle), UNCHANGED clientele,
           req[r].pc = "items" => req[r].left = {}
    PROVE  ClientInv'
<1>1. req[r] \notin {Idle, Unused}
  BY AClient DEF OfClient
<1>2. ClientSlot(Idle) /\ SlotFits(Idle)
  BY DEF ClientSlot, SlotFits, OfClient, Idle
<1>3. ASSUME ClientAlone(req[r])
      PROVE  ClientAlone(Idle)
  <2>1. \A i : ~Lacks(req[r], i) /\ ~Lacks(Idle, i)
    BY DEF Lacks, Idle
  <2>2. WholeAlone(Idle)
    BY <1>3, <2>1 DEF ClientAlone, WholeAlone, Idle
  <2> QED
    BY <1>3, <2>2 DEF ClientAlone, NumbersAlone, CompaniesAlone, Idle
<1> QED
  BY <1>1, <1>2, <1>3, ClientLooks

LEMMA OpenPeriodKeeps ==
    ASSUME ClientInv, NEW r \in Requests, OpenPeriod(r)
    PROVE  ClientInv'
<1> DEFINE k == req[r].client
           l == [pc |-> "items", client |-> k, left |-> Checklist]
<1>1. req[r].pc = "open" /\ UNCHANGED <<company, client, contacts, portal, retired>>
  BY DEF OpenPeriod, At
<1>2. CASE period[k] # NoPeriod
  BY <1>1, <1>2, NothingDone DEF OpenPeriod, Return, clientele
<1>3. CASE period[k] = NoPeriod
  <2>1. Continue(r, l) /\ period' = [period EXCEPT ![k] = {}]
    BY <1>3 DEF OpenPeriod
  <2>2. req[r] \notin {Idle, Unused} /\ k \in Present(client) /\ k \in Rows
    BY <1>1, AClient DEF OfClient
  <2> HIDE DEF k
  <2>3. l.pc = "items" /\ l.client = k /\ l.left = Checklist /\ l \in ClientSlots
    BY <2>2 DEF ClientSlots
  <2> HIDE DEF l
  <2>4. period \in [Rows -> SUBSET (Checklist \cup {None})]
    BY ClientRows
  <2>5. /\ period' \in [Rows -> SUBSET (Checklist \cup {None})]
        /\ period'[k] = {} /\ \A i \in Rows \ {k} : period'[i] = period[i]
    BY <2>1, <2>2, <2>4
  <2>6. /\ ClientTypes' /\ RowsTogether' /\ RowsKept
        /\ Present(client)' = Present(client)
    BY <1>1, <2>2, <2>5, ClientRows, SameClients
  <2>7. req'[r] = l => SlotFits(req[r])'
    BY <2>2, <2>3, <2>5, <2>6 DEF SlotFits
  <2>8. ASSUME ClientAlone(req[r]), req'[r] = l
        PROVE  ClientAlone(req[r])'
    <3>1. NumbersAlone(req[r])' /\ CompaniesAlone(req[r])'
      BY <1>1, <2>3, <2>6, <2>8, OthersStay DEF ClientAlone, OfClient
    <3>2. \A i : ~Lacks(req[r], i)' /\ ~Lacks(req[r], i)
      BY <1>1, <2>3, <2>8 DEF Lacks
    <3>3. \A i \in Present(client) : contacts[i].primary = 1 /\ period[i] \in {NoPeriod, Checklist}
      BY <1>1, <2>8, <3>2 DEF ClientAlone, WholeAlone
    <3>4. \A i \in Present(client) : i # k => period'[i] = period[i]
      BY <2>5 DEF Present
    <3>5. WholeAlone(req[r])'
      BY <1>1, <2>3, <2>5, <2>6, <2>8, <3>2, <3>3, <3>4 DEF WholeAlone
    <3> QED
      BY <3>1, <3>5 DEF ClientAlone
  <2> QED
    BY <2>1, <2>2, <2>3, <2>6, <2>7, <2>8, ClientKeeps DEF ClientSlot
<1> QED
  BY <1>2, <1>3

LEMMA InsertItemKeeps ==
    ASSUME ClientInv, NEW r \in Requests, InsertItem(r)
    PROVE  ClientInv'
<1>1. req[r].pc = "items" /\ UNCHANGED <<company, client, contacts, portal, retired>>
  BY DEF InsertItem, At
<1>2. CASE req[r].left = {}
  BY <1>1, <1>2, NothingDone DEF InsertItem, Return, clientele
<1>3. CASE req[r].left # {}
  <2> DEFINE k == req[r].client
  <2>1. PICK t \in req[r].left : /\ period' = [period EXCEPT ![k] = @ \cup {t}]
                                 /\ Continue(r, [req[r] EXCEPT !.left = @ \ {t}])
    BY <1>3 DEF InsertItem
  <2> DEFINE l == [req[r] EXCEPT !.left = @ \ {t}]
  <2>2. req[r] \notin {Idle, Unused} /\ k \in Present(client) /\ k \in Rows /\ req[r] \in ClientSlots
    BY <1>1, AClient DEF OfClient
  <2>3. req[r] \in [pc : {"items"}, client : Rows, left : SUBSET Checklist]
    BY <1>1, <2>2 DEF ClientSlots
  <2>4. l.pc = "items" /\ l.client = k /\ l.left = req[r].left \ {t} /\ l \in ClientSlots
    BY <2>3 DEF ClientSlots
  <2>5. Continue(r, l) /\ t \in Checklist
    BY <2>1, <2>3
  <2> HIDE DEF k, l
  <2>6. period \in [Rows -> SUBSET (Checklist \cup {None})] /\ period[k] \subseteq Checklist
    BY <1>1, ClientRows DEF ClientInv, SlotFits, k
  <2>7. /\ period' \in [Rows -> SUBSET (Checklist \cup {None})]
        /\ period'[k] = period[k] \cup {t} /\ \A i \in Rows \ {k} : period'[i] = period[i]
    BY <2>1, <2>2, <2>5, <2>6
  <2>8. /\ ClientTypes' /\ RowsTogether' /\ RowsKept
        /\ Present(client)' = Present(client)
    BY <1>1, <2>2, <2>5, <2>6, <2>7, ClientRows, SameClients
  <2>9. req'[r] = l => SlotFits(req[r])'
    BY <2>2, <2>4, <2>5, <2>6, <2>7, <2>8 DEF SlotFits
  <2>10. ASSUME ClientAlone(req[r]), req'[r] = l
         PROVE  ClientAlone(req[r])'
    <3>1. NumbersAlone(req[r])' /\ CompaniesAlone(req[r])'
      BY <1>1, <2>4, <2>8, <2>10, OthersStay DEF ClientAlone, OfClient
    <3>2. \A i : ~Lacks(req[r], i)' /\ ~Lacks(req[r], i)
      BY <1>1, <2>4, <2>10 DEF Lacks
    <3>3. /\ \A i \in Present(client) : contacts[i].primary = 1 /\ (i # k => period[i] \in {NoPeriod, Checklist})
          /\ period[k] \cup req[r].left = Checklist
      BY <1>1, <2>2, <2>10, <3>2 DEF ClientAlone, WholeAlone, k
    <3>4. \A i \in Present(client) : i # k => period'[i] = period[i]
      BY <2>7 DEF Present
    <3>5. period'[k] \cup l.left = Checklist
      BY <2>1, <2>4, <2>7, <3>3
    <3>6. WholeAlone(req[r])'
      BY <1>1, <2>4, <2>7, <2>8, <2>10, <3>2, <3>3, <3>4, <3>5 DEF WholeAlone
    <3> QED
      BY <3>1, <3>6 DEF ClientAlone
  <2> QED
    BY <2>2, <2>4, <2>5, <2>8, <2>9, <2>10, ClientKeeps DEF ClientSlot
<1> QED
  BY <1>2, <1>3

LEMMA CompanyUpdated ==
    ASSUME NEW row \in CompanyRow, NEW patch, CompanyPatch(patch)
    PROVE  /\ Update(row, patch) \in CompanyRow
           /\ Update(row, patch).status \in {row.status, "archived"}
           /\ Update(row, patch).deleted = (row.deleted \/ "deleted" \in DOMAIN patch)
           /\ Update(row, patch).gstin = IF "gstin" \in DOMAIN patch THEN patch["gstin"] ELSE row.gstin
<1> DEFINE new == Update(row, patch)
<1>1. DOMAIN row = {"status", "deleted", "gstin", "state"}
  BY DEF CompanyRow
<1>2. new = [f \in {"status", "deleted", "gstin", "state"} |-> IF f \in DOMAIN patch THEN patch[f] ELSE row[f]]
  BY <1>1 DEF Update, CompanyPatch
<1> HIDE DEF new
<1>3. /\ row["status"] \in {"absent", "active", "archived"} /\ row["deleted"] \in BOOLEAN
      /\ row["gstin"] \in Numbers /\ row["state"] \in States
  BY DEF CompanyRow
<1>4. /\ new.status = IF "status" \in DOMAIN patch THEN patch["status"] ELSE row.status
      /\ new.deleted = IF "deleted" \in DOMAIN patch THEN patch["deleted"] ELSE row.deleted
      /\ new.gstin = IF "gstin" \in DOMAIN patch THEN patch["gstin"] ELSE row.gstin
      /\ new.state = IF "state" \in DOMAIN patch THEN patch["state"] ELSE row.state
  BY <1>2
<1>5. /\ new.status \in {row.status, "archived"}
      /\ new.deleted = (row.deleted \/ "deleted" \in DOMAIN patch) /\ new.deleted \in BOOLEAN
      /\ new.gstin \in Numbers /\ new.state \in States
  BY <1>3, <1>4 DEF CompanyPatch
<1>6. new = [status |-> new.status, deleted |-> new.deleted, gstin |-> new.gstin, state |-> new.state]
  BY <1>2
<1>7. new \in CompanyRow
  BY <1>3, <1>5, <1>6 DEF CompanyRow
<1> QED
  BY <1>4, <1>5, <1>7 DEF new

LEMMA WriteCompanyKeeps ==
    ASSUME ClientInv, NEW r \in Requests, WriteCompany(r)
    PROVE  ClientInv'
<1> DEFINE c == req[r].c
           patch == req[r].patch
           row == Update(company[c], patch)
<1>1. /\ Continue(r, Idle) /\ req[r].pc = "patchCompany"
      /\ company' = [company EXCEPT ![c] = row]
      /\ retired' = IF row.deleted THEN retired \cup {row.gstin} ELSE retired
      /\ UNCHANGED <<client, contacts, period, portal>>
  BY DEF WriteCompany, At, Return
<1>2. req[r] \notin {Idle, Unused} /\ ClientSlot(req[r]) /\ SlotFits(req[r])
  BY <1>1 DEF ClientInv, Idle, Unused
<1>3. c \in Rows /\ CompanyPatch(patch) /\ c \in Present(company)
  BY <1>1, <1>2, ClientSlotKinds DEF CompanySlot, SlotFits
<1>4. company \in [Rows -> CompanyRow] /\ retired \subseteq Numbers
  BY ClientRows
<1>5. /\ row \in CompanyRow /\ row.status # "absent"
      /\ row.deleted = (company[c].deleted \/ "deleted" \in DOMAIN patch)
      /\ row.gstin = IF "gstin" \in DOMAIN patch THEN patch["gstin"] ELSE company[c].gstin
  BY <1>3, <1>4, CompanyUpdated DEF Present
<1> HIDE DEF row
<1>6. company'[c] = row /\ company' \in [Rows -> CompanyRow] /\ \A i \in Rows \ {c} : company'[i] = company[i]
  BY <1>1, <1>3, <1>4, <1>5
<1>7. Present(company)' = Present(company) /\ Present(client)' = Present(client)
  BY <1>1, <1>3, <1>5, <1>6 DEF Present
<1>8. row.gstin \in Numbers /\ row.deleted \in BOOLEAN
  BY <1>5 DEF CompanyRow
<1>9. ClientTypes'
  <2>1. retired' \subseteq Numbers
    BY <1>1, <1>4, <1>8
  <2> QED
    BY <1>1, <1>6, <2>1 DEF ClientInv, ClientTypes, ClientTypeOK, CompanyRow, Numbers
<1>10. retired \subseteq retired' /\ (row.deleted => row.gstin \in retired')
  BY <1>1
<1> HIDE DEF c, patch
<1>11. RowsTogether'
  <2>1. InOrder(company)' /\ InOrder(client)'
    BY <1>7 DEF ClientInv, RowsTogether, InOrder
  <2>2. \A i \in Rows : company'[i].deleted => company'[i].gstin \in retired'
    BY <1>3, <1>6, <1>10 DEF ClientInv, RowsTogether
  <2> QED
    BY <1>1, <1>7, <2>1, <2>2 DEF ClientInv, RowsTogether
<1>12. RowsKept
  BY <1>1, <1>7 DEF RowsKept
<1>13. ClientSlot(Idle) /\ (req'[r] = Idle => SlotFits(req[r])')
  BY DEF ClientSlot, SlotFits, OfClient, Idle
<1>14. ASSUME ClientAlone(req[r]), req'[r] = Idle
       PROVE  ClientAlone(req[r])'
  <2>1. NumbersAlone(req[r])'
    <3>1. LiveCompanies' \subseteq LiveCompanies
      BY <1>3, <1>5, <1>6, <1>7 DEF LiveCompanies, Present
    <3>2. row.gstin = company[c].gstin \/ Free(row.gstin)
      BY <1>1, <1>5, <1>14 DEF ClientAlone, NumbersAlone, c, patch
    <3>3. ASSUME NEW i \in LiveCompanies', NEW j \in LiveCompanies', i # j,
                 company'[i].gstin = company'[j].gstin
          PROVE  company'[i].gstin \in retired' \cup {None}
      <4>1. i \in LiveCompanies /\ j \in LiveCompanies /\ i \in Rows /\ j \in Rows
        BY <3>1, <3>3 DEF LiveCompanies, Present
      <4>2. \A a, b \in LiveCompanies : a # b /\ company[a].gstin = company[b].gstin
               => company[a].gstin \in retired \cup {None}
        BY <1>14 DEF ClientAlone, NumbersAlone
      <4>3. CASE i = c
        BY <1>6, <1>10, <3>2, <3>3, <4>1, <4>2, <4>3 DEF Free
      <4>4. CASE j = c
        BY <1>6, <1>10, <3>2, <3>3, <4>1, <4>2, <4>4 DEF Free
      <4>5. CASE i # c /\ j # c
        BY <1>6, <1>10, <3>3, <4>1, <4>2, <4>5
      <4> QED
        BY <4>3, <4>4, <4>5
    <3> QED
      BY <1>14, <3>3 DEF NumbersAlone, Idle
  <2>2. CompaniesAlone(req[r])'
    <3>1. \A k \in Present(client) : client[k].company \in Rows /\ ~company[client[k].company].deleted
      BY <1>14 DEF ClientAlone, CompaniesAlone, ClientInv, RowsTogether
    <3>2. "deleted" \in DOMAIN patch => \A k \in Present(client) : client[k].company # c
      BY <1>1, <1>14 DEF ClientAlone, CompaniesAlone, c, patch
    <3>3. \A k \in Present(client) : ~company'[client[k].company].deleted
      BY <1>5, <1>6, <3>1, <3>2
    <3> QED
      BY <1>1, <1>7, <1>14, <3>3 DEF CompaniesAlone, Idle
  <2>3. WholeAlone(req[r])'
    BY <1>1, <1>14, WholeStays DEF ClientAlone, OfClient, Idle
  <2> QED
    BY <2>1, <2>2, <2>3 DEF ClientAlone
<1> QED
  BY <1>1, <1>2, <1>9, <1>11, <1>12, <1>13, <1>14, ClientKeeps

\* A handler that changes a client or its contacts and is done at once.
LEMMA ClientDone ==
    ASSUME ClientInv, NEW r \in Requests, NEW k \in Present(client), Begin(r, Idle),
           UNCHANGED <<company, period, portal, retired>>,
           client' \in [Rows -> ClientRow], contacts' \in [Rows -> ContactRow],
           \A i \in Rows : /\ client'[i].status = "absent" <=> client[i].status = "absent"
                           /\ client'[i].company = client[i].company
                           /\ contacts'[i].primary = contacts[i].primary
                           /\ i # k => contacts'[i] = contacts[i]
    PROVE  ClientInv'
<1>1. /\ ClientTypes' /\ RowsTogether' /\ RowsKept
      /\ Present(client)' = Present(client)
  BY ClientRows, SameClients
<1>2. req[r] = Idle /\ req'[r] = Idle
  BY Begun DEF ClientInv
<1>3. ClientSlot(Idle) /\ SlotFits(req[r])'
  BY <1>2 DEF ClientSlot, SlotFits, OfClient, Idle
<1>4. ASSUME ClientAlone(req[r])
      PROVE  ClientAlone(req[r])'
  <2>1. NumbersAlone(req[r])' /\ CompaniesAlone(req[r])'
    BY <1>1, <1>2, <1>4, OthersStay DEF ClientAlone, Idle
  <2>2. \A i : ~Lacks(req[r], i)' /\ ~Lacks(req[r], i)
    BY <1>2 DEF Lacks, Idle
  <2>3. WholeAlone(req[r])'
    BY <1>1, <1>2, <1>4, <2>2 DEF ClientAlone, WholeAlone, Present, Idle
  <2> QED
    BY <2>1, <2>3 DEF ClientAlone
<1> QED
  BY <1>1, <1>3, <1>4, ClientKeeps

LEMMA ClientEdits ==
    ASSUME ClientInv, NEW r \in Requests, NEW k \in Rows, NEW status \in {"active", "churned"},
           PatchClient(r, k, status) \/ ArchiveClient(r, k) \/ DeleteContact(r, k)
    PROVE  ClientInv'
<1>1. client \in [Rows -> ClientRow] /\ contacts \in [Rows -> ContactRow]
  BY ClientRows
<1>2. k \in Present(client) /\ Begin(r, Idle) /\ UNCHANGED <<company, period, portal, retired>>
  BY DEF PatchClient, ArchiveClient, DeleteContact
<1>3. CASE PatchClient(r, k, status)
  <2>1. client' = [client EXCEPT ![k].status = status] /\ UNCHANGED contacts
    BY <1>3 DEF PatchClient
  <2>2. client' \in [Rows -> ClientRow] /\ \A i \in Rows : client'[i].company = client[i].company
    BY <1>1, <2>1 DEF ClientRow
  <2>3. \A i \in Rows : client'[i].status = "absent" <=> client[i].status = "absent"
    BY <1>1, <1>2, <2>1 DEF Present, ClientRow
  <2> QED
    BY <1>1, <1>2, <2>1, <2>2, <2>3, ClientDone
<1>4. CASE ArchiveClient(r, k)
  <2>1. client' = [client EXCEPT ![k].status = "archived", ![k].deleted = TRUE] /\ UNCHANGED contacts
    BY <1>4 DEF ArchiveClient
  <2>2. client' \in [Rows -> ClientRow] /\ \A i \in Rows : client'[i].company = client[i].company
    BY <1>1, <2>1 DEF ClientRow
  <2>3. \A i \in Rows : client'[i].status = "absent" <=> client[i].status = "absent"
    BY <1>1, <1>2, <2>1 DEF Present, ClientRow
  <2> QED
    BY <1>1, <1>2, <2>1, <2>2, <2>3, ClientDone
<1>5. CASE DeleteContact(r, k)
  <2>1. contacts' = [contacts EXCEPT ![k].other = @ - 1] /\ contacts[k].other > 0 /\ UNCHANGED client
    BY <1>5 DEF DeleteContact
  <2>2. contacts' \in [Rows -> ContactRow]
    <3>1. contacts[k].other \in Nat /\ contacts[k].other - 1 \in Nat
      BY <1>1, <2>1 DEF ContactRow
    <3> QED
      BY <1>1, <2>1, <3>1 DEF ContactRow
  <2>3. \A i \in Rows : contacts'[i].primary = contacts[i].primary /\ (i # k => contacts'[i] = contacts[i])
    BY <1>1, <2>1 DEF ContactRow
  <2> QED
    BY <1>1, <1>2, <2>1, <2>2, <2>3, ClientDone
<1> QED
  BY <1>3, <1>4, <1>5

LEMMA PostContactKeeps ==
    ASSUME ClientInv, NEW r \in Requests, NEW k \in Rows, NEW primary \in BOOLEAN, PostContact(r, k, primary)
    PROVE  ClientInv'
<1> DEFINE l == [pc |-> "newContact", client |-> k, primary |-> primary]
<1>1. /\ Begin(r, l) /\ k \in Present(client) /\ UNCHANGED <<company, client, period, portal, retired>>
      /\ contacts' = IF ~primary THEN contacts
                     ELSE [contacts EXCEPT ![k] = [primary |-> 0, other |-> @.primary + @.other]]
  BY DEF PostContact
<1>2. l.pc = "newContact" /\ l.client = k /\ l.primary = primary /\ ClientSlot(l)
  BY DEF ClientSlot, ClientSlots
<1> HIDE DEF l
<1>3. contacts \in [Rows -> ContactRow]
  BY ClientRows
<1>4. /\ contacts' \in [Rows -> ContactRow]
      /\ contacts'[k].primary = IF primary THEN 0 ELSE contacts[k].primary
      /\ \A i \in Rows \ {k} : contacts'[i] = contacts[i]
  BY <1>1, <1>3 DEF ContactRow
<1>5. /\ ClientTypes' /\ RowsTogether' /\ RowsKept
      /\ Present(client)' = Present(client)
  BY <1>1, <1>4, ClientRows, SameClients
<1>6. req'[r] = l => SlotFits(req[r])'
  BY <1>1, <1>2, <1>5 DEF SlotFits
<1>7. req[r] = Idle
  BY <1>1, Begun DEF ClientInv
<1>8. ASSUME ClientAlone(req[r]), req'[r] = l
      PROVE  ClientAlone(req[r])'
  <2>1. NumbersAlone(req[r])' /\ CompaniesAlone(req[r])'
    BY <1>1, <1>2, <1>5, <1>8, OthersStay DEF ClientAlone, OfClient
  <2>2. \A i : ~Lacks(req[r], i) /\ (Lacks(req[r], i)' <=> primary = TRUE /\ i = k)
    BY <1>2, <1>7, <1>8 DEF Lacks, Idle
  <2>3. \A i \in Present(client) : contacts[i].primary = 1 /\ period[i] \in {NoPeriod, Checklist}
    BY <1>7, <1>8, <2>2 DEF ClientAlone, WholeAlone, Idle
  <2>4. ASSUME NEW i \in Present(client)'
        PROVE  /\ contacts'[i].primary = IF Lacks(req[r], i)' THEN 0 ELSE 1
               /\ period'[i] \in {NoPeriod, Checklist}
    <3>1. i \in Rows /\ i \in Present(client)
      BY <1>5 DEF Present
    <3> QED
      BY <1>1, <1>4, <2>2, <2>3, <3>1
  <2>5. WholeAlone(req[r])'
    BY <1>2, <1>8, <2>4 DEF WholeAlone
  <2> QED
    BY <2>1, <2>5 DEF ClientAlone
<1> QED
  BY <1>1, <1>2, <1>5, <1>6, <1>8, ClientKeeps

LEMMA AddContactKeeps ==
    ASSUME ClientInv, NEW r \in Requests, AddContact(r)
    PROVE  ClientInv'
<1> DEFINE k == req[r].client
<1>1. /\ Continue(r, Idle) /\ req[r].pc = "newContact" /\ UNCHANGED <<company, client, period, portal, retired>>
      /\ contacts' = IF req[r].primary THEN [contacts EXCEPT ![k].primary = @ + 1]
                     ELSE [contacts EXCEPT ![k].other = @ + 1]
  BY DEF AddContact, At, Return
<1>2. req[r] \notin {Idle, Unused} /\ req[r] \in ClientSlots /\ k \in Present(client) /\ k \in Rows
  BY <1>1, AClient DEF OfClient
<1>3. req[r].primary \in BOOLEAN
  BY <1>1, <1>2 DEF ClientSlots
<1> HIDE DEF k
<1>4. contacts \in [Rows -> ContactRow]
  BY ClientRows
<1>5. /\ contacts' \in [Rows -> ContactRow]
      /\ contacts'[k].primary = IF req[r].primary THEN contacts[k].primary + 1 ELSE contacts[k].primary
      /\ \A i \in Rows \ {k} : contacts'[i] = contacts[i]
  BY <1>1, <1>2, <1>4 DEF ContactRow
<1>6. /\ ClientTypes' /\ RowsTogether' /\ RowsKept
      /\ Present(client)' = Present(client)
  BY <1>1, <1>2, <1>5, ClientRows, SameClients
<1>7. ClientSlot(Idle) /\ (req'[r] = Idle => SlotFits(req[r])')
  BY DEF ClientSlot, SlotFits, OfClient, Idle
<1>8. ASSUME ClientAlone(req[r]), req'[r] = Idle
      PROVE  ClientAlone(req[r])'
  <2>1. NumbersAlone(req[r])' /\ CompaniesAlone(req[r])'
    BY <1>1, <1>6, <1>8, OthersStay DEF ClientAlone, Idle
  <2>2. \A i : ~Lacks(req[r], i)' /\ (Lacks(req[r], i) <=> req[r].primary = TRUE /\ i = k)
    BY <1>1, <1>8 DEF Lacks, Idle, k
  <2>3. \A i \in Present(client) : /\ contacts[i].primary = IF req[r].primary = TRUE /\ i = k THEN 0 ELSE 1
                                   /\ period[i] \in {NoPeriod, Checklist}
    BY <1>1, <1>8, <2>2 DEF ClientAlone, WholeAlone
  <2>4. ASSUME NEW i \in Present(client)'
        PROVE  /\ contacts'[i].primary = 1
               /\ period'[i] \in {NoPeriod, Checklist}
    <3>1. i \in Rows /\ i \in Present(client)
      BY <1>6, <2>4 DEF Present
    <3> QED
      BY <1>1, <1>3, <1>5, <2>3, <3>1
  <2>5. WholeAlone(req[r])'
    BY <1>8, <2>2, <2>4 DEF WholeAlone, Idle
  <2> QED
    BY <2>1, <2>5 DEF ClientAlone
<1> QED
  BY <1>1, <1>2, <1>6, <1>7, <1>8, ClientKeeps

LEMMA ClientRestarts ==
    ASSUME ClientInv, Restart, UNCHANGED clientele
    PROVE  ClientInv'
<1>1. /\ ServerOK' /\ overlapped'
      /\ \A r \in Requests : req'[r] \in {Idle, Unused}
  BY Restarted DEF ClientInv
<1>2. \A r \in Requests : ClientSlot(req'[r]) /\ SlotFits(req[r])'
  BY <1>1 DEF ClientSlot, SlotFits, OfClient, Idle, Unused
<1> QED
  BY <1>1, <1>2, RowsStay DEF ClientInv

LEMMA ClientStutters ==
    ASSUME ClientInv, UNCHANGED clientVars
    PROVE  ClientInv'
<1>1. UNCHANGED clientele /\ UNCHANGED <<req, overlapped>>
  BY DEF clientVars, server
<1>2. Present(client)' = Present(client) /\ LiveCompanies' = LiveCompanies /\ Present(company)' = Present(company)
  BY <1>1 DEF Present, LiveCompanies, clientele
<1>3. ServerOK' /\ InFlight' = InFlight /\ (Quiescent' <=> Quiescent)
  BY <1>1 DEF ClientInv, ServerOK, InFlight, Quiescent
<1>4. \A l : ClientAlone(l) => ClientAlone(l)'
  <2> SUFFICES ASSUME NEW l, ClientAlone(l) PROVE ClientAlone(l)'
    OBVIOUS
  <2>1. NumbersAlone(l)'
    BY <1>1, <1>2 DEF ClientAlone, NumbersAlone, Free, clientele
  <2>2. CompaniesAlone(l)'
    BY <1>1, <1>2 DEF ClientAlone, CompaniesAlone, clientele
  <2>3. WholeAlone(l)'
    BY <1>1, <1>2 DEF ClientAlone, WholeAlone, clientele
  <2> QED
    BY <2>1, <2>2, <2>3 DEF ClientAlone
<1>5. \A r \in Requests : SlotFits(req[r])'
  BY <1>1, <1>2 DEF ClientInv, SlotFits, clientele
<1>6. ClientTypes' /\ RowsTogether'
  BY <1>1, RowsStay
<1> QED
  BY <1>1, <1>3, <1>4, <1>5, <1>6 DEF ClientInv

LEMMA ClientSteps ==
    ASSUME ClientInv, [ClientNext]_clientVars
    PROVE  ClientInv'
<1>1. ASSUME NEW r \in Requests, ClientRequest(r)
      PROVE  ClientInv'
  <2>1. ASSUME NEW g \in Gstins \cup {None}, NEW state \in States,
               \/ PostCompany(r, g, state)
               \/ \E login \in BOOLEAN : PostClient(r, g, state, login)
               \/ \E c \in Rows : PatchCompany(r, c, g, state)
        PROVE  ClientInv'
    BY <2>1, PostCompanyKeeps, PostClientKeeps, PatchCompanyKeeps DEF Numbers
  <2>2. ASSUME NEW k \in Rows,
               \/ PostPeriod(r, k) \/ OpenMonthlyPeriods(r, k)
               \/ \E status \in {"active", "churned"} : PatchClient(r, k, status)
               \/ ArchiveClient(r, k) \/ DeleteContact(r, k)
               \/ \E primary \in BOOLEAN : PostContact(r, k, primary)
        PROVE  ClientInv'
    BY <2>2, PeriodKeeps, ClientEdits, PostContactKeeps
  <2> QED
    BY <1>1, <2>1, <2>2, ArchiveCompanyKeeps DEF ClientRequest
<1>2. ASSUME NEW r \in Requests, ClientStep(r)
      PROVE  ClientInv'
  BY <1>2, InsertCompanyKeeps, CountClientsKeeps, InsertClientKeeps, CreateLoginKeeps, InsertContactKeeps,
     OpenPeriodKeeps, InsertItemKeeps, WriteCompanyKeeps, AddContactKeeps DEF ClientStep
<1>3. CASE Restart /\ UNCHANGED clientele
  BY <1>3, ClientRestarts
<1>4. CASE UNCHANGED clientVars
  BY <1>4, ClientStutters
<1> QED
  BY <1>1, <1>2, <1>3, <1>4 DEF ClientNext

LEMMA ClientInvHolds ==
    ClientInv => ClientsHold
<1> SUFFICES ASSUME ClientInv PROVE ClientsHold
  OBVIOUS
<1>1. GstinOnce
  BY DEF GstinOnce, ClientInv, ClientAlone, NumbersAlone, Quiescent
<1>2. ClientsAreWhole
  <2>1. ~overlapped /\ Quiescent => WholeAlone(Idle)
    BY DEF ClientInv, ClientAlone
  <2> QED
    BY <2>1 DEF ClientsAreWhole, WholeAlone, Lacks, Idle
<1>3. CompanyOutlivesClients
  BY DEF CompanyOutlivesClients, ClientInv, ClientAlone, CompaniesAlone, Quiescent
<1> QED
  BY <1>1, <1>2, <1>3 DEF ClientInv, ClientTypes, ClientsHold

\* Two live companies have one number only when an archived one has it or has had it,
\* every client is opened whole and no client's company is archived under it, for any
\* numbers, checklist, tables, handlers and restarts, while one handler is in flight
\* at a time; the types hold whatever the handlers do.
THEOREM ClientsCorrect == ClientSpec => []ClientsHold
<1>1. ASSUME NEW slots, NEW requests, NEW stops, ServerInit(slots, requests, stops), ClientInit
      PROVE  ClientInv
  BY <1>1, ClientStarts
<1>2. ClientInv /\ [ClientNext]_clientVars => ClientInv'
  BY ClientSteps
<1>3. (\E slots \in SUBSET Requests, requests, stops \in Nat : ServerInit(slots, requests, stops)) /\ ClientInit
      => ClientInv
  BY <1>1
<1> QED
  BY <1>2, <1>3, ClientInvHolds, PTL DEF ClientSpec

-----------------------------------------------------------------------------
(***************************************************************************)
(* Leads: the invariant                                                    *)
(***************************************************************************)

Owners == {Pool[i] : i \in 1..Len(Pool)} \cup {None}
LeadRow(clients) == [status : Statuses \cup {"absent"}, keys : SUBSET Addresses, dupOf : 0..MaxLeads,
                     client : 0..clients, owner : Owners]

\* What an edit of a lead may set.
LeadPatch(patch) ==
    /\ DOMAIN patch \subseteq {"status", "dupOf"}
    /\ "status" \in DOMAIN patch /\ patch["status"] \in Statuses
    /\ "dupOf" \in DOMAIN patch => patch["dupOf"] \in LeadIds

LeadSlots ==
    [pc : {"pick"}, keys : SUBSET Addresses, dup : 0..MaxLeads, how : {"named", "roundRobin", "leastLoaded"}]
    \cup [pc : {"advance", "insertLead"}, keys : SUBSET Addresses, dup : 0..MaxLeads,
          next : 0..(Len(Pool) - 1), owner : Owners]
    \cup [pc : {"provision"}, lead : LeadIds]
    \cup [pc : {"markWon", "follow"}, lead : LeadIds, client : Nat]
    \cup [pc : {"campaign"}]
    \cup [pc : {"count"}, seen : Nat]

EditSlot(l) ==
    /\ l = [pc |-> "writeLead", lead |-> l.lead, patch |-> l.patch]
    /\ l.lead \in LeadIds /\ LeadPatch(l.patch)

LeadSlot(l) == l \in {Idle, Unused} \/ l \in LeadSlots \/ EditSlot(l)

\* The steps that are about a lead to come, and about one that is there.
OfNewLead == {"pick", "advance", "insertLead"}
OfLead == {"writeLead", "provision", "markWon", "follow"}

\* The rows a handler holds are there.
LeadFits(l) ==
    /\ l.pc \in OfNewLead /\ l.dup # 0 => l.dup \in Captured
    /\ l.pc \in OfLead => l.lead \in Captured
    /\ l.pc \in {"markWon", "follow"} => l.client \in 1..clientsMade
    /\ l.pc = "writeLead" /\ l.patch["status"] = "won" => lead[l.lead].client # 0

\* Leads fill the table from the first.
LeadsInOrder == \E n \in 0..MaxLeads : \A l \in LeadIds : l \in Captured <=> l <= n

LeadsTogether ==
    /\ LeadsInOrder
    /\ \A l \in LeadIds \ Captured : lead[l] = NoLead
    /\ WonHasClient

\* A rank of the leads, no two the same, that falls along every link.
Ranks(h, linked) ==
    /\ \A k, l \in LeadIds : h[k] = h[l] => k = l
    /\ \A l \in LeadIds : linked[l] # 0 => h[linked[l]] < h[l]

Links == [l \in LeadIds |-> lead[l].dupOf]

\* Every link has an original at its end, also the one that is about to be made.
LinksAlone(l) ==
    /\ \E h \in [LeadIds -> LeadIds] : Ranks(h, Links)
    /\ l.pc \in OfNewLead /\ l.dup # 0 => Links[l.dup] = 0
    /\ l.pc = "writeLead" /\ "dupOf" \in DOMAIN l.patch =>
          l.patch["dupOf"] # l.lead /\ Links[l.patch["dupOf"]] = 0

\* One when it holds.
OneIf(condition) == IF condition THEN 1 ELSE 0

\* The members after the first, as far as the index, have had one lead more.
RuleAlone(l) ==
    /\ \A i \in 1..Len(Pool) : given[i] = given[1] + OneIf(2 <= i /\ i <= lastIndex + 1)
    /\ l.pc = "advance" => l.next = (lastIndex + 1) % Len(Pool)

Converted == {l \in LeadIds : conversions[l] > 0}
\* The handler between its steps is the one conversion that is not yet counted.
CountsAlone(l) ==
    /\ \A k \in LeadIds : conversions[k] <= 1 /\ (conversions[k] > 0 => lead[k].client # 0)
    /\ l.pc \in {"provision", "markWon"} => lead[l.lead].client = 0
    /\ clientsMade = Cardinality(Converted) + OneIf(l.pc = "markWon")
    /\ Cardinality(Converted) = convertedCount + OneIf(l.pc \in {"follow", "campaign", "count"})
    /\ l.pc = "count" => l.seen = convertedCount

LeadAlone(l) == LinksAlone(l) /\ RuleAlone(l) /\ CountsAlone(l)

LeadTypes ==
    /\ LeadTypeOK
    /\ lastIndex \in 0..(Len(Pool) - 1)
    /\ conversions \in [LeadIds -> Nat] /\ given \in [1..Len(Pool) -> Nat]

LeadInv ==
    /\ LeadTypes
    /\ ServerOK
    /\ \A r \in Requests : LeadSlot(req[r]) /\ LeadFits(req[r])
    /\ LeadsTogether
    /\ ~overlapped => (Quiescent => LeadAlone(Idle)) /\ \A r \in InFlight : LeadAlone(req[r])

LEMMA ALead ==
    \A l : l \in LeadIds <=> l \in 0..MaxLeads /\ l # 0
BY LeadConstants DEF LeadIds

LEMMA ARank ==
    ASSUME NEW h \in [LeadIds -> LeadIds]
    PROVE  \A l \in LeadIds : h[l] \in Nat /\ 1 <= h[l] /\ h[l] <= MaxLeads
<1>1. \A l \in LeadIds : h[l] \in LeadIds
  OBVIOUS
<1> QED
  BY <1>1, LeadConstants DEF LeadIds

\* An original that is moved to the bottom ranks below any lead linked to it.
LEMMA Relinked ==
    ASSUME NEW linked \in [LeadIds -> 0..MaxLeads], NEW h \in [LeadIds -> LeadIds], Ranks(h, linked),
           NEW l \in LeadIds, NEW o \in LeadIds, o # l, linked[o] = 0,
           NEW after \in [LeadIds -> 0..MaxLeads], after[l] = o,
           \A k \in LeadIds \ {l} : after[k] = linked[k]
    PROVE  \E g \in [LeadIds -> LeadIds] : Ranks(g, after)
<1> DEFINE g == [k \in LeadIds |-> IF k = o THEN 1 ELSE IF h[k] < h[o] THEN h[k] + 1 ELSE h[k]]
<1>1. MaxLeads \in Nat /\ LeadIds = 1..MaxLeads /\ 1 \in LeadIds
  BY LeadConstants DEF LeadIds
<1>2. \A k \in LeadIds : h[k] \in Nat /\ 1 <= h[k] /\ h[k] <= MaxLeads
  BY <1>1, ARank
<1>3. \A k \in LeadIds \ {o} : h[k] # h[o]
  BY DEF Ranks
<1>4. g \in [LeadIds -> LeadIds]
  <2>1. ASSUME NEW k \in LeadIds, h[k] < h[o] PROVE h[k] + 1 \in LeadIds
    <3>1. h[k] \in Nat /\ 1 <= h[k] /\ h[o] \in Nat /\ h[o] <= MaxLeads
      BY <1>2
    <3>2. \A a, b \in Nat : a < b /\ b <= MaxLeads => a + 1 \in 1..MaxLeads
      BY <1>1
    <3> QED
      BY <2>1, <3>1, <3>2 DEF LeadIds
  <2> QED
    BY <1>1, <2>1
<1>5. /\ g[o] = 1
      /\ \A k \in LeadIds \ {o} : g[k] = IF h[k] < h[o] THEN h[k] + 1 ELSE h[k]
  OBVIOUS
<1> HIDE DEF g
<1>6. \A k \in LeadIds \ {o} : g[k] \in Nat /\ 1 < g[k]
  BY <1>2, <1>3, <1>5
<1>7. ASSUME NEW j \in LeadIds, NEW k \in LeadIds, g[j] = g[k]
      PROVE  j = k
  <2>1. CASE j = o \/ k = o
    BY <1>5, <1>6, <1>7, <2>1
  <2>2. CASE j # o /\ k # o
    <3>1. h[j] = h[k]
      BY <1>2, <1>3, <1>5, <1>7, <2>2
    <3> QED
      BY <3>1 DEF Ranks
  <2> QED
    BY <2>1, <2>2
<1>8. ASSUME NEW k \in LeadIds, after[k] # 0
      PROVE  g[after[k]] < g[k]
  <2>1. k # o
    BY <1>8
  <2>2. CASE after[k] = o
    BY <1>5, <1>6, <2>1, <2>2
  <2>3. CASE after[k] # o
    <3>1. after[k] = linked[k] /\ linked[k] \in LeadIds
      BY <1>8, <2>3, ALead
    <3>2. h[linked[k]] < h[k]
      BY <1>8, <3>1 DEF Ranks
    <3> QED
      BY <1>2, <1>3, <1>5, <2>1, <2>3, <3>1, <3>2
  <2> QED
    BY <2>2, <2>3
<1> QED
  BY <1>4, <1>7, <1>8 DEF Ranks

\* Where the links lead to from each lead after n more of them.
Follows(f, linked, n) ==
    /\ f \in [0..n -> [LeadIds -> 0..MaxLeads]]
    /\ f[0] = linked
    /\ \A i \in Nat : i < n => f[i+1] = [l \in LeadIds |-> IF f[i][l] = 0 THEN 0 ELSE linked[f[i][l]]]

LEMMA FollowsExists ==
    ASSUME NEW linked \in [LeadIds -> 0..MaxLeads], NEW n \in Nat
    PROVE  \E f : Follows(f, linked, n)
<1> DEFINE G == {m \in Nat : \E f : Follows(f, linked, m)}
<1>1. 0 \in G
  <2>1. Follows([i \in 0..0 |-> linked], linked, 0)
    BY DEF Follows
  <2> QED BY <2>1
<1>2. ASSUME NEW m \in Nat, m \in G PROVE m + 1 \in G
  <2>1. PICK f : Follows(f, linked, m)
    BY <1>2
  <2> DEFINE next == [l \in LeadIds |-> IF f[m][l] = 0 THEN 0 ELSE linked[f[m][l]]]
             g == [i \in 0..(m + 1) |-> IF i = m + 1 THEN next ELSE f[i]]
  <2>2. next \in [LeadIds -> 0..MaxLeads]
    BY <2>1, LeadConstants DEF Follows, LeadIds
  <2> HIDE DEF next
  <2>3. g \in [0..(m + 1) -> [LeadIds -> 0..MaxLeads]] /\ g[0] = linked /\ g[m + 1] = next
        /\ \A i \in 0..m : g[i] = f[i]
    BY <2>1, <2>2 DEF Follows
  <2> HIDE DEF g
  <2>4. ASSUME NEW i \in Nat, i < m + 1
        PROVE  g[i+1] = [l \in LeadIds |-> IF g[i][l] = 0 THEN 0 ELSE linked[g[i][l]]]
    <3>1. i \in 0..m /\ g[i] = f[i]
      BY <2>3, <2>4
    <3>2. CASE i = m
      BY <2>3, <3>1, <3>2 DEF next
    <3>3. CASE i # m
      <4>1. i + 1 \in 0..m /\ i < m
        BY <3>1, <3>3
      <4>2. f[i+1] = [l \in LeadIds |-> IF f[i][l] = 0 THEN 0 ELSE linked[f[i][l]]]
        BY <2>1, <4>1 DEF Follows
      <4> QED
        BY <2>3, <3>1, <4>1, <4>2
    <3> QED
      BY <3>2, <3>3
  <2>5. Follows(g, linked, m + 1)
    BY <2>3, <2>4 DEF Follows
  <2> QED BY <2>5
<1> HIDE DEF G
<1>3. n \in G
  BY <1>1, <1>2, NatSetInduction
<1> QED
  BY <1>3 DEF G

\* With a rank, MaxLeads links more than the first are never there.
LEMMA FollowsEnd ==
    ASSUME NEW linked \in [LeadIds -> 0..MaxLeads], NEW h \in [LeadIds -> LeadIds], Ranks(h, linked),
           NEW n \in Nat, NEW f, Follows(f, linked, n)
    PROVE  \A l \in LeadIds : f[n][l] = 0 \/ h[f[n][l]] + n < h[l]
<1> DEFINE G == {m \in Nat : m <= n => \A l \in LeadIds : f[m][l] = 0 \/ h[f[m][l]] + m < h[l]}
<1>0. LeadIds = 1..MaxLeads /\ MaxLeads \in Nat
  BY LeadConstants DEF LeadIds
<1>1. 0 \in G
  <2>1. ASSUME NEW l \in LeadIds, f[0][l] # 0
        PROVE  h[f[0][l]] + 0 < h[l]
    <3>1. f[0][l] = linked[l] /\ linked[l] \in LeadIds
      BY <1>0, <2>1 DEF Follows
    <3>2. h[linked[l]] < h[l] /\ h[linked[l]] \in Nat
      BY <2>1, <3>1, ARank DEF Ranks
    <3> QED
      BY <3>1, <3>2
  <2> QED
    BY <2>1
<1>2. ASSUME NEW m \in Nat, m \in G PROVE m + 1 \in G
  <2> SUFFICES ASSUME m + 1 <= n, NEW l \in LeadIds, f[m+1][l] # 0
               PROVE  h[f[m+1][l]] + (m + 1) < h[l]
    OBVIOUS
  <2>1. m < n /\ m \in 0..n
    OBVIOUS
  <2>2. f[m+1] = [k \in LeadIds |-> IF f[m][k] = 0 THEN 0 ELSE linked[f[m][k]]]
    BY <2>1 DEF Follows
  <2>3. f[m][l] # 0 /\ f[m+1][l] = linked[f[m][l]]
    BY <2>2
  <2>4. f[m][l] \in LeadIds /\ linked[f[m][l]] \in LeadIds
    <3>1. f[m] \in [LeadIds -> 0..MaxLeads]
      BY <2>1 DEF Follows
    <3>2. f[m][l] \in LeadIds
      BY <2>3, <3>1, ALead
    <3> QED
      BY <2>3, <3>2, ALead
  <2>5. h[linked[f[m][l]]] < h[f[m][l]]
    BY <2>3, <2>4 DEF Ranks
  <2>6. h[f[m][l]] + m < h[l]
    BY <1>2, <2>1, <2>3
  <2>7. h[linked[f[m][l]]] \in Nat /\ h[f[m][l]] \in Nat /\ h[l] \in Nat
    BY <2>4, ARank
  <2> QED
    BY <2>3, <2>5, <2>6, <2>7
<1> HIDE DEF G
<1>3. n \in G
  BY <1>1, <1>2, NatSetInduction
<1> QED
  BY <1>3 DEF G

LEMMA RankEnds ==
    ASSUME lead \in [LeadIds -> LeadRow(clientsMade)], \E h \in [LeadIds -> LeadIds] : Ranks(h, Links), ~overlapped
    PROVE  DuplicatesEnd
<1> DEFINE Reach[n \in 0..MaxLeads] ==
             IF n = 0 THEN [l \in LeadIds |-> lead[l].dupOf]
             ELSE [l \in LeadIds |-> IF Reach[n-1][l] = 0 THEN 0 ELSE lead[Reach[n-1][l]].dupOf]
<1>1. Links \in [LeadIds -> 0..MaxLeads] /\ MaxLeads \in Nat
  BY LeadConstants DEF Links, LeadRow
<1>2. PICK h \in [LeadIds -> LeadIds] : Ranks(h, Links)
  OBVIOUS
<1>3. PICK f : Follows(f, Links, MaxLeads)
  BY <1>1, FollowsExists
<1> DEFINE Body(g, n) == IF n = 0 THEN [l \in LeadIds |-> lead[l].dupOf]
                         ELSE [l \in LeadIds |-> IF g[n-1][l] = 0 THEN 0 ELSE lead[g[n-1][l]].dupOf]
<1>4. f = [n \in 0..MaxLeads |-> Body(f, n)]
  <2>1. DOMAIN f = 0..MaxLeads /\ f = [n \in 0..MaxLeads |-> f[n]]
    BY <1>3 DEF Follows
  <2>2. ASSUME NEW n \in 0..MaxLeads
        PROVE  f[n] = Body(f, n)
    <3>1. CASE n = 0
      BY <1>3, <3>1 DEF Follows, Links
    <3>2. CASE n # 0
      <4>1. n - 1 \in Nat /\ n - 1 < MaxLeads /\ n - 1 \in 0..MaxLeads /\ (n - 1) + 1 = n
        BY <1>1, <3>2
      <4>2. f[n-1] \in [LeadIds -> 0..MaxLeads]
        BY <1>3, <4>1 DEF Follows
      <4>3. f[n] = [l \in LeadIds |-> IF f[n-1][l] = 0 THEN 0 ELSE Links[f[n-1][l]]]
        BY <1>3, <4>1 DEF Follows
      <4>4. \A l \in LeadIds : f[n-1][l] # 0 => Links[f[n-1][l]] = lead[f[n-1][l]].dupOf
        BY <4>2, ALead DEF Links
      <4>5. f[n] = [l \in LeadIds |-> IF f[n-1][l] = 0 THEN 0 ELSE lead[f[n-1][l]].dupOf]
        BY <4>3, <4>4
      <4> QED
        BY <3>2, <4>5
    <3> QED
      BY <3>1, <3>2
  <2> HIDE DEF Body
  <2> QED
    BY <2>1, <2>2
<1>5. Reach = [n \in 0..MaxLeads |-> Body(Reach, n)]
  BY <1>4
<1> HIDE DEF Reach
<1> DEFINE G == {n \in Nat : n <= MaxLeads => Reach[n] = f[n]}
<1>6. 0 \in G
  BY <1>1, <1>4, <1>5
<1>7. ASSUME NEW n \in Nat, n \in G PROVE n + 1 \in G
  <2> SUFFICES ASSUME n + 1 <= MaxLeads PROVE Reach[n+1] = f[n+1]
    OBVIOUS
  <2>1. n + 1 \in 0..MaxLeads /\ n + 1 # 0 /\ (n + 1) - 1 = n /\ n <= MaxLeads
    BY <1>1
  <2>2. Reach[n] = f[n]
    BY <1>7, <2>1
  <2>3. Reach[n+1] = Body(Reach, n + 1) /\ f[n+1] = Body(f, n + 1)
    <3> HIDE DEF Body
    <3> QED
      BY <1>4, <1>5, <2>1
  <2> QED
    BY <2>1, <2>2, <2>3
<1> HIDE DEF G
<1>8. MaxLeads \in G
  BY <1>1, <1>6, <1>7, NatSetInduction
<1>9. Reach[MaxLeads] = f[MaxLeads]
  BY <1>1, <1>8 DEF G
<1>10. ASSUME NEW l \in LeadIds PROVE Reach[MaxLeads][l] = 0
  <2>1. f[MaxLeads][l] = 0 \/ h[f[MaxLeads][l]] + MaxLeads < h[l]
    BY <1>1, <1>2, <1>3, FollowsEnd
  <2>2. f[MaxLeads][l] # 0 => f[MaxLeads][l] \in LeadIds
    <3>1. f[MaxLeads] \in [LeadIds -> 0..MaxLeads]
      BY <1>1, <1>3 DEF Follows
    <3> QED
      BY <3>1, ALead
  <2> QED
    BY <1>1, <1>9, <2>1, <2>2, ARank
<1> HIDE DEF Body
<1> QED
  BY <1>10 DEF DuplicatesEnd, Reach

LEMMA Smallest ==
    ASSUME NEW S, S \subseteq Nat, S # {}
    PROVE  \E m \in S : \A n \in S : m <= n
<1>1. \E m \in S : \A n \in S : ~ (<<n, m>> \in OpToRel(<, Nat))
  BY WFMin, NatLessThanWellFounded
<1>2. PICK m \in S : \A n \in S : ~ (n < m)
  BY <1>1 DEF OpToRel
<1>3. \A n \in S : n \in Nat /\ m \in Nat
  OBVIOUS
<1> QED
  BY <1>2, <1>3

LEMMA APool ==
    /\ Len(Pool) \in Nat /\ 1 < Len(Pool)
    /\ \A i \in 1..Len(Pool) : Pool[i] \in Owners
    /\ None \in Owners
BY LeadConstants DEF Owners

LEMMA LeadTable ==
    ASSUME LeadInv
    PROVE  /\ lead \in [LeadIds -> LeadRow(clientsMade)]
           /\ lastIndex \in 0..(Len(Pool) - 1) /\ convertedCount \in Nat /\ clientsMade \in Nat
           /\ conversions \in [LeadIds -> Nat] /\ given \in [1..Len(Pool) -> Nat]
BY DEF LeadInv, LeadTypes, LeadTypeOK, LeadRow, Owners

\* The place of the lead that is inserted next.
LEMMA NextLead ==
    ASSUME LeadInv
    PROVE  /\ IsFiniteSet(Captured)
           /\ Cardinality(Captured) + 1 \in 1..(MaxLeads + 1)
           /\ \A l \in LeadIds : l \in Captured <=> l < Cardinality(Captured) + 1
<1>1. PICK n \in 0..MaxLeads : \A l \in LeadIds : l \in Captured <=> l <= n
  BY DEF LeadInv, LeadsTogether, LeadsInOrder
<1>2. n \in Nat /\ MaxLeads \in Nat
  BY LeadConstants
<1>3. Captured = 1..n
  BY <1>1, <1>2 DEF Captured, LeadIds
<1>4. Cardinality(Captured) = n /\ IsFiniteSet(Captured)
  BY <1>2, <1>3, FS_Interval
<1> QED
  BY <1>1, <1>2, <1>4 DEF LeadIds

\* The earliest lead with an address is an original, or there is none.
LEMMA DuplicateFound ==
    ASSUME LeadInv, NEW keys
    PROVE  LET d == FindDuplicate(keys) IN d = 0 \/ (d \in Captured /\ lead[d].dupOf = 0)
<1> DEFINE same == {l \in Captured : lead[l].dupOf = 0 /\ lead[l].keys \cap keys # {}}
<1>1. same \subseteq Nat
  BY LeadConstants DEF Captured, LeadIds
<1>2. CASE same = {}
  BY <1>2 DEF FindDuplicate
<1>3. CASE same # {}
  <2>1. \E l \in same : \A k \in same : l <= k
    BY <1>1, <1>3, Smallest
  <2>2. FindDuplicate(keys) \in same
    BY <1>3, <2>1 DEF FindDuplicate
  <2> QED
    BY <2>2
<1> QED
  BY <1>2, <1>3

\* The least loaded is a member of the pool.
LEMMA LeastLoadedIsOwner ==
    ASSUME LeadInv
    PROVE  LeastLoaded \in Owners
<1> DEFINE load(p) == Cardinality({l \in Captured : lead[l].owner = p /\ Open(l)})
           least == {i \in 1..Len(Pool) : \A j \in 1..Len(Pool) : load(Pool[i]) <= load(Pool[j])}
           loads == {load(Pool[i]) : i \in 1..Len(Pool)}
<1>1. \A p : load(p) \in Nat
  <2> SUFFICES ASSUME NEW p PROVE load(p) \in Nat
    OBVIOUS
  <2>1. {l \in Captured : lead[l].owner = p /\ Open(l)} \in SUBSET Captured
    OBVIOUS
  <2> QED
    BY <2>1, NextLead, FS_Subset, FS_CardinalityType
<1>2. LeastLoaded = Pool[CHOOSE i \in least : \A j \in least : i <= j]
  BY DEF LeastLoaded
<1> HIDE DEF load
<1>3. loads \subseteq Nat /\ loads # {}
  BY <1>1, APool
<1>4. PICK m \in loads : \A n \in loads : m <= n
  BY <1>3, Smallest
<1>5. PICK i \in 1..Len(Pool) : load(Pool[i]) = m
  BY <1>4
<1>6. i \in least
  BY <1>4, <1>5
<1>7. least \subseteq Nat /\ least # {} /\ least \subseteq 1..Len(Pool)
  BY <1>6, APool
<1> HIDE DEF least
<1>8. \E k \in least : \A j \in least : k <= j
  BY <1>7, Smallest
<1>9. (CHOOSE k \in least : \A j \in least : k <= j) \in 1..Len(Pool)
  BY <1>7, <1>8
<1> QED
  BY <1>2, <1>9, APool

LEMMA LeadSlotKinds ==
    ASSUME NEW l, LeadSlot(l), l \notin {Idle, Unused}
    PROVE  /\ l.pc = "writeLead" => EditSlot(l)
           /\ l.pc # "writeLead" => l \in LeadSlots
BY DEF LeadSlot, LeadSlots, EditSlot

\* What the table keeps, whatever the step.
LeadsKept ==
    /\ Captured \subseteq Captured' /\ clientsMade <= clientsMade'
    /\ \A l \in LeadIds : lead[l].client # 0 => lead'[l].client # 0

LEMMA LeadKeeps ==
    ASSUME LeadInv, NEW r \in Requests, NEW l, LeadSlot(l),
           Begin(r, l) \/ (req[r] \notin {Idle, Unused} /\ Continue(r, l)),
           LeadTypes', LeadsTogether', LeadsKept,
           req'[r] = l => LeadFits(req[r])',
           ~overlapped' /\ LeadAlone(req[r]) /\ req'[r] = l => LeadAlone(req[r])'
    PROVE  LeadInv'
<1>1. /\ ServerOK' /\ req'[r] = l
      /\ \A s \in Requests \ {r} : req'[s] = req[s]
      /\ ~overlapped' => ~overlapped /\ \A s \in Requests \ {r} : req[s] \in {Idle, Unused}
      /\ req[r] = Idle \/ req[r] \notin {Idle, Unused}
  BY Begun, Continued DEF LeadInv
<1>2. \A s \in Requests : LeadSlot(req[s])'
  <2>1. LeadSlot(req'[r])
    BY <1>1
  <2>2. \A s \in Requests \ {r} : LeadSlot(req'[s])
    BY <1>1 DEF LeadInv
  <2> QED
    BY <2>1, <2>2
<1>3. \A s \in Requests : LeadFits(req[s])'
  <2> SUFFICES ASSUME NEW s \in Requests \ {r}
               PROVE  LeadFits(req[s])'
    BY <1>1
  <2>1. LeadFits(req[s]) /\ req'[s] = req[s]
    BY <1>1 DEF LeadInv
  <2>2. clientsMade \in Nat /\ clientsMade' \in Nat /\ clientsMade <= clientsMade'
    BY DEF LeadInv, LeadTypes, LeadTypeOK, LeadsKept
  <2>3. \A n \in 1..clientsMade : n \in 1..clientsMade'
    BY <2>2
  <2>4. \A k \in Captured : k \in LeadIds /\ k \in Captured'
    BY DEF LeadsKept, Captured
  <2>5. \A k \in LeadIds : lead[k].client # 0 => lead'[k].client # 0
    BY DEF LeadsKept
  <2> QED
    BY <2>1, <2>3, <2>4, <2>5 DEF LeadFits, OfLead, OfNewLead
<1>4. ~overlapped' => LeadAlone(req[r])
  <2>1. ~overlapped' /\ req[r] = Idle => Quiescent
    BY <1>1 DEF Quiescent, InFlight
  <2> QED
    BY <1>1, <2>1 DEF LeadInv, InFlight
<1>5. ~overlapped' => LeadAlone(req[r])'
  BY <1>1, <1>4
<1>6. ~overlapped' => \A s \in InFlight' : s = r
  BY <1>1 DEF InFlight
<1>7. ~overlapped' /\ Quiescent' => req'[r] \in {Idle, Unused}
  BY <1>1 DEF Quiescent, InFlight
<1>8. ~overlapped' /\ Quiescent' => LeadAlone(Idle)'
  BY <1>5, <1>7 DEF LeadAlone, LinksAlone, RuleAlone, CountsAlone, OfNewLead, Idle, Unused
<1>9. ~overlapped' => \A s \in InFlight' : LeadAlone(req[s])'
  BY <1>5, <1>6
<1> QED
  BY <1>1, <1>2, <1>3, <1>8, <1>9 DEF LeadInv

LEMMA LeadsStay ==
    ASSUME LeadInv, UNCHANGED leads
    PROVE  /\ LeadTypes' /\ LeadsTogether' /\ LeadsKept
           /\ Captured' = Captured /\ Links' = Links /\ Converted' = Converted
<1>1. LeadTypes'
  BY DEF LeadInv, LeadTypes, LeadTypeOK, leads
<1>2. Captured' = Captured /\ Links' = Links /\ Converted' = Converted
  BY DEF Captured, Links, Converted, leads
<1>3. LeadsTogether'
  BY <1>2 DEF LeadInv, LeadsTogether, LeadsInOrder, WonHasClient, leads
<1>4. LeadsKept
  BY <1>2, LeadTable DEF LeadsKept, leads
<1> QED
  BY <1>1, <1>2, <1>3, <1>4

\* A step that leaves the tables as they are.
LEMMA LeadLooks ==
    ASSUME LeadInv, NEW r \in Requests, NEW l, LeadSlot(l),
           Begin(r, l) \/ (req[r] \notin {Idle, Unused} /\ Continue(r, l)),
           UNCHANGED leads, LeadFits(l), LeadAlone(req[r]) => LeadAlone(l)
    PROVE  LeadInv'
<1>1. /\ LeadTypes' /\ LeadsTogether' /\ LeadsKept
      /\ Captured' = Captured /\ Links' = Links /\ Converted' = Converted
  BY LeadsStay
<1>2. req'[r] = l => LeadFits(req[r])'
  BY <1>1 DEF LeadFits, leads
<1>3. ASSUME LeadAlone(l), req'[r] = l
      PROVE  LeadAlone(req[r])'
  <2>1. LinksAlone(req[r])'
    BY <1>1, <1>3 DEF LeadAlone, LinksAlone
  <2>2. RuleAlone(req[r])'
    BY <1>3 DEF LeadAlone, RuleAlone, leads
  <2>3. CountsAlone(req[r])'
    BY <1>1, <1>3 DEF LeadAlone, CountsAlone, leads
  <2> QED
    BY <2>1, <2>2, <2>3 DEF LeadAlone
<1> QED
  BY <1>1, <1>2, <1>3, LeadKeeps

\* The index that comes after another.
LEMMA Turn ==
    ASSUME NEW i \in 0..(Len(Pool) - 1)
    PROVE  /\ (i + 1) % Len(Pool) = IF i + 1 = Len(Pool) THEN 0 ELSE i + 1
           /\ (i + 1) % Len(Pool) \in 0..(Len(Pool) - 1)
<1>1. \A n \in Nat : 1 < n =>
         \A a \in 0..(n - 1) : (a + 1) % n = IF a + 1 = n THEN 0 ELSE a + 1
  <2> SUFFICES ASSUME NEW n \in Nat, 1 < n, NEW a \in 0..(n - 1)
               PROVE  (a + 1) % n = IF a + 1 = n THEN 0 ELSE a + 1
    OBVIOUS
  <2>1. CASE a + 1 = n
    <3>1. n % n = 0
      OBVIOUS
    <3> QED
      BY <2>1, <3>1
  <2>2. CASE a + 1 # n
    <3>1. \A b \in 0..(n - 1) : b % n = b
      OBVIOUS
    <3> QED
      BY <2>2, <3>1
  <2> QED
    BY <2>1, <2>2
<1>2. (i + 1) % Len(Pool) = IF i + 1 = Len(Pool) THEN 0 ELSE i + 1
  BY <1>1, APool
<1> QED
  BY <1>2, APool

LEMMA PostLeadKeeps ==
    ASSUME LeadInv, NEW r \in Requests, NEW keys \in SUBSET Addresses,
           NEW how \in {"named", "roundRobin", "leastLoaded"}, PostLead(r, keys, how)
    PROVE  LeadInv'
<1> DEFINE d == FindDuplicate(keys)
           l == [pc |-> "pick", keys |-> keys, dup |-> d, how |-> how]
<1>1. Begin(r, l) /\ UNCHANGED leads
  BY DEF PostLead
<1>2. req[r] = Idle
  BY <1>1, Begun DEF LeadInv
<1>3. d = 0 \/ (d \in Captured /\ lead[d].dupOf = 0)
  BY DuplicateFound
<1> HIDE DEF d
<1>4. d \in 0..MaxLeads /\ (d # 0 => d \in LeadIds)
  BY <1>3, LeadConstants DEF Captured, LeadIds
<1>5. l.pc = "pick" /\ l.dup = d /\ LeadSlot(l)
  BY <1>4 DEF LeadSlot, LeadSlots
<1> HIDE DEF l
<1>6. LeadFits(l)
  BY <1>3, <1>5 DEF LeadFits, OfLead
<1>7. d # 0 => Links[d] = 0
  BY <1>3, <1>4 DEF Links
<1>8. LeadAlone(Idle) => LeadAlone(l)
  BY <1>5, <1>7 DEF LeadAlone, LinksAlone, RuleAlone, CountsAlone, OfNewLead, Idle
<1> QED
  BY <1>1, <1>2, <1>5, <1>6, <1>8, LeadLooks

\* A handler on its way to a lead it has still to insert.
LEMMA ANewLead ==
    ASSUME LeadInv, NEW r \in Requests, req[r].pc \in OfNewLead
    PROVE  /\ req[r] \notin {Idle, Unused} /\ req[r] \in LeadSlots
           /\ req[r].keys \in SUBSET Addresses /\ req[r].dup \in 0..MaxLeads
           /\ req[r].dup # 0 => req[r].dup \in Captured
<1>1. req[r] \notin {Idle, Unused} /\ LeadSlot(req[r]) /\ LeadFits(req[r])
  BY DEF LeadInv, OfNewLead, Idle, Unused
<1>2. req[r] \in LeadSlots
  BY <1>1, LeadSlotKinds DEF OfNewLead
<1>3. req[r].keys \in SUBSET Addresses /\ req[r].dup \in 0..MaxLeads
  BY <1>2 DEF LeadSlots, OfNewLead
<1> QED
  BY <1>1, <1>2, <1>3 DEF LeadFits

LEMMA PickAssigneeKeeps ==
    ASSUME LeadInv, NEW r \in Requests, PickAssignee(r)
    PROVE  LeadInv'
<1> DEFINE next == (lastIndex + 1) % Len(Pool)
           owner == CASE req[r].how = "roundRobin" -> Pool[next + 1]
                      [] req[r].how = "leastLoaded" -> LeastLoaded
                      [] OTHER -> None
           pc == IF req[r].how = "roundRobin" THEN "advance" ELSE "insertLead"
           l == [pc |-> pc, keys |-> req[r].keys, dup |-> req[r].dup, next |-> next, owner |-> owner]
<1>1. Continue(r, l) /\ UNCHANGED leads /\ req[r].pc = "pick"
  BY DEF PickAssignee, At
<1>2. /\ req[r] \notin {Idle, Unused} /\ req[r] \in LeadSlots
      /\ req[r].keys \in SUBSET Addresses /\ req[r].dup \in 0..MaxLeads
      /\ req[r].dup # 0 => req[r].dup \in Captured
  BY <1>1, ANewLead DEF OfNewLead
<1>3. next \in 0..(Len(Pool) - 1)
  BY LeadTable, Turn
<1>4. next + 1 \in 1..Len(Pool)
  <2> HIDE DEF next
  <2> QED
    BY <1>3, APool
<1>5. owner \in Owners
  <2> HIDE DEF next
  <2> QED
    BY <1>4, APool, LeastLoadedIsOwner
<1>6. l.pc = pc /\ l.dup = req[r].dup /\ l.next = next /\ pc \in {"advance", "insertLead"}
  OBVIOUS
<1>7. LeadSlot(l)
  <2> HIDE DEF next, owner, pc
  <2> QED
    BY <1>2, <1>3, <1>5, <1>6 DEF LeadSlot, LeadSlots
<1> HIDE DEF l, pc, owner
<1>8. LeadFits(l)
  BY <1>2, <1>6 DEF LeadFits, OfLead, OfNewLead
<1>9. LeadAlone(req[r]) => LeadAlone(l)
  <2> SUFFICES ASSUME LeadAlone(req[r]) PROVE LeadAlone(l)
    OBVIOUS
  <2>1. LinksAlone(l)
    BY <1>1, <1>6 DEF LeadAlone, LinksAlone, OfNewLead
  <2>2. RuleAlone(l)
    BY <1>1, <1>6 DEF LeadAlone, RuleAlone
  <2>3. CountsAlone(l)
    BY <1>1, <1>6 DEF LeadAlone, CountsAlone
  <2> QED
    BY <2>1, <2>2, <2>3 DEF LeadAlone
<1> QED
  BY <1>1, <1>2, <1>7, <1>8, <1>9, LeadLooks

LEMMA EditKeeps ==
    ASSUME LeadInv, NEW r \in Requests, NEW k \in Captured, NEW patch, LeadPatch(patch),
           LET l == [pc |-> "writeLead", lead |-> k, patch |-> patch] IN Begin(r, l),
           UNCHANGED leads,
           patch["status"] = "won" => lead[k].client # 0,
           "dupOf" \in DOMAIN patch => patch["dupOf"] # k /\ lead[patch["dupOf"]].dupOf = 0
    PROVE  LeadInv'
<1> DEFINE l == [pc |-> "writeLead", lead |-> k, patch |-> patch]
<1>1. Begin(r, l)
  OBVIOUS
<1>2. req[r] = Idle
  BY <1>1, Begun DEF LeadInv
<1>3. l.pc = "writeLead" /\ l.lead = k /\ l.patch = patch /\ l = [pc |-> "writeLead", lead |-> k, patch |-> patch]
  OBVIOUS
<1> HIDE DEF l
<1>4. LeadSlot(l) /\ LeadFits(l)
  BY <1>3 DEF LeadSlot, EditSlot, LeadFits, OfLead, OfNewLead, Captured
<1>5. "dupOf" \in DOMAIN patch => Links[patch["dupOf"]] = 0
  BY DEF LeadPatch, Links
<1>6. LeadAlone(Idle) => LeadAlone(l)
  BY <1>3, <1>5 DEF LeadAlone, LinksAlone, RuleAlone, CountsAlone, OfNewLead, Idle
<1> QED
  BY <1>1, <1>2, <1>4, <1>6, LeadLooks

LEMMA PatchLeadKeeps ==
    ASSUME LeadInv, NEW r \in Requests, NEW k \in LeadIds, NEW status \in Statuses, PatchLead(r, k, status)
    PROVE  LeadInv'
<1> DEFINE patch == [status |-> status]
<1>1. /\ k \in Captured /\ (status = "won" => lead[k].client # 0)
      /\ Begin(r, [pc |-> "writeLead", lead |-> k, patch |-> patch]) /\ UNCHANGED leads
  BY DEF PatchLead
<1>2. LeadPatch(patch) /\ patch["status"] = status /\ "dupOf" \notin DOMAIN patch
  BY DEF LeadPatch
<1> HIDE DEF patch
<1> QED
  BY <1>1, <1>2, EditKeeps

LEMMA LinkDuplicateKeeps ==
    ASSUME LeadInv, NEW r \in Requests, NEW k \in LeadIds, NEW original \in LeadIds, LinkDuplicate(r, k, original)
    PROVE  LeadInv'
<1> DEFINE patch == [status |-> "duplicate", dupOf |-> original]
<1>1. /\ k \in Captured /\ k # original /\ lead[original].dupOf = 0
      /\ Begin(r, [pc |-> "writeLead", lead |-> k, patch |-> patch]) /\ UNCHANGED leads
  BY DEF LinkDuplicate
<1>2. LeadPatch(patch) /\ patch["status"] = "duplicate" /\ patch["dupOf"] = original
  BY DEF LeadPatch, Statuses
<1> HIDE DEF patch
<1> QED
  BY <1>1, <1>2, EditKeeps

LEMMA ConvertKeeps ==
    ASSUME LeadInv, NEW r \in Requests, NEW k \in LeadIds, Convert(r, k)
    PROVE  LeadInv'
<1> DEFINE l == [pc |-> "provision", lead |-> k]
<1>1. k \in Captured /\ lead[k].client = 0 /\ Begin(r, l) /\ UNCHANGED leads
  BY DEF Convert
<1>2. req[r] = Idle
  BY <1>1, Begun DEF LeadInv
<1>3. l.pc = "provision" /\ l.lead = k /\ LeadSlot(l)
  BY DEF LeadSlot, LeadSlots
<1> HIDE DEF l
<1>4. LeadFits(l)
  BY <1>1, <1>3 DEF LeadFits, OfLead, OfNewLead
<1>5. LeadAlone(Idle) => LeadAlone(l)
  BY <1>1, <1>3 DEF LeadAlone, LinksAlone, RuleAlone, CountsAlone, OfNewLead, Idle
<1> QED
  BY <1>1, <1>2, <1>3, <1>4, <1>5, LeadLooks

LEMMA ReadCampaignKeeps ==
    ASSUME LeadInv, NEW r \in Requests, ReadCampaign(r)
    PROVE  LeadInv'
<1> DEFINE l == [pc |-> "count", seen |-> convertedCount]
<1>1. Continue(r, l) /\ UNCHANGED leads /\ req[r].pc = "campaign"
  BY DEF ReadCampaign, At
<1>2. req[r] \notin {Idle, Unused}
  BY <1>1 DEF Idle, Unused
<1>3. l.pc = "count" /\ l.seen = convertedCount /\ LeadSlot(l)
  BY LeadTable DEF LeadSlot, LeadSlots
<1> HIDE DEF l
<1>4. LeadFits(l)
  BY <1>3 DEF LeadFits, OfLead, OfNewLead
<1>5. LeadAlone(req[r]) => LeadAlone(l)
  BY <1>1, <1>3 DEF LeadAlone, LinksAlone, RuleAlone, CountsAlone, OfNewLead
<1> QED
  BY <1>1, <1>2, <1>3, <1>4, <1>5, LeadLooks

\* What a step keeps of the part of the invariant it does not touch.
LEMMA LinksStay ==
    ASSUME NEW r \in Requests, LinksAlone(req[r]), Links' = Links,
           (req'[r]).pc # "writeLead",
           (req'[r]).pc \in OfNewLead => req[r].pc \in OfNewLead /\ (req'[r]).dup = req[r].dup
    PROVE  LinksAlone(req[r])'
BY DEF LinksAlone

LEMMA RuleStays ==
    ASSUME NEW r \in Requests, RuleAlone(req[r]), UNCHANGED <<given, lastIndex>>, (req'[r]).pc # "advance"
    PROVE  RuleAlone(req[r])'
BY DEF RuleAlone

LEMMA CountsStay ==
    ASSUME NEW r \in Requests, CountsAlone(req[r]), UNCHANGED <<conversions, clientsMade, convertedCount>>,
           \A k \in LeadIds : conversions[k] > 0 /\ lead[k].client # 0 => lead'[k].client # 0,
           req[r].pc \notin {"provision", "markWon", "follow", "campaign", "count"},
           (req'[r]).pc \notin {"provision", "markWon", "follow", "campaign", "count"}
    PROVE  CountsAlone(req[r])'
<1>1. Converted' = Converted
  BY DEF Converted
<1> QED
  BY <1>1 DEF CountsAlone

LEMMA ConvertedIsFinite ==
    IsFiniteSet(Converted) /\ Cardinality(Converted) \in Nat
<1>1. IsFiniteSet(LeadIds)
  BY LeadConstants, FS_Interval DEF LeadIds
<1>2. Converted \in SUBSET LeadIds
  BY DEF Converted
<1> QED
  BY <1>1, <1>2, FS_Subset, FS_CardinalityType

\* A step that leaves the leads themselves as they are.
LEMMA LeadTableStays ==
    ASSUME LeadInv, UNCHANGED lead, clientsMade' \in Nat, clientsMade <= clientsMade', convertedCount' \in Nat,
           lastIndex' \in 0..(Len(Pool) - 1), UNCHANGED conversions, given' \in [1..Len(Pool) -> Nat]
    PROVE  /\ LeadTypes' /\ LeadsTogether' /\ LeadsKept
           /\ Captured' = Captured /\ Links' = Links
<1>1. Captured' = Captured /\ Links' = Links
  BY DEF Captured, Links
<1>2. LeadsTogether'
  BY <1>1 DEF LeadInv, LeadsTogether, LeadsInOrder, WonHasClient
<1>3. LeadsKept
  BY <1>1 DEF LeadsKept
<1>4. lead' \in [LeadIds -> LeadRow(clientsMade')]
  <2>1. lead \in [LeadIds -> LeadRow(clientsMade)] /\ clientsMade \in Nat
    BY LeadTable
  <2>2. 0..clientsMade \subseteq 0..clientsMade'
    BY <2>1
  <2>3. LeadRow(clientsMade) \subseteq LeadRow(clientsMade')
    BY <2>2 DEF LeadRow
  <2> QED
    BY <2>1, <2>3
<1>5. lastIndex' < Len(Pool)
  BY APool
<1>6. LeadTypes'
  BY <1>4, <1>5 DEF LeadInv, LeadTypes, LeadTypeOK, LeadRow, Owners
<1> QED
  BY <1>1, <1>2, <1>3, <1>6

LEMMA AdvanceKeeps ==
    ASSUME LeadInv, NEW r \in Requests, Advance(r)
    PROVE  LeadInv'
<1> DEFINE next == req[r].next
           l == [req[r] EXCEPT !.pc = "insertLead"]
<1>1. /\ Continue(r, l) /\ req[r].pc = "advance" /\ lastIndex' = next
      /\ given' = [given EXCEPT ![next + 1] = @ + 1]
      /\ UNCHANGED <<lead, convertedCount, clientsMade, conversions>>
  BY DEF Advance, At
<1>2. /\ req[r] \notin {Idle, Unused} /\ req[r] \in LeadSlots
      /\ req[r].dup # 0 => req[r].dup \in Captured
  BY <1>1, ANewLead DEF OfNewLead
<1>3. req[r] \in [pc : {"advance", "insertLead"}, keys : SUBSET Addresses, dup : 0..MaxLeads,
                  next : 0..(Len(Pool) - 1), owner : Owners]
  BY <1>1, <1>2 DEF LeadSlots
<1>4. l.pc = "insertLead" /\ l.dup = req[r].dup /\ l \in LeadSlots
  BY <1>3 DEF LeadSlots
<1>5. next \in 0..(Len(Pool) - 1) /\ next + 1 \in 1..Len(Pool)
  <2>1. next \in 0..(Len(Pool) - 1)
    BY <1>3
  <2> HIDE DEF next
  <2> QED
    BY <2>1, APool
<1> HIDE DEF l, next
<1>6. given \in [1..Len(Pool) -> Nat] /\ lastIndex \in 0..(Len(Pool) - 1) /\ clientsMade \in Nat /\ convertedCount \in Nat
  BY LeadTable
<1>7. /\ given' \in [1..Len(Pool) -> Nat]
      /\ given'[next + 1] = given[next + 1] + 1
      /\ \A i \in 1..Len(Pool) : i # next + 1 => given'[i] = given[i]
  BY <1>1, <1>5, <1>6
<1>8. /\ LeadTypes' /\ LeadsTogether' /\ LeadsKept
      /\ Captured' = Captured /\ Links' = Links
  BY <1>1, <1>5, <1>6, <1>7, LeadTableStays
<1>9. req'[r] = l => LeadFits(req[r])'
  BY <1>2, <1>4, <1>8 DEF LeadFits, OfLead, OfNewLead
<1>10. ASSUME LeadAlone(req[r]), req'[r] = l
       PROVE  LeadAlone(req[r])'
  <2>1. LinksAlone(req[r])'
    BY <1>1, <1>4, <1>8, <1>10, LinksStay DEF LeadAlone, OfNewLead
  <2>2. RuleAlone(req[r])'
    <3>1. next = IF lastIndex + 1 = Len(Pool) THEN 0 ELSE lastIndex + 1
      BY <1>1, <1>6, <1>10, Turn DEF LeadAlone, RuleAlone, next
    <3>2. \A i \in 1..Len(Pool) : given[i] = given[1] + OneIf(2 <= i /\ i <= lastIndex + 1)
      BY <1>10 DEF LeadAlone, RuleAlone
    <3>3. 1 \in 1..Len(Pool) /\ \A i \in 1..Len(Pool) : given[i] \in Nat
      BY <1>6, APool
    <3>4. CASE lastIndex + 1 = Len(Pool)
      <4>1. next = 0 /\ given'[1] = given[1] + 1
        BY <1>7, <3>1, <3>4
      <4>2. ASSUME NEW i \in 1..Len(Pool) PROVE given'[i] = given[1] + 1
        <5>1. CASE i = 1
          BY <4>1, <5>1
        <5>2. CASE i # 1
          <6>1. 2 <= i /\ i <= lastIndex + 1
            BY <3>4, <5>2, APool
          <6> QED
            BY <1>7, <3>2, <4>1, <5>2, <6>1 DEF OneIf
        <5> QED
          BY <5>1, <5>2
      <4>3. ASSUME NEW i \in 1..Len(Pool) PROVE ~(2 <= i /\ i <= next + 1)
        BY <4>1
      <4> QED
        BY <1>1, <1>4, <1>10, <3>3, <4>1, <4>2, <4>3 DEF RuleAlone, OneIf
    <3>5. CASE lastIndex + 1 # Len(Pool)
      <4>1. next = lastIndex + 1 /\ lastIndex \in Nat
        BY <1>6, <3>1, <3>5
      <4>2. given'[1] = given[1] /\ given[1] \in Nat
        BY <1>7, <3>3, <4>1
      <4>3. ASSUME NEW i \in 1..Len(Pool)
            PROVE  given'[i] = given'[1] + OneIf(2 <= i /\ i <= next + 1)
        <5>1. CASE i = next + 1
          <6>1. 2 <= i /\ i <= next + 1 /\ ~(i <= lastIndex + 1)
            BY <4>1, <5>1
          <6>2. given[i] = given[1] + 0
            BY <3>2, <6>1 DEF OneIf
          <6> QED
            BY <1>7, <4>2, <5>1, <6>1, <6>2 DEF OneIf
        <5>2. CASE i # next + 1
          <6>1. i <= next + 1 <=> i <= lastIndex + 1
            BY <4>1, <5>2
          <6> QED
            BY <1>7, <3>2, <4>2, <5>2, <6>1 DEF OneIf
        <5> QED
          BY <5>1, <5>2
      <4> QED
        BY <1>1, <1>4, <1>10, <4>3 DEF RuleAlone
    <3> QED
      BY <3>4, <3>5
  <2>3. CountsAlone(req[r])'
    BY <1>1, <1>4, <1>10, CountsStay DEF LeadAlone
  <2> QED
    BY <2>1, <2>2, <2>3 DEF LeadAlone
<1> QED
  BY <1>1, <1>2, <1>4, <1>8, <1>9, <1>10, LeadKeeps DEF LeadSlot

LEMMA CountConversionKeeps ==
    ASSUME LeadInv, NEW r \in Requests, CountConversion(r)
    PROVE  LeadInv'
<1>1. /\ Continue(r, Idle) /\ req[r].pc = "count" /\ convertedCount' = req[r].seen + 1
      /\ UNCHANGED <<lead, lastIndex, clientsMade, conversions, given>>
  BY DEF CountConversion, At, Return
<1>2. req[r] \notin {Idle, Unused} /\ LeadSlot(req[r])
  BY <1>1 DEF LeadInv, Idle, Unused
<1>3. req[r].seen \in Nat
  BY <1>1, <1>2, LeadSlotKinds DEF LeadSlots
<1>4. /\ LeadTypes' /\ LeadsTogether' /\ LeadsKept
      /\ Captured' = Captured /\ Links' = Links
  BY <1>1, <1>3, LeadTable, LeadTableStays
<1>5. LeadSlot(Idle) /\ (req'[r] = Idle => LeadFits(req[r])')
  BY DEF LeadSlot, LeadFits, OfLead, OfNewLead, Idle
<1>6. ASSUME LeadAlone(req[r]), req'[r] = Idle
      PROVE  LeadAlone(req[r])'
  <2>1. LinksAlone(req[r])'
    BY <1>4, <1>6, LinksStay DEF LeadAlone, OfNewLead, Idle
  <2>2. RuleAlone(req[r])'
    BY <1>1, <1>6, RuleStays DEF LeadAlone, Idle
  <2>3. Converted' = Converted
    BY <1>1 DEF Converted
  <2>4. /\ Cardinality(Converted) = convertedCount + 1 /\ req[r].seen = convertedCount
        /\ clientsMade = Cardinality(Converted) + 0
    BY <1>1, <1>6 DEF LeadAlone, CountsAlone, OneIf
  <2>5. convertedCount' + 0 = Cardinality(Converted)
    BY <1>1, <1>3, <2>4
  <2>6. CountsAlone(req[r])'
    BY <1>1, <1>6, <2>3, <2>4, <2>5 DEF LeadAlone, CountsAlone, OneIf, Idle
  <2> QED
    BY <2>1, <2>2, <2>6 DEF LeadAlone
<1> QED
  BY <1>1, <1>2, <1>4, <1>5, <1>6, LeadKeeps

LEMMA ProvisionKeeps ==
    ASSUME LeadInv, NEW r \in Requests, Provision(r)
    PROVE  LeadInv'
<1> DEFINE l == [pc |-> "markWon", lead |-> req[r].lead, client |-> clientsMade + 1]
<1>1. /\ Continue(r, l) /\ req[r].pc = "provision" /\ clientsMade' = clientsMade + 1
      /\ UNCHANGED <<lead, lastIndex, convertedCount, conversions, given>>
  BY DEF Provision, At
<1>2. req[r] \notin {Idle, Unused} /\ LeadSlot(req[r]) /\ LeadFits(req[r])
  BY <1>1 DEF LeadInv, Idle, Unused
<1>3. req[r].lead \in LeadIds /\ req[r].lead \in Captured
  BY <1>1, <1>2 DEF LeadFits, OfLead, Captured
<1>4. clientsMade \in Nat
  BY LeadTable
<1>5. l.pc = "markWon" /\ l.lead = req[r].lead /\ l.client = clientsMade + 1 /\ LeadSlot(l)
  BY <1>3, <1>4 DEF LeadSlot, LeadSlots
<1> HIDE DEF l
<1>6. /\ LeadTypes' /\ LeadsTogether' /\ LeadsKept
      /\ Captured' = Captured /\ Links' = Links
  BY <1>1, <1>4, LeadTable, LeadTableStays
<1>7. req'[r] = l => LeadFits(req[r])'
  BY <1>1, <1>3, <1>4, <1>5, <1>6 DEF LeadFits, OfLead, OfNewLead
<1>8. ASSUME LeadAlone(req[r]), req'[r] = l
      PROVE  LeadAlone(req[r])'
  <2>1. LinksAlone(req[r])'
    BY <1>5, <1>6, <1>8, LinksStay DEF LeadAlone, OfNewLead
  <2>2. RuleAlone(req[r])'
    BY <1>1, <1>5, <1>8, RuleStays DEF LeadAlone
  <2>3. Converted' = Converted
    BY <1>1 DEF Converted
  <2>4. /\ Cardinality(Converted) = convertedCount + 0 /\ lead[req[r].lead].client = 0
        /\ clientsMade = Cardinality(Converted) + 0
    BY <1>1, <1>8 DEF LeadAlone, CountsAlone, OneIf
  <2>5. clientsMade' = Cardinality(Converted) + 1
    BY <1>1, <2>4, ConvertedIsFinite
  <2>6. CountsAlone(req[r])'
    BY <1>1, <1>5, <1>8, <2>3, <2>4, <2>5 DEF LeadAlone, CountsAlone, OneIf
  <2> QED
    BY <2>1, <2>2, <2>6 DEF LeadAlone
<1> QED
  BY <1>1, <1>2, <1>5, <1>6, <1>7, <1>8, LeadKeeps

\* A step that changes the leads that are there and inserts none.
LEMMA LeadsRewritten ==
    ASSUME LeadInv, lead' \in [LeadIds -> LeadRow(clientsMade)], conversions' \in [LeadIds -> Nat],
           UNCHANGED <<lastIndex, convertedCount, clientsMade, given>>,
           \A k \in LeadIds : /\ lead'[k].status = "absent" <=> lead[k].status = "absent"
                              /\ lead[k].client # 0 => lead'[k].client # 0
                              /\ lead'[k].status = "won" => lead'[k].client # 0
                              /\ k \notin Captured => lead'[k] = lead[k]
    PROVE  LeadTypes' /\ LeadsTogether' /\ LeadsKept /\ Captured' = Captured
<1>1. Captured' = Captured
  BY DEF Captured
<1>2. LeadsTogether'
  BY <1>1 DEF LeadInv, LeadsTogether, LeadsInOrder, WonHasClient
<1>3. LeadsKept
  BY <1>1, LeadTable DEF LeadsKept
<1>4. LeadTypes'
  BY DEF LeadInv, LeadTypes, LeadTypeOK, LeadRow, Owners
<1> QED
  BY <1>1, <1>2, <1>3, <1>4

\* The handler of a slot that is about a lead.
LEMMA ALeadSlot ==
    ASSUME LeadInv, NEW r \in Requests, req[r].pc \in OfLead
    PROVE  /\ req[r] \notin {Idle, Unused} /\ LeadSlot(req[r]) /\ LeadFits(req[r])
           /\ req[r].lead \in Captured /\ req[r].lead \in LeadIds
           /\ req[r].pc = "writeLead" => LeadPatch(req[r].patch)
           /\ req[r].pc \in {"markWon", "follow"} =>
                /\ req[r].client \in 1..clientsMade
                /\ req[r] \in [pc : {"markWon", "follow"}, lead : LeadIds, client : Nat]
<1>1. req[r] \notin {Idle, Unused} /\ LeadSlot(req[r]) /\ LeadFits(req[r])
  BY DEF LeadInv, OfLead, Idle, Unused
<1>2. req[r].pc = "writeLead" => LeadPatch(req[r].patch)
  BY <1>1, LeadSlotKinds DEF EditSlot
<1>3. req[r].pc \in {"markWon", "follow"} => req[r] \in [pc : {"markWon", "follow"}, lead : LeadIds, client : Nat]
  BY <1>1, LeadSlotKinds DEF LeadSlots
<1> QED
  BY <1>1, <1>2, <1>3 DEF LeadFits, OfLead, Captured

LEMMA LeadUpdated ==
    ASSUME NEW n, NEW row \in LeadRow(n), NEW patch, LeadPatch(patch)
    PROVE  /\ Update(row, patch) \in LeadRow(n)
           /\ Update(row, patch).status = patch["status"] /\ Update(row, patch).client = row.client
           /\ Update(row, patch).dupOf = IF "dupOf" \in DOMAIN patch THEN patch["dupOf"] ELSE row.dupOf
<1> DEFINE new == Update(row, patch)
<1>1. DOMAIN row = {"status", "keys", "dupOf", "client", "owner"}
  BY DEF LeadRow
<1>2. new = [f \in {"status", "keys", "dupOf", "client", "owner"} |-> IF f \in DOMAIN patch THEN patch[f] ELSE row[f]]
  BY <1>1 DEF Update, LeadPatch
<1> HIDE DEF new
<1>3. /\ row["keys"] \in SUBSET Addresses /\ row["dupOf"] \in 0..MaxLeads /\ row["client"] \in 0..n
      /\ row["owner"] \in Owners
  BY DEF LeadRow
<1>4. /\ new.status = patch["status"] /\ new.keys = row.keys /\ new.client = row.client /\ new.owner = row.owner
      /\ new.dupOf = IF "dupOf" \in DOMAIN patch THEN patch["dupOf"] ELSE row.dupOf
  BY <1>2 DEF LeadPatch
<1>5. "dupOf" \in DOMAIN patch => patch["dupOf"] \in 0..MaxLeads
  BY ALead DEF LeadPatch
<1>6. new.status \in Statuses /\ new.dupOf \in 0..MaxLeads
  BY <1>3, <1>4, <1>5 DEF LeadPatch
<1>7. new = [status |-> new.status, keys |-> new.keys, dupOf |-> new.dupOf, client |-> new.client, owner |-> new.owner]
  BY <1>2
<1>8. new \in LeadRow(n)
  BY <1>3, <1>4, <1>6, <1>7 DEF LeadRow
<1> QED
  BY <1>4, <1>8 DEF new

\* A link that is made, to an original, leaves every link with an end.
LEMMA LinkMade ==
    ASSUME LeadInv, \E h \in [LeadIds -> LeadIds] : Ranks(h, Links),
           NEW k \in LeadIds, NEW o \in LeadIds, o # k, Links[o] = 0,
           lead' \in [LeadIds -> LeadRow(clientsMade)],
           lead'[k].dupOf = o, \A i \in LeadIds \ {k} : lead'[i].dupOf = lead[i].dupOf
    PROVE  \E h \in [LeadIds -> LeadIds] : Ranks(h, Links')
<1>1. Links \in [LeadIds -> 0..MaxLeads] /\ Links' \in [LeadIds -> 0..MaxLeads]
  BY LeadTable DEF Links, LeadRow
<1>2. Links'[k] = o /\ \A i \in LeadIds \ {k} : Links'[i] = Links[i]
  BY DEF Links
<1>3. PICK h \in [LeadIds -> LeadIds] : Ranks(h, Links)
  OBVIOUS
<1> DEFINE before == Links
           after == Links'
<1>4. before \in [LeadIds -> 0..MaxLeads] /\ after \in [LeadIds -> 0..MaxLeads] /\ Ranks(h, before)
      /\ before[o] = 0 /\ after[k] = o /\ \A i \in LeadIds \ {k} : after[i] = before[i]
  BY <1>1, <1>2, <1>3
<1> HIDE DEF before, after
<1>5. \E g \in [LeadIds -> LeadIds] : Ranks(g, after)
  <2> HIDE DEF Ranks
  <2> QED
    BY ONLY <1>4, Relinked, k \in LeadIds, o \in LeadIds, o # k, h \in [LeadIds -> LeadIds]
<1> QED
  BY <1>5 DEF after

LEMMA WriteLeadKeeps ==
    ASSUME LeadInv, NEW r \in Requests, WriteLead(r)
    PROVE  LeadInv'
<1> DEFINE k == req[r].lead
           patch == req[r].patch
           row == Update(lead[k], patch)
<1>1. /\ Continue(r, Idle) /\ req[r].pc = "writeLead"
      /\ lead' = [lead EXCEPT ![k] = row]
      /\ UNCHANGED <<lastIndex, convertedCount, clientsMade, conversions, given>>
  BY DEF WriteLead, At, Return
<1>2. /\ req[r] \notin {Idle, Unused} /\ k \in Captured /\ k \in LeadIds /\ LeadPatch(patch)
      /\ patch["status"] = "won" => lead[k].client # 0
  BY <1>1, ALeadSlot DEF OfLead, LeadFits
<1>3. lead \in [LeadIds -> LeadRow(clientsMade)] /\ conversions \in [LeadIds -> Nat]
  BY LeadTable
<1>4. /\ row \in LeadRow(clientsMade) /\ row.status = patch["status"] /\ row.client = lead[k].client
      /\ row.dupOf = IF "dupOf" \in DOMAIN patch THEN patch["dupOf"] ELSE lead[k].dupOf
  BY <1>2, <1>3, LeadUpdated
<1>5. row.status # "absent"
  BY <1>2, <1>4 DEF LeadPatch, Statuses
<1> HIDE DEF row
<1>6. /\ lead' \in [LeadIds -> LeadRow(clientsMade)]
      /\ lead'[k] = row /\ \A i \in LeadIds \ {k} : lead'[i] = lead[i]
  BY <1>1, <1>2, <1>3, <1>4
<1> HIDE DEF k, patch
<1>7. LeadTypes' /\ LeadsTogether' /\ LeadsKept /\ Captured' = Captured
  <2>1. \A i \in LeadIds : lead[i].status = "won" => lead[i].client # 0
    BY DEF LeadInv, LeadsTogether, WonHasClient
  <2>2. ASSUME NEW i \in LeadIds
        PROVE  /\ lead'[i].status = "absent" <=> lead[i].status = "absent"
               /\ lead[i].client # 0 => lead'[i].client # 0
               /\ lead'[i].status = "won" => lead'[i].client # 0
               /\ i \notin Captured => lead'[i] = lead[i]
    <3>1. CASE i = k
      BY <1>2, <1>4, <1>5, <1>6, <3>1 DEF Captured
    <3>2. CASE i # k
      BY <1>6, <2>1, <3>2
    <3> QED
      BY <3>1, <3>2
  <2> QED
    BY <1>1, <1>3, <1>6, <2>2, LeadsRewritten
<1>8. LeadSlot(Idle) /\ (req'[r] = Idle => LeadFits(req[r])')
  BY DEF LeadSlot, LeadFits, OfLead, OfNewLead, Idle
<1>9. ASSUME LeadAlone(req[r]), req'[r] = Idle
      PROVE  LeadAlone(req[r])'
  <2>1. \E h \in [LeadIds -> LeadIds] : Ranks(h, Links')
    <3>1. \E h \in [LeadIds -> LeadIds] : Ranks(h, Links)
      BY <1>9 DEF LeadAlone, LinksAlone
    <3>2. CASE "dupOf" \in DOMAIN patch
      <4>1. patch["dupOf"] \in LeadIds /\ patch["dupOf"] # k /\ Links[patch["dupOf"]] = 0
        BY <1>1, <1>2, <1>9, <3>2 DEF LeadAlone, LinksAlone, LeadPatch, k, patch
      <4>2. lead'[k].dupOf = patch["dupOf"] /\ \A i \in LeadIds \ {k} : lead'[i].dupOf = lead[i].dupOf
        BY <1>4, <1>6, <3>2
      <4> QED
        BY <1>2, <1>6, <3>1, <4>1, <4>2, LinkMade
    <3>3. CASE "dupOf" \notin DOMAIN patch
      <4>1. \A i \in LeadIds : lead'[i].dupOf = lead[i].dupOf
        BY <1>4, <1>6, <3>3
      <4>2. Links' = Links
        BY <4>1 DEF Links
      <4> QED
        BY <3>1, <4>2
    <3> QED
      BY <3>2, <3>3
  <2>2. LinksAlone(req[r])'
    BY <1>9, <2>1 DEF LinksAlone, OfNewLead, Idle
  <2>3. RuleAlone(req[r])'
    BY <1>1, <1>9, RuleStays DEF LeadAlone, Idle
  <2>4. \A i \in LeadIds : lead[i].client # 0 => lead'[i].client # 0
    BY <1>7 DEF LeadsKept
  <2>5. CountsAlone(req[r])'
    BY <1>1, <1>9, <2>4, CountsStay DEF LeadAlone, Idle
  <2> QED
    BY <2>2, <2>3, <2>5 DEF LeadAlone
<1> QED
  BY <1>1, <1>2, <1>7, <1>8, <1>9, LeadKeeps

LEMMA InsertLeadKeeps ==
    ASSUME LeadInv, NEW r \in Requests, InsertLead(r)
    PROVE  LeadInv'
<1> DEFINE k == Cardinality(Captured) + 1
           d == req[r].dup
           row == [status |-> IF d = 0 THEN "new" ELSE "duplicate",
                   keys |-> req[r].keys, dupOf |-> d, client |-> 0, owner |-> req[r].owner]
<1>1. /\ Continue(r, Idle) /\ req[r].pc = "insertLead" /\ k \in LeadIds
      /\ lead' = [lead EXCEPT ![k] = row]
      /\ UNCHANGED <<lastIndex, convertedCount, clientsMade, conversions, given>>
  BY DEF InsertLead, At, Return
<1>2. /\ req[r] \notin {Idle, Unused} /\ req[r] \in LeadSlots /\ req[r].keys \in SUBSET Addresses
      /\ d \in 0..MaxLeads /\ (d # 0 => d \in Captured)
  BY <1>1, ANewLead DEF OfNewLead
<1>3. req[r].owner \in Owners
  BY <1>1, <1>2 DEF LeadSlots
<1>4. lead \in [LeadIds -> LeadRow(clientsMade)] /\ conversions \in [LeadIds -> Nat] /\ clientsMade \in Nat
  BY LeadTable
<1>5. /\ row \in LeadRow(clientsMade) /\ row.status \in {"new", "duplicate"} /\ row.client = 0 /\ row.dupOf = d
  BY <1>2, <1>3, <1>4 DEF LeadRow, Statuses
<1>6. \A l \in LeadIds : l \in Captured <=> l < k
  BY NextLead
<1>7. k \in Nat /\ k <= MaxLeads /\ \A l \in LeadIds : l \in Nat
  BY <1>1, LeadConstants DEF LeadIds
<1> HIDE DEF row, k, d
<1>8. k \notin Captured
  BY <1>1, <1>6, <1>7
<1>9. /\ lead' \in [LeadIds -> LeadRow(clientsMade)]
      /\ lead'[k] = row /\ \A i \in LeadIds \ {k} : lead'[i] = lead[i]
  BY <1>1, <1>4, <1>5
<1>10. lead[k] = NoLead
  BY <1>1, <1>8 DEF LeadInv, LeadsTogether
<1>11. Captured' = Captured \cup {k}
  BY <1>1, <1>5, <1>9 DEF Captured
<1>12. LeadTypes'
  BY <1>1, <1>9 DEF LeadInv, LeadTypes, LeadTypeOK, LeadRow, Owners
<1>13. LeadsTogether'
  <2>1. k \in 0..MaxLeads /\ \A l \in LeadIds : l \in Captured' <=> l <= k
    <3>1. \A l \in LeadIds : l <= k <=> l < k \/ l = k
      BY <1>7
    <3>2. k \in 0..MaxLeads
      BY <1>7, LeadConstants
    <3> QED
      BY <1>6, <1>11, <3>1, <3>2
  <2>2. LeadsInOrder'
    BY <2>1 DEF LeadsInOrder
  <2>3. \A l \in LeadIds \ Captured' : lead'[l] = NoLead
    BY <1>9, <1>11 DEF LeadInv, LeadsTogether
  <2>4. WonHasClient'
    BY <1>5, <1>9 DEF LeadInv, LeadsTogether, WonHasClient
  <2> QED
    BY <2>2, <2>3, <2>4 DEF LeadsTogether
<1>14. LeadsKept
  <2>1. lead[k].client = 0
    BY <1>10 DEF NoLead
  <2> QED
    BY <1>1, <1>4, <1>9, <1>11, <2>1 DEF LeadsKept
<1>15. LeadSlot(Idle) /\ (req'[r] = Idle => LeadFits(req[r])')
  BY DEF LeadSlot, LeadFits, OfLead, OfNewLead, Idle
<1>16. ASSUME LeadAlone(req[r]), req'[r] = Idle
       PROVE  LeadAlone(req[r])'
  <2>1. \E h \in [LeadIds -> LeadIds] : Ranks(h, Links')
    <3>1. \E h \in [LeadIds -> LeadIds] : Ranks(h, Links)
      BY <1>16 DEF LeadAlone, LinksAlone
    <3>2. lead'[k].dupOf = d /\ \A i \in LeadIds \ {k} : lead'[i].dupOf = lead[i].dupOf
      BY <1>5, <1>9
    <3>3. CASE d # 0
      <4>1. d \in LeadIds /\ d # k /\ Links[d] = 0
        BY <1>1, <1>2, <1>8, <1>16, <3>3 DEF LeadAlone, LinksAlone, OfNewLead, Captured, d
      <4> QED
        BY <1>1, <1>9, <3>1, <3>2, <4>1, LinkMade
    <3>4. CASE d = 0
      <4>1. \A i \in LeadIds : lead'[i].dupOf = lead[i].dupOf
        BY <1>10, <3>2, <3>4 DEF NoLead
      <4>2. Links' = Links
        BY <4>1 DEF Links
      <4> QED
        BY <3>1, <4>2
    <3> QED
      BY <3>3, <3>4
  <2>2. LinksAlone(req[r])'
    BY <1>16, <2>1 DEF LinksAlone, OfNewLead, Idle
  <2>3. RuleAlone(req[r])'
    BY <1>1, <1>16, RuleStays DEF LeadAlone, Idle
  <2>4. \A i \in LeadIds : lead[i].client # 0 => lead'[i].client # 0
    BY <1>14 DEF LeadsKept
  <2>5. CountsAlone(req[r])'
    BY <1>1, <1>16, <2>4, CountsStay DEF LeadAlone, Idle
  <2> QED
    BY <2>2, <2>3, <2>5 DEF LeadAlone
<1> QED
  BY <1>1, <1>2, <1>12, <1>13, <1>14, <1>15, <1>16, LeadKeeps

\* A lead that is converted, with the client it has then.
LEMMA LeadWon ==
    ASSUME NEW n, NEW row \in LeadRow(n), NEW c \in 0..n
    PROVE  LET new == Update(row, [status |-> "won", client |-> c]) IN
           new \in LeadRow(n) /\ new.status = "won" /\ new.client = c /\ new.dupOf = row.dupOf
<1> DEFINE patch == [status |-> "won", client |-> c]
           new == Update(row, patch)
<1>1. DOMAIN row = {"status", "keys", "dupOf", "client", "owner"} /\ DOMAIN patch = {"status", "client"}
  BY DEF LeadRow
<1>2. new = [f \in {"status", "keys", "dupOf", "client", "owner"} |-> IF f \in DOMAIN patch THEN patch[f] ELSE row[f]]
  BY <1>1 DEF Update
<1> HIDE DEF new
<1>3. /\ row["keys"] \in SUBSET Addresses /\ row["dupOf"] \in 0..MaxLeads /\ row["owner"] \in Owners
  BY DEF LeadRow
<1>4. new.status = "won" /\ new.keys = row.keys /\ new.client = c /\ new.owner = row.owner /\ new.dupOf = row.dupOf
  BY <1>2
<1>5. new = [status |-> new.status, keys |-> new.keys, dupOf |-> new.dupOf, client |-> new.client, owner |-> new.owner]
  BY <1>2
<1>6. new \in LeadRow(n)
  BY <1>3, <1>4, <1>5 DEF LeadRow, Statuses
<1> QED
  BY <1>4, <1>6 DEF new

LEMMA MarkWonKeeps ==
    ASSUME LeadInv, NEW r \in Requests, MarkWon(r)
    PROVE  LeadInv'
<1> DEFINE k == req[r].lead
           c == req[r].client
           row == Update(lead[k], [status |-> "won", client |-> c])
           l == [req[r] EXCEPT !.pc = "follow"]
<1>1. /\ Continue(r, l) /\ req[r].pc = "markWon"
      /\ lead' = [lead EXCEPT ![k] = row]
      /\ conversions' = [conversions EXCEPT ![k] = @ + 1]
      /\ UNCHANGED <<lastIndex, convertedCount, clientsMade, given>>
  BY DEF MarkWon, At
<1>2. /\ req[r] \notin {Idle, Unused} /\ k \in Captured /\ k \in LeadIds /\ c \in 1..clientsMade
      /\ req[r] \in [pc : {"markWon", "follow"}, lead : LeadIds, client : Nat]
  BY <1>1, ALeadSlot DEF OfLead
<1>3. lead \in [LeadIds -> LeadRow(clientsMade)] /\ conversions \in [LeadIds -> Nat] /\ clientsMade \in Nat
  BY LeadTable
<1>4. l.pc = "follow" /\ l.lead = k /\ l.client = c /\ LeadSlot(l)
  BY <1>2 DEF LeadSlot, LeadSlots
<1>5. row \in LeadRow(clientsMade) /\ row.status = "won" /\ row.client = c /\ row.dupOf = lead[k].dupOf
  BY <1>2, <1>3, LeadWon
<1> HIDE DEF row, l, k, c
<1>6. c # 0
  BY <1>2, <1>3
<1>7. /\ lead' \in [LeadIds -> LeadRow(clientsMade)]
      /\ lead'[k] = row /\ \A i \in LeadIds \ {k} : lead'[i] = lead[i]
      /\ conversions' \in [LeadIds -> Nat]
      /\ conversions'[k] = conversions[k] + 1 /\ \A i \in LeadIds \ {k} : conversions'[i] = conversions[i]
  BY <1>1, <1>2, <1>3, <1>5
<1>8. LeadTypes' /\ LeadsTogether' /\ LeadsKept /\ Captured' = Captured
  <2>1. \A i \in LeadIds : lead[i].status = "won" => lead[i].client # 0
    BY DEF LeadInv, LeadsTogether, WonHasClient
  <2>2. ASSUME NEW i \in LeadIds
        PROVE  /\ lead'[i].status = "absent" <=> lead[i].status = "absent"
               /\ lead[i].client # 0 => lead'[i].client # 0
               /\ lead'[i].status = "won" => lead'[i].client # 0
               /\ i \notin Captured => lead'[i] = lead[i]
    <3>1. CASE i = k
      BY <1>2, <1>5, <1>6, <1>7, <3>1 DEF Captured
    <3>2. CASE i # k
      BY <1>7, <2>1, <3>2
    <3> QED
      BY <3>1, <3>2
  <2> QED
    BY <1>1, <1>7, <2>2, LeadsRewritten
<1>9. req'[r] = l => LeadFits(req[r])'
  BY <1>1, <1>2, <1>4, <1>8 DEF LeadFits, OfLead, OfNewLead
<1>10. Links' = Links
  <2>1. \A i \in LeadIds : lead'[i].dupOf = lead[i].dupOf
    BY <1>5, <1>7
  <2> QED
    BY <2>1 DEF Links
<1>11. ASSUME LeadAlone(req[r]), req'[r] = l
       PROVE  LeadAlone(req[r])'
  <2>1. LinksAlone(req[r])'
    BY <1>4, <1>10, <1>11, LinksStay DEF LeadAlone, OfNewLead
  <2>2. RuleAlone(req[r])'
    BY <1>1, <1>4, <1>11, RuleStays DEF LeadAlone
  <2>3. /\ \A i \in LeadIds : conversions[i] <= 1 /\ (conversions[i] > 0 => lead[i].client # 0)
        /\ lead[k].client = 0 /\ clientsMade = Cardinality(Converted) + 1
        /\ Cardinality(Converted) = convertedCount + 0
    BY <1>1, <1>11 DEF LeadAlone, CountsAlone, OneIf, k
  <2>4. conversions[k] = 0 /\ conversions'[k] = 1
    BY <1>2, <1>3, <1>7, <2>3
  <2>5. Converted' = Converted \cup {k} /\ k \notin Converted
    BY <1>2, <1>7, <2>4 DEF Converted
  <2>6. Cardinality(Converted') = Cardinality(Converted) + 1
    BY <2>5, ConvertedIsFinite, FS_AddElement
  <2>7. \A i \in LeadIds : conversions'[i] <= 1 /\ (conversions'[i] > 0 => lead'[i].client # 0)
    BY <1>5, <1>6, <1>7, <2>3, <2>4
  <2>8. /\ clientsMade = Cardinality(Converted') + 0
        /\ Cardinality(Converted') = convertedCount + 1
    BY <2>3, <2>6, ConvertedIsFinite, LeadTable
  <2>9. CountsAlone(req[r])'
    BY <1>1, <1>4, <1>11, <2>7, <2>8 DEF CountsAlone, OneIf
  <2> QED
    BY <2>1, <2>2, <2>9 DEF LeadAlone
<1> QED
  BY <1>1, <1>2, <1>4, <1>8, <1>9, <1>11, LeadKeeps

LEMMA DuplicatesFollowKeeps ==
    ASSUME LeadInv, NEW r \in Requests, DuplicatesFollow(r)
    PROVE  LeadInv'
<1> DEFINE k == req[r].lead
           c == req[r].client
           l == [pc |-> "campaign"]
           follows(i) == lead[i].dupOf = k /\ i \in Captured
<1>1. /\ Continue(r, l) /\ req[r].pc = "follow"
      /\ lead' = [i \in LeadIds |-> IF follows(i) THEN [lead[i] EXCEPT !.client = c] ELSE lead[i]]
      /\ UNCHANGED <<lastIndex, convertedCount, clientsMade, conversions, given>>
  BY DEF DuplicatesFollow, At
<1>2. req[r] \notin {Idle, Unused} /\ c \in 1..clientsMade
  BY <1>1, ALeadSlot DEF OfLead
<1>3. lead \in [LeadIds -> LeadRow(clientsMade)] /\ conversions \in [LeadIds -> Nat] /\ clientsMade \in Nat
  BY LeadTable
<1>4. l.pc = "campaign" /\ LeadSlot(l)
  BY DEF LeadSlot, LeadSlots
<1> HIDE DEF l, k, c, follows
<1>5. c # 0 /\ c \in 0..clientsMade
  BY <1>2, <1>3
<1>6. ASSUME NEW i \in LeadIds
      PROVE  /\ lead'[i] \in LeadRow(clientsMade)
             /\ lead'[i].status = lead[i].status /\ lead'[i].dupOf = lead[i].dupOf
             /\ lead'[i].client = IF follows(i) THEN c ELSE lead[i].client
             /\ i \notin Captured => lead'[i] = lead[i]
  <2>1. lead[i] \in LeadRow(clientsMade)
    BY <1>3
  <2>2. lead'[i] = IF follows(i) THEN [lead[i] EXCEPT !.client = c] ELSE lead[i]
    BY <1>1
  <2>3. i \notin Captured => ~follows(i)
    BY DEF follows
  <2> QED
    BY <1>5, <2>1, <2>2, <2>3 DEF LeadRow
<1>7. LeadTypes' /\ LeadsTogether' /\ LeadsKept /\ Captured' = Captured
  <2>1. \A i \in LeadIds : lead[i].status = "won" => lead[i].client # 0
    BY DEF LeadInv, LeadsTogether, WonHasClient
  <2>2. lead' \in [LeadIds -> LeadRow(clientsMade)]
    BY <1>1, <1>6
  <2> QED
    BY <1>1, <1>3, <1>5, <1>6, <2>1, <2>2, LeadsRewritten
<1>8. req'[r] = l => LeadFits(req[r])'
  BY <1>4 DEF LeadFits, OfLead, OfNewLead
<1>9. Links' = Links
  BY <1>6 DEF Links
<1>10. ASSUME LeadAlone(req[r]), req'[r] = l
       PROVE  LeadAlone(req[r])'
  <2>1. LinksAlone(req[r])'
    BY <1>4, <1>9, <1>10, LinksStay DEF LeadAlone, OfNewLead
  <2>2. RuleAlone(req[r])'
    BY <1>1, <1>4, <1>10, RuleStays DEF LeadAlone
  <2>3. /\ \A i \in LeadIds : conversions[i] <= 1 /\ (conversions[i] > 0 => lead[i].client # 0)
        /\ clientsMade = Cardinality(Converted) + 0
        /\ Cardinality(Converted) = convertedCount + 1
    BY <1>1, <1>10 DEF LeadAlone, CountsAlone, OneIf
  <2>4. Converted' = Converted
    BY <1>1 DEF Converted
  <2>5. \A i \in LeadIds : conversions'[i] <= 1 /\ (conversions'[i] > 0 => lead'[i].client # 0)
    BY <1>1, <1>5, <1>6, <2>3
  <2>6. CountsAlone(req[r])'
    BY <1>1, <1>4, <1>10, <2>3, <2>4, <2>5 DEF CountsAlone, OneIf
  <2> QED
    BY <2>1, <2>2, <2>6 DEF LeadAlone
<1> QED
  BY <1>1, <1>2, <1>4, <1>7, <1>8, <1>10, LeadKeeps

LEMMA LeadStarts ==
    ASSUME NEW slots, NEW requests, NEW stops, ServerInit(slots, requests, stops), LeadInit
    PROVE  LeadInv
<1>1. ServerOK /\ \A r \in Requests : req[r] \in {Idle, Unused}
  BY ServerStarts
<1>2. /\ lead = [l \in LeadIds |-> NoLead] /\ lastIndex = 0 /\ convertedCount = 0 /\ clientsMade = 0
      /\ conversions = [l \in LeadIds |-> 0] /\ given = [i \in 1..Len(Pool) |-> 0]
  BY DEF LeadInit
<1>3. LeadTypes
  <2>1. NoLead \in LeadRow(0)
    BY LeadConstants, APool DEF LeadRow, NoLead
  <2> QED
    BY <1>2, <2>1, APool DEF LeadTypes, LeadTypeOK, LeadRow, Owners
<1>4. Captured = {} /\ Converted = {}
  BY <1>2 DEF Captured, Converted, NoLead
<1>5. LeadsTogether
  <2>1. 0 \in 0..MaxLeads /\ \A l \in LeadIds : ~(l <= 0)
    BY LeadConstants DEF LeadIds
  <2>2. LeadsInOrder
    BY <1>4, <2>1 DEF LeadsInOrder
  <2> QED
    BY <1>2, <2>2 DEF LeadsTogether, WonHasClient, NoLead
<1>6. LeadAlone(Idle)
  <2>1. LinksAlone(Idle)
    <3>1. Ranks([l \in LeadIds |-> l], Links)
      BY <1>2 DEF Ranks, Links, NoLead
    <3> QED
      BY <3>1 DEF LinksAlone, OfNewLead, Idle
  <2>2. RuleAlone(Idle)
    <3>1. \A i \in 1..Len(Pool) : ~(2 <= i /\ i <= 0 + 1) /\ given[i] = 0 /\ given[1] = 0
      BY <1>2, APool
    <3> QED
      BY <1>2, <3>1 DEF RuleAlone, OneIf, Idle
  <2>3. CountsAlone(Idle)
    BY <1>2, <1>4, FS_EmptySet DEF CountsAlone, OneIf, Idle
  <2> QED
    BY <2>1, <2>2, <2>3 DEF LeadAlone
<1>7. InFlight = {}
  BY <1>1 DEF InFlight
<1>8. \A r \in Requests : LeadSlot(req[r]) /\ LeadFits(req[r])
  BY <1>1 DEF LeadSlot, LeadFits, OfLead, OfNewLead, Idle, Unused
<1> QED
  BY <1>1, <1>3, <1>5, <1>6, <1>7, <1>8 DEF LeadInv

LEMMA LeadRestarts ==
    ASSUME LeadInv, Restart, UNCHANGED leads
    PROVE  LeadInv'
<1>1. /\ ServerOK' /\ overlapped'
      /\ \A r \in Requests : req'[r] \in {Idle, Unused}
  BY Restarted DEF LeadInv
<1>2. \A r \in Requests : LeadSlot(req'[r]) /\ LeadFits(req[r])'
  BY <1>1 DEF LeadSlot, LeadFits, OfLead, OfNewLead, Idle, Unused
<1> QED
  BY <1>1, <1>2, LeadsStay DEF LeadInv

LEMMA LeadStutters ==
    ASSUME LeadInv, UNCHANGED leadVars
    PROVE  LeadInv'
<1>1. UNCHANGED leads /\ UNCHANGED <<req, overlapped>>
  BY DEF leadVars, server
<1>2. /\ LeadTypes' /\ LeadsTogether'
      /\ Captured' = Captured /\ Links' = Links /\ Converted' = Converted
  BY <1>1, LeadsStay
<1>3. ServerOK' /\ InFlight' = InFlight /\ (Quiescent' <=> Quiescent)
  BY <1>1 DEF LeadInv, ServerOK, InFlight, Quiescent
<1>4. \A l : LeadAlone(l) => LeadAlone(l)'
  <2> SUFFICES ASSUME NEW l, LeadAlone(l) PROVE LeadAlone(l)'
    OBVIOUS
  <2>1. LinksAlone(l)'
    BY <1>2 DEF LeadAlone, LinksAlone
  <2>2. RuleAlone(l)'
    BY <1>1 DEF LeadAlone, RuleAlone, leads
  <2>3. CountsAlone(l)'
    BY <1>1, <1>2 DEF LeadAlone, CountsAlone, leads
  <2> QED
    BY <2>1, <2>2, <2>3 DEF LeadAlone
<1>5. \A r \in Requests : LeadFits(req[r])'
  BY <1>1, <1>2 DEF LeadInv, LeadFits, leads
<1> QED
  BY <1>1, <1>2, <1>3, <1>4, <1>5 DEF LeadInv

LEMMA LeadSteps ==
    ASSUME LeadInv, [LeadNext]_leadVars
    PROVE  LeadInv'
<1>1. ASSUME NEW r \in Requests, LeadRequest(r)
      PROVE  LeadInv'
  BY <1>1, PostLeadKeeps, PatchLeadKeeps, LinkDuplicateKeeps, ConvertKeeps DEF LeadRequest
<1>2. ASSUME NEW r \in Requests, LeadStep(r)
      PROVE  LeadInv'
  BY <1>2, PickAssigneeKeeps, AdvanceKeeps, InsertLeadKeeps, WriteLeadKeeps, ProvisionKeeps, MarkWonKeeps,
     DuplicatesFollowKeeps, ReadCampaignKeeps, CountConversionKeeps DEF LeadStep
<1>3. CASE Restart /\ UNCHANGED leads
  BY <1>3, LeadRestarts
<1>4. CASE UNCHANGED leadVars
  BY <1>4, LeadStutters
<1> QED
  BY <1>1, <1>2, <1>3, <1>4 DEF LeadNext

LEMMA LeadInvHolds ==
    LeadInv => LeadsHold
<1> SUFFICES ASSUME LeadInv PROVE LeadsHold
  OBVIOUS
<1>1. ASSUME ~overlapped
      PROVE  \E l : LeadAlone(l) /\ (Quiescent => l = Idle)
  BY <1>1 DEF LeadInv, Quiescent
<1>2. DuplicatesEnd
  <2>1. CASE overlapped
    BY <2>1 DEF DuplicatesEnd
  <2>2. CASE ~overlapped
    <3>1. \E h \in [LeadIds -> LeadIds] : Ranks(h, Links)
      BY <1>1, <2>2 DEF LeadAlone, LinksAlone
    <3> QED
      BY <2>2, <3>1, LeadTable, RankEnds
  <2> QED
    BY <2>1, <2>2
<1>3. RoundRobinIsFair
  <2> SUFFICES ASSUME ~overlapped, NEW i \in DOMAIN given, NEW j \in DOMAIN given
               PROVE  given[i] <= given[j] + 1
    BY DEF RoundRobinIsFair
  <2>1. given \in [1..Len(Pool) -> Nat] /\ 1 \in 1..Len(Pool)
    BY LeadTable, APool
  <2>2. PICK l : RuleAlone(l)
    BY <1>1 DEF LeadAlone
  <2>3. given[i] \in {given[1], given[1] + 1} /\ given[j] \in {given[1], given[1] + 1} /\ given[1] \in Nat
    BY <2>1, <2>2 DEF RuleAlone, OneIf
  <2> QED
    BY <2>3
<1>4. ConversionsAddUp
  <2> SUFFICES ASSUME ~overlapped
               PROVE  /\ \A l \in LeadIds : conversions[l] <= 1
                      /\ Quiescent => convertedCount = Cardinality(Converted) /\ clientsMade = Cardinality(Converted)
    BY DEF ConversionsAddUp, Converted
  <2>1. \A l \in LeadIds : conversions[l] <= 1
    BY <1>1 DEF LeadAlone, CountsAlone
  <2>2. Quiescent => CountsAlone(Idle)
    BY <1>1 DEF LeadAlone
  <2>3. Quiescent => clientsMade = Cardinality(Converted) + 0 /\ Cardinality(Converted) = convertedCount + 0
    BY <2>2 DEF CountsAlone, OneIf, Idle
  <2> QED
    BY <2>1, <2>3, LeadTable, ConvertedIsFinite
<1> QED
  BY <1>2, <1>3, <1>4 DEF LeadInv, LeadTypes, LeadsTogether, LeadsHold

\* A lead that reads won has a client, whatever the handlers do; the links of duplicates
\* end at an original, the rule gives nobody two leads more than anybody else and a
\* lead is converted and counted once, for any addresses, pool, leads, handlers and
\* restarts, while one handler is in flight at a time.
THEOREM LeadsCorrect == LeadSpec => []LeadsHold
<1>1. ASSUME NEW slots, NEW requests, NEW stops, ServerInit(slots, requests, stops), LeadInit
      PROVE  LeadInv
  BY <1>1, LeadStarts
<1>2. LeadInv /\ [LeadNext]_leadVars => LeadInv'
  BY LeadSteps
<1>3. (\E slots \in SUBSET Requests, requests, stops \in Nat : ServerInit(slots, requests, stops)) /\ LeadInit
      => LeadInv
  BY <1>1
<1> QED
  BY <1>2, <1>3, LeadInvHolds, PTL DEF LeadSpec

-----------------------------------------------------------------------------
(***************************************************************************)
(* Field work: the invariant                                               *)
(***************************************************************************)

BranchRow == [status : {"absent", "active", "inactive"}, head : BOOLEAN]
DayRow == [at : Offices \cup {None}, in : Never..Evening, out : Never..Evening,
           worked : 0..Evening, visitCount : Nat]
VisitRow == [open : Nat, closed : Nat]

\* What an update of a day's record may set.
DayPatch(patch) ==
    /\ DOMAIN patch \subseteq {"in", "out", "worked", "visitCount"}
    /\ "in" \in DOMAIN patch => patch["in"] \in 0..Evening
    /\ "out" \in DOMAIN patch => patch["out"] \in 0..Evening
    /\ "worked" \in DOMAIN patch => patch["worked"] \in 0..Evening
    /\ "visitCount" \in DOMAIN patch => patch["visitCount"] \in Nat

OfficeSlot(l) ==
    \/ l \in [pc : {"clear", "insert"}, b : Offices, head : BOOLEAN, new : {TRUE}]
    \/ l \in [pc : {"clear", "patch"}, b : Offices, head : {"true", "false", "unset"}, new : {FALSE}]

DaySlot(l) ==
    \/ l \in [pc : {"checkIn"}, p : Agents, at : Offices \cup {None}]
    \/ l \in [pc : {"visits"}, p : Agents, in : 0..Evening]
    \/ l \in [pc : {"visit"}, p : Agents, count : Nat]
    \/ /\ l = [pc |-> "update", p |-> l.p, patch |-> l.patch]
       /\ l.p \in Agents /\ DayPatch(l.patch)

FieldSlot(l) == l \in {Idle, Unused} \/ OfficeSlot(l) \/ DaySlot(l)

Opened(p) == attendance[p].in # Never

\* A handler past its check that the person has a row.
NeedsRow(l) == l.pc \in {"visits", "visit", "update"} => Opened(l.p)

\* A person without a row has no visits.
DaysOpened ==
    \A p \in Agents : ~Opened(p) => attendance[p] = NoRow /\ visits[p] = [open |-> 0, closed |-> 0]

RowAddsUp(row, v) ==
    row.in # Never =>
      /\ row.visitCount = v.open + v.closed
      /\ row.out # Never => row.worked = Between(row.in, row.out)

\* Two head offices only while a handler has still to clear the old one's flag.
HeadAlone(l) ==
    /\ \A b, c \in Heads : b = c
    /\ l.pc = "insert" /\ l.head = TRUE => Heads = {}
    /\ l.pc = "patch" /\ l.head = "true" => Heads = {}

\* The days add up, or will once the patch of the handler in flight is written.
DayAlone(l) ==
    /\ \A p \in Agents : RowAddsUp(attendance[p], visits[p]) \/ (l.pc = "update" /\ p = l.p)
    /\ l.pc = "visits" => l.in = attendance[l.p].in
    /\ l.pc = "visit" => l.count = attendance[l.p].visitCount
    /\ l.pc = "update" => RowAddsUp(Update(attendance[l.p], l.patch), visits[l.p])

FieldAlone(l) == HeadAlone(l) /\ DayAlone(l)

FieldInv ==
    /\ FieldTypeOK
    /\ minute \in 0..Evening
    /\ ServerOK
    /\ \A r \in Requests : FieldSlot(req[r]) /\ NeedsRow(req[r])
    /\ DaysOpened
    /\ ~overlapped => (Quiescent => FieldAlone(Idle)) /\ \A r \in InFlight : FieldAlone(req[r])

-----------------------------------------------------------------------------
LEMMA FieldTypes ==
    FieldTypeOK <=> /\ branch \in [Offices -> BranchRow]
                    /\ attendance \in [Agents -> DayRow]
                    /\ visits \in [Agents -> VisitRow]
BY DEF FieldTypeOK, BranchRow, DayRow, VisitRow

LEMMA FieldSlotKinds ==
    ASSUME NEW l, OfficeSlot(l) \/ DaySlot(l)
    PROVE  /\ l \notin {Idle, Unused}
           /\ l.pc \in {"clear", "insert", "patch"} => OfficeSlot(l)
           /\ l.pc \in {"checkIn", "visits", "visit", "update"} => DaySlot(l)
           /\ l.pc \in {"clear", "insert", "patch", "checkIn", "visits", "visit", "update"}
<1>1. CASE OfficeSlot(l)
  <2>1. l.pc \in {"clear", "insert", "patch"}
    BY <1>1 DEF OfficeSlot
  <2> QED
    BY <1>1, <2>1 DEF Idle, Unused
<1>2. CASE DaySlot(l)
  <2>1. l.pc \in {"checkIn", "visits", "visit", "update"}
    BY <1>2 DEF DaySlot
  <2> QED
    BY <1>2, <2>1 DEF Idle, Unused
<1> QED
  BY <1>1, <1>2

\* What a step of a slot needs to keep the invariant: the tables keep their types,
\* no row goes away, and what is claimed of a handler alone goes over to the next.
LEMMA FieldKeeps ==
    ASSUME FieldInv, NEW r \in Requests, NEW l, FieldSlot(l),
           Begin(r, l) \/ (req[r] \notin {Idle, Unused} /\ Continue(r, l)),
           FieldTypeOK', minute' \in 0..Evening, DaysOpened',
           \A p \in Agents : Opened(p) => Opened(p)',
           req'[r] = l => NeedsRow(req[r])',
           ~overlapped' /\ FieldAlone(req[r]) /\ req'[r] = l => FieldAlone(req[r])'
    PROVE  FieldInv'
<1>1. /\ ServerOK' /\ req'[r] = l
      /\ \A s \in Requests \ {r} : req'[s] = req[s]
      /\ ~overlapped' => ~overlapped /\ \A s \in Requests \ {r} : req[s] \in {Idle, Unused}
      /\ req[r] = Idle \/ req[r] \notin {Idle, Unused}
  BY Begun, Continued DEF FieldInv
<1>2. \A s \in Requests : FieldSlot(req[s])'
  <2>1. FieldSlot(req'[r])
    BY <1>1
  <2>2. \A s \in Requests \ {r} : FieldSlot(req'[s])
    BY <1>1 DEF FieldInv
  <2> QED
    BY <2>1, <2>2
<1>3. \A s \in Requests : NeedsRow(req[s])'
  <2> SUFFICES ASSUME NEW s \in Requests \ {r}
               PROVE  NeedsRow(req[s])'
    BY <1>1
  <2>1. req[s].pc \in {"visits", "visit", "update"} => DaySlot(req[s])
    BY FieldSlotKinds DEF FieldInv, FieldSlot, Idle, Unused
  <2>2. req[s].pc \in {"visits", "visit", "update"} => req[s].p \in Agents
    BY <2>1 DEF DaySlot
  <2> QED
    BY <1>1, <2>2 DEF FieldInv, NeedsRow
<1>4. ~overlapped' => FieldAlone(req[r])
  <2>1. ~overlapped' /\ req[r] = Idle => Quiescent
    BY <1>1 DEF Quiescent, InFlight
  <2> QED
    BY <1>1, <2>1 DEF FieldInv, InFlight
<1>5. ~overlapped' => FieldAlone(req[r])'
  BY <1>1, <1>4
<1>6. ~overlapped' => \A s \in InFlight' : s = r
  BY <1>1 DEF InFlight
<1>7. ~overlapped' /\ Quiescent' => req'[r] \in {Idle, Unused}
  BY <1>1 DEF Quiescent, InFlight
<1>8. ~overlapped' /\ Quiescent' => FieldAlone(Idle)'
  BY <1>5, <1>7 DEF FieldAlone, HeadAlone, DayAlone, Idle, Unused
<1>9. ~overlapped' => \A s \in InFlight' : FieldAlone(req[s])'
  BY <1>5, <1>6
<1> QED
  BY <1>1, <1>2, <1>3, <1>8, <1>9 DEF FieldInv

LEMMA FieldStarts ==
    ASSUME NEW slots, NEW requests, NEW stops, ServerInit(slots, requests, stops), FieldInit
    PROVE  FieldInv
<1>1. ServerOK /\ \A r \in Requests : req[r] \in {Idle, Unused}
  BY ServerStarts
<1>2. FieldTypeOK
  BY FieldConstants DEF FieldInit, FieldTypeOK, NoRow, Never
<1>3. minute \in 0..Evening
  BY FieldConstants DEF FieldInit
<1>4. DaysOpened
  BY DEF DaysOpened, FieldInit
<1>5. InFlight = {}
  BY <1>1 DEF InFlight
<1>6. FieldAlone(Idle)
  <2>1. HeadAlone(Idle)
    BY DEF HeadAlone, FieldInit, Heads, Idle
  <2>2. DayAlone(Idle)
    BY DEF DayAlone, FieldInit, RowAddsUp, NoRow, Idle
  <2> QED
    BY <2>1, <2>2 DEF FieldAlone
<1>7. \A r \in Requests : FieldSlot(req[r]) /\ NeedsRow(req[r])
  BY <1>1 DEF FieldSlot, NeedsRow, Idle, Unused
<1> QED
  BY <1>1, <1>2, <1>3, <1>4, <1>5, <1>6, <1>7 DEF FieldInv

-----------------------------------------------------------------------------
(***************************************************************************)
(* Field work: the offices                                                 *)
(***************************************************************************)

\* A handler that leaves the days, or the offices, alone.
LEMMA DayStays ==
    ASSUME NEW r \in Requests, DayAlone(req[r]), UNCHANGED <<attendance, visits>>,
           req[r].pc \notin {"visits", "visit", "update"},
           (req'[r]).pc \notin {"visits", "visit", "update"}
    PROVE  DayAlone(req[r])'
<1>1. \A p \in Agents : RowAddsUp(attendance'[p], visits'[p])
  BY DEF DayAlone
<1> QED
  BY <1>1 DEF DayAlone

LEMMA HeadStays ==
    ASSUME NEW r \in Requests, HeadAlone(req[r]), branch' = branch,
           (req'[r]).pc \notin {"insert", "patch"}
    PROVE  HeadAlone(req[r])'
<1>1. Heads' = Heads
  BY DEF Heads
<1> QED
  BY <1>1 DEF HeadAlone

LEMMA PostBranchKeeps ==
    ASSUME FieldInv, NEW r \in Requests, NEW b \in Offices, NEW head \in BOOLEAN, PostBranch(r, b, head)
    PROVE  FieldInv'
<1> DEFINE l == [pc |-> IF head THEN "clear" ELSE "insert", b |-> b, head |-> head, new |-> TRUE]
<1>1. Begin(r, l) /\ UNCHANGED <<branch, attendance, visits, minute>>
  BY DEF PostBranch, fieldWork
<1>2. OfficeSlot(l) /\ FieldSlot(l)
  BY DEF OfficeSlot, FieldSlot
<1>3. FieldTypeOK' /\ minute' \in 0..Evening /\ DaysOpened' /\ Heads' = Heads
  BY <1>1 DEF FieldInv, FieldTypeOK, DaysOpened, Opened, Heads
<1>4. \A p \in Agents : Opened(p) => Opened(p)'
  BY <1>1 DEF Opened
<1>5. l.pc \in {"clear", "insert"} /\ (l.pc = "insert" => l.head = FALSE) /\ l.pc \notin {"visits", "visit", "update"}
  OBVIOUS
<1>6. req'[r] = l => NeedsRow(req[r])'
  BY <1>5 DEF NeedsRow
<1>7. FieldAlone(req[r]) /\ req'[r] = l => FieldAlone(req[r])'
  <2>1. req[r] = Idle
    BY <1>1, Begun DEF FieldInv
  <2> QED
    BY <1>1, <1>3, <1>5, <2>1 DEF FieldAlone, HeadAlone, DayAlone, RowAddsUp, Idle
<1> HIDE DEF l
<1> QED
  BY <1>1, <1>2, <1>3, <1>4, <1>6, <1>7, FieldKeeps

LEMMA PatchBranchKeeps ==
    ASSUME FieldInv, NEW r \in Requests, NEW b \in Offices,
           NEW head \in {"true", "false", "unset"}, PatchBranch(r, b, head)
    PROVE  FieldInv'
<1> DEFINE l == [pc |-> IF head = "true" THEN "clear" ELSE "patch", b |-> b, head |-> head, new |-> FALSE]
<1>1. Begin(r, l) /\ UNCHANGED <<branch, attendance, visits, minute>>
  BY DEF PatchBranch, fieldWork
<1>2. OfficeSlot(l) /\ FieldSlot(l)
  BY DEF OfficeSlot, FieldSlot
<1>3. FieldTypeOK' /\ minute' \in 0..Evening /\ DaysOpened' /\ Heads' = Heads
  BY <1>1 DEF FieldInv, FieldTypeOK, DaysOpened, Opened, Heads
<1>4. \A p \in Agents : Opened(p) => Opened(p)'
  BY <1>1 DEF Opened
<1>5. l.pc \in {"clear", "patch"} /\ (l.pc = "patch" => l.head # "true")
  OBVIOUS
<1>6. req'[r] = l => NeedsRow(req[r])'
  BY <1>5 DEF NeedsRow
<1>7. FieldAlone(req[r]) /\ req'[r] = l => FieldAlone(req[r])'
  <2>1. req[r] = Idle
    BY <1>1, Begun DEF FieldInv
  <2> QED
    BY <1>1, <1>3, <1>5, <2>1 DEF FieldAlone, HeadAlone, DayAlone, RowAddsUp, Idle
<1> HIDE DEF l
<1> QED
  BY <1>1, <1>2, <1>3, <1>4, <1>6, <1>7, FieldKeeps

LEMMA ClearHeadKeeps ==
    ASSUME FieldInv, NEW r \in Requests, ClearHead(r)
    PROVE  FieldInv'
<1> DEFINE l == [req[r] EXCEPT !.pc = IF req[r].new THEN "insert" ELSE "patch"]
<1>1. /\ Continue(r, l) /\ req[r].pc = "clear"
      /\ branch' = [b \in Offices |-> [branch[b] EXCEPT !.head = FALSE]]
      /\ UNCHANGED <<attendance, visits, minute>>
  BY DEF ClearHead, At
<1>2. OfficeSlot(req[r]) /\ req[r] \notin {Idle, Unused}
  BY <1>1, FieldSlotKinds DEF FieldInv, FieldSlot, Idle, Unused
<1>3. OfficeSlot(l) /\ FieldSlot(l) /\ l.pc \in {"insert", "patch"}
  <2>1. CASE req[r] \in [pc : {"clear", "insert"}, b : Offices, head : BOOLEAN, new : {TRUE}]
    <3>1. l \in [pc : {"insert"}, b : Offices, head : BOOLEAN, new : {TRUE}]
      BY <2>1
    <3> QED
      BY <3>1 DEF OfficeSlot, FieldSlot
  <2>2. CASE req[r] \in [pc : {"clear", "patch"}, b : Offices,
                        head : {"true", "false", "unset"}, new : {FALSE}]
    <3>1. l \in [pc : {"patch"}, b : Offices, head : {"true", "false", "unset"}, new : {FALSE}]
      BY <2>2
    <3> QED
      BY <3>1 DEF OfficeSlot, FieldSlot
  <2> QED
    BY <1>2, <2>1, <2>2 DEF OfficeSlot
<1>4. FieldTypeOK' /\ minute' \in 0..Evening /\ DaysOpened'
  BY <1>1, FieldTypes DEF FieldInv, FieldTypeOK, BranchRow, DaysOpened, Opened
<1>5. Heads' = {}
  BY <1>1, FieldTypes DEF Heads, FieldInv, BranchRow
<1>6. \A p \in Agents : Opened(p) => Opened(p)'
  BY <1>1 DEF Opened
<1>7. req'[r] = l => NeedsRow(req[r])'
  BY <1>3 DEF NeedsRow
<1>8. FieldAlone(req[r]) /\ req'[r] = l => FieldAlone(req[r])'
  BY <1>1, <1>3, <1>5 DEF FieldAlone, HeadAlone, DayAlone, RowAddsUp
<1> HIDE DEF l
<1> QED
  BY <1>1, <1>2, <1>3, <1>4, <1>6, <1>7, <1>8, FieldKeeps

LEMMA InsertBranchKeeps ==
    ASSUME FieldInv, NEW r \in Requests, InsertBranch(r)
    PROVE  FieldInv'
<1>1. /\ Continue(r, Idle) /\ req[r].pc = "insert"
      /\ branch' = IF branch[req[r].b].status # "absent" THEN branch
                   ELSE [branch EXCEPT ![req[r].b] = [status |-> "active", head |-> req[r].head]]
      /\ UNCHANGED <<attendance, visits, minute>>
  BY DEF InsertBranch, At, Return
<1>2. OfficeSlot(req[r]) /\ req[r] \notin {Idle, Unused}
  BY <1>1, FieldSlotKinds DEF FieldInv, FieldSlot, Idle, Unused
<1>3. req[r].b \in Offices /\ req[r].head \in BOOLEAN
  BY <1>1, <1>2 DEF OfficeSlot
<1>4. FieldTypeOK' /\ minute' \in 0..Evening /\ DaysOpened'
  <2>1. branch \in [Offices -> BranchRow]
    BY FieldTypes DEF FieldInv
  <2>2. branch' \in [Offices -> BranchRow]
    BY <1>1, <1>3, <2>1 DEF BranchRow
  <2>3. FieldTypeOK'
    BY <1>1, <2>2 DEF FieldInv, FieldTypeOK, BranchRow
  <2> QED
    BY <1>1, <2>3 DEF FieldInv, DaysOpened, Opened
<1>5. Heads' \subseteq Heads \/ (req[r].head = TRUE /\ Heads' \subseteq Heads \cup {req[r].b})
  BY <1>1, <1>3, FieldTypes DEF Heads, FieldInv, BranchRow
<1>6. \A p \in Agents : Opened(p) => Opened(p)'
  BY <1>1 DEF Opened
<1>7. req'[r] = Idle => NeedsRow(req[r])'
  BY DEF NeedsRow, Idle
<1>8. FieldAlone(req[r]) /\ req'[r] = Idle => FieldAlone(req[r])'
  <2> SUFFICES ASSUME FieldAlone(req[r]), req'[r] = Idle
               PROVE  FieldAlone(req[r])'
    OBVIOUS
  <2>1. \A b, c \in Heads' : b = c
    BY <1>1, <1>5 DEF FieldAlone, HeadAlone
  <2> QED
    BY <1>1, <2>1 DEF FieldAlone, HeadAlone, DayAlone, RowAddsUp, Idle
<1> QED
  BY <1>1, <1>2, <1>4, <1>6, <1>7, <1>8, FieldKeeps DEF FieldSlot

LEMMA WriteBranchKeeps ==
    ASSUME FieldInv, NEW r \in Requests, WriteBranch(r)
    PROVE  FieldInv'
<1>1. /\ Continue(r, Idle) /\ req[r].pc = "patch"
      /\ branch' = [branch EXCEPT ![req[r].b].head = (req[r].head = "true")]
      /\ UNCHANGED <<attendance, visits, minute>>
  BY DEF WriteBranch, At, Return, HeadFlag
<1>2. OfficeSlot(req[r]) /\ req[r] \notin {Idle, Unused}
  BY <1>1, FieldSlotKinds DEF FieldInv, FieldSlot, Idle, Unused
<1>3. req[r].b \in Offices
  BY <1>1, <1>2 DEF OfficeSlot
<1>4. FieldTypeOK' /\ minute' \in 0..Evening /\ DaysOpened'
  <2>1. branch \in [Offices -> BranchRow]
    BY FieldTypes DEF FieldInv
  <2>2. branch' \in [Offices -> BranchRow]
    BY <1>1, <1>3, <2>1 DEF BranchRow
  <2>3. FieldTypeOK'
    BY <1>1, <2>2 DEF FieldInv, FieldTypeOK, BranchRow
  <2> QED
    BY <1>1, <2>3 DEF FieldInv, DaysOpened, Opened
<1>5. Heads' \subseteq Heads \/ (req[r].head = "true" /\ Heads' \subseteq Heads \cup {req[r].b})
  BY <1>1, <1>3, FieldTypes DEF Heads, FieldInv, BranchRow
<1>6. \A p \in Agents : Opened(p) => Opened(p)'
  BY <1>1 DEF Opened
<1>7. req'[r] = Idle => NeedsRow(req[r])'
  BY DEF NeedsRow, Idle
<1>8. FieldAlone(req[r]) /\ req'[r] = Idle => FieldAlone(req[r])'
  <2> SUFFICES ASSUME FieldAlone(req[r]), req'[r] = Idle
               PROVE  FieldAlone(req[r])'
    OBVIOUS
  <2>1. \A b, c \in Heads' : b = c
    BY <1>1, <1>5 DEF FieldAlone, HeadAlone
  <2> QED
    BY <1>1, <2>1 DEF FieldAlone, HeadAlone, DayAlone, RowAddsUp, Idle
<1> QED
  BY <1>1, <1>2, <1>4, <1>6, <1>7, <1>8, FieldKeeps DEF FieldSlot

LEMMA CloseBranchKeeps ==
    ASSUME FieldInv, NEW r \in Requests, NEW b \in Offices, CloseBranch(r, b)
    PROVE  FieldInv'
<1>1. /\ Begin(r, Idle) /\ branch[b].status = "active"
      /\ branch' = [branch EXCEPT ![b].status = "inactive"]
      /\ UNCHANGED <<attendance, visits, minute>>
  BY DEF CloseBranch
<1>2. FieldTypeOK' /\ minute' \in 0..Evening /\ DaysOpened'
  BY <1>1, FieldTypes DEF FieldInv, FieldTypeOK, BranchRow, DaysOpened, Opened
<1>3. Heads' = Heads
  BY <1>1, FieldTypes DEF Heads, FieldInv, BranchRow
<1>4. \A p \in Agents : Opened(p) => Opened(p)'
  BY <1>1 DEF Opened
<1>5. req'[r] = Idle => NeedsRow(req[r])'
  BY DEF NeedsRow, Idle
<1>6. FieldAlone(req[r]) /\ req'[r] = Idle => FieldAlone(req[r])'
  <2>1. req[r] = Idle
    BY <1>1, Begun DEF FieldInv
  <2> QED
    BY <1>1, <1>3, <2>1 DEF FieldAlone, HeadAlone, DayAlone, RowAddsUp, Idle
<1> QED
  BY <1>1, <1>2, <1>4, <1>5, <1>6, FieldKeeps DEF FieldSlot

-----------------------------------------------------------------------------
(***************************************************************************)
(* Field work: the days                                                    *)
(***************************************************************************)

LEMMA DayUpdated ==
    ASSUME NEW row \in DayRow, NEW patch, DayPatch(patch)
    PROVE  /\ Update(row, patch) \in DayRow
           /\ Update(row, patch).in = IF "in" \in DOMAIN patch THEN patch["in"] ELSE row.in
           /\ Update(row, patch).out = IF "out" \in DOMAIN patch THEN patch["out"] ELSE row.out
           /\ Update(row, patch).worked = IF "worked" \in DOMAIN patch THEN patch["worked"] ELSE row.worked
           /\ Update(row, patch).visitCount =
                 IF "visitCount" \in DOMAIN patch THEN patch["visitCount"] ELSE row.visitCount
<1> DEFINE new == Update(row, patch)
<1>1. DOMAIN row = {"at", "in", "out", "worked", "visitCount"}
  BY DEF DayRow
<1>2. new = [f \in {"at", "in", "out", "worked", "visitCount"} |->
                IF f \in DOMAIN patch THEN patch[f] ELSE row[f]]
  BY <1>1 DEF Update, DayPatch
<1> HIDE DEF new
<1>3. /\ row["at"] \in Offices \cup {None} /\ row["in"] \in Never..Evening
      /\ row["out"] \in Never..Evening /\ row["worked"] \in 0..Evening /\ row["visitCount"] \in Nat
  BY DEF DayRow
<1>4. /\ new.at = row.at
      /\ new.in = IF "in" \in DOMAIN patch THEN patch["in"] ELSE row.in
      /\ new.out = IF "out" \in DOMAIN patch THEN patch["out"] ELSE row.out
      /\ new.worked = IF "worked" \in DOMAIN patch THEN patch["worked"] ELSE row.worked
      /\ new.visitCount = IF "visitCount" \in DOMAIN patch THEN patch["visitCount"] ELSE row.visitCount
  BY <1>2 DEF DayPatch
<1>5. /\ new.at \in Offices \cup {None} /\ new.in \in Never..Evening
      /\ new.out \in Never..Evening /\ new.worked \in 0..Evening /\ new.visitCount \in Nat
  BY <1>3, <1>4, FieldConstants DEF DayPatch, Never
<1>6. new = [at |-> new.at, in |-> new.in, out |-> new.out, worked |-> new.worked,
             visitCount |-> new.visitCount]
  BY <1>2
<1>7. new \in DayRow
  BY <1>5, <1>6 DEF DayRow
<1> QED
  BY <1>4, <1>7 DEF new

LEMMA Minutes ==
    ASSUME NEW from \in 0..Evening, NEW to \in 0..Evening
    PROVE  Between(from, to) \in 0..Evening
BY FieldConstants DEF Between

\* A person with a row has checked in.
LEMMA HasRow ==
    ASSUME FieldInv, NEW p \in Agents
    PROVE  /\ attendance[p] \in DayRow /\ visits[p] \in VisitRow
           /\ attendance[p] # NoRow => attendance[p].in \in 0..Evening
           /\ Opened(p) => attendance[p].in \in 0..Evening
<1>1. attendance[p] \in DayRow /\ visits[p] \in VisitRow
  BY FieldTypes DEF FieldInv
<1> QED
  BY <1>1, FieldConstants DEF FieldInv, DaysOpened, Opened, DayRow, Never

LEMMA CheckInKeeps ==
    ASSUME FieldInv, NEW r \in Requests, NEW p \in Agents, CheckIn(r, p)
    PROVE  FieldInv'
<1>1. PICK at \in Heads \cup {None} : Begin(r, [pc |-> "checkIn", p |-> p, at |-> at])
  BY DEF CheckIn
<1> DEFINE l == [pc |-> "checkIn", p |-> p, at |-> at]
<1>2. Begin(r, l) /\ UNCHANGED <<branch, attendance, visits, minute>>
  BY <1>1 DEF CheckIn, fieldWork
<1>3. FieldSlot(l) /\ l.pc = "checkIn"
  BY DEF FieldSlot, DaySlot, Heads
<1> HIDE DEF l
<1>4. FieldTypeOK' /\ minute' \in 0..Evening /\ DaysOpened'
  BY <1>2 DEF FieldInv, FieldTypeOK, DaysOpened, Opened
<1>5. \A q \in Agents : Opened(q) => Opened(q)'
  BY <1>2 DEF Opened
<1>6. req'[r] = l => NeedsRow(req[r])'
  BY <1>3 DEF NeedsRow
<1>7. FieldAlone(req[r]) /\ req'[r] = l => FieldAlone(req[r])'
  <2>1. req[r] = Idle
    BY <1>2, Begun DEF FieldInv
  <2> QED
    BY <1>2, <1>3, <2>1, HeadStays, DayStays DEF FieldAlone, Idle
<1> QED
  BY <1>2, <1>3, <1>4, <1>5, <1>6, <1>7, FieldKeeps

LEMMA InsertAttendanceKeeps ==
    ASSUME FieldInv, NEW r \in Requests, InsertAttendance(r)
    PROVE  FieldInv'
<1> DEFINE p == req[r].p
           row == [at |-> req[r].at, in |-> minute, out |-> Never, worked |-> 0, visitCount |-> 0]
<1>1. /\ Continue(r, Idle) /\ req[r].pc = "checkIn"
      /\ attendance' = IF attendance[p] # NoRow THEN attendance ELSE [attendance EXCEPT ![p] = row]
      /\ UNCHANGED <<branch, visits, minute>>
  BY DEF InsertAttendance, At, Return
<1>2. DaySlot(req[r]) /\ req[r] \notin {Idle, Unused}
  BY <1>1, FieldSlotKinds DEF FieldInv, FieldSlot, Idle, Unused
<1>3. p \in Agents /\ req[r].at \in Offices \cup {None}
  BY <1>1, <1>2 DEF DaySlot
<1>4. row \in DayRow /\ row.in # Never
  BY <1>3, FieldConstants DEF DayRow, FieldInv, Never
<1> HIDE DEF row
<1>5. FieldTypeOK' /\ minute' \in 0..Evening
  BY <1>1, <1>3, <1>4 DEF FieldInv, FieldTypeOK, DayRow
<1>6. \A q \in Agents : attendance'[q] = attendance[q] \/ (q = p /\ attendance'[q] = row)
  BY <1>1, <1>3, FieldTypes DEF FieldInv
<1>7. \A q \in Agents : Opened(q) => Opened(q)'
  BY <1>4, <1>6 DEF Opened
<1>8. DaysOpened'
  <2> SUFFICES ASSUME NEW q \in Agents, attendance'[q].in = Never
               PROVE  attendance'[q] = NoRow /\ visits'[q] = [open |-> 0, closed |-> 0]
    BY DEF DaysOpened, Opened
  <2>1. attendance'[q] = attendance[q]
    BY <1>4, <1>6
  <2> QED
    BY <1>1, <2>1 DEF FieldInv, DaysOpened, Opened
<1>9. req'[r] = Idle => NeedsRow(req[r])'
  BY DEF NeedsRow, Idle
<1>10. attendance'[p] = row => RowAddsUp(attendance'[p], visits'[p]) \/ attendance'[p] = attendance[p]
  <2>1. CASE attendance[p] = NoRow
    <3>1. visits[p] = [open |-> 0, closed |-> 0]
      BY <1>3, <2>1 DEF FieldInv, DaysOpened, Opened, NoRow, Never
    <3>2. row.visitCount = 0 /\ row.out = Never
      BY DEF row
    <3> QED
      BY <1>1, <3>1, <3>2 DEF RowAddsUp
  <2> QED
    BY <1>1, <2>1
<1>11. FieldAlone(req[r]) /\ req'[r] = Idle => FieldAlone(req[r])'
  <2> SUFFICES ASSUME FieldAlone(req[r]), req'[r] = Idle
               PROVE  FieldAlone(req[r])'
    OBVIOUS
  <2>1. HeadAlone(req[r])'
    BY <1>1, HeadStays DEF FieldAlone, Idle
  <2>2. \A q \in Agents : RowAddsUp(attendance'[q], visits'[q])
    BY <1>1, <1>6, <1>10 DEF FieldAlone, DayAlone
  <2>3. DayAlone(req[r])'
    BY <2>2 DEF DayAlone, Idle
  <2> QED
    BY <2>1, <2>3 DEF FieldAlone
<1> QED
  BY <1>1, <1>2, <1>5, <1>7, <1>8, <1>9, <1>11, FieldKeeps DEF FieldSlot

LEMMA CheckOutKeeps ==
    ASSUME FieldInv, NEW r \in Requests, NEW p \in Agents, CheckOut(r, p)
    PROVE  FieldInv'
<1> DEFINE l == [pc |-> "visits", p |-> p, in |-> attendance[p].in]
<1>1. Begin(r, l) /\ attendance[p] # NoRow /\ UNCHANGED <<branch, attendance, visits, minute>>
  BY DEF CheckOut, fieldWork
<1>2. attendance[p].in \in 0..Evening /\ Opened(p)
  BY <1>1, HasRow, FieldConstants DEF Opened, Never
<1>3. FieldSlot(l) /\ l.pc = "visits" /\ l.p = p /\ l.in = attendance[p].in
  BY <1>2 DEF FieldSlot, DaySlot
<1> HIDE DEF l
<1>4. FieldTypeOK' /\ minute' \in 0..Evening /\ DaysOpened'
  BY <1>1 DEF FieldInv, FieldTypeOK, DaysOpened, Opened
<1>5. \A q \in Agents : Opened(q) => Opened(q)'
  BY <1>1 DEF Opened
<1>6. req'[r] = l => NeedsRow(req[r])'
  BY <1>1, <1>2, <1>3 DEF NeedsRow, Opened
<1>7. FieldAlone(req[r]) /\ req'[r] = l => FieldAlone(req[r])'
  <2> SUFFICES ASSUME FieldAlone(req[r]), req'[r] = l
               PROVE  FieldAlone(req[r])'
    OBVIOUS
  <2>1. req[r] = Idle
    BY <1>1, Begun DEF FieldInv
  <2>2. HeadAlone(req[r])'
    BY <1>1, <1>3, HeadStays DEF FieldAlone
  <2>3. \A q \in Agents : RowAddsUp(attendance'[q], visits'[q])
    BY <1>1, <2>1 DEF FieldAlone, DayAlone, Idle
  <2>4. DayAlone(req[r])'
    BY <1>1, <1>3, <2>3 DEF DayAlone
  <2> QED
    BY <2>2, <2>4 DEF FieldAlone
<1> QED
  BY <1>1, <1>3, <1>4, <1>5, <1>6, <1>7, FieldKeeps

\* The handlers of a day are past the check that the person has a row.
LEMMA DayAt ==
    ASSUME FieldInv, NEW r \in Requests, req[r].pc \in {"visits", "visit", "update"}
    PROVE  /\ DaySlot(req[r]) /\ req[r] \notin {Idle, Unused}
           /\ req[r].p \in Agents /\ Opened(req[r].p)
           /\ attendance[req[r].p] \in DayRow /\ visits[req[r].p] \in VisitRow
           /\ attendance[req[r].p].in \in 0..Evening
<1>1. DaySlot(req[r]) /\ req[r] \notin {Idle, Unused}
  BY FieldSlotKinds DEF FieldInv, FieldSlot, Idle, Unused
<1>2. req[r].p \in Agents
  BY <1>1 DEF DaySlot
<1>3. Opened(req[r].p)
  BY DEF FieldInv, NeedsRow
<1> QED
  BY <1>1, <1>2, <1>3, HasRow

\* A patch that leaves the row adding up, written or still to be written.
LEMMA ReadVisitsKeeps ==
    ASSUME FieldInv, NEW r \in Requests, ReadVisits(r)
    PROVE  FieldInv'
<1> DEFINE p == req[r].p
           patch == [out |-> minute, worked |-> Between(req[r].in, minute),
                     visitCount |-> visits[p].open + visits[p].closed]
           l == [pc |-> "update", p |-> p, patch |-> patch]
<1>1. /\ Continue(r, l) /\ req[r].pc = "visits"
      /\ UNCHANGED <<branch, attendance, visits, minute>>
  BY DEF ReadVisits, At, fieldWork
<1>2. /\ DaySlot(req[r]) /\ req[r] \notin {Idle, Unused} /\ p \in Agents /\ Opened(p)
      /\ attendance[p] \in DayRow /\ visits[p] \in VisitRow
  BY <1>1, DayAt DEF p
<1>3. req[r].in \in 0..Evening /\ minute \in 0..Evening
  BY <1>1, <1>2 DEF DaySlot, FieldInv
<1>4. DayPatch(patch)
  <2>1. Between(req[r].in, minute) \in 0..Evening
    BY <1>3, Minutes
  <2>2. visits[p].open + visits[p].closed \in Nat
    BY <1>2 DEF VisitRow
  <2>3. /\ DOMAIN patch = {"out", "worked", "visitCount"}
        /\ patch["out"] \in 0..Evening /\ patch["worked"] \in 0..Evening /\ patch["visitCount"] \in Nat
    BY <1>3, <2>1, <2>2
  <2> QED
    BY <2>3 DEF DayPatch
<1>5. FieldSlot(l) /\ l.pc = "update" /\ l.p = p /\ l.patch = patch
  BY <1>2, <1>4 DEF FieldSlot, DaySlot
<1>6. req[r].in = attendance[p].in => RowAddsUp(Update(attendance[p], patch), visits[p])
  BY <1>2, <1>4, DayUpdated DEF RowAddsUp
<1> HIDE DEF l, patch
<1>7. FieldTypeOK' /\ minute' \in 0..Evening /\ DaysOpened'
  BY <1>1 DEF FieldInv, FieldTypeOK, DaysOpened, Opened
<1>8. \A q \in Agents : Opened(q) => Opened(q)'
  BY <1>1 DEF Opened
<1>9. req'[r] = l => NeedsRow(req[r])'
  BY <1>1, <1>2, <1>5 DEF NeedsRow, Opened
<1>10. FieldAlone(req[r]) /\ req'[r] = l => FieldAlone(req[r])'
  <2> SUFFICES ASSUME FieldAlone(req[r]), req'[r] = l
               PROVE  FieldAlone(req[r])'
    OBVIOUS
  <2>1. HeadAlone(req[r])'
    BY <1>1, <1>5, HeadStays DEF FieldAlone
  <2>2. \A q \in Agents : RowAddsUp(attendance'[q], visits'[q])
    BY <1>1 DEF FieldAlone, DayAlone
  <2>3. RowAddsUp(Update(attendance'[p], patch), visits'[p])
    BY <1>1, <1>6 DEF FieldAlone, DayAlone
  <2>4. DayAlone(req[r])'
    BY <1>5, <2>2, <2>3 DEF DayAlone
  <2> QED
    BY <2>1, <2>4 DEF FieldAlone
<1> QED
  BY <1>1, <1>2, <1>5, <1>7, <1>8, <1>9, <1>10, FieldKeeps

LEMMA WriteAttendanceKeeps ==
    ASSUME FieldInv, NEW r \in Requests, WriteAttendance(r)
    PROVE  FieldInv'
<1> DEFINE p == req[r].p
           patch == req[r].patch
           new == Update(attendance[p], patch)
<1>1. /\ Continue(r, Idle) /\ req[r].pc = "update"
      /\ attendance' = [attendance EXCEPT ![p] = new]
      /\ UNCHANGED <<branch, visits, minute>>
  BY DEF WriteAttendance, At, Return
<1>2. /\ DaySlot(req[r]) /\ req[r] \notin {Idle, Unused} /\ p \in Agents /\ Opened(p)
      /\ attendance[p] \in DayRow
  BY <1>1, DayAt
<1>3. DayPatch(patch)
  BY <1>1, <1>2 DEF DaySlot
<1>4. new \in DayRow /\ new.in # Never
  BY <1>2, <1>3, DayUpdated, FieldConstants DEF DayPatch, Opened, Never
<1> HIDE DEF new
<1>5. FieldTypeOK' /\ minute' \in 0..Evening
  BY <1>1, <1>2, <1>4 DEF FieldInv, FieldTypeOK, DayRow
<1>6. attendance'[p] = new /\ \A q \in Agents \ {p} : attendance'[q] = attendance[q]
  BY <1>1, <1>2, FieldTypes DEF FieldInv
<1>7. \A q \in Agents : Opened(q) => Opened(q)'
  BY <1>4, <1>6 DEF Opened
<1>8. DaysOpened'
  <2> SUFFICES ASSUME NEW q \in Agents, attendance'[q].in = Never
               PROVE  attendance'[q] = NoRow /\ visits'[q] = [open |-> 0, closed |-> 0]
    BY DEF DaysOpened, Opened
  <2>1. attendance'[q] = attendance[q]
    BY <1>4, <1>6
  <2> QED
    BY <1>1, <2>1 DEF FieldInv, DaysOpened, Opened
<1>9. req'[r] = Idle => NeedsRow(req[r])'
  BY DEF NeedsRow, Idle
<1>10. FieldAlone(req[r]) /\ req'[r] = Idle => FieldAlone(req[r])'
  <2> SUFFICES ASSUME FieldAlone(req[r]), req'[r] = Idle
               PROVE  FieldAlone(req[r])'
    OBVIOUS
  <2>1. HeadAlone(req[r])'
    BY <1>1, HeadStays DEF FieldAlone, Idle
  <2>2. RowAddsUp(new, visits[p])
    BY <1>1 DEF FieldAlone, DayAlone, new
  <2>3. \A q \in Agents : RowAddsUp(attendance'[q], visits'[q])
    BY <1>1, <1>6, <2>2 DEF FieldAlone, DayAlone
  <2>4. DayAlone(req[r])'
    BY <2>3 DEF DayAlone, Idle
  <2> QED
    BY <2>1, <2>4 DEF FieldAlone
<1> QED
  BY <1>1, <1>2, <1>5, <1>7, <1>8, <1>9, <1>10, FieldKeeps DEF FieldSlot

LEMMA PostVisitKeeps ==
    ASSUME FieldInv, NEW r \in Requests, NEW p \in Agents, PostVisit(r, p)
    PROVE  FieldInv'
<1> DEFINE l == [pc |-> "visit", p |-> p, count |-> attendance[p].visitCount]
<1>1. Begin(r, l) /\ attendance[p] # NoRow /\ UNCHANGED <<branch, attendance, visits, minute>>
  BY DEF PostVisit, fieldWork
<1>2. attendance[p].visitCount \in Nat /\ Opened(p)
  BY <1>1, HasRow, FieldConstants DEF Opened, Never, DayRow
<1>3. FieldSlot(l) /\ l.pc = "visit" /\ l.p = p /\ l.count = attendance[p].visitCount
  BY <1>2 DEF FieldSlot, DaySlot
<1> HIDE DEF l
<1>4. FieldTypeOK' /\ minute' \in 0..Evening /\ DaysOpened'
  BY <1>1 DEF FieldInv, FieldTypeOK, DaysOpened, Opened
<1>5. \A q \in Agents : Opened(q) => Opened(q)'
  BY <1>1 DEF Opened
<1>6. req'[r] = l => NeedsRow(req[r])'
  BY <1>1, <1>2, <1>3 DEF NeedsRow, Opened
<1>7. FieldAlone(req[r]) /\ req'[r] = l => FieldAlone(req[r])'
  <2> SUFFICES ASSUME FieldAlone(req[r]), req'[r] = l
               PROVE  FieldAlone(req[r])'
    OBVIOUS
  <2>1. req[r] = Idle
    BY <1>1, Begun DEF FieldInv
  <2>2. HeadAlone(req[r])'
    BY <1>1, <1>3, HeadStays DEF FieldAlone
  <2>3. \A q \in Agents : RowAddsUp(attendance'[q], visits'[q])
    BY <1>1, <2>1 DEF FieldAlone, DayAlone, Idle
  <2>4. DayAlone(req[r])'
    BY <1>1, <1>3, <2>3 DEF DayAlone
  <2> QED
    BY <2>2, <2>4 DEF FieldAlone
<1> QED
  BY <1>1, <1>3, <1>4, <1>5, <1>6, <1>7, FieldKeeps

LEMMA InsertVisitKeeps ==
    ASSUME FieldInv, NEW r \in Requests, InsertVisit(r)
    PROVE  FieldInv'
<1> DEFINE p == req[r].p
           patch == [visitCount |-> req[r].count + 1]
           v == [visits[p] EXCEPT !.open = @ + 1]
           l == [pc |-> "update", p |-> p, patch |-> patch]
<1>1. /\ Continue(r, l) /\ req[r].pc = "visit"
      /\ visits' = [visits EXCEPT ![p] = v]
      /\ UNCHANGED <<branch, attendance, minute>>
  BY DEF InsertVisit, At
<1>2. /\ DaySlot(req[r]) /\ req[r] \notin {Idle, Unused} /\ p \in Agents /\ Opened(p)
      /\ attendance[p] \in DayRow /\ visits[p] \in VisitRow
  BY <1>1, DayAt
<1>3. req[r].count \in Nat
  BY <1>1, <1>2 DEF DaySlot
<1>4. DayPatch(patch)
  BY <1>3 DEF DayPatch
<1>5. FieldSlot(l) /\ l.pc = "update" /\ l.p = p /\ l.patch = patch
  BY <1>2, <1>4 DEF FieldSlot, DaySlot
<1>6. v \in VisitRow /\ v.open = visits[p].open + 1 /\ v.closed = visits[p].closed
  BY <1>2 DEF VisitRow
<1>7. /\ attendance[p].in # Never /\ visits[p].open \in Nat /\ visits[p].closed \in Nat
      /\ attendance[p].visitCount \in Nat
  BY <1>2 DEF Opened, VisitRow, DayRow
<1>8. /\ Update(attendance[p], patch).visitCount = req[r].count + 1
      /\ Update(attendance[p], patch).in = attendance[p].in
      /\ Update(attendance[p], patch).out = attendance[p].out
      /\ Update(attendance[p], patch).worked = attendance[p].worked
  BY <1>2, <1>4, DayUpdated
<1>9. RowAddsUp(attendance[p], visits[p]) /\ req[r].count = attendance[p].visitCount
      => RowAddsUp(Update(attendance[p], patch), v)
  BY <1>6, <1>7, <1>8 DEF RowAddsUp
<1> HIDE DEF l, patch, v
<1>10. visits'[p] = v /\ \A q \in Agents \ {p} : visits'[q] = visits[q]
  BY <1>1, <1>2, FieldTypes DEF FieldInv
<1>11. FieldTypeOK' /\ minute' \in 0..Evening
  BY <1>1, <1>2, <1>6 DEF FieldInv, FieldTypeOK, VisitRow
<1>12. DaysOpened'
  <2> SUFFICES ASSUME NEW q \in Agents, attendance'[q].in = Never
               PROVE  attendance'[q] = NoRow /\ visits'[q] = [open |-> 0, closed |-> 0]
    BY DEF DaysOpened, Opened
  <2>1. q # p
    BY <1>1, <1>7
  <2> QED
    BY <1>1, <1>10, <2>1 DEF FieldInv, DaysOpened, Opened
<1>13. \A q \in Agents : Opened(q) => Opened(q)'
  BY <1>1 DEF Opened
<1>14. req'[r] = l => NeedsRow(req[r])'
  BY <1>1, <1>2, <1>5 DEF NeedsRow, Opened
<1>15. FieldAlone(req[r]) /\ req'[r] = l => FieldAlone(req[r])'
  <2> SUFFICES ASSUME FieldAlone(req[r]), req'[r] = l
               PROVE  FieldAlone(req[r])'
    OBVIOUS
  <2>1. HeadAlone(req[r])'
    BY <1>1, <1>5, HeadStays DEF FieldAlone
  <2>2. \A q \in Agents : RowAddsUp(attendance[q], visits[q])
    BY <1>1 DEF FieldAlone, DayAlone
  <2>3. \A q \in Agents \ {p} : RowAddsUp(attendance'[q], visits'[q])
    BY <1>1, <1>10, <2>2
  <2>4. RowAddsUp(Update(attendance'[p], patch), visits'[p])
    BY <1>1, <1>2, <1>9, <1>10, <2>2 DEF FieldAlone, DayAlone
  <2>5. DayAlone(req[r])'
    BY <1>5, <2>3, <2>4 DEF DayAlone
  <2> QED
    BY <2>1, <2>5 DEF FieldAlone
<1> QED
  BY <1>1, <1>2, <1>5, <1>11, <1>12, <1>13, <1>14, <1>15, FieldKeeps

LEMMA CompleteVisitKeeps ==
    ASSUME FieldInv, NEW r \in Requests, NEW p \in Agents, CompleteVisit(r, p)
    PROVE  FieldInv'
<1> DEFINE v == [open |-> visits[p].open - 1, closed |-> visits[p].closed + 1]
<1>1. /\ Begin(r, Idle) /\ visits[p].open > 0
      /\ visits' = [visits EXCEPT ![p] = v]
      /\ UNCHANGED <<branch, attendance, minute>>
  BY DEF CompleteVisit
<1>2. visits[p] \in VisitRow /\ attendance[p] \in DayRow
  BY HasRow
<1>3. v \in VisitRow /\ v.open + v.closed = visits[p].open + visits[p].closed
  BY <1>1, <1>2 DEF VisitRow
<1> HIDE DEF v
<1>4. visits'[p] = v /\ \A q \in Agents \ {p} : visits'[q] = visits[q]
  BY <1>1, FieldTypes DEF FieldInv
<1>5. FieldTypeOK' /\ minute' \in 0..Evening
  BY <1>1, <1>3 DEF FieldInv, FieldTypeOK, VisitRow
<1>6. DaysOpened'
  <2> SUFFICES ASSUME NEW q \in Agents, attendance'[q].in = Never
               PROVE  attendance'[q] = NoRow /\ visits'[q] = [open |-> 0, closed |-> 0]
    BY DEF DaysOpened, Opened
  <2>1. attendance[q] = NoRow /\ visits[q] = [open |-> 0, closed |-> 0]
    BY <1>1 DEF FieldInv, DaysOpened, Opened
  <2>2. q # p
    BY <1>1, <2>1
  <2> QED
    BY <1>1, <1>4, <2>1, <2>2
<1>7. \A q \in Agents : Opened(q) => Opened(q)'
  BY <1>1 DEF Opened
<1>8. req'[r] = Idle => NeedsRow(req[r])'
  BY DEF NeedsRow, Idle
<1>9. FieldAlone(req[r]) /\ req'[r] = Idle => FieldAlone(req[r])'
  <2> SUFFICES ASSUME FieldAlone(req[r]), req'[r] = Idle
               PROVE  FieldAlone(req[r])'
    OBVIOUS
  <2>1. req[r] = Idle
    BY <1>1, Begun DEF FieldInv
  <2>2. HeadAlone(req[r])'
    BY <1>1, HeadStays DEF FieldAlone, Idle
  <2>3. \A q \in Agents : RowAddsUp(attendance[q], visits[q])
    BY <2>1 DEF FieldAlone, DayAlone, Idle
  <2>4. \A q \in Agents : RowAddsUp(attendance'[q], visits'[q])
    BY <1>1, <1>3, <1>4, <2>3 DEF RowAddsUp
  <2>5. DayAlone(req[r])'
    BY <2>4 DEF DayAlone, Idle
  <2> QED
    BY <2>2, <2>5 DEF FieldAlone
<1> QED
  BY <1>1, <1>5, <1>6, <1>7, <1>8, <1>9, FieldKeeps DEF FieldSlot

\* What the handler of a correction writes: the time, and the minutes when both are known.
LEMMA Corrected ==
    ASSUME NEW row \in DayRow, row.in \in 0..Evening, NEW field \in {"in", "out"}, NEW t \in 0..Evening,
           NEW amended, amended = [f \in {field} |-> t], NEW fixed, fixed = Update(row, amended),
           NEW patch, patch = IF fixed.out = Never THEN amended
                              ELSE Update([worked |-> Between(fixed.in, fixed.out)], amended)
    PROVE  /\ DayPatch(patch)
           /\ \A v : RowAddsUp(row, v) => RowAddsUp(Update(row, patch), v)
<1>1. DOMAIN amended = {field} /\ amended[field] = t
  OBVIOUS
<1>2. DayPatch(amended)
  BY <1>1 DEF DayPatch
<1>3. /\ fixed.in = (IF field = "in" THEN t ELSE row.in) /\ fixed.out = (IF field = "out" THEN t ELSE row.out)
      /\ fixed.worked = row.worked /\ fixed.visitCount = row.visitCount
      /\ fixed \in DayRow
  BY <1>1, <1>2, DayUpdated
<1>4. fixed.in \in 0..Evening /\ row.in # Never
  BY <1>3, FieldConstants DEF Never
<1>5. CASE fixed.out = Never
  BY <1>2, <1>3, <1>4, <1>5 DEF RowAddsUp
<1>6. CASE fixed.out # Never
  <2> DEFINE worked == Between(fixed.in, fixed.out)
  <2>1. fixed.out \in 0..Evening
    BY <1>3, <1>6, FieldConstants DEF DayRow, Never
  <2>2. worked \in 0..Evening
    BY <1>4, <2>1, Minutes
  <2> HIDE DEF worked
  <2>3. patch = Update([worked |-> worked], amended)
    BY <1>6 DEF worked
  <2>4. DOMAIN patch = {field, "worked"} /\ patch[field] = t /\ patch["worked"] = worked
    BY <1>1, <2>3 DEF Update
  <2>5. DayPatch(patch)
    BY <2>2, <2>4 DEF DayPatch
  <2>6. /\ Update(row, patch).in = fixed.in /\ Update(row, patch).out = fixed.out
        /\ Update(row, patch).worked = worked /\ Update(row, patch).visitCount = row.visitCount
    BY <1>3, <2>4, <2>5, DayUpdated
  <2>7. \A v : RowAddsUp(row, v) => RowAddsUp(Update(row, patch), v)
    BY <1>4, <2>6 DEF RowAddsUp, worked
  <2> QED
    BY <2>5, <2>7
<1> QED
  BY <1>5, <1>6

LEMMA CorrectKeeps ==
    ASSUME FieldInv, NEW r \in Requests, NEW p \in Agents, NEW field \in {"in", "out"},
           NEW t \in 0..Evening, Correct(r, p, field, t)
    PROVE  FieldInv'
<1> DEFINE amended == [f \in {field} |-> t]
           fixed == Update(attendance[p], amended)
           patch == IF fixed.out = Never THEN amended
                    ELSE Update([worked |-> Between(fixed.in, fixed.out)], amended)
           l == [pc |-> "update", p |-> p, patch |-> patch]
<1>1. Begin(r, l) /\ attendance[p] # NoRow /\ UNCHANGED <<branch, attendance, visits, minute>>
  BY DEF Correct, fieldWork
<1>2. attendance[p] \in DayRow /\ attendance[p].in \in 0..Evening /\ Opened(p)
  BY <1>1, HasRow, FieldConstants DEF Opened, Never
<1>3. l.pc = "update" /\ l.p = p /\ l.patch = patch /\ l = [pc |-> "update", p |-> l.p, patch |-> l.patch]
  OBVIOUS
<1>4. DayPatch(patch) /\ \A v : RowAddsUp(attendance[p], v) => RowAddsUp(Update(attendance[p], patch), v)
  BY <1>2, Corrected
<1>5. RowAddsUp(attendance[p], visits[p]) => RowAddsUp(Update(attendance[p], patch), visits[p])
  BY <1>4
<1>6. FieldSlot(l)
  BY <1>3, <1>4 DEF FieldSlot, DaySlot
<1> HIDE DEF l, patch
<1>7. FieldTypeOK' /\ minute' \in 0..Evening /\ DaysOpened'
  BY <1>1 DEF FieldInv, FieldTypeOK, DaysOpened, Opened
<1>8. \A q \in Agents : Opened(q) => Opened(q)'
  BY <1>1 DEF Opened
<1>9. req'[r] = l => NeedsRow(req[r])'
  BY <1>1, <1>2, <1>3 DEF NeedsRow, Opened
<1>10. FieldAlone(req[r]) /\ req'[r] = l => FieldAlone(req[r])'
  <2> SUFFICES ASSUME FieldAlone(req[r]), req'[r] = l
               PROVE  FieldAlone(req[r])'
    OBVIOUS
  <2>1. req[r] = Idle
    BY <1>1, Begun DEF FieldInv
  <2>2. HeadAlone(req[r])'
    BY <1>1, <1>3, HeadStays DEF FieldAlone
  <2>3. \A q \in Agents : RowAddsUp(attendance[q], visits[q])
    BY <2>1 DEF FieldAlone, DayAlone, Idle
  <2>4. \A q \in Agents : RowAddsUp(attendance'[q], visits'[q])
    BY <1>1, <2>3
  <2>5. RowAddsUp(Update(attendance'[p], patch), visits'[p])
    BY <1>1, <1>5, <2>3
  <2>6. DayAlone(req[r])'
    BY <1>3, <2>4, <2>5 DEF DayAlone
  <2> QED
    BY <2>2, <2>6 DEF FieldAlone
<1> QED
  BY <1>1, <1>6, <1>7, <1>8, <1>9, <1>10, FieldKeeps

-----------------------------------------------------------------------------
\* The clock, a stop of the process and a stutter leave rows and handlers together.
LEMMA FieldSlotsStay ==
    ASSUME FieldInv, UNCHANGED <<server, branch, attendance, visits>>, minute' \in 0..Evening
    PROVE  FieldInv'
<1>1. /\ FieldTypeOK' /\ ServerOK' /\ DaysOpened'
      /\ \A r \in Requests : FieldSlot(req[r])' /\ NeedsRow(req[r])'
  BY DEF FieldInv, FieldTypeOK, ServerOK, InFlight, DaysOpened, Opened, NeedsRow, server
<1>2. Heads' = Heads /\ InFlight' = InFlight
  BY DEF Heads, InFlight, server
<1>3. \A r \in Requests : FieldAlone(req[r]) => FieldAlone(req[r])'
  BY <1>2 DEF FieldAlone, HeadAlone, DayAlone, RowAddsUp, server
<1>4. FieldAlone(Idle) => FieldAlone(Idle)'
  BY <1>2 DEF FieldAlone, HeadAlone, DayAlone, RowAddsUp, server
<1>5. \A r \in InFlight : r \in Requests
  BY DEF InFlight
<1> QED
  BY <1>1, <1>2, <1>3, <1>4, <1>5 DEF FieldInv, Quiescent, server

LEMMA FieldRestarts ==
    ASSUME FieldInv, Restart, UNCHANGED fieldWork
    PROVE  FieldInv'
<1>1. /\ ServerOK' /\ overlapped'
      /\ \A r \in Requests : req'[r] \in {Idle, Unused}
  BY Restarted DEF FieldInv
<1>2. FieldTypeOK' /\ minute' \in 0..Evening /\ DaysOpened'
  BY DEF FieldInv, FieldTypeOK, DaysOpened, Opened, fieldWork
<1>3. \A r \in Requests : FieldSlot(req'[r]) /\ NeedsRow(req[r])'
  BY <1>1 DEF FieldSlot, NeedsRow, Idle, Unused
<1> QED
  BY <1>1, <1>2, <1>3 DEF FieldInv

LEMMA FieldSteps ==
    ASSUME FieldInv, [FieldNext]_fieldVars
    PROVE  FieldInv'
<1>1. ASSUME NEW r \in Requests, FieldRequest(r) \/ FieldStep(r)
      PROVE  FieldInv'
  BY <1>1, PostBranchKeeps, PatchBranchKeeps, CloseBranchKeeps, CheckInKeeps, CheckOutKeeps,
     PostVisitKeeps, CompleteVisitKeeps, CorrectKeeps, ClearHeadKeeps, InsertBranchKeeps,
     WriteBranchKeeps, InsertAttendanceKeeps, ReadVisitsKeeps, WriteAttendanceKeeps, InsertVisitKeeps
     DEF FieldRequest, FieldStep
<1>2. CASE ClockRuns
  <2>1. minute' \in 0..Evening
    BY <1>2, FieldConstants DEF ClockRuns, FieldInv
  <2> QED
    BY <1>2, <2>1, FieldSlotsStay DEF ClockRuns
<1>3. CASE Restart /\ UNCHANGED fieldWork
  BY <1>3, FieldRestarts
<1>4. CASE UNCHANGED fieldVars
  BY <1>4, FieldSlotsStay DEF FieldInv, fieldVars, fieldWork
<1> QED
  BY <1>1, <1>2, <1>3, <1>4 DEF FieldNext

LEMMA OneOfASet ==
    ASSUME NEW S, \A x, y \in S : x = y
    PROVE  Cardinality(S) <= 1
<1>1. CASE S = {}
  BY <1>1, FS_EmptySet
<1>2. CASE S # {}
  <2>1. PICK x \in S : TRUE
    BY <1>2
  <2>2. S = {x}
    BY <2>1
  <2> QED
    BY <2>2, FS_Singleton
<1> QED
  BY <1>1, <1>2

LEMMA FieldInvHolds ==
    FieldInv => FieldWorkHolds
<1> SUFFICES ASSUME FieldInv PROVE FieldWorkHolds
  OBVIOUS
<1>1. OneHeadAtMost
  <2> SUFFICES ASSUME ~overlapped PROVE Cardinality(Heads) <= 1
    BY DEF OneHeadAtMost
  <2>1. \A b, c \in Heads : b = c
    BY DEF FieldInv, FieldAlone, HeadAlone, Quiescent
  <2> QED
    BY <2>1, OneOfASet
<1>2. DayAddsUp
  <2> SUFFICES ASSUME ~overlapped, Quiescent, NEW p \in Agents, attendance[p] # NoRow
               PROVE  /\ attendance[p].visitCount = visits[p].open + visits[p].closed
                      /\ attendance[p].out # Never =>
                           attendance[p].worked = Between(attendance[p].in, attendance[p].out)
    BY DEF DayAddsUp
  <2>1. RowAddsUp(attendance[p], visits[p])
    BY DEF FieldInv, FieldAlone, DayAlone, Idle
  <2>2. attendance[p].in # Never
    BY HasRow, FieldConstants DEF Never
  <2> QED
    BY <2>1, <2>2 DEF RowAddsUp
<1> QED
  BY <1>1, <1>2 DEF FieldInv, FieldWorkHolds

\* tests/admin.test.js: isHeadOffice moves the flag, it does not duplicate it; and a
\* day's record adds up through visits, check-outs and corrections in any order.
\* For any offices, people and handlers, while one handler is in flight at a time.
THEOREM FieldWorkCorrect == FieldSpec => []FieldWorkHolds
<1>1. ASSUME NEW slots, NEW requests, NEW stops, ServerInit(slots, requests, stops), FieldInit
      PROVE  FieldInv
  BY <1>1, FieldStarts
<1>2. FieldInv /\ [FieldNext]_fieldVars => FieldInv'
  BY FieldSteps
<1>3. (\E slots \in SUBSET Requests, requests, stops \in Nat : ServerInit(slots, requests, stops)) /\ FieldInit
      => FieldInv
  BY <1>1
<1> QED
  BY <1>2, <1>3, FieldInvHolds, PTL DEF FieldSpec

-----------------------------------------------------------------------------
(***************************************************************************)
(* The desk: the invariant                                                 *)
(***************************************************************************)

TicketRow == [status : {"absent", "open", "in_progress", "resolved", "closed"},
              no : 0..MaxTickets, resolved : BOOLEAN, closed : BOOLEAN, reopens : Nat, count : 0..1]

\* What an update of a ticket may set.
TicketPatch(patch) ==
    /\ {"status"} \subseteq DOMAIN patch /\ DOMAIN patch \subseteq {"status", "resolved", "closed", "reopens"}
    /\ patch["status"] \in {"open", "in_progress", "resolved", "closed"}
    /\ "resolved" \in DOMAIN patch => patch["resolved"] \in BOOLEAN
    /\ "closed" \in DOMAIN patch => patch["closed"] \in BOOLEAN
    /\ "reopens" \in DOMAIN patch => patch["reopens"] \in Nat

PatchSlot(l) ==
    /\ l = [pc |-> "patchTicket", ticket |-> l.ticket, patch |-> l.patch, again |-> l.again]
    /\ l.ticket \in Tickets /\ l.again \in BOOLEAN /\ TicketPatch(l.patch)

DueSlot(d) == [pc |-> "due", days |-> d]

DeskSlot(l) ==
    \/ l \in {Idle, Unused}
    \/ l \in [pc : {"ticket"}, no : 1..MaxTickets] \cup [pc : {"message"}, ticket : Nat] \cup [pc : {"remind", "clear"}]
    \/ \E d \in Milestones : l = DueSlot(d)
    \/ PatchSlot(l)

\* Tickets fill the table from its first row, and a row not reached is untouched.
TicketsInOrder ==
    /\ \E n \in 0..MaxTickets : \A t \in Tickets : t \in Raised <=> t <= n
    /\ \A t \in Tickets : t \notin Raised => ticket[t] = NoTicket

NeedsTicket(l) == l.pc = "patchTicket" => l.ticket \in Raised

\* Reminders of a milestone that went out, and those on their way.
DueInv ==
    \A d \in Milestones :
       dueSent[d] + Cardinality({r \in Requests : req[r] = DueSlot(d)}) <= 1 + Cardinality(Requests)

TicketSays(row, times) ==
    /\ row.reopens = times
    /\ row.status = "resolved" => row.resolved = TRUE
    /\ row.status = "closed" => row.closed = TRUE

Times(l) == IF l.again THEN reopened[l.ticket] + 1 ELSE reopened[l.ticket]

\* The tickets add up, and will once the patch in flight is written.
TicketsAlone(l) ==
    /\ \A t \in Tickets : TicketSays(ticket[t], reopened[t])
    /\ l.pc = "patchTicket" => TicketSays(Update(ticket[l.ticket], l.patch), Times(l))

\* Every reminder asked for is sent, but for the one that is set.
RemindersAlone(l) ==
    /\ task.status = "absent" => task.reminder = "none" /\ reminded.asked = 0
    /\ l.pc = "remind" => task.reminder = "due"
    /\ l.pc = "clear" => task.reminder = "due"
    /\ reminded.asked = IF task.reminder = "none" \/ l.pc = "clear" THEN reminded.sent ELSE reminded.sent + 1

DeskAlone(l) ==
    /\ TicketsAlone(l)
    /\ RemindersAlone(l)
    /\ late = FALSE /\ (l.pc = "due" => filed = FALSE)

DeskTypes ==
    /\ DeskTypeOK
    /\ filed \in BOOLEAN /\ late \in BOOLEAN
    /\ reopened \in [Tickets -> Nat] /\ reminded \in [asked : Nat, sent : Nat]

DeskInv ==
    /\ DeskTypes
    /\ ServerOK
    /\ \A r \in Requests : DeskSlot(req[r]) /\ NeedsTicket(req[r])
    /\ TicketsInOrder
    /\ DueInv
    /\ ~overlapped => (Quiescent => DeskAlone(Idle)) /\ \A r \in InFlight : DeskAlone(req[r])

-----------------------------------------------------------------------------
LEMMA DeskSlotKinds ==
    ASSUME NEW l, DeskSlot(l), l.pc = "patchTicket"
    PROVE  PatchSlot(l)
BY DEF DeskSlot, Idle, Unused, DueSlot

LEMMA SlotCounts ==
    \A d \in Milestones :
       /\ IsFiniteSet({r \in Requests : req[r] = DueSlot(d)})
       /\ Cardinality({r \in Requests : req[r] = DueSlot(d)}) \in Nat
       /\ Cardinality({r \in Requests : req[r] = DueSlot(d)}) <= Cardinality(Requests)
       /\ Cardinality(Requests) \in Nat
<1> SUFFICES ASSUME NEW d \in Milestones
             PROVE  /\ IsFiniteSet({r \in Requests : req[r] = DueSlot(d)})
                    /\ Cardinality({r \in Requests : req[r] = DueSlot(d)}) \in Nat
                    /\ Cardinality({r \in Requests : req[r] = DueSlot(d)}) <= Cardinality(Requests)
                    /\ Cardinality(Requests) \in Nat
  OBVIOUS
<1> DEFINE S == {r \in Requests : req[r] = DueSlot(d)}
<1>1. S \subseteq Requests /\ IsFiniteSet(Requests)
  BY DeskConstants
<1> HIDE DEF S
<1>2. IsFiniteSet(S) /\ Cardinality(S) <= Cardinality(Requests)
  BY <1>1, FS_Subset
<1>3. Cardinality(S) \in Nat /\ Cardinality(Requests) \in Nat
  BY <1>1, <1>2, FS_CardinalityType
<1> QED
  BY <1>2, <1>3 DEF S

\* A step that sends none and selects none leaves the reminders of a milestone few.
LEMMA DueStays ==
    ASSUME DeskInv, dueSent' = dueSent,
           \A r \in Requests : \A d \in Milestones : req'[r] = DueSlot(d) => req[r] = DueSlot(d)
    PROVE  DueInv'
<1> SUFFICES ASSUME NEW d \in Milestones
             PROVE  dueSent[d] + Cardinality({r \in Requests : req'[r] = DueSlot(d)}) <= 1 + Cardinality(Requests)
  BY DEF DueInv
<1> DEFINE S == {r \in Requests : req[r] = DueSlot(d)}
           T == {r \in Requests : req'[r] = DueSlot(d)}
<1>1. T \subseteq S
  OBVIOUS
<1>2. IsFiniteSet(S) /\ Cardinality(S) \in Nat /\ Cardinality(Requests) \in Nat
  BY SlotCounts
<1>3. dueSent[d] + Cardinality(S) <= 1 + Cardinality(Requests)
  BY DEF DeskInv, DueInv
<1>4. dueSent[d] \in Nat
  BY <1>2 DEF DeskInv, DeskTypes, DeskTypeOK
<1> HIDE DEF S, T
<1>5. Cardinality(T) <= Cardinality(S) /\ Cardinality(T) \in Nat
  BY <1>1, <1>2, FS_Subset, FS_CardinalityType
<1>6. dueSent[d] + Cardinality(T) <= 1 + Cardinality(Requests)
  BY <1>2, <1>3, <1>4, <1>5
<1> QED
  BY <1>6 DEF T

\* What a step of a slot needs to keep the invariant.
LEMMA DeskKeeps ==
    ASSUME DeskInv, NEW r \in Requests, NEW l, DeskSlot(l),
           Begin(r, l) \/ Fire(r, l) \/ (req[r] \notin {Idle, Unused} /\ Continue(r, l)),
           DeskTypes', TicketsInOrder', \A t \in Raised : t \in Raised',
           req'[r] = l => NeedsTicket(req[r])',
           DueInv' \/ (dueSent' = dueSent /\ \A d \in Milestones : l # DueSlot(d)),
           ~overlapped' /\ DeskAlone(req[r]) /\ req'[r] = l => DeskAlone(req[r])'
    PROVE  DeskInv'
<1>1. /\ ServerOK' /\ req'[r] = l
      /\ \A s \in Requests \ {r} : req'[s] = req[s]
      /\ ~overlapped' => ~overlapped /\ \A s \in Requests \ {r} : req[s] \in {Idle, Unused}
      /\ req[r] = Idle \/ req[r] \notin {Idle, Unused}
  BY Begun, Continued DEF DeskInv
<1>2. \A s \in Requests : DeskSlot(req[s])'
  <2>1. DeskSlot(req'[r])
    BY <1>1
  <2>2. \A s \in Requests \ {r} : DeskSlot(req'[s])
    BY <1>1 DEF DeskInv
  <2> QED
    BY <2>1, <2>2
<1>3. \A s \in Requests : NeedsTicket(req[s])'
  BY <1>1 DEF DeskInv, NeedsTicket
<1>4. ~overlapped' => DeskAlone(req[r])
  <2>1. ~overlapped' /\ req[r] = Idle => Quiescent
    BY <1>1 DEF Quiescent, InFlight
  <2> QED
    BY <1>1, <2>1 DEF DeskInv, InFlight
<1>5. ~overlapped' => DeskAlone(req[r])'
  BY <1>1, <1>4
<1>6. ~overlapped' => \A s \in InFlight' : s = r
  BY <1>1 DEF InFlight
<1>7. ~overlapped' /\ Quiescent' => req'[r] \in {Idle, Unused}
  BY <1>1 DEF Quiescent, InFlight
<1>8. ~overlapped' /\ Quiescent' => DeskAlone(Idle)'
  BY <1>5, <1>7 DEF DeskAlone, TicketsAlone, RemindersAlone, Idle, Unused
<1>9. ~overlapped' => \A s \in InFlight' : DeskAlone(req[s])'
  BY <1>5, <1>6
<1>10. DueInv'
  BY <1>1, DueStays
<1> QED
  BY <1>1, <1>2, <1>3, <1>8, <1>9, <1>10 DEF DeskInv

LEMMA DeskStarts ==
    ASSUME NEW slots, NEW requests, NEW stops, ServerInit(slots, requests, stops), DeskInit
    PROVE  DeskInv
<1>1. ServerOK /\ \A r \in Requests : req[r] \in {Idle, Unused}
  BY ServerStarts
<1>2. Cardinality(Requests) \in Nat /\ MaxTickets \in Nat /\ MaxDays \in Nat
  BY DeskConstants, FS_CardinalityType
<1>3. DeskTypes
  <2>1. 0 \in 0..MaxTickets /\ MaxDays \in 0..MaxDays /\ 0 \in 0..(2 + Cardinality(Requests))
    BY <1>2
  <2>2. NoTicket \in TicketRow
    BY <2>1 DEF NoTicket, TicketRow
  <2>3. ticket \in [Tickets -> TicketRow] /\ dueSent \in [Milestones -> 0..(2 + Cardinality(Requests))]
    BY <2>1, <2>2 DEF DeskInit
  <2>4. DeskTypeOK
    BY <2>1, <2>3 DEF DeskInit, DeskTypeOK, TicketRow
  <2> QED
    BY <2>4 DEF DeskInit, DeskTypes
<1>4. TicketsInOrder
  <2>1. Raised = {}
    BY DEF DeskInit, Raised, NoTicket
  <2>2. 0 \in 0..MaxTickets /\ \A t \in Tickets : ~(t <= 0)
    BY DeskConstants DEF Tickets
  <2> QED
    BY <2>1, <2>2 DEF DeskInit, TicketsInOrder
<1>5. InFlight = {}
  BY <1>1 DEF InFlight
<1>6. DeskAlone(Idle)
  BY DEF DeskAlone, TicketsAlone, RemindersAlone, TicketSays, DeskInit, NoTicket, Idle
<1>7. \A r \in Requests : DeskSlot(req[r]) /\ NeedsTicket(req[r])
  BY <1>1 DEF DeskSlot, NeedsTicket, Idle, Unused
<1>8. DueInv
  <2> SUFFICES ASSUME NEW d \in Milestones
               PROVE  dueSent[d] + Cardinality({r \in Requests : req[r] = DueSlot(d)}) <= 1 + Cardinality(Requests)
    BY DEF DueInv
  <2>1. {r \in Requests : req[r] = DueSlot(d)} = {}
    BY <1>1 DEF DueSlot, Idle, Unused
  <2> QED
    BY <1>2, <2>1, FS_EmptySet DEF DeskInit
<1> QED
  BY <1>1, <1>3, <1>4, <1>5, <1>6, <1>7, <1>8 DEF DeskInv

-----------------------------------------------------------------------------
(***************************************************************************)
(* The desk: the tickets                                                   *)
(***************************************************************************)

LEMMA TicketsStay ==
    ASSUME DeskInv, UNCHANGED <<ticket, reopened>>
    PROVE  TicketsInOrder' /\ Raised' = Raised
<1>1. Raised' = Raised
  BY DEF Raised
<1> QED
  BY <1>1 DEF DeskInv, TicketsInOrder

LEMMA TicketsAloneStay ==
    ASSUME NEW r \in Requests, TicketsAlone(req[r]), UNCHANGED <<ticket, reopened>>,
           (req'[r]).pc # "patchTicket"
    PROVE  TicketsAlone(req[r])'
BY DEF TicketsAlone, TicketSays

LEMMA RemindersStay ==
    ASSUME NEW r \in Requests, RemindersAlone(req[r]), UNCHANGED <<task, reminded>>,
           req[r].pc # "clear", (req'[r]).pc \notin {"remind", "clear"}
    PROVE  RemindersAlone(req[r])'
BY DEF RemindersAlone

\* The rows of tickets there are, and the row the next one takes.
LEMMA NextTicket ==
    ASSUME DeskInv
    PROVE  /\ Cardinality(Raised) \in 0..MaxTickets
           /\ \A t \in Tickets : t \in Raised <=> t <= Cardinality(Raised)
<1>1. PICK n \in 0..MaxTickets : \A t \in Tickets : t \in Raised <=> t <= n
  BY DEF DeskInv, TicketsInOrder
<1>2. n \in Nat /\ MaxTickets \in Nat
  BY DeskConstants
<1>3. Raised = 1..n
  BY <1>1, <1>2 DEF Raised, Tickets
<1>4. Cardinality(Raised) = n
  BY <1>2, <1>3, FS_Interval
<1> QED
  BY <1>1, <1>4

LEMMA PostTicketKeeps ==
    ASSUME DeskInv, NEW r \in Requests, NEW c \in BOOLEAN, PostTicket(r, c)
    PROVE  DeskInv'
<1> DEFINE l == IF c THEN [pc |-> "ticket", no |-> Cardinality(Raised) + 1] ELSE Idle
<1>1. Begin(r, l) /\ UNCHANGED desk
  BY DEF PostTicket
<1>2. DeskSlot(l) /\ l.pc \in {"ticket", "idle"} /\ \A d \in Milestones : l # DueSlot(d)
  <2>1. Cardinality(Raised) + 1 \in 1..MaxTickets
    BY NextTicket, DeskConstants DEF PostTicket
  <2> QED
    BY <2>1 DEF DeskSlot, Idle, DueSlot
<1> HIDE DEF l
<1>3. DeskTypes'
  BY <1>1 DEF DeskInv, DeskTypes, DeskTypeOK, desk
<1>4. TicketsInOrder' /\ Raised' = Raised /\ req'[r] = l => NeedsTicket(req[r])'
  BY <1>2 DEF NeedsTicket
<1>5. req[r] = Idle
  BY <1>1, Begun DEF DeskInv
<1>6. DeskAlone(req[r]) /\ req'[r] = l => DeskAlone(req[r])'
  BY <1>1, <1>2, <1>5, TicketsAloneStay, RemindersStay DEF DeskAlone, desk, Idle
<1> QED
  BY <1>1, <1>2, <1>3, <1>4, <1>6, DeskKeeps, TicketsStay DEF desk, NeedsTicket

\* A handler that ends, or adds a message, with the tables as they are.
LEMMA DeskReads ==
    ASSUME DeskInv, NEW r \in Requests, NEW l,
           l = Idle \/ (l.pc = "message" /\ l \in [pc : {"message"}, ticket : Nat]),
           (Begin(r, l) /\ UNCHANGED desk)
             \/ (req[r].pc = "message" /\ Continue(r, l) /\ UNCHANGED desk)
    PROVE  DeskInv'
<1>1. DeskSlot(l) /\ l.pc \in {"message", "idle"} /\ \A d \in Milestones : l # DueSlot(d)
  BY DEF DeskSlot, Idle, DueSlot
<1>2. req[r] = Idle \/ req[r].pc = "message"
  BY Begun DEF DeskInv
<1>3. DeskTypes'
  BY DEF DeskInv, DeskTypes, DeskTypeOK, desk
<1>4. DeskAlone(req[r]) /\ req'[r] = l => DeskAlone(req[r])'
  BY <1>1, <1>2, TicketsAloneStay, RemindersStay DEF DeskAlone, desk, Idle
<1>5. Begin(r, l) \/ (req[r] \notin {Idle, Unused} /\ Continue(r, l))
  BY DEF Idle, Unused
<1>6. UNCHANGED <<ticket, reopened, dueSent>>
  BY DEF desk
<1> QED
  BY <1>1, <1>3, <1>4, <1>5, <1>6, DeskKeeps, TicketsStay DEF NeedsTicket

LEMMA InsertMessageKeeps ==
    ASSUME DeskInv, NEW r \in Requests, InsertMessage(r)
    PROVE  DeskInv'
BY DeskReads DEF InsertMessage, At, Return

LEMMA AnswerKeeps ==
    ASSUME DeskInv, NEW r \in Requests, NEW t \in Tickets, ReplyTicket(r, t) \/ RateTicket(r, t)
    PROVE  DeskInv'
<1> DEFINE l == [pc |-> "message", ticket |-> t]
<1>1. Begin(r, l) /\ UNCHANGED desk
  BY DEF ReplyTicket, RateTicket
<1>2. l.pc = "message" /\ l \in [pc : {"message"}, ticket : Nat]
  BY DEF Tickets
<1> HIDE DEF l
<1> QED
  BY <1>1, <1>2, DeskReads

LEMMA InsertTicketKeeps ==
    ASSUME DeskInv, NEW r \in Requests, InsertTicket(r)
    PROVE  DeskInv'
<1> DEFINE t == Cardinality(Raised) + 1
           taken == \E u \in Raised : ticket[u].no = req[r].no
           row == [NoTicket EXCEPT !.status = "open", !.no = req[r].no, !.count = 1]
           l == IF taken THEN Idle ELSE [pc |-> "message", ticket |-> t]
<1>1. /\ req[r].pc = "ticket" /\ Continue(r, l)
      /\ ticket' = IF taken THEN ticket ELSE [ticket EXCEPT ![t] = row]
      /\ UNCHANGED <<task, days, filed, reopened, reminded, dueSent, late>>
  BY DEF InsertTicket, At
<1>2. req[r].no \in 1..MaxTickets /\ req[r] \notin {Idle, Unused}
  <2>1. DeskSlot(req[r])
    BY DEF DeskInv
  <2>2. req[r] \notin {Idle, Unused} /\ \A d \in Milestones : req[r] # DueSlot(d)
    BY <1>1 DEF Idle, Unused, DueSlot
  <2>3. ~PatchSlot(req[r])
    BY <1>1 DEF PatchSlot
  <2> QED
    BY <1>1, <2>1, <2>2, <2>3 DEF DeskSlot
<1>3. Cardinality(Raised) \in 0..MaxTickets /\ \A u \in Tickets : u \in Raised <=> u <= Cardinality(Raised)
  BY NextTicket
<1>4. DeskSlot(l) /\ l.pc \in {"message", "idle"} /\ \A d \in Milestones : l # DueSlot(d)
  BY <1>3 DEF DeskSlot, Idle, DueSlot
<1>5. row \in TicketRow /\ row.status = "open" /\ row.reopens = 0
  <2>1. NoTicket \in TicketRow
    BY DeskConstants DEF NoTicket, TicketRow
  <2>2. req[r].no \in 0..MaxTickets /\ 1 \in 0..1
    BY <1>2, DeskConstants
  <2>3. row \in TicketRow /\ row.status = "open" /\ row.reopens = NoTicket.reopens
    BY <2>1, <2>2 DEF TicketRow
  <2> QED
    BY <2>3 DEF NoTicket
<1>6. t \in Tickets => t \notin Raised
  BY <1>3
<1>7. ticket \in [Tickets -> TicketRow]
  BY DEF DeskInv, DeskTypes, DeskTypeOK, TicketRow
<1> HIDE DEF l, row
<1>8. \A u \in Tickets : ticket'[u] = ticket[u] \/ (u = t /\ ticket'[u] = row)
  BY <1>1, <1>7
<1>9. DeskTypes'
  <2>1. ticket' \in [Tickets -> TicketRow]
    BY <1>1, <1>5, <1>7
  <2> QED
    BY <1>1, <2>1 DEF DeskInv, DeskTypes, DeskTypeOK, TicketRow
<1>10. Raised' = Raised \/ (t \in Tickets /\ Raised' = Raised \cup {t})
  <2>1. CASE ticket' = ticket
    BY <2>1 DEF Raised
  <2>2. CASE ticket' # ticket
    <3>1. t \in Tickets /\ ticket'[t] = row /\ \A u \in Tickets \ {t} : ticket'[u] = ticket[u]
      BY <1>1, <1>7, <2>2
    <3> QED
      BY <1>5, <3>1 DEF Raised
  <2> QED
    BY <2>1, <2>2
<1>11. TicketsInOrder'
  <2>1. \E n \in 0..MaxTickets : \A u \in Tickets : u \in Raised' <=> u <= n
    <3>1. CASE Raised' = Raised
      BY <1>3, <3>1
    <3>2. CASE t \in Tickets /\ Raised' = Raised \cup {t}
      <4>1. t \in 0..MaxTickets
        BY <3>2, DeskConstants DEF Tickets
      <4>2. \A u \in Tickets : u \in Raised' <=> u <= t
        BY <1>3, <3>2 DEF Tickets
      <4> QED
        BY <4>1, <4>2
    <3> QED
      BY <1>10, <3>1, <3>2
  <2>2. \A u \in Tickets : u \notin Raised' => ticket'[u] = NoTicket
    <3> SUFFICES ASSUME NEW u \in Tickets, u \notin Raised'
                 PROVE  ticket'[u] = NoTicket
      OBVIOUS
    <3>1. ticket[u] = NoTicket
      BY <1>10 DEF DeskInv, TicketsInOrder
    <3>2. ticket'[u] # row
      BY <1>5 DEF Raised
    <3> QED
      BY <1>8, <3>1, <3>2
  <2> QED
    BY <2>1, <2>2 DEF TicketsInOrder
<1>12. \A u \in Raised : u \in Raised'
  BY <1>10
<1>13. req'[r] = l => NeedsTicket(req[r])'
  BY <1>4 DEF NeedsTicket
<1>14. DeskAlone(req[r]) /\ req'[r] = l => DeskAlone(req[r])'
  <2> SUFFICES ASSUME DeskAlone(req[r]), req'[r] = l
               PROVE  DeskAlone(req[r])'
    OBVIOUS
  <2>1. RemindersAlone(req[r])'
    BY <1>1, <1>4, RemindersStay DEF DeskAlone
  <2>2. \A u \in Tickets : TicketSays(ticket[u], reopened[u])
    BY DEF DeskAlone, TicketsAlone
  <2>3. t \in Tickets => reopened[t] = 0
    BY <1>6, <2>2 DEF DeskInv, TicketsInOrder, TicketSays, NoTicket
  <2>4. t \in Tickets => TicketSays(row, reopened[t])
    BY <1>5, <2>3 DEF TicketSays
  <2>5. \A u \in Tickets : TicketSays(ticket'[u], reopened'[u])
    BY <1>1, <1>8, <2>2, <2>4
  <2>6. TicketsAlone(req[r])'
    BY <1>4, <2>5 DEF TicketsAlone
  <2> QED
    BY <1>1, <1>4, <2>1, <2>6 DEF DeskAlone
<1> QED
  BY <1>1, <1>2, <1>4, <1>9, <1>11, <1>12, <1>13, <1>14, DeskKeeps

\* What an update leaves of a ticket.
LEMMA TicketUpdated ==
    ASSUME NEW row \in TicketRow, NEW patch, TicketPatch(patch)
    PROVE  /\ Update(row, patch) \in TicketRow
           /\ Update(row, patch).status = patch["status"]
           /\ Update(row, patch).resolved = IF "resolved" \in DOMAIN patch THEN patch["resolved"] ELSE row.resolved
           /\ Update(row, patch).closed = IF "closed" \in DOMAIN patch THEN patch["closed"] ELSE row.closed
           /\ Update(row, patch).reopens = IF "reopens" \in DOMAIN patch THEN patch["reopens"] ELSE row.reopens
<1> DEFINE new == Update(row, patch)
<1>1. DOMAIN row = {"status", "no", "resolved", "closed", "reopens", "count"}
  BY DEF TicketRow
<1>2. new = [f \in {"status", "no", "resolved", "closed", "reopens", "count"} |->
                IF f \in DOMAIN patch THEN patch[f] ELSE row[f]]
  BY <1>1 DEF Update, TicketPatch
<1> HIDE DEF new
<1>3. /\ row["no"] \in 0..MaxTickets /\ row["resolved"] \in BOOLEAN /\ row["closed"] \in BOOLEAN
      /\ row["reopens"] \in Nat /\ row["count"] \in 0..1
  BY DEF TicketRow
<1>4. /\ new.status = patch["status"] /\ new.no = row.no /\ new.count = row.count
      /\ new.resolved = IF "resolved" \in DOMAIN patch THEN patch["resolved"] ELSE row.resolved
      /\ new.closed = IF "closed" \in DOMAIN patch THEN patch["closed"] ELSE row.closed
      /\ new.reopens = IF "reopens" \in DOMAIN patch THEN patch["reopens"] ELSE row.reopens
  BY <1>2 DEF TicketPatch
<1>5. /\ new.status \in {"absent", "open", "in_progress", "resolved", "closed"} /\ new.no \in 0..MaxTickets
      /\ new.resolved \in BOOLEAN /\ new.closed \in BOOLEAN /\ new.reopens \in Nat /\ new.count \in 0..1
  BY <1>3, <1>4 DEF TicketPatch
<1>6. new = [status |-> new.status, no |-> new.no, resolved |-> new.resolved, closed |-> new.closed,
             reopens |-> new.reopens, count |-> new.count]
  BY <1>2
<1>7. new \in TicketRow
  BY <1>5, <1>6 DEF TicketRow
<1> QED
  BY <1>4, <1>7 DEF new

LEMMA PatchTicketKeeps ==
    ASSUME DeskInv, NEW r \in Requests, NEW t \in Tickets,
           NEW status \in {"open", "in_progress", "resolved", "closed"}, PatchTicket(r, t, status)
    PROVE  DeskInv'
<1> DEFINE row == ticket[t]
           again == status = "open" /\ row.status \in {"resolved", "closed"}
           patch == CASE status = "resolved" -> [status |-> status, resolved |-> TRUE]
                      [] status = "closed" -> [status |-> status, closed |-> TRUE]
                      [] again -> [status |-> status, resolved |-> FALSE, closed |-> FALSE,
                                   reopens |-> row.reopens + 1]
                      [] OTHER -> [status |-> status]
           l == [pc |-> "patchTicket", ticket |-> t, patch |-> patch, again |-> again]
<1>1. Begin(r, l) /\ UNCHANGED desk /\ t \in Raised
  BY DEF PatchTicket
<1>2. row \in TicketRow /\ row.reopens \in Nat
  BY DEF DeskInv, DeskTypes, DeskTypeOK, TicketRow
<1>3. /\ TicketPatch(patch)
      /\ \A n \in Nat : TicketSays(row, n) => TicketSays(Update(row, patch), IF again THEN n + 1 ELSE n)
  <2>1. CASE status = "resolved"
    <3>1. patch = [status |-> status, resolved |-> TRUE] /\ ~again
      BY <2>1
    <3> HIDE DEF patch, again, row
    <3>2. TicketPatch(patch)
      BY <3>1 DEF TicketPatch
    <3>3. Update(row, patch).status = "resolved" /\ Update(row, patch).resolved = TRUE
          /\ Update(row, patch).reopens = row.reopens
      BY <1>2, <2>1, <3>1, <3>2, TicketUpdated
    <3> QED
      BY <3>1, <3>2, <3>3 DEF TicketSays
  <2>2. CASE status = "closed"
    <3>1. patch = [status |-> status, closed |-> TRUE] /\ ~again
      BY <2>2
    <3> HIDE DEF patch, again, row
    <3>2. TicketPatch(patch)
      BY <3>1 DEF TicketPatch
    <3>3. Update(row, patch).status = "closed" /\ Update(row, patch).closed = TRUE
          /\ Update(row, patch).reopens = row.reopens
      BY <1>2, <2>2, <3>1, <3>2, TicketUpdated
    <3> QED
      BY <3>1, <3>2, <3>3 DEF TicketSays
  <2>3. CASE again
    <3>1. /\ patch = [status |-> status, resolved |-> FALSE, closed |-> FALSE, reopens |-> row.reopens + 1]
          /\ status = "open"
      BY <2>3
    <3> HIDE DEF patch, again, row
    <3>2. TicketPatch(patch)
      BY <1>2, <3>1 DEF TicketPatch
    <3>3. Update(row, patch).status = "open" /\ Update(row, patch).reopens = row.reopens + 1
      BY <1>2, <3>1, <3>2, TicketUpdated
    <3> QED
      BY <2>3, <3>2, <3>3 DEF TicketSays
  <2>4. CASE status \notin {"resolved", "closed"} /\ ~again
    <3>1. patch = [status |-> status]
      BY <2>4
    <3> HIDE DEF patch, again, row
    <3>2. TicketPatch(patch)
      BY <3>1 DEF TicketPatch
    <3>3. Update(row, patch).status = status /\ Update(row, patch).reopens = row.reopens
      BY <1>2, <3>1, <3>2, TicketUpdated
    <3> QED
      BY <2>4, <3>2, <3>3 DEF TicketSays
  <2> QED
    BY <2>1, <2>2, <2>3, <2>4
<1>4. /\ l.pc = "patchTicket" /\ l.ticket = t /\ l.patch = patch /\ l.again = again
      /\ l = [pc |-> "patchTicket", ticket |-> l.ticket, patch |-> l.patch, again |-> l.again]
      /\ again \in BOOLEAN
  OBVIOUS
<1> HIDE DEF l, patch, again, row
<1>5. PatchSlot(l) /\ DeskSlot(l) /\ \A d \in Milestones : l # DueSlot(d)
  BY <1>3, <1>4 DEF PatchSlot, DeskSlot, DueSlot
<1>6. DeskTypes' /\ UNCHANGED <<ticket, reopened, dueSent>>
  BY <1>1 DEF DeskInv, DeskTypes, DeskTypeOK, desk
<1>7. TicketsInOrder' /\ Raised' = Raised
  BY <1>6, TicketsStay
<1>8. req'[r] = l => NeedsTicket(req[r])'
  BY <1>1, <1>4, <1>7 DEF NeedsTicket
<1>9. DeskAlone(req[r]) /\ req'[r] = l => DeskAlone(req[r])'
  <2> SUFFICES ASSUME DeskAlone(req[r]), req'[r] = l
               PROVE  DeskAlone(req[r])'
    OBVIOUS
  <2>1. req[r] = Idle
    BY <1>1, Begun DEF DeskInv
  <2>2. RemindersAlone(req[r])' /\ UNCHANGED <<late, filed>>
    BY <1>1, <1>4, <2>1, RemindersStay DEF DeskAlone, Idle, desk
  <2>3. \A u \in Tickets : TicketSays(ticket[u], reopened[u])
    BY DEF DeskAlone, TicketsAlone
  <2>4. TicketSays(Update(ticket[t], patch), IF again THEN reopened[t] + 1 ELSE reopened[t])
    BY <1>3, <2>3 DEF DeskInv, DeskTypes, row
  <2>5. TicketSays(Update(ticket'[t], patch), IF again THEN reopened'[t] + 1 ELSE reopened'[t])
    BY <1>6, <2>4
  <2>6. \A u \in Tickets : TicketSays(ticket'[u], reopened'[u])
    BY <1>6, <2>3
  <2>7. TicketsAlone(req[r])'
    BY <1>4, <2>5, <2>6 DEF TicketsAlone, Times
  <2> QED
    BY <1>4, <2>2, <2>7 DEF DeskAlone
<1> QED
  BY <1>1, <1>5, <1>6, <1>7, <1>8, <1>9, DeskKeeps

LEMMA WriteTicketKeeps ==
    ASSUME DeskInv, NEW r \in Requests, WriteTicket(r)
    PROVE  DeskInv'
<1> DEFINE t == req[r].ticket
           new == Update(ticket[t], req[r].patch)
           times == Times(req[r])
<1>1. /\ req[r].pc = "patchTicket" /\ Continue(r, Idle)
      /\ ticket' = [ticket EXCEPT ![t] = new]
      /\ reopened' = IF req[r].again THEN [reopened EXCEPT ![t] = @ + 1] ELSE reopened
      /\ UNCHANGED <<task, days, filed, reminded, dueSent, late>>
  BY DEF WriteTicket, At, Return
<1>2. PatchSlot(req[r]) /\ req[r] \notin {Idle, Unused}
  BY <1>1, DeskSlotKinds DEF DeskInv, Idle, Unused
<1>3. t \in Tickets /\ TicketPatch(req[r].patch) /\ req[r].again \in BOOLEAN
  BY <1>2 DEF PatchSlot
<1>4. ticket \in [Tickets -> TicketRow] /\ reopened \in [Tickets -> Nat]
  BY DEF DeskInv, DeskTypes, DeskTypeOK, TicketRow
<1>5. new \in TicketRow /\ new.status # "absent"
  BY <1>3, <1>4, TicketUpdated DEF TicketPatch
<1>6. t \in Raised
  BY <1>1 DEF DeskInv, NeedsTicket
<1> HIDE DEF new
<1>7. ticket'[t] = new /\ \A u \in Tickets \ {t} : ticket'[u] = ticket[u]
  BY <1>1, <1>3, <1>4
<1>8. reopened' \in [Tickets -> Nat] /\ reopened'[t] = times /\ \A u \in Tickets \ {t} : reopened'[u] = reopened[u]
  BY <1>1, <1>3, <1>4 DEF Times
<1> HIDE DEF times
<1>9. DeskTypes'
  <2>1. ticket' \in [Tickets -> TicketRow]
    BY <1>1, <1>4, <1>5
  <2> QED
    BY <1>1, <1>8, <2>1 DEF DeskInv, DeskTypes, DeskTypeOK, TicketRow
<1>10. Raised' = Raised
  BY <1>5, <1>6, <1>7 DEF Raised
<1>11. TicketsInOrder'
  BY <1>6, <1>7, <1>10 DEF DeskInv, TicketsInOrder
<1>12. req'[r] = Idle => NeedsTicket(req[r])'
  BY DEF NeedsTicket, Idle
<1>13. DeskAlone(req[r]) /\ req'[r] = Idle => DeskAlone(req[r])'
  <2> SUFFICES ASSUME DeskAlone(req[r]), req'[r] = Idle
               PROVE  DeskAlone(req[r])'
    OBVIOUS
  <2>1. RemindersAlone(req[r])'
    BY <1>1, RemindersStay DEF DeskAlone, Idle
  <2>2. TicketSays(new, times)
    BY <1>1 DEF DeskAlone, TicketsAlone, new, times
  <2>3. \A u \in Tickets : TicketSays(ticket'[u], reopened'[u])
    BY <1>7, <1>8, <2>2 DEF DeskAlone, TicketsAlone
  <2>4. TicketsAlone(req[r])'
    BY <2>3 DEF TicketsAlone, Idle
  <2> QED
    BY <1>1, <2>1, <2>4 DEF DeskAlone, Idle
<1> QED
  BY <1>1, <1>2, <1>9, <1>10, <1>11, <1>12, <1>13, DeskKeeps DEF DeskSlot, DueSlot, Idle

-----------------------------------------------------------------------------
(***************************************************************************)
(* The desk: tasks, due dates and the theorem                              *)
(***************************************************************************)

LEMMA TaskKeeps ==
    ASSUME DeskInv, NEW r \in Requests,
           \/ \E reminder \in BOOLEAN : PostTask(r, reminder)
           \/ \E s \in {"todo", "in_progress", "done", "cancelled"}, reminder \in BOOLEAN :
                PatchTask(r, s, reminder)
    PROVE  DeskInv'
<1>1. Begin(r, Idle) /\ UNCHANGED <<ticket, days, filed, reopened, dueSent, late>>
  BY DEF PostTask, PatchTask
<1>2. DeskTypes'
  BY <1>1 DEF DeskInv, DeskTypes, DeskTypeOK, PostTask, PatchTask
<1>3. req[r] = Idle
  BY <1>1, Begun DEF DeskInv
<1>4. RemindersAlone(Idle) => RemindersAlone(Idle)'
  BY DEF RemindersAlone, PostTask, PatchTask, DeskInv, DeskTypes, DeskTypeOK, Idle
<1>5. DeskAlone(req[r]) /\ req'[r] = Idle => DeskAlone(req[r])'
  <2> SUFFICES ASSUME DeskAlone(req[r]), req'[r] = Idle
               PROVE  DeskAlone(req[r])'
    OBVIOUS
  <2>1. TicketsAlone(req[r])'
    BY <1>1, TicketsAloneStay DEF DeskAlone, Idle
  <2>2. RemindersAlone(req[r])'
    BY <1>3, <1>4 DEF DeskAlone
  <2> QED
    BY <1>1, <2>1, <2>2 DEF DeskAlone, Idle
<1> QED
  BY <1>1, <1>2, <1>5, TicketsStay, DeskKeeps DEF DeskSlot, DueSlot, NeedsTicket, Idle

LEMMA SelectTasksKeeps ==
    ASSUME DeskInv, NEW r \in Requests, SelectTasks(r)
    PROVE  DeskInv'
<1> DEFINE l == [pc |-> "remind"]
<1>1. /\ Fire(r, l) /\ task.reminder = "due"
      /\ UNCHANGED <<ticket, task, days, filed, reopened, reminded, dueSent, late>>
  BY DEF SelectTasks, desk
<1>2. DeskSlot(l) /\ l.pc = "remind" /\ \A d \in Milestones : l # DueSlot(d)
  BY DEF DeskSlot, DueSlot
<1> HIDE DEF l
<1>3. DeskTypes'
  BY <1>1 DEF DeskInv, DeskTypes, DeskTypeOK
<1>4. req[r] = Idle
  BY <1>1, Begun DEF DeskInv
<1>5. DeskAlone(req[r]) /\ req'[r] = l => DeskAlone(req[r])'
  <2> SUFFICES ASSUME DeskAlone(req[r]), req'[r] = l
               PROVE  DeskAlone(req[r])'
    OBVIOUS
  <2>1. TicketsAlone(req[r])'
    BY <1>1, <1>2, TicketsAloneStay DEF DeskAlone
  <2>2. RemindersAlone(req[r])'
    BY <1>1, <1>2, <1>4 DEF DeskAlone, RemindersAlone, Idle
  <2> QED
    BY <1>1, <1>2, <2>1, <2>2 DEF DeskAlone
<1> QED
  BY <1>1, <1>2, <1>3, <1>5, TicketsStay, DeskKeeps DEF NeedsTicket

LEMMA SendTaskReminderKeeps ==
    ASSUME DeskInv, NEW r \in Requests, SendTaskReminder(r)
    PROVE  DeskInv'
<1> DEFINE l == [pc |-> "clear"]
<1>1. /\ Continue(r, l) /\ req[r].pc = "remind"
      /\ reminded' = [reminded EXCEPT !.sent = @ + 1]
      /\ UNCHANGED <<ticket, task, days, filed, reopened, dueSent, late>>
  BY DEF SendTaskReminder, At
<1>2. DeskSlot(l) /\ l.pc = "clear" /\ (\A d \in Milestones : l # DueSlot(d)) /\ req[r] \notin {Idle, Unused}
  BY <1>1 DEF DeskSlot, DueSlot, Idle, Unused
<1> HIDE DEF l
<1>3. reminded'.sent = reminded.sent + 1 /\ reminded'.asked = reminded.asked /\ DeskTypes'
  BY <1>1 DEF DeskInv, DeskTypes, DeskTypeOK
<1>4. DeskAlone(req[r]) /\ req'[r] = l => DeskAlone(req[r])'
  <2> SUFFICES ASSUME DeskAlone(req[r]), req'[r] = l
               PROVE  DeskAlone(req[r])'
    OBVIOUS
  <2>1. TicketsAlone(req[r])'
    BY <1>1, <1>2, TicketsAloneStay DEF DeskAlone
  <2>2. RemindersAlone(req[r])'
    BY <1>1, <1>2, <1>3 DEF DeskAlone, RemindersAlone
  <2> QED
    BY <1>1, <1>2, <2>1, <2>2 DEF DeskAlone
<1> QED
  BY <1>1, <1>2, <1>3, <1>4, TicketsStay, DeskKeeps DEF NeedsTicket

LEMMA ClearReminderKeeps ==
    ASSUME DeskInv, NEW r \in Requests, ClearReminder(r)
    PROVE  DeskInv'
<1>1. /\ Continue(r, Idle) /\ req[r].pc = "clear"
      /\ task' = [task EXCEPT !.reminder = "none"]
      /\ UNCHANGED <<ticket, days, filed, reopened, reminded, dueSent, late>>
  BY DEF ClearReminder, At, Return
<1>2. req[r] \notin {Idle, Unused}
  BY <1>1 DEF Idle, Unused
<1>3. task'.reminder = "none" /\ task'.status = task.status /\ DeskTypes'
  BY <1>1 DEF DeskInv, DeskTypes, DeskTypeOK
<1>4. DeskAlone(req[r]) /\ req'[r] = Idle => DeskAlone(req[r])'
  <2> SUFFICES ASSUME DeskAlone(req[r]), req'[r] = Idle
               PROVE  DeskAlone(req[r])'
    OBVIOUS
  <2>1. TicketsAlone(req[r])'
    BY <1>1, TicketsAloneStay DEF DeskAlone, Idle
  <2>2. RemindersAlone(req[r])'
    BY <1>1, <1>3 DEF DeskAlone, RemindersAlone, Idle
  <2> QED
    BY <1>1, <2>1, <2>2 DEF DeskAlone, Idle
<1> QED
  BY <1>1, <1>2, <1>3, <1>4, TicketsStay, DeskKeeps DEF DeskSlot, DueSlot, NeedsTicket, Idle

LEMMA SelectPeriodsKeeps ==
    ASSUME DeskInv, NEW r \in Requests, SelectPeriods(r)
    PROVE  DeskInv'
<1> DEFINE l == [pc |-> "due", days |-> days]
<1>1. /\ Fire(r, l) /\ filed = FALSE /\ days \in Milestones /\ dueSent[days] < 2
      /\ UNCHANGED <<ticket, task, days, filed, reopened, reminded, dueSent, late>>
  BY DEF SelectPeriods, desk, DeskInv, DeskTypes
<1>2. DeskSlot(l) /\ l.pc = "due" /\ l = DueSlot(days)
  BY <1>1 DEF DeskSlot, DueSlot
<1> HIDE DEF l
<1>3. DeskTypes'
  BY <1>1 DEF DeskInv, DeskTypes, DeskTypeOK
<1>4. req[r] = Idle /\ req'[r] = l /\ \A s \in Requests \ {r} : req'[s] = req[s]
  BY <1>1, Begun DEF DeskInv
<1>5. DueInv'
  <2> SUFFICES ASSUME NEW d \in Milestones
               PROVE  dueSent[d] + Cardinality({s \in Requests : req'[s] = DueSlot(d)}) <= 1 + Cardinality(Requests)
    BY <1>1 DEF DueInv
  <2> DEFINE S == {s \in Requests : req[s] = DueSlot(d)}
             T == {s \in Requests : req'[s] = DueSlot(d)}
  <2>1. Cardinality(Requests) \in Nat /\ Cardinality(S) \in Nat /\ dueSent[d] \in Nat
    BY SlotCounts, DeskConstants, FS_CardinalityType DEF DeskInv, DeskTypes, DeskTypeOK
  <2>2. CASE d = days
    <3>1. T \subseteq Requests
      OBVIOUS
    <3> HIDE DEF T
    <3>2. Cardinality(T) <= Cardinality(Requests) /\ Cardinality(T) \in Nat
      BY <3>1, DeskConstants, FS_Subset, FS_CardinalityType
    <3>3. dueSent[d] <= 1
      BY <1>1, <2>1, <2>2
    <3>4. dueSent[d] + Cardinality(T) <= 1 + Cardinality(Requests)
      BY <2>1, <3>2, <3>3
    <3> QED
      BY <3>4 DEF T
  <2>3. CASE d # days
    <3>1. l # DueSlot(d) /\ Idle # DueSlot(d)
      BY <1>2, <2>3 DEF DueSlot, Idle
    <3>2. S = T
      BY <1>4, <3>1
    <3> QED
      BY <3>2 DEF DeskInv, DueInv
  <2> QED
    BY <2>2, <2>3
<1>6. DeskAlone(req[r]) /\ req'[r] = l => DeskAlone(req[r])'
  <2> SUFFICES ASSUME DeskAlone(req[r]), req'[r] = l
               PROVE  DeskAlone(req[r])'
    OBVIOUS
  <2>1. TicketsAlone(req[r])' /\ RemindersAlone(req[r])'
    BY <1>1, <1>2, <1>4, TicketsAloneStay, RemindersStay DEF DeskAlone, Idle
  <2> QED
    BY <1>1, <2>1 DEF DeskAlone
<1> QED
  BY <1>1, <1>2, <1>3, <1>5, <1>6, TicketsStay, DeskKeeps DEF NeedsTicket

LEMMA SendDueReminderKeeps ==
    ASSUME DeskInv, NEW r \in Requests, SendDueReminder(r)
    PROVE  DeskInv'
<1> DEFINE m == req[r].days
<1>1. /\ Continue(r, Idle) /\ req[r].pc = "due"
      /\ dueSent' = [dueSent EXCEPT ![m] = @ + 1]
      /\ late' = (late \/ filed)
      /\ UNCHANGED <<ticket, task, days, filed, reopened, reminded>>
  BY DEF SendDueReminder, At, Return
<1>2. req[r] \notin {Idle, Unused} /\ m \in Milestones /\ req[r] = DueSlot(m)
  <2>1. DeskSlot(req[r]) /\ req[r] \notin {Idle, Unused} /\ ~PatchSlot(req[r])
    BY <1>1 DEF DeskInv, PatchSlot, Idle, Unused
  <2>2. PICK d \in Milestones : req[r] = DueSlot(d)
    BY <1>1, <2>1 DEF DeskSlot
  <2> QED
    BY <2>1, <2>2 DEF DueSlot
<1>3. req'[r] = Idle /\ \A s \in Requests \ {r} : req'[s] = req[s]
  BY <1>1, <1>2, Continued DEF DeskInv
<1>4. dueSent \in [Milestones -> 0..(2 + Cardinality(Requests))] /\ Cardinality(Requests) \in Nat
  BY DeskConstants, FS_CardinalityType DEF DeskInv, DeskTypes, DeskTypeOK
<1>5. dueSent[m] <= Cardinality(Requests)
  <2> DEFINE S == {s \in Requests : req[s] = DueSlot(m)}
  <2>1. r \in S /\ IsFiniteSet(S) /\ Cardinality(S) \in Nat
    BY <1>2, SlotCounts
  <2>2. dueSent[m] + Cardinality(S) <= 1 + Cardinality(Requests)
    BY <1>2 DEF DeskInv, DueInv
  <2>3. Cardinality(S) # 0
    BY <2>1, FS_EmptySet
  <2> QED
    BY <1>2, <1>4, <2>1, <2>2, <2>3
<1>6. DeskTypes'
  <2>1. dueSent' \in [Milestones -> 0..(2 + Cardinality(Requests))]
    BY <1>1, <1>2, <1>4, <1>5
  <2> QED
    BY <1>1, <2>1 DEF DeskInv, DeskTypes, DeskTypeOK
<1>7. DueInv'
  <2> SUFFICES ASSUME NEW d \in Milestones
               PROVE  dueSent'[d] + Cardinality({s \in Requests : req'[s] = DueSlot(d)}) <= 1 + Cardinality(Requests)
    BY DEF DueInv
  <2> DEFINE S == {s \in Requests : req[s] = DueSlot(d)}
             T == {s \in Requests : req'[s] = DueSlot(d)}
  <2>1. IsFiniteSet(S) /\ Cardinality(S) \in Nat
    BY SlotCounts
  <2>2. dueSent[d] + Cardinality(S) <= 1 + Cardinality(Requests)
    BY DEF DeskInv, DueInv
  <2>3. CASE d = m
    <3>1. r \in S /\ T = S \ {r}
      BY <1>2, <1>3, <2>3 DEF DueSlot, Idle
    <3> HIDE DEF S, T
    <3>2. Cardinality(T) = Cardinality(S) - 1
      BY <2>1, <3>1, FS_RemoveElement
    <3>3. dueSent'[d] = dueSent[d] + 1 /\ dueSent[d] \in Nat
      BY <1>1, <1>4, <2>3
    <3>4. dueSent'[d] + Cardinality(T) <= 1 + Cardinality(Requests)
      BY <1>4, <2>1, <2>2, <3>2, <3>3
    <3> QED
      BY <3>4 DEF T
  <2>4. CASE d # m
    <3>1. req[r] # DueSlot(d) /\ Idle # DueSlot(d)
      BY <1>2, <2>4 DEF DueSlot, Idle
    <3>2. S = T /\ dueSent'[d] = dueSent[d]
      BY <1>1, <1>3, <1>4, <2>4, <3>1
    <3> QED
      BY <2>2, <3>2
  <2> QED
    BY <2>3, <2>4
<1>8. DeskAlone(req[r]) /\ req'[r] = Idle => DeskAlone(req[r])'
  <2> SUFFICES ASSUME DeskAlone(req[r]), req'[r] = Idle
               PROVE  DeskAlone(req[r])'
    OBVIOUS
  <2>1. TicketsAlone(req[r])' /\ RemindersAlone(req[r])'
    BY <1>1, TicketsAloneStay, RemindersStay DEF DeskAlone, Idle
  <2> QED
    BY <1>1, <2>1 DEF DeskAlone, Idle
<1> QED
  BY <1>1, <1>2, <1>6, <1>7, <1>8, TicketsStay, DeskKeeps DEF DeskSlot, NeedsTicket, Idle

LEMMA FilePeriodKeeps ==
    ASSUME DeskInv, NEW r \in Requests, FilePeriod(r)
    PROVE  DeskInv'
<1>1. /\ Begin(r, Idle) /\ filed' = TRUE
      /\ UNCHANGED <<ticket, task, days, reopened, reminded, dueSent, late>>
  BY DEF FilePeriod
<1>2. DeskTypes'
  BY <1>1 DEF DeskInv, DeskTypes, DeskTypeOK
<1>3. req[r] = Idle
  BY <1>1, Begun DEF DeskInv
<1>4. DeskAlone(req[r]) /\ req'[r] = Idle => DeskAlone(req[r])'
  <2> SUFFICES ASSUME DeskAlone(req[r]), req'[r] = Idle
               PROVE  DeskAlone(req[r])'
    OBVIOUS
  <2>1. TicketsAlone(req[r])' /\ RemindersAlone(req[r])'
    BY <1>1, <1>3, TicketsAloneStay, RemindersStay DEF DeskAlone, Idle
  <2> QED
    BY <1>1, <2>1 DEF DeskAlone, Idle
<1> QED
  BY <1>1, <1>2, <1>4, TicketsStay, DeskKeeps DEF DeskSlot, DueSlot, NeedsTicket, Idle

\* What happens by itself: a reminder falls due, a day passes; and a stutter.
LEMMA DeskByItself ==
    ASSUME DeskInv, UNCHANGED <<server, ticket, filed, reopened, reminded, dueSent, late>>, DeskTypes',
           task' = task \/ (task.reminder = "set" /\ task' = [task EXCEPT !.reminder = "due"])
    PROVE  DeskInv'
<1>1. ServerOK' /\ InFlight' = InFlight
  BY DEF DeskInv, ServerOK, InFlight, server
<1>2. TicketsInOrder' /\ Raised' = Raised
  BY TicketsStay
<1>3. \A r \in Requests : DeskSlot(req[r])' /\ NeedsTicket(req[r])'
  BY <1>2 DEF DeskInv, DeskSlot, NeedsTicket, server
<1>4. DueInv'
  BY DueStays DEF server
<1>5. \A l : TicketsAlone(l) => /\ \A t \in Tickets : TicketSays(ticket'[t], reopened'[t])
                                /\ l.pc = "patchTicket" => TicketSays(Update(ticket'[l.ticket], l.patch),
                                     IF l.again THEN reopened'[l.ticket] + 1 ELSE reopened'[l.ticket])
  BY DEF TicketsAlone, Times
<1>6. task' = task \/ (/\ task.reminder = "set" /\ task'.reminder = "due" /\ task'.status = task.status)
  BY DEF DeskInv, DeskTypes, DeskTypeOK
<1>7. \A r \in Requests : DeskAlone(req[r]) => DeskAlone(req[r])'
  <2> SUFFICES ASSUME NEW r \in Requests, DeskAlone(req[r]) PROVE DeskAlone(req[r])'
    OBVIOUS
  <2>1. TicketsAlone(req[r])'
    BY <1>5 DEF DeskAlone, TicketsAlone, Times, server
  <2>2. RemindersAlone(req[r])'
    BY <1>6 DEF DeskAlone, RemindersAlone, server
  <2> QED
    BY <2>1, <2>2 DEF DeskAlone, server
<1>8. DeskAlone(Idle) => DeskAlone(Idle)'
  <2> SUFFICES ASSUME DeskAlone(Idle) PROVE DeskAlone(Idle)'
    OBVIOUS
  <2>1. TicketsAlone(Idle)'
    BY <1>5 DEF DeskAlone, TicketsAlone, Times, Idle
  <2>2. RemindersAlone(Idle)'
    BY <1>6 DEF DeskAlone, RemindersAlone, Idle
  <2> QED
    BY <2>1, <2>2 DEF DeskAlone, Idle
<1>9. \A r \in InFlight : r \in Requests
  BY DEF InFlight
<1> QED
  BY <1>1, <1>2, <1>3, <1>4, <1>7, <1>8, <1>9 DEF DeskInv, Quiescent, server

LEMMA DeskRestarts ==
    ASSUME DeskInv, Restart, UNCHANGED desk
    PROVE  DeskInv'
<1>1. /\ ServerOK' /\ overlapped'
      /\ \A r \in Requests : req'[r] \in {Idle, Unused}
  BY Restarted DEF DeskInv
<1>2. DeskTypes' /\ UNCHANGED <<ticket, reopened, dueSent>>
  BY DEF DeskInv, DeskTypes, DeskTypeOK, desk
<1>3. \A r \in Requests : DeskSlot(req'[r]) /\ NeedsTicket(req[r])'
  BY <1>1 DEF DeskSlot, NeedsTicket, Idle, Unused
<1>4. DueInv'
  BY <1>1, <1>2, DueStays DEF DueSlot, Idle, Unused
<1> QED
  BY <1>1, <1>2, <1>3, <1>4, TicketsStay DEF DeskInv

LEMMA DeskSteps ==
    ASSUME DeskInv, [DeskNext]_deskVars
    PROVE  DeskInv'
<1>1. ASSUME NEW r \in Requests, DeskRequest(r) \/ DeskStep(r)
      PROVE  DeskInv'
  BY <1>1, PostTicketKeeps, AnswerKeeps, PatchTicketKeeps, TaskKeeps, SelectTasksKeeps, SelectPeriodsKeeps,
     FilePeriodKeeps, InsertTicketKeeps, InsertMessageKeeps, WriteTicketKeeps, SendTaskReminderKeeps,
     ClearReminderKeeps, SendDueReminderKeeps DEF DeskRequest, DeskStep
<1>2. CASE ReminderFallsDue
  <2>1. DeskTypes'
    BY <1>2 DEF ReminderFallsDue, DeskInv, DeskTypes, DeskTypeOK
  <2> QED
    BY <1>2, <2>1, DeskByItself DEF ReminderFallsDue
<1>3. CASE DayPasses
  <2>1. DeskTypes'
    BY <1>3, DeskConstants DEF DayPasses, DeskInv, DeskTypes, DeskTypeOK
  <2> QED
    BY <1>3, <2>1, DeskByItself DEF DayPasses
<1>4. CASE Restart /\ UNCHANGED desk
  BY <1>4, DeskRestarts
<1>5. CASE UNCHANGED deskVars
  <2>1. DeskTypes'
    BY <1>5 DEF deskVars, desk, DeskInv, DeskTypes, DeskTypeOK
  <2> QED
    BY <1>5, <2>1, DeskByItself DEF deskVars, desk
<1> QED
  BY <1>1, <1>2, <1>3, <1>4, <1>5 DEF DeskNext

LEMMA DeskInvHolds ==
    DeskInv => DeskHolds
<1> SUFFICES ASSUME DeskInv PROVE DeskHolds
  OBVIOUS
<1>1. ReopensAgree
  <2> SUFFICES ASSUME ~overlapped, NEW t \in Raised
               PROVE  TicketSays(ticket[t], reopened[t])
    BY DEF ReopensAgree, TicketSays
  <2>1. t \in Tickets
    BY DEF Raised
  <2>2. \A u \in Tickets : TicketSays(ticket[u], reopened[u])
    BY DEF DeskInv, DeskAlone, TicketsAlone, Quiescent
  <2> QED
    BY <2>1, <2>2
<1>2. RemindedOnce
  <2> SUFFICES ASSUME ~overlapped
               PROVE  /\ reminded.sent <= reminded.asked
                      /\ Quiescent /\ task.reminder = "none" => reminded.sent = reminded.asked
    BY DEF RemindedOnce
  <2>1. reminded.sent \in Nat
    BY DEF DeskInv, DeskTypes
  <2>2. reminded.sent <= reminded.asked
    BY <2>1 DEF DeskInv, DeskAlone, RemindersAlone, Quiescent
  <2>3. Quiescent => RemindersAlone(Idle)
    BY DEF DeskInv, DeskAlone
  <2> QED
    BY <2>2, <2>3 DEF RemindersAlone, Idle
<1>3. NotRemindedOnceFiled
  BY DEF NotRemindedOnceFiled, DeskInv, DeskAlone, Quiescent
<1> QED
  BY <1>1, <1>2, <1>3 DEF DeskInv, DeskTypes, DeskHolds

\* A ticket's reopen_count and times agree with its edits, every reminder of a task is
\* sent once and nobody is reminded of a period that is filed, for any tickets,
\* milestones, handlers and restarts, while one handler is in flight at a time.
THEOREM DeskCorrect == DeskSpec => []DeskHolds
<1>1. ASSUME NEW slots, NEW requests, NEW stops, ServerInit(slots, requests, stops), DeskInit
      PROVE  DeskInv
  BY <1>1, DeskStarts
<1>2. DeskInv /\ [DeskNext]_deskVars => DeskInv'
  BY DeskSteps
<1>3. (\E slots \in SUBSET Requests, requests, stops \in Nat : ServerInit(slots, requests, stops)) /\ DeskInit
      => DeskInv
  BY <1>1
<1> QED
  BY <1>2, <1>3, DeskInvHolds, PTL DEF DeskSpec

-----------------------------------------------------------------------------
(***************************************************************************)
(* What computeGstLine returns                                             *)
(***************************************************************************)

\* pctOfPaise of the whole rate and of half of it: each is rounded once, so twice the
\* half is within a paisa of the whole.
LEMMA HalvesDifferByOne ==
    ASSUME NEW taxable \in Nat, NEW rate \in Nat
    PROVE  /\ PctOfPaise(taxable, rate) \in Nat /\ PctHalved(taxable, rate) \in Nat
           /\ 2 * PctHalved(taxable, rate) <= PctOfPaise(taxable, rate) + 1
           /\ PctOfPaise(taxable, rate) <= 2 * PctHalved(taxable, rate) + 1
           /\ PctHalved(taxable, rate) <= PctOfPaise(taxable, rate)
           /\ PctOfPaise(taxable, 0) = 0
<1>1. taxable * rate \in Nat /\ taxable * 0 = 0
  OBVIOUS
<1>2. ASSUME NEW n \in Nat
      PROVE  LET whole == (n + 50) \div 100  half == (n + 100) \div 200
             IN  /\ whole \in Nat /\ half \in Nat /\ half <= whole
                 /\ 2 * half <= whole + 1 /\ whole <= 2 * half + 1
  OBVIOUS
<1>3. (0 + 50) \div 100 = 0
  OBVIOUS
<1> QED
  BY <1>1, <1>2, <1>3 DEF PctOfPaise, PctHalved

\* UPDATE ... SET: the columns of the patch are the patch's, the others the row's.
LEMMA UpdatedRow ==
    ASSUME NEW row, NEW patch
    PROVE  /\ DOMAIN Update(row, patch) = DOMAIN row \cup DOMAIN patch
           /\ \A x \in DOMAIN patch : Update(row, patch)[x] = patch[x]
           /\ \A x \in DOMAIN row \ DOMAIN patch : Update(row, patch)[x] = row[x]
  BY DEF Update

\* What computeGstLine returns carries the whole tax, in IGST or in two halves.
LEMMA ComputedLine ==
    ASSUME NEW taxable \in Nat, NEW rate \in Nat, NEW cessPct, NEW inter \in BOOLEAN, NEW supply
    PROVE  LET line == ComputeGstLine(taxable, rate, cessPct, inter, supply)
           IN  /\ DOMAIN line = {"cgst", "sgst", "igst", "cess", "total"}
               /\ line.cgst \in Nat /\ line.sgst \in Nat /\ line.igst \in Nat
               /\ line.cgst + line.sgst + line.igst =
                     IF supply \in ZeroTaxSupply THEN 0 ELSE PctOfPaise(taxable, rate)
               /\ line.cgst <= line.sgst + 1 /\ line.sgst <= line.cgst + 1
               /\ line.igst > 0 => line.cgst = 0 /\ line.sgst = 0 /\ inter
<1> DEFINE charged == supply \notin ZeroTaxSupply /\ rate > 0
           whole == IF charged THEN PctOfPaise(taxable, rate) ELSE 0
           cgst == IF charged /\ ~inter THEN PctHalved(taxable, rate) ELSE 0
           sgst == IF inter THEN 0 ELSE whole - cgst
           igst == IF inter THEN whole ELSE 0
<1> DEFINE line == ComputeGstLine(taxable, rate, cessPct, inter, supply)
<1>1. /\ DOMAIN line = {"cgst", "sgst", "igst", "cess", "total"}
      /\ line.cgst = cgst /\ line.sgst = sgst /\ line.igst = igst
  BY DEF ComputeGstLine
<1>2. whole = IF supply \in ZeroTaxSupply THEN 0 ELSE PctOfPaise(taxable, rate)
  BY HalvesDifferByOne
<1>3. /\ cgst \in Nat /\ sgst \in Nat /\ igst \in Nat
      /\ cgst + sgst + igst = whole
      /\ cgst <= sgst + 1 /\ sgst <= cgst + 1
      /\ igst > 0 => cgst = 0 /\ sgst = 0 /\ inter
  <2>1. CASE inter
    <3>1. cgst = 0 /\ sgst = 0 /\ igst = whole /\ whole \in Nat
      BY <2>1, HalvesDifferByOne
    <3> QED
      BY <2>1, <3>1
  <2>2. CASE ~inter /\ charged
    <3>1. /\ cgst = PctHalved(taxable, rate) /\ igst = 0
          /\ whole = PctOfPaise(taxable, rate) /\ sgst = whole - cgst
      BY <2>2
    <3>2. /\ PctOfPaise(taxable, rate) \in Nat /\ PctHalved(taxable, rate) \in Nat
          /\ 2 * PctHalved(taxable, rate) <= PctOfPaise(taxable, rate) + 1
          /\ PctOfPaise(taxable, rate) <= 2 * PctHalved(taxable, rate) + 1
          /\ PctHalved(taxable, rate) <= PctOfPaise(taxable, rate)
      BY HalvesDifferByOne
    <3> HIDE DEF cgst, sgst, igst, whole
    <3> QED
      BY <3>1, <3>2
  <2>3. CASE ~inter /\ ~charged
    <3>1. cgst = 0 /\ sgst = 0 /\ igst = 0 /\ whole = 0
      BY <2>3
    <3> QED
      BY <3>1
  <2> QED
    BY <2>1, <2>2, <2>3
<1> HIDE DEF cgst, sgst, igst, whole
<1> QED
  BY <1>1, <1>2, <1>3

\* A supply of the type intra is not between states, whatever the states are.
LEMMA IntraStaysIntra ==
    ASSUME NEW state, NEW place, NEW supply
    PROVE  /\ IsInterState(state, place, supply) \in BOOLEAN
           /\ supply = "intra" => ~IsInterState(state, place, supply)
  BY DEF IsInterState

\* The type a line is stored with says whether it was taxed between states, and is
\* taxed at all when the type it came with is.
LEMMA StoredSupply ==
    ASSUME NEW supply, NEW inter \in BOOLEAN
    PROVE  /\ SupplyStored(supply, inter) = "intra" => ~inter
           /\ SupplyStored(supply, inter) \in ZeroTaxSupply <=> supply \in ZeroTaxSupply
  BY DEF SupplyStored, ZeroTaxSupply
-----------------------------------------------------------------------------
(***************************************************************************)
(* The lines' invariant: every line that is there has the columns of a     *)
(* line, with amounts and a rate that are numbers, and carries its tax.    *)
(***************************************************************************)
Given == {"place", "taxable", "rate", "itc", "supply"}
Worked == {"cgst", "sgst", "igst", "cess", "total"}

RowOK(row) ==
    /\ DOMAIN row = Given \cup Worked
    /\ row.taxable \in Nat /\ row.rate \in Nat /\ row.itc \in BOOLEAN
    /\ CarriesItsTax(row)

RowsOK ==
    /\ gst = [i \in Invoices |-> gst[i]]
    /\ \A i \in Invoices : gst[i] # Nothing => RowOK(gst[i])

\* A row to which what computeGstLine returns is written is a good row, when it is
\* computed from the row's own value and rate, and between states only if the row does
\* not say otherwise.
LEMMA WrittenRow ==
    ASSUME NEW row, DOMAIN row \cup Worked = Given \cup Worked, Given \subseteq DOMAIN row,
           row.taxable \in Nat, row.rate \in Nat, row.itc \in BOOLEAN,
           NEW cessPct, NEW inter \in BOOLEAN, NEW supply,
           row.supply = "intra" => ~inter,
           row.supply \in ZeroTaxSupply <=> supply \in ZeroTaxSupply
    PROVE  RowOK(Update(row, ComputeGstLine(row.taxable, row.rate, cessPct, inter, supply)))
<1> DEFINE line == ComputeGstLine(row.taxable, row.rate, cessPct, inter, supply)
           new == Update(row, line)
<1>1. /\ DOMAIN line = Worked
      /\ line.cgst \in Nat /\ line.sgst \in Nat /\ line.igst \in Nat
      /\ line.cgst + line.sgst + line.igst =
            IF supply \in ZeroTaxSupply THEN 0 ELSE PctOfPaise(row.taxable, row.rate)
      /\ line.cgst <= line.sgst + 1 /\ line.sgst <= line.cgst + 1
      /\ line.igst > 0 => line.cgst = 0 /\ line.sgst = 0 /\ inter
  BY ComputedLine DEF Worked
<1> HIDE DEF line
<1>2. /\ DOMAIN new = Given \cup Worked
      /\ new.cgst = line.cgst /\ new.sgst = line.sgst /\ new.igst = line.igst
      /\ new.taxable = row.taxable /\ new.rate = row.rate /\ new.supply = row.supply
      /\ new.itc = row.itc
  <2>1. /\ DOMAIN new = DOMAIN row \cup DOMAIN line
        /\ \A x \in DOMAIN line : new[x] = line[x]
        /\ \A x \in DOMAIN row \ DOMAIN line : new[x] = row[x]
    BY UpdatedRow
  <2> HIDE DEF new
  <2>2. DOMAIN new = Given \cup Worked
    BY <1>1, <2>1
  <2>3. new.cgst = line.cgst /\ new.sgst = line.sgst /\ new.igst = line.igst
    BY <1>1, <2>1 DEF Worked
  <2>4. /\ {"taxable", "rate", "supply", "itc"} \subseteq DOMAIN row
        /\ {"taxable", "rate", "supply", "itc"} \cap DOMAIN line = {}
    BY <1>1 DEF Given, Worked
  <2>5. /\ new.taxable = row.taxable /\ new.rate = row.rate /\ new.supply = row.supply
        /\ new.itc = row.itc
    BY <2>1, <2>4
  <2> QED
    BY <2>2, <2>3, <2>5
<1> HIDE DEF new
<1>3. CarriesItsTax(new)
  BY <1>1, <1>2 DEF CarriesItsTax
<1> QED
  BY <1>2, <1>3 DEF RowOK, new, line

\* What a run makes of a good row is a good row.
LEMMA RecomputedRow ==
    ASSUME NEW row, RowOK(row)
    PROVE  RowOK(RecomputedGst(row))
<1> DEFINE inter == IsInterState(home, row.place, row.supply)
           line == ComputeGstLine(row.taxable, row.rate, 0, inter, row.supply)
           patch == [cgst |-> line.cgst, sgst |-> line.sgst, igst |-> line.igst,
                     total |-> line.total, supply |-> SupplyStored(row.supply, inter)]
           new == Update(row, patch)
<1>1. RecomputedGst(row) = new
  BY DEF RecomputedGst
<1>2. inter \in BOOLEAN
  BY IntraStaysIntra
<1>3. /\ line.cgst \in Nat /\ line.sgst \in Nat /\ line.igst \in Nat
      /\ line.cgst + line.sgst + line.igst =
            IF row.supply \in ZeroTaxSupply THEN 0 ELSE PctOfPaise(row.taxable, row.rate)
      /\ line.cgst <= line.sgst + 1 /\ line.sgst <= line.cgst + 1
      /\ line.igst > 0 => line.cgst = 0 /\ line.sgst = 0 /\ inter
  BY <1>2, ComputedLine DEF RowOK
<1>4. /\ patch.supply = "intra" => ~inter
      /\ patch.supply \in ZeroTaxSupply <=> row.supply \in ZeroTaxSupply
  BY <1>2, StoredSupply
<1>5. /\ DOMAIN new = Given \cup Worked
      /\ new.cgst = line.cgst /\ new.sgst = line.sgst /\ new.igst = line.igst
      /\ new.supply = patch.supply
      /\ new.taxable = row.taxable /\ new.rate = row.rate
      /\ new.place = row.place /\ new.itc = row.itc
  <2>1. /\ DOMAIN patch = {"cgst", "sgst", "igst", "total", "supply"}
        /\ patch.cgst = line.cgst /\ patch.sgst = line.sgst /\ patch.igst = line.igst
    OBVIOUS
  <2> HIDE DEF line, patch
  <2>2. /\ DOMAIN new = DOMAIN row \cup DOMAIN patch
        /\ \A x \in DOMAIN patch : new[x] = patch[x]
        /\ \A x \in DOMAIN row \ DOMAIN patch : new[x] = row[x]
    BY UpdatedRow
  <2> HIDE DEF new
  <2>3. DOMAIN new = Given \cup Worked
    BY <2>1, <2>2 DEF RowOK, Given, Worked
  <2>4. /\ new.cgst = line.cgst /\ new.sgst = line.sgst /\ new.igst = line.igst
        /\ new.supply = patch.supply
    BY <2>1, <2>2
  <2>5. {"taxable", "rate", "place", "itc"} \subseteq DOMAIN row \ DOMAIN patch
    BY <2>1 DEF RowOK, Given, Worked
  <2>6. /\ new.taxable = row.taxable /\ new.rate = row.rate
        /\ new.place = row.place /\ new.itc = row.itc
    BY <2>2, <2>5
  <2> QED
    BY <2>3, <2>4, <2>6
<1> HIDE DEF new, line, patch, inter
<1>6. CarriesItsTax(new)
  BY <1>3, <1>4, <1>5 DEF CarriesItsTax
<1> QED
  BY <1>1, <1>5, <1>6 DEF RowOK

-----------------------------------------------------------------------------
(***************************************************************************)
(* The steps that write GST lines                                          *)
(***************************************************************************)

\* Writing one line well keeps the others well.
LEMMA OneRowWritten ==
    ASSUME RowsOK, NEW i \in Invoices, NEW row, gst' = [gst EXCEPT ![i] = row],
           row # Nothing => RowOK(row)
    PROVE  RowsOK'
  BY DEF RowsOK

\* POST of a line works it out from what the form says and stores the type it found.
LEMMA PostGstStep ==
    ASSUME RowsOK, TaxConstants, NEW r \in Requests, NEW i \in Invoices, PostGst(r, i)
    PROVE  RowsOK'
<1> DEFINE inter == IsInterState(home, i.place, i.supply)
           asked == [place |-> i.place, taxable |-> i.taxable, rate |-> i.rate, itc |-> i.itc,
                     supply |-> SupplyStored(i.supply, inter)]
           row == Update(asked, ComputeGstLine(asked.taxable, asked.rate, i.cessPct, inter, i.supply))
<1>1. gst' = [gst EXCEPT ![i] = row]
  BY DEF PostGst
<1>2. inter \in BOOLEAN
  BY IntraStaysIntra
<1>3. /\ DOMAIN asked = Given
      /\ asked.taxable \in Nat /\ asked.rate \in Nat /\ asked.itc \in BOOLEAN
      /\ asked.supply = SupplyStored(i.supply, inter)
  BY DEF TaxConstants, Given
<1>4. /\ asked.supply = "intra" => ~inter
      /\ asked.supply \in ZeroTaxSupply <=> i.supply \in ZeroTaxSupply
  BY <1>2, <1>3, StoredSupply
<1> HIDE DEF asked, inter
<1>5. RowOK(row)
  BY <1>2, <1>3, <1>4, WrittenRow
<1> HIDE DEF row
<1> QED
  BY <1>1, <1>5, OneRowWritten

\* PATCH works the line out anew from what it holds with the correction made, and the
\* correction has no supply type.
LEMMA PatchGstStep ==
    ASSUME RowsOK, TaxConstants, NEW r \in Requests, NEW i \in Invoices,
           NEW fix \in Corrections, PatchGst(r, i, fix)
    PROVE  RowsOK'
<1> DEFINE named == [f \in DOMAIN fix \ {"cessPct"} |-> fix[f]]
           asked == Update(gst[i], named)
           cessPct == IF "cessPct" \in DOMAIN fix THEN fix.cessPct ELSE 0
           inter == IsInterState(home, asked.place, asked.supply)
           row == Update(asked, ComputeGstLine(asked.taxable, asked.rate, cessPct, inter, asked.supply))
<1>1. gst[i] # Nothing /\ gst' = [gst EXCEPT ![i] = row]
  BY DEF PatchGst
<1>2. RowOK(gst[i])
  BY <1>1 DEF RowsOK
<1>3. inter \in BOOLEAN /\ (asked.supply = "intra" => ~inter)
  BY IntraStaysIntra
<1>4. /\ DOMAIN named \subseteq {"taxable", "rate", "place", "itc"}
      /\ "taxable" \in DOMAIN named => named.taxable \in Nat
      /\ "rate" \in DOMAIN named => named.rate \in Nat
      /\ "itc" \in DOMAIN named => named.itc \in BOOLEAN
  BY DEF TaxConstants
<1>5. /\ DOMAIN asked = DOMAIN gst[i] \cup DOMAIN named
      /\ \A x \in DOMAIN named : asked[x] = named[x]
      /\ \A x \in DOMAIN gst[i] \ DOMAIN named : asked[x] = gst[i][x]
  BY UpdatedRow
<1> HIDE DEF named, asked
<1>6. DOMAIN asked = Given \cup Worked
  BY <1>2, <1>4, <1>5 DEF RowOK, Given
<1>7. /\ {"taxable", "rate", "itc"} \subseteq DOMAIN gst[i]
      /\ gst[i].taxable \in Nat /\ gst[i].rate \in Nat /\ gst[i].itc \in BOOLEAN
  BY <1>2 DEF RowOK, Given
<1>8. asked.taxable \in Nat /\ asked.rate \in Nat /\ asked.itc \in BOOLEAN
  BY <1>4, <1>5, <1>7
<1> HIDE DEF inter, cessPct
<1>9. RowOK(row)
  BY <1>3, <1>6, <1>8, WrittenRow
<1> HIDE DEF row
<1> QED
  BY <1>1, <1>9, OneRowWritten

\* A run writes the lines that count anew and leaves the others.
LEMMA RunGstStep ==
    ASSUME RowsOK, NEW r \in Requests, RunGst(r)
    PROVE  RowsOK'
<1>1. gst' = [i \in Invoices |-> IF i \in GstLines THEN RecomputedGst(gst[i]) ELSE gst[i]]
  BY DEF RunGst, GstRun
<1>2. ASSUME NEW i \in Invoices, gst'[i] # Nothing
      PROVE  RowOK(gst'[i])
  <2>1. CASE i \in GstLines
    <3>1. gst[i] # Nothing /\ gst'[i] = RecomputedGst(gst[i])
      BY <1>1, <2>1 DEF GstLines
    <3> QED
      BY <3>1, RecomputedRow DEF RowsOK
  <2>2. CASE i \notin GstLines
    BY <1>1, <1>2, <2>2 DEF RowsOK
  <2> QED
    BY <2>1, <2>2
<1> QED
  BY <1>1, <1>2 DEF RowsOK

\* Whatever is entered, corrected, taken out and computed, in whatever order and in
\* whatever state the company is: each GST line carries the whole tax of its value and
\* rate, in IGST or in halves within a paisa of each other.
THEOREM GstLinesCarryTheirTax == TaxSpec => []LinesCarryTheirTax
<1>1. TaxInit => RowsOK
  BY DEF TaxInit, RowsOK
<1>2. RowsOK /\ [TaxNext]_taxVars => RowsOK'
  <2> SUFFICES ASSUME RowsOK, [TaxNext]_taxVars
               PROVE  RowsOK'
    OBVIOUS
  <2> USE TaxConstants
  <2>1. ASSUME NEW r \in Requests, RunGst(r) PROVE RowsOK'
    BY <2>1, RunGstStep
  <2>2. ASSUME NEW r \in Requests, NEW i \in Invoices, PostGst(r, i) PROVE RowsOK'
    BY <2>2, PostGstStep
  <2>3. ASSUME NEW r \in Requests, NEW i \in Invoices, DeleteGst(r, i) PROVE RowsOK'
    <3>1. gst' = [gst EXCEPT ![i] = Nothing]
      BY <2>3 DEF DeleteGst
    <3> QED
      BY <3>1, OneRowWritten
  <2>4. ASSUME NEW r \in Requests, NEW i \in Invoices, NEW fix \in Corrections, PatchGst(r, i, fix)
        PROVE  RowsOK'
    BY <2>4, PatchGstStep
  <2>5. CASE gst' = gst
    BY <2>5 DEF RowsOK
  <2>6. CASE UNCHANGED taxVars
    BY <2>5, <2>6 DEF taxVars, tax
  <2> QED
    BY <2>1, <2>2, <2>3, <2>4, <2>5, <2>6
       DEF TaxNext, RunTds, Finalise, PostTds, PostRule, PatchRule, MoveCompany, MarkDocument
<1>3. RowsOK => LinesCarryTheirTax
  BY DEF RowsOK, RowOK, LinesCarryTheirTax
<1> QED
  BY <1>1, <1>2, <1>3, PTL DEF TaxSpec

\* The columns a run writes for a line of this value, rate and kind.
Rewritten(state, place, taxable, rate, supply) ==
    LET inter == IsInterState(state, place, supply)
        line == ComputeGstLine(taxable, rate, 0, inter, supply)
    IN  [cgst |-> line.cgst, sgst |-> line.sgst, igst |-> line.igst,
         total |-> line.total, supply |-> SupplyStored(supply, inter)]

\* The type a line is stored with is settled: a run finds it again.
LEMMA SettledSupply ==
    ASSUME NEW state, NEW place, NEW supply
    PROVE  SupplyStored(supply, IsInterState(state, place, supply)) = supply
  BY DEF SupplyStored, IsInterState

\* Writing the same columns twice is writing them once.
LEMMA UpdatedTwice ==
    ASSUME NEW row, NEW patch
    PROVE  Update(Update(row, patch), patch) = Update(row, patch)
<1> DEFINE new == Update(row, patch)
<1>1. /\ new = [x \in DOMAIN new |-> new[x]]
      /\ DOMAIN new = DOMAIN row \cup DOMAIN patch
      /\ \A x \in DOMAIN patch : new[x] = patch[x]
  BY DEF Update
<1> HIDE DEF new
<1>2. Update(new, patch) = [x \in DOMAIN new |-> new[x]]
  BY <1>1 DEF Update
<1> QED
  BY <1>1, <1>2 DEF new

\* What a run makes of a line, a second run finds as it is: the state, the place and
\* the type that say where its tax goes are not changed by it, nor its value and rate.
LEMMA RecomputedSettles ==
    ASSUME NEW row, RowOK(row)
    PROVE  RecomputedGst(RecomputedGst(row)) = RecomputedGst(row)
<1> DEFINE patch == Rewritten(home, row.place, row.taxable, row.rate, row.supply)
           new == Update(row, patch)
<1>1. RecomputedGst(row) = new
  BY DEF RecomputedGst, Rewritten
<1>2. /\ DOMAIN patch = {"cgst", "sgst", "igst", "total", "supply"}
      /\ patch.supply = row.supply
  BY SettledSupply DEF Rewritten
<1>3. /\ new.place = row.place /\ new.taxable = row.taxable /\ new.rate = row.rate
      /\ new.supply = row.supply
  <2> HIDE DEF patch
  <2>1. /\ \A x \in DOMAIN patch : new[x] = patch[x]
        /\ \A x \in DOMAIN row \ DOMAIN patch : new[x] = row[x]
    BY UpdatedRow
  <2> HIDE DEF new
  <2>2. {"place", "taxable", "rate"} \subseteq DOMAIN row \ DOMAIN patch
    BY <1>2 DEF RowOK, Given, Worked
  <2> QED
    BY <1>2, <2>1, <2>2
<1>4. RecomputedGst(new) =
        Update(new, Rewritten(home, new.place, new.taxable, new.rate, new.supply))
  BY DEF RecomputedGst, Rewritten
<1> HIDE DEF new
<1>5. RecomputedGst(new) = Update(new, patch)
  BY <1>3, <1>4
<1>6. Update(new, patch) = new
  BY UpdatedTwice DEF new
<1> QED
  BY <1>1, <1>5, <1>6

-----------------------------------------------------------------------------
(***************************************************************************)
(* Runs as functions of the tables                                         *)
(***************************************************************************)

\* The lines of a GST table that count, and what a run makes of the table.
GLines(v, g) == {i \in Invoices : g[i] # Nothing /\ (i.doc = None \/ i.doc \in v)}

GRow(h, row) == Update(row, Rewritten(h, row.place, row.taxable, row.rate, row.supply))

GRun(h, v, g) == [i \in Invoices |-> IF i \in GLines(v, g) THEN GRow(h, g[i]) ELSE g[i]]

\* The model's operators are these, before a step and after it.
LEMMA GstForms ==
    /\ GstLines = GLines(verified, gst) /\ GstRun = GRun(home, verified, gst)
    /\ GstLines' = GLines(verified', gst') /\ GstRun' = GRun(home', verified', gst')
  BY DEF GstLines, GstRun, CountsNow, GLines, GRun, GRow, RecomputedGst, Rewritten

\* The rule for a deduction in a rate book, and what a run makes of the deduction.
RuleIn(R, p) ==
    LET code == TdsCodeFor(p.section, p.payee)
        at == IF p.date = 0 THEN PeriodEnd[p.of] ELSE p.date
        InForce == {u \in R : u.code = code /\ u.verified /\ u.from <= at /\ at <= u.to}
        Own == {u \in InForce : u.own}
        Ranked == IF Own = {} THEN InForce ELSE Own
    IN  {u \in Ranked : \A v \in Ranked : v.from <= u.from}

EarlierIn(lines, p) == {q \in lines : Deductee(q) = Deductee(p) /\ Before(q, p)}
PaidEarlier(lines, p) == SumFunction([q \in EarlierIn(lines, p) |-> q.amount])

RateOf(R, t, p) ==
    IF RuleIn(R, p) = {} THEN t[p].rate ELSE (CHOOSE u \in RuleIn(R, p) : TRUE).rate
ThresholdOf(R, p) ==
    IF RuleIn(R, p) = {} THEN 0 ELSE (CHOOSE u \in RuleIn(R, p) : TRUE).threshold
Charge(R, t, p, lines) ==
    ComputeTdsLine(p.amount, RateOf(R, t, p), ThresholdOf(R, p), PaidEarlier(lines, p), p.pan # None)

TLines(v, t, c) ==
    {p \in Payouts : p.of = c /\ t[p] # Nothing /\ (p.doc = None \/ p.doc \in v)}

TRun(R, v, t, c) ==
    [p \in Payouts |-> IF p \in TLines(v, t, c) THEN Charge(R, t, p, TLines(v, t, c)) ELSE t[p]]

LEMMA RuleForms ==
    /\ \A p : RuleOfPayout(p) = RuleIn(rules, p)
    /\ \A p : RuleOfPayout(p)' = RuleIn(rules', p)
  BY DEF RuleOfPayout, ResolveRule, RuleIn

LEMMA ChargeForms ==
    /\ \A p, lines : RecomputedTds(p, lines) = Charge(rules, tds, p, lines)
    /\ \A p, lines : RecomputedTds(p, lines)' = Charge(rules', tds', p, lines)
  BY RuleForms DEF RecomputedTds, Charge, RateOf, ThresholdOf, PaidEarlier, EarlierIn

LEMMA TdsForms ==
    ASSUME NEW c
    PROVE  /\ TdsLines(c) = TLines(verified, tds, c)
           /\ TdsRun(c) = TRun(rules, verified, tds, c)
           /\ TdsLines(c)' = TLines(verified', tds', c)
           /\ TdsRun(c)' = TRun(rules', verified', tds', c)
<1>1. TdsLines(c) = TLines(verified, tds, c) /\ TdsLines(c)' = TLines(verified', tds', c)
  BY DEF TdsLines, CountsNow, TLines
<1>2. TdsRun(c) = TRun(rules, verified, tds, c)
  BY <1>1, ChargeForms DEF TdsRun, TRun
<1>3. TdsRun(c)' = TRun(rules', verified', tds', c)
  BY <1>1, ChargeForms DEF TdsRun, TRun
<1> QED BY <1>1, <1>2, <1>3

-----------------------------------------------------------------------------
(***************************************************************************)
(* Runs settle                                                             *)
(***************************************************************************)

\* A deduction as it is stored, a table of them, and a rate book.
DeductionOK(d) ==
    DOMAIN d = {"rate", "deducted"} /\ d.rate \in 0..100 /\ d.deducted \in Nat

TdsOK(t) ==
    /\ t = [p \in Payouts |-> t[p]]
    /\ \A p \in Payouts : t[p] # Nothing => DeductionOK(t[p])

RulesOK(R) == \A u \in R : IsRule(u)

\* What computeTdsLine returns is a deduction.
LEMMA ComputedDeduction ==
    ASSUME NEW amount \in Nat, NEW rate \in 0..100, NEW threshold, NEW prior,
           NEW hasPan \in BOOLEAN
    PROVE  DeductionOK(ComputeTdsLine(amount, rate, threshold, prior, hasPan))
<1> DEFINE line == ComputeTdsLine(amount, rate, threshold, prior, hasPan)
<1>1. /\ DOMAIN line = {"rate", "deducted"}
      /\ line.rate \in {rate, 20, 0} /\ line.deducted = PctOfPaise(amount, line.rate)
  BY DEF ComputeTdsLine
<1>2. line.rate \in 0..100
  BY <1>1
<1> HIDE DEF line
<1>3. \A n \in Nat : PctOfPaise(amount, n) \in Nat
  BY HalvesDifferByOne
<1> QED
  BY <1>1, <1>2, <1>3 DEF DeductionOK, line

\* What a run makes of a deduction is a deduction ...
LEMMA ChargeOK ==
    ASSUME TaxConstants, NEW R, RulesOK(R), NEW t, NEW p \in Payouts, DeductionOK(t[p]), NEW lines
    PROVE  DeductionOK(Charge(R, t, p, lines))
<1>1. RateOf(R, t, p) \in 0..100
  <2>1. CASE RuleIn(R, p) = {}
    BY <2>1 DEF RateOf, DeductionOK
  <2>2. CASE RuleIn(R, p) # {}
    <3>1. PICK u : u = CHOOSE v \in RuleIn(R, p) : TRUE
      OBVIOUS
    <3>2. u \in RuleIn(R, p)
      BY <2>2, <3>1
    <3>3. RuleIn(R, p) \subseteq R
      BY DEF RuleIn
    <3>4. RateOf(R, t, p) = u.rate
      BY <2>2, <3>1 DEF RateOf
    <3> QED BY <3>2, <3>3, <3>4 DEF RulesOK, IsRule
  <2> QED BY <2>1, <2>2
<1>2. p.amount \in Nat
  BY DEF TaxConstants
<1> QED
  BY <1>1, <1>2, ComputedDeduction DEF Charge

\* ... and, a run again makes the same of it: the rule does not look at the row, and
\* where there is none the stored rate stays, a deductee without PAN having been
\* brought to twenty per cent before.
LEMMA ChargeSettles ==
    ASSUME NEW R, NEW t, NEW p, DeductionOK(t[p]), NEW lines,
           NEW u, u[p] = Charge(R, t, p, lines)
    PROVE  Charge(R, u, p, lines) = u[p]
<1>1. CASE RuleIn(R, p) = {}
  <2>1. RateOf(R, t, p) = t[p].rate /\ RateOf(R, u, p) = u[p].rate /\ ThresholdOf(R, p) = 0
    BY <1>1 DEF RateOf, ThresholdOf
  <2>2. t[p].rate \in Nat
    BY DEF DeductionOK
  <2>3. u[p] = ComputeTdsLine(p.amount, t[p].rate, 0, PaidEarlier(lines, p), p.pan # None)
    BY <2>1 DEF Charge
  <2>4. Charge(R, u, p, lines) =
           ComputeTdsLine(p.amount, u[p].rate, 0, PaidEarlier(lines, p), p.pan # None)
    BY <2>1 DEF Charge
  <2> QED BY <2>2, <2>3, <2>4 DEF ComputeTdsLine
<1>2. CASE RuleIn(R, p) # {}
  <2>1. RateOf(R, t, p) = RateOf(R, u, p)
    BY <1>2 DEF RateOf
  <2> QED BY <2>1 DEF Charge
<1> QED BY <1>1, <1>2

\* No row is a deduction.
LEMMA DeductionIsThere == ASSUME NEW d, DeductionOK(d) PROVE d # Nothing
<1>1. "at" \in DOMAIN Nothing
  BY DEF Nothing
<1> QED BY <1>1 DEF DeductionOK

\* Nor is a line.
LEMMA LineIsThere == ASSUME NEW row, RowOK(row) PROVE row # Nothing
<1>1. "at" \in DOMAIN Nothing
  BY DEF Nothing
<1> QED BY <1>1 DEF RowOK, Given, Worked

\* A second run of the deductions finds the lines of the first and leaves them.
LEMMA TRunSettles ==
    ASSUME TaxConstants, NEW R, RulesOK(R), NEW v, NEW t, TdsOK(t), NEW c,
           NEW u, u = TRun(R, v, t, c)
    PROVE  TdsOK(u) /\ TLines(v, u, c) = TLines(v, t, c) /\ TRun(R, v, u, c) = u
<1>1. \A p \in Payouts : u[p] = IF p \in TLines(v, t, c) THEN Charge(R, t, p, TLines(v, t, c)) ELSE t[p]
  BY DEF TRun
<1>2. ASSUME NEW p \in TLines(v, t, c) PROVE p \in Payouts /\ DeductionOK(t[p]) /\ DeductionOK(u[p])
  <2>1. p \in Payouts /\ DeductionOK(t[p])
    BY DEF TLines, TdsOK
  <2> QED BY <1>1, <2>1, ChargeOK
<1>3. TdsOK(u)
  <2>1. u = [p \in Payouts |-> u[p]]
    BY DEF TRun
  <2>2. ASSUME NEW p \in Payouts, u[p] # Nothing PROVE DeductionOK(u[p])
    BY <1>1, <1>2, <2>2 DEF TdsOK
  <2> QED BY <2>1, <2>2 DEF TdsOK
<1>4. \A p \in Payouts : u[p] # Nothing <=> t[p] # Nothing
  BY <1>1, <1>2, DeductionIsThere
<1>5. TLines(v, u, c) = TLines(v, t, c)
  BY <1>4 DEF TLines
<1>6. \A p \in TLines(v, t, c) : Charge(R, u, p, TLines(v, t, c)) = u[p]
  BY <1>1, <1>2, ChargeSettles
<1>7. TRun(R, v, u, c) = [p \in Payouts |-> u[p]]
  BY <1>5, <1>6 DEF TRun
<1> QED
  BY <1>3, <1>5, <1>7 DEF TdsOK

\* What a run of one computation makes of the deductions, and their summary, does not
\* look at those of another.
LEMMA TRunLocal ==
    ASSUME NEW R, NEW v, NEW c, NEW t, NEW u, u = [p \in Payouts |-> u[p]],
           \A p \in Payouts : p.of = c => u[p] = t[p], TRun(R, v, t, c) = t
    PROVE  /\ TLines(v, u, c) = TLines(v, t, c) /\ TRun(R, v, u, c) = u
           /\ SummariseTds(TLines(v, u, c), u) = SummariseTds(TLines(v, t, c), t)
<1>1. TLines(v, u, c) = TLines(v, t, c)
  BY DEF TLines
<1>2. \A p \in TLines(v, t, c) : p \in Payouts /\ u[p] = t[p]
  BY DEF TLines
<1>3. \A p \in TLines(v, t, c) : Charge(R, t, p, TLines(v, t, c)) = t[p]
  BY <1>2 DEF TRun
<1>4. ASSUME NEW p \in TLines(v, t, c)
      PROVE  Charge(R, u, p, TLines(v, t, c)) = u[p]
  <2>1. RateOf(R, u, p) = RateOf(R, t, p)
    BY <1>2 DEF RateOf
  <2> QED BY <1>2, <1>3, <2>1 DEF Charge
<1>5. TRun(R, v, u, c) = u
  BY <1>1, <1>4 DEF TRun
<1>6. [p \in TLines(v, t, c) |-> u[p].deducted] = [p \in TLines(v, t, c) |-> t[p].deducted]
  BY <1>2
<1> QED
  BY <1>1, <1>5, <1>6 DEF SummariseTds

\* A second run of the lines finds them as the first left them.
LEMMA GRunSettles ==
    ASSUME NEW v, NEW g, g = [i \in Invoices |-> g[i]],
           \A i \in Invoices : g[i] # Nothing => RowOK(g[i]),
           NEW k, k = GRun(home, v, g)
    PROVE  GLines(v, k) = GLines(v, g) /\ GRun(home, v, k) = k
<1>1. \A i \in Invoices : k[i] = IF i \in GLines(v, g) THEN GRow(home, g[i]) ELSE g[i]
  BY DEF GRun
<1>2. \A row : GRow(home, row) = RecomputedGst(row)
  BY DEF GRow, Rewritten, RecomputedGst
<1>3. ASSUME NEW i \in GLines(v, g)
      PROVE  i \in Invoices /\ g[i] # Nothing /\ k[i] # Nothing /\ GRow(home, k[i]) = k[i]
  <2>1. i \in Invoices /\ g[i] # Nothing /\ RowOK(g[i])
    BY DEF GLines
  <2>2. k[i] = RecomputedGst(g[i])
    BY <1>1, <1>2, <2>1
  <2>3. RowOK(k[i]) /\ RecomputedGst(k[i]) = k[i]
    BY <2>1, <2>2, RecomputedRow, RecomputedSettles
  <2> QED BY <1>2, <2>1, <2>3, LineIsThere
<1>4. \A i \in Invoices : k[i] # Nothing <=> g[i] # Nothing
  BY <1>1, <1>3
<1>5. GLines(v, k) = GLines(v, g)
  BY <1>4 DEF GLines
<1>6. GRun(home, v, k) = [i \in Invoices |-> k[i]]
  BY <1>3, <1>5 DEF GRun
<1>7. k = [i \in Invoices |-> k[i]]
  BY DEF GRun
<1> QED
  BY <1>5, <1>6, <1>7

-----------------------------------------------------------------------------
(***************************************************************************)
(* The tax engine's invariant: the tables hold rows, and a computation that*)
(* is up to date says what a run would write.                              *)
(***************************************************************************)
TablesOK ==
    /\ home \in StateCodes /\ verified \subseteq Documents
    /\ RulesOK(rules) /\ RowsOK /\ TdsOK(tds)
    /\ computation = [c \in Returns |-> computation[c]]
    /\ \A c \in Returns :
         /\ computation[c] = [status |-> computation[c].status, figures |-> computation[c].figures]
         /\ computation[c].status \in {"absent", "computed", "stale", "final"}
    /\ outdated \in [Returns -> BOOLEAN]

RunSettled(c) ==
    IF c = "gst"
    THEN GstRun = gst /\ computation[c].figures = SummariseGst(GstLines, gst)
    ELSE TdsRun(c) = tds /\ computation[c].figures = SummariseTds(TdsLines(c), tds)

UpToDate(c) == computation[c].status = "computed" /\ ~outdated[c]

TaxInv == TablesOK /\ \A c \in Returns : UpToDate(c) => RunSettled(c)

\* Nothing is computed at first.
LEMMA TaxStarts == ASSUME TaxConstants, TaxInit PROVE TaxInv
<1>1. TablesOK
  BY DEF TaxConstants, TaxInit, TablesOK, RulesOK, RowsOK, TdsOK
<1>2. \A c \in Returns : ~UpToDate(c)
  BY DEF TaxInit, UpToDate
<1> QED
  BY <1>1, <1>2 DEF TaxInv

\* What RunSettled looks at: the lines of its own return.
LEMMA GstStaysSettled ==
    ASSUME RunSettled("gst"), UNCHANGED <<home, verified, gst>>,
           computation'["gst"].figures = computation["gst"].figures
    PROVE  RunSettled("gst")'
  BY GstForms DEF RunSettled

LEMMA TdsStaysSettled ==
    ASSUME NEW c, c # "gst", RunSettled(c), UNCHANGED <<rules, verified>>,
           tds' = [p \in Payouts |-> tds'[p]],
           \A p \in Payouts : p.of = c => tds'[p] = tds[p],
           computation'[c].figures = computation[c].figures
    PROVE  RunSettled(c)'
<1>1. /\ TRun(rules, verified, tds, c) = tds
      /\ computation[c].figures = SummariseTds(TLines(verified, tds, c), tds)
  BY TdsForms DEF RunSettled
<1>2. /\ TRun(rules, verified, tds', c) = tds'
      /\ SummariseTds(TLines(verified, tds', c), tds') = SummariseTds(TLines(verified, tds, c), tds)
  BY <1>1, TRunLocal
<1>3. TdsRun(c)' = tds' /\ TdsLines(c)' = TLines(verified, tds', c)
  BY <1>2, TdsForms
<1> QED
  BY <1>1, <1>2, <1>3 DEF RunSettled

\* A run of the GST computation leaves what a second one would.
LEMMA RunGstSettles ==
    ASSUME TaxConstants, TaxInv, NEW r \in Requests, RunGst(r)
    PROVE  TaxInv'
<1>1. /\ gst' = GRun(home, verified, gst) /\ UNCHANGED <<home, verified, rules, tds>>
      /\ computation' = [computation EXCEPT !["gst"] =
              [status |-> "computed", figures |-> SummariseGst(GLines(verified, gst), gst')]]
      /\ outdated' = [outdated EXCEPT !["gst"] = FALSE]
  BY GstForms DEF RunGst, Written
<1>2. "gst" \in Returns
  BY DEF Returns
<1>3. RowsOK'
  BY RunGstStep DEF TaxInv, TablesOK
<1>4. TablesOK'
  BY <1>1, <1>2, <1>3 DEF TaxInv, TablesOK, RulesOK, TdsOK
<1>5. RunSettled("gst")'
  <2>1. GLines(verified, gst') = GLines(verified, gst) /\ GRun(home, verified, gst') = gst'
    BY <1>1, GRunSettles DEF TaxInv, TablesOK, RowsOK
  <2>2. computation'["gst"].figures = SummariseGst(GLines(verified, gst), gst')
    BY <1>1, <1>2 DEF TaxInv, TablesOK
  <2>3. GstRun' = gst' /\ GstLines' = GLines(verified, gst)
    BY <1>1, <2>1, GstForms
  <2> QED BY <2>2, <2>3 DEF RunSettled
<1>6. ASSUME NEW c \in Returns \ {"gst"}, UpToDate(c)' PROVE RunSettled(c)'
  <2>1. /\ computation'[c] = computation[c] /\ outdated'[c] = outdated[c]
    BY <1>1, <1>6 DEF TaxInv, TablesOK
  <2>2. RunSettled(c)
    BY <1>6, <2>1 DEF TaxInv, UpToDate
  <2>3. tds' = [p \in Payouts |-> tds'[p]]
    BY <1>4 DEF TablesOK, TdsOK
  <2> QED BY <1>1, <2>1, <2>2, <2>3, TdsStaysSettled
<1> QED
  BY <1>4, <1>5, <1>6 DEF TaxInv

\* So does a run of the deductions of a period, which leaves the other periods alone.
LEMMA RunTdsSettles ==
    ASSUME TaxConstants, TaxInv, NEW r \in Requests, NEW c \in DOMAIN PeriodEnd, RunTds(r, c)
    PROVE  TaxInv'
<1>1. /\ tds' = TRun(rules, verified, tds, c) /\ UNCHANGED <<home, verified, rules, gst>>
      /\ computation' = [computation EXCEPT ![c] =
              [status |-> "computed", figures |-> SummariseTds(TLines(verified, tds, c), tds')]]
      /\ outdated' = [outdated EXCEPT ![c] = FALSE]
  BY TdsForms DEF RunTds, Written
<1>2. c \in Returns /\ c # "gst"
  BY DEF Returns, TaxConstants
<1>3. /\ TdsOK(tds') /\ TLines(verified, tds', c) = TLines(verified, tds, c)
      /\ TRun(rules, verified, tds', c) = tds'
  BY <1>1, TRunSettles DEF TaxInv, TablesOK
<1>4. TablesOK'
  BY <1>1, <1>2, <1>3 DEF TaxInv, TablesOK, RulesOK, RowsOK
<1>5. RunSettled(c)'
  <2>1. computation'[c].figures = SummariseTds(TLines(verified, tds, c), tds')
    BY <1>1, <1>2 DEF TaxInv, TablesOK
  <2>2. TdsRun(c)' = tds' /\ TdsLines(c)' = TLines(verified, tds, c)
    BY <1>1, <1>3, TdsForms
  <2> QED BY <1>2, <2>1, <2>2 DEF RunSettled
<1>6. ASSUME NEW d \in Returns \ {c}, UpToDate(d)' PROVE RunSettled(d)'
  <2>1. computation'[d] = computation[d] /\ outdated'[d] = outdated[d]
    BY <1>1, <1>6 DEF TaxInv, TablesOK
  <2>2. RunSettled(d)
    BY <1>6, <2>1 DEF TaxInv, UpToDate
  <2>3. CASE d = "gst"
    BY <1>1, <2>1, <2>2, <2>3, GstStaysSettled
  <2>4. CASE d # "gst"
    <3>1. \A p \in Payouts : p.of = d => tds'[p] = tds[p]
      BY <1>1 DEF TRun, TLines
    <3>2. tds' = [p \in Payouts |-> tds'[p]]
      BY <1>3 DEF TdsOK
    <3> QED BY <1>1, <2>1, <2>2, <2>4, <3>1, <3>2, TdsStaysSettled
  <2> QED BY <2>3, <2>4
<1> QED
  BY <1>4, <1>5, <1>6 DEF TaxInv

\* Finalisation, and every edit of a line, take the figures out of what is up to date.
LEMMA NotComputed ==
    ASSUME TaxConstants, TaxInv, NEW c, NEW s \in {"stale", "final"},
           computation' = [computation EXCEPT ![c].status = s],
           UNCHANGED <<home, verified, rules, outdated>>,
           RowsOK', TdsOK(tds'),
           gst' = gst \/ c = "gst",
           c # "gst" => \A p \in Payouts : p.of # c => tds'[p] = tds[p],
           c = "gst" => tds' = tds
    PROVE  TaxInv'
<1>1. /\ DOMAIN computation' = Returns
      /\ \A d \in Returns : d # c => computation'[d] = computation[d]
      /\ c \in Returns => computation'[c] = [computation[c] EXCEPT !.status = s]
  BY DEF TaxInv, TablesOK
<1>2. c \in Returns => computation'[c].status = s
                       /\ computation'[c] = [status |-> s, figures |-> computation[c].figures]
  BY <1>1 DEF TaxInv, TablesOK
<1>3. TablesOK'
  <2>1. computation' = [d \in Returns |-> computation'[d]]
    BY DEF TaxInv, TablesOK
  <2>2. \A d \in Returns :
          /\ computation'[d] = [status |-> computation'[d].status, figures |-> computation'[d].figures]
          /\ computation'[d].status \in {"absent", "computed", "stale", "final"}
    BY <1>1, <1>2 DEF TaxInv, TablesOK
  <2> QED BY <2>1, <2>2 DEF TaxInv, TablesOK, RulesOK
<1>4. ASSUME NEW d \in Returns, UpToDate(d)' PROVE RunSettled(d)'
  <2>1. d # c
    BY <1>2, <1>4 DEF UpToDate
  <2>2. computation'[d] = computation[d] /\ RunSettled(d)
    BY <1>1, <1>4, <2>1 DEF TaxInv, UpToDate
  <2>3. CASE d = "gst"
    BY <2>1, <2>2, <2>3, GstStaysSettled
  <2>4. CASE d # "gst"
    <3>1. \A p \in Payouts : p.of = d => tds'[p] = tds[p]
      BY <2>1
    <3>2. tds' = [p \in Payouts |-> tds'[p]]
      BY DEF TdsOK
    <3> QED BY <2>2, <2>4, <3>1, <3>2, TdsStaysSettled
  <2> QED BY <2>3, <2>4
<1> QED
  BY <1>3, <1>4 DEF TaxInv

\* A rule, a state or a document that changes leaves no computation up to date.
LEMMA NothingUpToDate ==
    ASSUME TaxInv, Outdate, RulesOK(rules'), home' \in StateCodes, verified' \subseteq Documents,
           UNCHANGED <<gst, tds, computation>>
    PROVE  TaxInv'
<1>1. TablesOK'
  BY DEF TaxInv, TablesOK, Outdate, RowsOK, TdsOK
<1>2. \A c \in Returns : ~UpToDate(c)'
  BY DEF Outdate, UpToDate
<1> QED
  BY <1>1, <1>2 DEF TaxInv

\* A change of a rule leaves a rule.
LEMMA PatchedRule ==
    ASSUME TaxConstants, NEW u, IsRule(u), NEW patch \in RulePatches
    PROVE  IsRule(Update(u, patch))
<1> DEFINE new == Update(u, patch)
<1>1. /\ DOMAIN new = DOMAIN u \cup DOMAIN patch
      /\ \A x \in DOMAIN patch : new[x] = patch[x]
      /\ \A x \in DOMAIN u \ DOMAIN patch : new[x] = u[x]
  BY UpdatedRow
<1> HIDE DEF new
<1>2. /\ "rate" \in DOMAIN patch => patch.rate \in 0..100
      /\ "threshold" \in DOMAIN patch => patch.threshold \in Nat
  BY DEF TaxConstants
<1>3. new.rate \in 0..100 /\ new.threshold \in Nat
  BY <1>1, <1>2 DEF IsRule
<1>4. {"rate", "threshold"} \subseteq DOMAIN new
  BY <1>1 DEF IsRule
<1> QED
  BY <1>3, <1>4 DEF IsRule, new

\* A deduction is entered at a rate of the book.
LEMMA PostTdsStep ==
    ASSUME TaxConstants, TaxInv, NEW r \in Requests, NEW p \in Payouts, PostTds(r, p)
    PROVE  TaxInv'
<1>1. /\ computation' = [computation EXCEPT ![p.of].status = "stale"]
      /\ UNCHANGED <<home, verified, rules, gst, outdated>>
  BY DEF PostTds, MakeStale
<1>2. PICK u \in rules : \E prior :
        tds' = [tds EXCEPT ![p] = ComputeTdsLine(p.amount, u.rate, u.threshold, prior, p.pan # None)]
  BY DEF PostTds, ResolveRule
<1>10. PICK prior :
        tds' = [tds EXCEPT ![p] = ComputeTdsLine(p.amount, u.rate, u.threshold, prior, p.pan # None)]
  BY <1>2
<1>3. IsRule(u)
  BY DEF TaxInv, TablesOK, RulesOK
<1> DEFINE line == ComputeTdsLine(p.amount, u.rate, u.threshold, prior, p.pan # None)
<1>4. DeductionOK(line)
  BY <1>3, ComputedDeduction DEF TaxConstants, IsRule
<1> HIDE DEF line
<1>5. tds' = [tds EXCEPT ![p] = line]
  BY <1>10 DEF line
<1>6. TdsOK(tds')
  BY <1>4, <1>5 DEF TaxInv, TablesOK, TdsOK
<1>7. \A q \in Payouts : q.of # p.of => tds'[q] = tds[q]
  BY <1>5 DEF TaxInv, TablesOK, TdsOK
<1>8. p.of # "gst"
  BY DEF TaxConstants
<1>9. RowsOK'
  BY <1>1 DEF TaxInv, TablesOK, RowsOK
<1> QED
  BY <1>1, <1>6, <1>7, <1>8, <1>9, NotComputed

\* Every step keeps the invariant.
LEMMA TaxStep ==
    ASSUME TaxConstants, TaxInv, [TaxNext]_taxVars
    PROVE  TaxInv'
<1>0. RowsOK /\ RulesOK(rules) /\ TdsOK(tds) /\ home \in StateCodes /\ verified \subseteq Documents
  BY DEF TaxInv, TablesOK
<1>1. ASSUME NEW r \in Requests, RunGst(r) PROVE TaxInv'
  BY <1>1, RunGstSettles
<1>2. ASSUME NEW r \in Requests, NEW c \in DOMAIN PeriodEnd, RunTds(r, c) PROVE TaxInv'
  BY <1>2, RunTdsSettles
<1>3. ASSUME NEW r \in Requests, NEW c \in Returns, Finalise(r, c) PROVE TaxInv'
  <2>1. /\ computation' = [computation EXCEPT ![c].status = "final"]
        /\ UNCHANGED <<home, verified, rules, gst, tds, outdated>>
    BY <1>3 DEF Finalise
  <2>2. RowsOK' /\ TdsOK(tds')
    BY <1>0, <2>1 DEF RowsOK
  <2> QED BY <2>1, <2>2, NotComputed
<1>4. ASSUME NEW r \in Requests, NEW i \in Invoices,
             PostGst(r, i) \/ DeleteGst(r, i) \/ \E fix \in Corrections : PatchGst(r, i, fix)
      PROVE  TaxInv'
  <2>1. /\ computation' = [computation EXCEPT !["gst"].status = "stale"]
        /\ UNCHANGED <<home, verified, rules, tds, outdated>>
    BY <1>4 DEF PostGst, DeleteGst, PatchGst, MakeStale
  <2>2. RowsOK'
    <3>1. CASE PostGst(r, i)
      BY <1>0, <3>1, PostGstStep
    <3>2. CASE DeleteGst(r, i)
      <4>1. gst' = [gst EXCEPT ![i] = Nothing]
        BY <3>2 DEF DeleteGst
      <4> QED BY <1>0, <4>1, OneRowWritten
    <3>3. CASE \E fix \in Corrections : PatchGst(r, i, fix)
      BY <1>0, <3>3, PatchGstStep
    <3> QED BY <1>4, <3>1, <3>2, <3>3
  <2>3. TdsOK(tds')
    BY <1>0, <2>1
  <2> QED BY <2>1, <2>2, <2>3, NotComputed
<1>5. ASSUME NEW r \in Requests, NEW p \in Payouts, PostTds(r, p) PROVE TaxInv'
  BY <1>5, PostTdsStep
<1>6. ASSUME NEW r \in Requests, NEW u \in OwnRules, PostRule(r, u) PROVE TaxInv'
  <2>1. /\ rules' = rules \cup {u} /\ Outdate
        /\ UNCHANGED <<home, verified, gst, tds, computation>>
    BY <1>6 DEF PostRule
  <2>2. RulesOK(rules')
    BY <1>0, <2>1 DEF RulesOK, TaxConstants
  <2> QED BY <1>0, <2>1, <2>2, NothingUpToDate
<1>7. ASSUME NEW r \in Requests, NEW u \in rules, NEW patch \in RulePatches, PatchRule(r, u, patch)
      PROVE  TaxInv'
  <2>1. /\ rules' = (rules \ {u}) \cup {Update(u, patch)} /\ Outdate
        /\ UNCHANGED <<home, verified, gst, tds, computation>>
    BY <1>7 DEF PatchRule
  <2>2. IsRule(Update(u, patch))
    BY <1>0, PatchedRule DEF RulesOK
  <2>3. RulesOK(rules')
    BY <1>0, <2>1, <2>2 DEF RulesOK
  <2> QED BY <1>0, <2>1, <2>3, NothingUpToDate
<1>8. ASSUME NEW r \in Requests, NEW state \in StateCodes, MoveCompany(r, state) PROVE TaxInv'
  <2>1. home' = state /\ Outdate /\ UNCHANGED <<verified, rules, gst, tds, computation>>
    BY <1>8 DEF MoveCompany
  <2> QED BY <1>0, <2>1, NothingUpToDate
<1>9. ASSUME NEW r \in Requests, NEW d \in Documents, MarkDocument(r, d) PROVE TaxInv'
  <2>1. /\ verified' \subseteq verified \cup {d} /\ Outdate
        /\ UNCHANGED <<home, rules, gst, tds, computation>>
    BY <1>9 DEF MarkDocument
  <2> QED BY <1>0, <2>1, NothingUpToDate
<1>10. CASE UNCHANGED taxVars
  <2>1. UNCHANGED <<home, verified, rules, gst, tds, computation, outdated>>
    BY <1>10 DEF taxVars, tax
  <2>2. TablesOK'
    BY <2>1 DEF TaxInv, TablesOK, RowsOK
  <2>3. ASSUME NEW c \in Returns, UpToDate(c)' PROVE RunSettled(c)'
    <3>1. RunSettled(c)
      BY <2>1, <2>3 DEF TaxInv, UpToDate
    <3>2. tds' = [p \in Payouts |-> tds'[p]]
      BY <1>0, <2>1 DEF TdsOK
    <3>3. c = "gst" => RunSettled(c)'
      BY <2>1, <3>1, GstStaysSettled
    <3>4. c # "gst" => RunSettled(c)'
      BY <2>1, <3>1, <3>2, TdsStaysSettled
    <3> QED BY <3>3, <3>4
  <2> QED BY <2>2, <2>3 DEF TaxInv
<1> QED
  BY <1>1, <1>2, <1>3, <1>4, <1>5, <1>6, <1>7, <1>8, <1>9, <1>10 DEF TaxNext

\* What was paid before a later payment holds what was paid before an earlier one, and
\* the earlier one itself.
LEMMA PaidEarlierGrows ==
    ASSUME TaxConstants, NEW lines \in SUBSET Payouts, NEW p \in lines, NEW q \in lines,
           Deductee(p) = Deductee(q), Before(p, q)
    PROVE  /\ PaidEarlier(lines, p) \in Int /\ PaidEarlier(lines, q) \in Int
           /\ PaidEarlier(lines, p) + p.amount <= PaidEarlier(lines, q)
<1> DEFINE w == [x \in Payouts |-> x.amount]
           A == EarlierIn(lines, q)
           B == EarlierIn(lines, p)
           a == [x \in A |-> x.amount]
           b == [x \in B |-> x.amount]
<1>1. IsFiniteSet(Payouts) /\ \A x \in Payouts : x.amount \in Nat /\ x.date \in Nat
  BY DEF TaxConstants
<1>2. A \in SUBSET Payouts /\ B \in SUBSET A /\ p \in A \ B
  <2>1. A \subseteq Payouts
    BY DEF EarlierIn
  <2>2. p \in A
    BY DEF EarlierIn
  <2>3. p \notin B
    BY <1>1 DEF EarlierIn, Before
  <2>4. ASSUME NEW x \in B PROVE x \in A
    <3>1. x \in lines /\ Deductee(x) = Deductee(p) /\ x.date < p.date
      BY DEF EarlierIn, Before
    <3>2. x.date < q.date
      BY <1>1, <3>1 DEF Before
    <3> QED BY <3>1, <3>2 DEF EarlierIn, Before
  <2> QED BY <2>1, <2>2, <2>3, <2>4
<1>3. /\ w \in [Payouts -> Int] /\ \A x \in Payouts : w[x] >= 0
      /\ w[p] = p.amount
  BY <1>1
<1>4. a \in [A -> Int] /\ b \in [B -> Int]
  BY <1>1, <1>2
<1>5. Agrees(a, w, A) /\ Agrees(b, w, B)
  BY <1>2 DEF Agrees
<1>6. PaidEarlier(lines, q) = SumFunction(a) /\ PaidEarlier(lines, p) = SumFunction(b)
  BY DEF PaidEarlier
<1> HIDE DEF w, A, B, a, b
<1>7. /\ SumFunction(a) \in Int /\ SumFunction(b) \in Int
      /\ SumFunction(b) + w[p] <= SumFunction(a)
  BY <1>1, <1>2, <1>3, <1>4, <1>5, SumOfFewer
<1> QED
  BY <1>3, <1>6, <1>7

\* In what is up to date, a payment after one that bears a tax bears one, when they go
\* by one rule.
LEMMA NoLapse == ASSUME TaxConstants, TaxInv PROVE DeductionsDoNotLapse
<1> SUFFICES ASSUME NEW c \in DOMAIN PeriodEnd, computation[c].status = "computed", ~outdated[c],
                    NEW p \in TdsLines(c), NEW q \in TdsLines(c),
                    p.pan # None, p.pan = q.pan, Before(p, q),
                    RuleOfPayout(p) = RuleOfPayout(q), RuleOfPayout(p) # {}, tds[p].rate > 0
             PROVE  tds[q].rate > 0
  BY DEF DeductionsDoNotLapse
<1> DEFINE lines == TLines(verified, tds, c)
           rate == (CHOOSE u \in RuleIn(rules, p) : TRUE).rate
           threshold == (CHOOSE u \in RuleIn(rules, p) : TRUE).threshold
           priorOf(x) == PaidEarlier(lines, x)
<1>1. /\ p \in lines /\ q \in lines /\ lines \subseteq Payouts
      /\ RuleIn(rules, p) = RuleIn(rules, q) /\ RuleIn(rules, p) # {}
  BY TdsForms, RuleForms DEF TLines
<1>2. TRun(rules, verified, tds, c) = tds
  <2>1. c \in Returns /\ c # "gst"
    BY DEF Returns, TaxConstants
  <2> QED BY <2>1, TdsForms DEF TaxInv, UpToDate, RunSettled
<1>3. tds[p] = Charge(rules, tds, p, lines) /\ tds[q] = Charge(rules, tds, q, lines)
  BY <1>1, <1>2 DEF TRun
<1>4. /\ tds[p] = ComputeTdsLine(p.amount, rate, threshold, priorOf(p), p.pan # None)
      /\ tds[q] = ComputeTdsLine(q.amount, rate, threshold, priorOf(q), q.pan # None)
  BY <1>1, <1>3 DEF Charge, RateOf, ThresholdOf
<1>5. Deductee(p) = Deductee(q)
  BY DEF Deductee
<1>6. /\ priorOf(p) \in Int /\ priorOf(q) \in Int
      /\ priorOf(p) + p.amount <= priorOf(q)
  BY <1>1, <1>5, PaidEarlierGrows
<1>7. rate \in 0..100 /\ threshold \in Nat
  <2>1. PICK u : u = CHOOSE v \in RuleIn(rules, p) : TRUE
    OBVIOUS
  <2>2. u \in RuleIn(rules, p)
    BY <1>1, <2>1
  <2>3. u \in rules
    BY <2>2 DEF RuleIn
  <2> QED BY <2>1, <2>3 DEF TaxInv, TablesOK, RulesOK, IsRule
<1>8. p.amount \in Nat /\ q.amount \in Nat
  BY <1>1 DEF TaxConstants
<1> HIDE DEF lines, rate, threshold, priorOf
<1>9. tds[p].rate = IF threshold = 0 \/ priorOf(p) + p.amount >= threshold THEN rate ELSE 0
  BY <1>4 DEF ComputeTdsLine
<1>10. tds[q].rate = IF threshold = 0 \/ priorOf(q) + q.amount >= threshold THEN rate ELSE 0
  BY <1>4 DEF ComputeTdsLine
<1>11. priorOf(p) + p.amount >= threshold => priorOf(q) + q.amount >= threshold
  BY <1>6, <1>7, <1>8
<1> QED
  BY <1>7, <1>9, <1>10, <1>11

\* Whatever is entered, corrected, taken out, computed and finalised, and however the
\* rate book, the documents and the company's state change in between: the rows stay
\* within their type, each GST line carries the whole tax of its value and rate, a
\* second run of what is up to date would change nothing, and in it no deductee
\* falls below a threshold again.
THEOREM TaxCorrect == TaxSpec => []TaxHolds
<1>1. TaxInit => TaxInv
  BY TaxConstants, TaxStarts
<1>2. TaxInv /\ [TaxNext]_taxVars => TaxInv'
  BY TaxConstants, TaxStep
<1>3. TaxInv => TaxHolds
  <2> SUFFICES ASSUME TaxInv PROVE TaxHolds
    OBVIOUS
  <2>1. TaxTypeOK
    BY DEF TaxInv, TablesOK, RulesOK, RowsOK, RowOK, TdsOK, DeductionOK, TaxTypeOK
  <2>2. LinesCarryTheirTax
    BY DEF TaxInv, TablesOK, RowsOK, RowOK, LinesCarryTheirTax
  <2>3. RerunChangesNothing
    BY DEF TaxInv, UpToDate, RunSettled, RerunChangesNothing
  <2>4. DeductionsDoNotLapse
    BY TaxConstants, NoLapse
  <2> QED BY <2>1, <2>2, <2>3, <2>4 DEF TaxHolds
<1> QED
  BY <1>1, <1>2, <1>3, PTL DEF TaxSpec

=============================================================================
