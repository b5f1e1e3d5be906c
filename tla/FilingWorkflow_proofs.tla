----------------------- MODULE FilingWorkflow_proofs -----------------------
(***************************************************************************)
(* What holds of FilingWorkflow for any number of documents, queries,      *)
(* approvals, handlers in flight and restarts; and what holds besides when *)
(* one handler is in flight at a time.                                     *)
(***************************************************************************)
EXTENDS FilingWorkflow, FiniteSetTheorems, TLAPS

\* Statements of a handler that works on a document that exists.
OnDocument ==
    {"open", "record", "decide", "reread", "sync", "clear", "insert", "replace",
     "lock", "archive", "delete", "raise", "release", "released", "line"}

Replacing == {"clear", "insert", "replace"}

Deciding == {"pick", "decideApproval", "decideReport", "decidePeriod"}

\* What a handler with the locals l knows at its statement.
Fits(l) ==
    /\ l.pc \in OnDocument => l.doc \in Docs /\ docs[l.doc].st # "none"
    /\ l.pc \in {"query", "resolve"} /\ l.doc # Null => docs[l.doc].st # "none"
    /\ l.pc = "upload" => l.doc \in Docs /\ docs[l.doc].st = "none"
    /\ l.pc = "sync" => l.seen \in DocStatus \ {"none"}
    /\ l.pc \in {"counts", "queries", "refresh"} =>
            l.seen \in Derivable \cup Terminal
    /\ l.pc \in {"record", "decide"} =>
            l.next \in Targets /\ l.ver \in 1..MaxVersions
    /\ l.pc = "decide" /\ l.next = "verified" => <<l.doc, l.ver>> \in records
    /\ l.pc \in Replacing =>
            /\ l.next \in DocStatus \ {"none", "verified"}
            /\ l.ver \in 1..MaxVersions
            /\ l.ver <= docs[l.doc].ver + 1
    /\ l.pc = "replace" =>
            l.ver = docs[l.doc].ver + 1 /\ l.ver \in versions[l.doc].stored
    /\ l.pc = "reply" => l.next \in QueryStatus
    /\ l.pc \in Deciding => l.next \in {"client_review", "approved", "rejected"}

\* The replacement of document d that has stored its version.
Stored(r, d) ==
    req[r].pc = "replace" /\ req[r].doc = d /\ req[r].ver = docs[d].ver + 1

DocInv(d) ==
    /\ docs[d].st = "none" => docs[d].ver = 0
    /\ docs[d].st # "none" => docs[d].ver \in 1..MaxVersions
    /\ docs[d].st = "verified" =>
            \E v \in 1..MaxVersions : <<d, v>> \in records
    /\ \/ versions[d].stored = 1..docs[d].ver
       \/ /\ versions[d].stored = 1..(docs[d].ver + 1)
          /\ docs[d].ver + 1 <= MaxVersions
          /\ restarts > 0 \/ \E r \in Requests : Stored(r, d)

QueryInv(q) == queries[q].doc # Null => docs[queries[q].doc].st # "none"

LinesInv == \A d \in comp.lines : docs[d].st # "none"

\* A new document is known to its upload only; the number taken keeps a second
\* replacement from getting past its insert.
Exclusive(r, s) ==
    /\ req[r].pc = "upload" => req[s].doc # req[r].doc
    /\ req[r].pc = "replace" /\ req[s].pc = "replace" => req[s].doc # req[r].doc

IInv ==
    /\ TypeOK
    /\ \A r \in Requests : Fits(req[r])
    /\ \A d \in Docs : DocInv(d)
    /\ \A q \in Queries : QueryInv(q)
    /\ LinesInv
    /\ \A r, s \in Requests : r # s => Exclusive(r, s)

-----------------------------------------------------------------------------
(***************************************************************************)
(* Types                                                                   *)
(***************************************************************************)

\* A slot that is not in use has the type of a request.
LEMMA IdleTyped == IdleRequest \in RequestType
BY NullAssumption DEF IdleRequest, RequestType, ProgramCounter, Operation,
    AnyStatus, DocStatus, CountsType, NoCounts

\* A step of the handler in slot r keeps the types if it keeps those of the
\* tables and leaves the slot well typed.
LEMMA TypeStep ==
    ASSUME TypeOK, NEW r \in Requests, TablesOK', req'[r] \in RequestType,
           req' = [req EXCEPT ![r] = req'[r]],
           started' \in 0..MaxRequests, restarts' = restarts
    PROVE  TypeOK'
BY DEF TypeOK

\* Tables that are left alone keep their types.
LEMMA TablesKept ==
    ASSUME TypeOK, UNCHANGED <<documents, queries, period, filing>>
    PROVE  TablesOK'
BY DEF TypeOK, TablesOK, documents, filing

-----------------------------------------------------------------------------
(***************************************************************************)
(* Steps that add no document and no version                               *)
(***************************************************************************)

\* What a step of another handler must not take away from slot s.
LEMMA SlotKept ==
    ASSUME TypeOK, NEW s \in Requests, Fits(req[s]), req'[s] = req[s],
           \A d \in Docs :
              /\ docs'[d].ver = docs[d].ver
              /\ docs'[d].st = "none" <=> docs[d].st = "none"
              /\ versions'[d].stored = versions[d].stored,
           records \subseteq records'
    PROVE  Fits(req[s])'
<1>1. req[s] \in RequestType
  BY DEF TypeOK
<1>2. req[s].doc \in Docs \cup {Null}
  BY <1>1 DEF RequestType
<1>. QED
  BY <1>2 DEF Fits, OnDocument, Replacing

\* A step of the handler in slot r that changes neither the numbers of the
\* versions nor which documents exist, and verifies none without a record.
LEMMA PlainStep ==
    ASSUME IInv, NEW r \in Requests, TypeOK',
           req' = [req EXCEPT ![r] = req'[r]],
           \A d \in Docs :
              /\ docs'[d].ver = docs[d].ver
              /\ docs'[d].st = "none" <=> docs[d].st = "none"
              /\ versions'[d].stored = versions[d].stored
              /\ docs'[d].st = "verified" =>
                    docs[d].st = "verified" \/
                        \E v \in 1..MaxVersions : <<d, v>> \in records',
           records \subseteq records',
           restarts' = restarts,
           Fits(req[r])',
           \A q \in Queries : QueryInv(q)',
           LinesInv',
           req[r].pc # "replace", req'[r].pc # "replace",
           \A s \in Requests : s # r =>
              /\ req'[r].pc = "upload" => req[s].doc # req'[r].doc
              /\ req[s].pc = "upload" => req'[r].doc # req[s].doc
    PROVE  IInv'
<1>1. \A s \in Requests : s # r => req'[s] = req[s]
  BY DEF IInv, TypeOK
<1>2. \A s \in Requests : Fits(req[s])'
  <2>. TAKE s \in Requests
  <2>1. CASE s = r
    BY <2>1
  <2>2. CASE s # r
    BY <2>2, <1>1, SlotKept DEF IInv
  <2>. QED
    BY <2>1, <2>2
<1>3. \A d \in Docs : DocInv(d)'
  <2>. TAKE d \in Docs
  <2>1. DocInv(d)
    BY DEF IInv
  <2>2. ASSUME NEW s \in Requests, Stored(s, d)
        PROVE  Stored(s, d)'
    BY <2>2, <1>1 DEF Stored
  <2>3. (docs[d].st = "verified" => \E v \in 1..MaxVersions : <<d, v>> \in records)'
    BY <2>1 DEF DocInv
  <2>. QED
    BY <2>1, <2>2, <2>3 DEF DocInv
<1>4. \A s, t \in Requests : s # t => Exclusive(s, t)'
  <2>. TAKE s, t \in Requests
  <2>. HAVE s # t
  <2>1. Exclusive(s, t) /\ Exclusive(t, s)
    BY DEF IInv
  <2>2. CASE s = r
    BY <2>1, <2>2, <1>1 DEF Exclusive
  <2>3. CASE t = r
    BY <2>1, <2>3, <1>1 DEF Exclusive
  <2>4. CASE s # r /\ t # r
    BY <2>1, <2>4, <1>1 DEF Exclusive
  <2>. QED
    BY <2>2, <2>3, <2>4
<1>. QED
  BY <1>2, <1>3, <1>4 DEF IInv

\* Statements about which Fits says nothing.
Free == ProgramCounter \ (OnDocument \cup Deciding \cup
            {"query", "resolve", "upload", "counts", "queries", "refresh", "reply"})

LEMMA FreeFits ==
    ASSUME NEW l, l.pc \in Free
    PROVE  Fits(l) /\ Fits(l)' /\ l.pc \notin {"replace", "upload"}
BY DEF Fits, Free, OnDocument, Replacing, Deciding

LEMMA IdleFits ==
    /\ Fits(IdleRequest) /\ Fits(IdleRequest)'
    /\ IdleRequest.pc = "idle" /\ IdleRequest.doc = Null
BY DEF Fits, IdleRequest, OnDocument, Replacing, Deciding

\* The locals of a handler, one by one.
LEMMA LocalTypes ==
    ASSUME NEW l \in RequestType
    PROVE  /\ l.pc \in ProgramCounter /\ l.op \in Operation
           /\ l.doc \in Docs \cup {Null} /\ l.qry \in Queries \cup {Null}
           /\ l.row \in Approvals \cup {Null}
           /\ l.seen \in AnyStatus /\ l.next \in AnyStatus
           /\ l.on \in BOOLEAN /\ l.ver \in Nat
           /\ l.used \in SUBSET Docs /\ l.lines \in SUBSET Docs
           /\ l.cnt \in CountsType /\ l.asked \in BOOLEAN
BY DEF RequestType

\* Going to another statement keeps the type of the locals.
LEMMA GotoTyped ==
    ASSUME NEW l \in RequestType, NEW pc \in ProgramCounter
    PROVE  /\ [l EXCEPT !.pc = pc] \in RequestType
           /\ [l EXCEPT !.pc = pc].pc = pc
           /\ [l EXCEPT !.pc = pc].doc = l.doc
           /\ [l EXCEPT !.pc = pc].ver = l.ver
           /\ [l EXCEPT !.pc = pc].next = l.next
BY DEF RequestType

\* A statement of the handler in slot r that leaves documents, versions and
\* records alone.
LEMMA FilingStep ==
    ASSUME IInv, NEW r \in Requests, NEW l \in RequestType, Continue(r, l),
           UNCHANGED <<docs, versions, records>>, TablesOK',
           Fits(l), l.pc \notin {"replace", "upload"}, req[r].pc # "replace",
           l.doc \in {req[r].doc, Null},
           \A q \in Queries : QueryInv(q)', LinesInv'
    PROVE  IInv'
<1>1. req'[r] = l /\ req' = [req EXCEPT ![r] = req'[r]] /\ restarts' = restarts
  BY DEF Continue, IInv, TypeOK
<1>2. TypeOK'
  BY <1>1, TypeStep DEF Continue, IInv, TypeOK
<1>3. Fits(req[r])'
  BY <1>1 DEF Fits
<1>4. ASSUME NEW s \in Requests, s # r, req[s].pc = "upload"
      PROVE  req'[r].doc # req[s].doc
  <2>1. Exclusive(s, r) /\ Fits(req[s])
    BY <1>4 DEF IInv
  <2>. QED
    BY <2>1, <1>1, <1>4, NullAssumption DEF Exclusive, Fits
<1>5. \A d \in Docs : DocInv(d)
  BY DEF IInv
<1>. QED
  BY <1>1, <1>2, <1>3, <1>4, PlainStep

\* A statement that writes no table.
LEMMA ReadStep ==
    ASSUME IInv, NEW r \in Requests, NEW l \in RequestType, Continue(r, l),
           UNCHANGED <<documents, queries, period, filing>>,
           Fits(l), l.pc \notin {"replace", "upload"}, req[r].pc # "replace",
           l.doc \in {req[r].doc, Null}
    PROVE  IInv'
<1>1. TablesOK'
  BY TablesKept DEF IInv
<1>2. \A q \in Queries : QueryInv(q)'
  BY DEF IInv, QueryInv, documents
<1>3. LinesInv'
  BY DEF IInv, LinesInv, documents, filing
<1>. QED
  BY <1>1, <1>2, <1>3, FilingStep DEF documents

\* A request starts.
LEMMA BeginStep ==
    ASSUME IInv, NEW r \in Requests, NEW l \in RequestType, Begin(r, l),
           Fits(l), l.pc # "replace",
           l.pc = "upload" => ~InUse(l.doc),
           l.doc # Null /\ l.pc # "upload" => docs[l.doc].st # "none"
    PROVE  IInv'
<1>1. req'[r] = l /\ req' = [req EXCEPT ![r] = req'[r]] /\ restarts' = restarts
  BY DEF Begin, IInv, TypeOK
<1>2. TablesOK'
  BY TablesKept DEF IInv, Begin
<1>3. started' \in 0..MaxRequests
  BY BoundAssumption DEF Begin, IInv, TypeOK
<1>4. TypeOK'
  BY <1>1, <1>2, <1>3, TypeStep DEF IInv
<1>5. Fits(req[r])'
  BY <1>1 DEF Fits, Begin, documents
<1>6. \A q \in Queries : QueryInv(q)'
  BY DEF IInv, QueryInv, Begin, documents
<1>7. LinesInv'
  BY DEF IInv, LinesInv, Begin, documents, filing
<1>8. ASSUME NEW s \in Requests, s # r
      PROVE  /\ req'[r].pc = "upload" => req[s].doc # req'[r].doc
             /\ req[s].pc = "upload" => req'[r].doc # req[s].doc
  <2>1. Fits(req[s])
    BY DEF IInv
  <2>2. CASE l.pc = "upload"
    BY <2>2, <1>1 DEF InUse
  <2>3. CASE l.pc # "upload"
    BY <2>1, <2>3, <1>1, NullAssumption DEF Fits
  <2>. QED
    BY <2>2, <2>3
<1>9. req[r].pc # "replace" /\ req'[r].pc # "replace"
  BY <1>1 DEF Begin
<1>. QED
  BY <1>1, <1>4, <1>5, <1>6, <1>7, <1>8, <1>9, PlainStep DEF Begin, documents

-----------------------------------------------------------------------------
(***************************************************************************)
(* refreshFilingPeriod                                                     *)
(***************************************************************************)

LEMMA CountsTyped == TypeOK => Counts \in CountsType
<1>1. ASSUME NEW S \in SUBSET Docs
      PROVE  Cardinality(S) \in Nat
  BY FiniteAssumption, FS_Subset, FS_CardinalityType
<1>2. Live \in SUBSET Docs
  BY DEF Live
<1>3. ASSUME NEW S
      PROVE  LiveIn(S) \in Nat
  <2>1. {d \in Live : docs[d].st \in S} \in SUBSET Docs
    BY <1>2
  <2>. QED
    BY <2>1, <1>1 DEF LiveIn
<1>. QED
  BY <1>1, <1>2, <1>3 DEF Counts, CountsType

\* A period that stood at a status of its column gets one of them.
LEMMA DeriveTyped ==
    ASSUME NEW old \in Derivable \cup Terminal, NEW c, NEW asked
    PROVE  Derive(old, c, asked) \in Derivable \cup Terminal
<1>1. DeriveOpen(c, asked) \in Derivable
  BY DEF DeriveOpen, Derivable
<1>. QED
  BY <1>1 DEF Derive

\* What follows a refresh fits whatever the refresh wrote.
LEMMA AfterRefreshStep ==
    ASSUME IInv, NEW r \in Requests, At(r, "refresh"), AfterRefresh(r)
    PROVE  \E l \in RequestType :
              /\ Continue(r, l) /\ l.pc \in Free /\ l.doc \in {req[r].doc, Null}
<1>. req[r] \in RequestType
  BY DEF IInv, TypeOK
<1>1. CASE req[r].op = "replace" /\ req[r].qry # Null
  <2>1. Continue(r, [req[r] EXCEPT !.pc = "respond"])
    BY <1>1 DEF AfterRefresh, Goto
  <2>2. "respond" \in ProgramCounter /\ "respond" \in Free
    BY DEF ProgramCounter, Free, OnDocument, Deciding
  <2>3. /\ [req[r] EXCEPT !.pc = "respond"] \in RequestType
        /\ [req[r] EXCEPT !.pc = "respond"].pc = "respond"
        /\ [req[r] EXCEPT !.pc = "respond"].doc = req[r].doc
    BY <2>2, GotoTyped
  <2>. QED
    BY <2>1, <2>2, <2>3
<1>2. CASE req[r].op = "release"
  <2>. DEFINE l == [req[r] EXCEPT !.pc = "period", !.op = "resolve"]
  <2>1. Continue(r, l)
    BY <1>2 DEF AfterRefresh
  <2>2. l \in RequestType /\ l.pc = "period" /\ l.doc = req[r].doc
    <3>1. "period" \in ProgramCounter /\ "resolve" \in Operation
      BY DEF ProgramCounter, Operation
    <3>. QED
      BY <3>1 DEF RequestType
  <2>3. "period" \in Free
    BY DEF ProgramCounter, Free, OnDocument, Deciding
  <2>. QED
    BY <2>1, <2>2, <2>3
<1>3. CASE ~(req[r].op = "replace" /\ req[r].qry # Null) /\ req[r].op # "release"
  <2>1. Continue(r, IdleRequest)
    BY <1>3 DEF AfterRefresh, Return
  <2>2. "idle" \in Free
    BY DEF ProgramCounter, Free, OnDocument, Deciding
  <2>. QED
    BY <2>1, <2>2, IdleTyped, IdleFits
<1>. QED
  BY <1>1, <1>2, <1>3

LEMMA RefreshSteps ==
    ASSUME IInv, NEW r \in Requests, Refresh(r)
    PROVE  IInv'
<1>. req[r] \in RequestType /\ Fits(req[r])
  BY DEF IInv, TypeOK
<1>1. CASE ViewPeriod(r)
  <2>. DEFINE l == [IdleRequest EXCEPT !.pc = "period"]
  <2>1. l \in RequestType /\ l.pc = "period" /\ l.doc = Null
    <3>1. "period" \in ProgramCounter
      BY DEF ProgramCounter
    <3>. QED
      BY <3>1, IdleTyped, IdleFits, GotoTyped
  <2>2. Fits(l)
    BY <2>1, FreeFits DEF Free, ProgramCounter, OnDocument, Deciding
  <2>3. Begin(r, l)
    BY <1>1 DEF ViewPeriod
  <2>. HIDE DEF l
  <2>. QED
    BY <2>1, <2>2, <2>3, BeginStep
<1>2. CASE ReadPeriod(r)
  <2>. DEFINE l == [req[r] EXCEPT !.pc = "counts", !.seen = period.st]
  <2>1. period.st \in Derivable \cup Terminal /\ period.st \in AnyStatus
    BY DEF IInv, TypeOK, TablesOK, AnyStatus
  <2>2. l \in RequestType /\ l.pc = "counts" /\ l.doc = req[r].doc /\ l.seen = period.st
    BY <2>1 DEF RequestType, ProgramCounter
  <2>3. Continue(r, l) /\ UNCHANGED <<documents, queries, period, filing>> /\ req[r].pc # "replace"
    BY <1>2 DEF ReadPeriod, At
  <2>. HIDE DEF l
  <2>4. Fits(l)
    BY <2>1, <2>2 DEF Fits, OnDocument, Replacing, Deciding
  <2>. QED
    BY <2>2, <2>3, <2>4, ReadStep
<1>3. CASE CountDocuments(r)
  <2>. DEFINE l == [req[r] EXCEPT !.pc = "queries", !.cnt = Counts]
  <2>1. Counts \in CountsType
    BY CountsTyped DEF IInv
  <2>2. l \in RequestType /\ l.pc = "queries" /\ l.doc = req[r].doc /\ l.seen = req[r].seen
    BY <2>1 DEF RequestType, ProgramCounter
  <2>3. /\ Continue(r, l) /\ UNCHANGED <<documents, queries, period, filing>>
        /\ req[r].pc = "counts"
    BY <1>3 DEF CountDocuments, At
  <2>. HIDE DEF l
  <2>4. Fits(l)
    BY <2>2, <2>3 DEF Fits, OnDocument, Replacing, Deciding
  <2>. QED
    BY <2>2, <2>3, <2>4, ReadStep
<1>4. CASE CountQueries(r)
  <2>1. PICK asked \in BOOLEAN : asked = (OpenQueries # {})
    OBVIOUS
  <2>. DEFINE l == [req[r] EXCEPT !.pc = "refresh", !.asked = asked]
  <2>2. l \in RequestType /\ l.pc = "refresh" /\ l.doc = req[r].doc /\ l.seen = req[r].seen
    <3>1. "refresh" \in ProgramCounter
      BY DEF ProgramCounter
    <3>. QED
      BY <3>1 DEF RequestType
  <2>3. /\ Continue(r, l) /\ UNCHANGED <<documents, queries, period, filing>>
        /\ req[r].pc = "queries"
    BY <1>4, <2>1 DEF CountQueries, At
  <2>. HIDE DEF l
  <2>4. Fits(l)
    BY <2>2, <2>3 DEF Fits, OnDocument, Replacing, Deciding
  <2>. QED
    BY <2>2, <2>3, <2>4, ReadStep
<1>5. CASE WritePeriod(r)
  <2>1. PICK l \in RequestType : Continue(r, l) /\ l.pc \in Free /\ l.doc \in {req[r].doc, Null}
    BY <1>5, AfterRefreshStep DEF WritePeriod
  <2>2. Fits(l) /\ l.pc \notin {"replace", "upload"}
    BY <2>1, FreeFits
  <2>3. /\ req[r].pc = "refresh" /\ UNCHANGED <<documents, queries, filing>>
        /\ period' = [st |-> Derive(req[r].seen, req[r].cnt, req[r].asked),
                      received |-> req[r].cnt.received,
                      verified |-> req[r].cnt.verified]
    BY <1>5 DEF WritePeriod, At
  <2>4. req[r].seen \in Derivable \cup Terminal
    BY <2>3 DEF Fits
  <2>5. Derive(req[r].seen, req[r].cnt, req[r].asked) \in Derivable \cup Terminal
    BY <2>4, DeriveTyped
  <2>6. req[r].cnt.received \in Nat /\ req[r].cnt.verified \in Nat
    BY LocalTypes DEF CountsType
  <2>7. TablesOK'
    BY <2>3, <2>5, <2>6 DEF IInv, TypeOK, TablesOK, documents, filing
  <2>8. (\A q \in Queries : QueryInv(q)') /\ LinesInv'
    BY <2>3 DEF IInv, QueryInv, LinesInv, documents, filing
  <2>9. req[r].pc # "replace" /\ UNCHANGED <<docs, versions, records>>
    BY <2>3 DEF documents
  <2>. QED
    BY <2>1, <2>2, <2>7, <2>8, <2>9, FilingStep
<1>. QED
  BY <1>1, <1>2, <1>3, <1>4, <1>5 DEF Refresh

-----------------------------------------------------------------------------
(***************************************************************************)
(* Kinds of steps                                                          *)
(***************************************************************************)

\* A request starts that works on no document.
LEMMA BeginFree ==
    ASSUME IInv, NEW r \in Requests, NEW l \in RequestType, Begin(r, l),
           l.pc \in Free, l.doc = Null
    PROVE  IInv'
BY FreeFits, BeginStep

\* A request starts that works on the document it has just read.
LEMMA BeginOn ==
    ASSUME IInv, NEW r \in Requests, NEW l \in RequestType, Begin(r, l),
           l.pc \in {"open", "lock", "archive", "delete", "line"},
           l.doc \in Docs, docs[l.doc].st # "none"
    PROVE  IInv'
<1>1. Fits(l)
  BY DEF Fits, Replacing, Deciding
<1>. QED
  BY <1>1, BeginStep

\* A handler that leaves the documents alone and goes on or returns.
LEMMA GotoFiling ==
    ASSUME IInv, NEW r \in Requests, NEW pc \in Free,
           Goto(r, pc) \/ Return(r),
           UNCHANGED <<docs, versions, records>>, TablesOK',
           req[r].pc # "replace", \A q \in Queries : QueryInv(q)', LinesInv'
    PROVE  IInv'
<1>1. req[r] \in RequestType
  BY DEF IInv, TypeOK
<1>2. CASE Goto(r, pc)
  <2>. DEFINE l == [req[r] EXCEPT !.pc = pc]
  <2>1. l \in RequestType /\ l.pc = pc /\ l.doc = req[r].doc
    BY <1>1, GotoTyped DEF Free
  <2>2. Continue(r, l)
    BY <1>2 DEF Goto
  <2>. HIDE DEF l
  <2>3. Fits(l) /\ l.pc \notin {"replace", "upload"}
    BY <2>1, FreeFits
  <2>. QED
    BY <2>1, <2>2, <2>3, FilingStep
<1>3. CASE Return(r)
  <2>1. Continue(r, IdleRequest) /\ Fits(IdleRequest)
    BY <1>3, IdleFits DEF Return
  <2>. QED
    BY <2>1, IdleFits, IdleTyped, FilingStep
<1>. QED
  BY <1>2, <1>3

\* A handler that writes nothing and goes on or returns.
LEMMA GotoRead ==
    ASSUME IInv, NEW r \in Requests, NEW pc \in Free,
           Goto(r, pc) \/ Return(r),
           UNCHANGED <<documents, queries, period, filing>>, req[r].pc # "replace"
    PROVE  IInv'
<1>1. TablesOK'
  BY TablesKept DEF IInv
<1>2. \A q \in Queries : QueryInv(q)'
  BY DEF IInv, QueryInv, documents
<1>3. LinesInv'
  BY DEF IInv, LinesInv, documents, filing
<1>. QED
  BY <1>1, <1>2, <1>3, GotoFiling DEF documents

DocumentRow == [st : DocStatus, locked : BOOLEAN, deleted : BOOLEAN, ver : Nat]

\* A statement that updates documents that exist and keeps their versions.
LEMMA UpdateRows ==
    ASSUME IInv, NEW r \in Requests, NEW l \in RequestType, Continue(r, l),
           docs' \in [Docs -> DocumentRow],
           \A d \in Docs :
              /\ docs'[d].ver = docs[d].ver
              /\ docs'[d].st = "none" <=> docs[d].st = "none"
              /\ docs'[d].st = "verified" =>
                    docs[d].st = "verified" \/
                        \E v \in 1..MaxVersions : <<d, v>> \in records,
           UNCHANGED <<versions, records, checklist, queries, period, filing>>,
           Fits(l)', l.pc \notin {"replace", "upload"}, req[r].pc # "replace",
           l.doc \in {req[r].doc, Null}
    PROVE  IInv'
<1>1. req'[r] = l /\ req' = [req EXCEPT ![r] = req'[r]] /\ restarts' = restarts
  BY DEF Continue, IInv, TypeOK
<1>2. TablesOK'
  BY DEF IInv, TypeOK, TablesOK, filing, DocumentRow
<1>3. TypeOK'
  BY <1>1, <1>2, TypeStep DEF Continue, IInv, TypeOK
<1>4. Fits(req[r])'
  BY <1>1 DEF Fits
<1>5. \A q \in Queries : QueryInv(q)'
  BY DEF IInv, QueryInv, TypeOK, TablesOK
<1>6. LinesInv'
  BY DEF IInv, LinesInv, filing, TypeOK, TablesOK
<1>7. ASSUME NEW s \in Requests, s # r, req[s].pc = "upload"
      PROVE  req'[r].doc # req[s].doc
  <2>1. Exclusive(s, r) /\ Fits(req[s])
    BY <1>7 DEF IInv
  <2>. QED
    BY <2>1, <1>1, <1>7, NullAssumption DEF Exclusive, Fits
<1>. QED
  BY <1>1, <1>3, <1>4, <1>5, <1>6, <1>7, PlainStep

\* The handler's own document is updated; then it goes on or returns.
LEMMA UpdateRow ==
    ASSUME IInv, NEW r \in Requests, NEW row \in DocumentRow,
           req[r].doc \in Docs, docs[req[r].doc].st # "none",
           req[r].pc # "replace", NEW pc \in Free \cup {"reread"},
           Goto(r, pc) \/ Return(r),
           docs' = [docs EXCEPT ![req[r].doc] = row],
           row.ver = docs[req[r].doc].ver, row.st # "none",
           row.st = "verified" =>
              docs[req[r].doc].st = "verified" \/
                  \E v \in 1..MaxVersions : <<req[r].doc, v>> \in records,
           UNCHANGED <<versions, records, checklist, queries, period, filing>>
    PROVE  IInv'
<1>1. req[r] \in RequestType /\ docs \in [Docs -> DocumentRow]
  BY DEF IInv, TypeOK, TablesOK, DocumentRow
<1>2. docs' \in [Docs -> DocumentRow]
  BY <1>1
<1>3. \A d \in Docs : docs'[d] = IF d = req[r].doc THEN row ELSE docs[d]
  BY <1>1
<1>4. CASE Goto(r, pc)
  <2>0. pc \in ProgramCounter
    BY DEF Free, ProgramCounter
  <2>1. PICK l \in RequestType :
            l = [req[r] EXCEPT !.pc = pc] /\ l.pc = pc /\ l.doc = req[r].doc
    BY <2>0, <1>1, GotoTyped
  <2>2. Continue(r, l)
    BY <1>4, <2>1 DEF Goto
  <2>3. CASE pc = "reread"
    <3>1. Fits(l)'
      BY <2>1, <2>3, <1>3 DEF Fits, Replacing, Deciding, OnDocument
    <3>. QED
      BY <2>1, <2>2, <2>3, <3>1, <1>2, <1>3, UpdateRows
  <2>4. CASE pc \in Free
    <3>1. Fits(l)' /\ l.pc \notin {"replace", "upload"}
      BY <2>1, <2>4, FreeFits
    <3>. QED
      BY <2>1, <2>2, <3>1, <1>2, <1>3, UpdateRows
  <2>. QED
    BY <2>3, <2>4
<1>5. CASE Return(r)
  <2>1. Continue(r, IdleRequest) /\ Fits(IdleRequest)'
    BY <1>5, IdleFits DEF Return
  <2>. QED
    BY <2>1, IdleFits, IdleTyped, <1>2, <1>3, UpdateRows
<1>. QED
  BY <1>4, <1>5

-----------------------------------------------------------------------------
(***************************************************************************)
(* documents.js                                                            *)
(***************************************************************************)

LEMMA UploadStep ==
    ASSUME IInv, NEW r \in Requests, NEW d \in Docs, Upload(r, d)
    PROVE  IInv'
<1>. DEFINE l == [IdleRequest EXCEPT !.pc = "upload", !.op = "upload", !.doc = d]
<1>1. l \in RequestType /\ l.pc = "upload" /\ l.doc = d
  <2>1. "upload" \in ProgramCounter /\ "upload" \in Operation
    BY DEF ProgramCounter, Operation
  <2>. QED
    BY <2>1, IdleTyped DEF RequestType
<1>2. Begin(r, l) /\ docs[d].st = "none" /\ ~InUse(d)
  BY DEF Upload
<1>. HIDE DEF l
<1>3. Fits(l)
  BY <1>1, <1>2 DEF Fits, OnDocument, Replacing, Deciding
<1>. QED
  BY <1>1, <1>2, <1>3, BeginStep

LEMMA OnDocumentBegins ==
    ASSUME IInv, NEW r \in Requests, NEW d \in Docs,
           Archive(r, d) \/ Delete(r, d) \/ Open(r, d)
                \/ \E on \in BOOLEAN : Lock(r, d, on)
    PROVE  IInv'
<1>0. {"archive", "delete", "open", "lock"} \subseteq ProgramCounter
  BY DEF ProgramCounter
<1>1. ASSUME NEW pc \in {"archive", "delete", "open"}, docs[d].st # "none",
             Begin(r, [IdleRequest EXCEPT !.pc = pc, !.doc = d])
      PROVE  IInv'
  <2>. DEFINE l == [IdleRequest EXCEPT !.pc = pc, !.doc = d]
  <2>1. l \in RequestType /\ l.pc = pc /\ l.doc = d
    BY <1>0, IdleTyped DEF RequestType
  <2>. HIDE DEF l
  <2>. QED
    BY <2>1, <1>1, BeginOn DEF l
<1>2. ASSUME NEW on \in BOOLEAN, Lock(r, d, on)
      PROVE  IInv'
  <2>. DEFINE l == [IdleRequest EXCEPT !.pc = "lock", !.doc = d, !.on = on]
  <2>1. l \in RequestType /\ l.pc = "lock" /\ l.doc = d
    BY <1>0, IdleTyped DEF RequestType
  <2>2. Begin(r, l) /\ docs[d].st # "none"
    BY <1>2 DEF Lock
  <2>. HIDE DEF l
  <2>. QED
    BY <2>1, <2>2, BeginOn
<1>. QED
  BY <1>1, <1>2 DEF Archive, Delete, Open, Visible

\* What a verified document becomes is not verified any more.
LEMMA ReplacedTyped ==
    ASSUME NEW st \in DocStatus \ {"none"}
    PROVE  ReplacedStatus(st) \in DocStatus \ {"none", "verified"}
BY DEF ReplacedStatus, DocStatus, Queried

LEMMA ReplaceBegins ==
    ASSUME IInv, NEW r \in Requests, NEW d \in Docs,
           NEW q \in Queries \cup {Null}, ReplaceVersion(r, d, q)
    PROVE  IInv'
<1>. DEFINE l == [IdleRequest EXCEPT !.pc = "clear", !.op = "replace",
                    !.doc = d, !.qry = q, !.ver = docs[d].ver + 1,
                    !.next = ReplacedStatus(docs[d].st)]
<1>1. /\ Begin(r, l) /\ docs[d].st \in DocStatus \ {"none"}
      /\ docs[d].ver < MaxVersions /\ docs[d].ver \in Nat
  BY DEF ReplaceVersion, Visible, IInv, TypeOK, TablesOK
<1>2. ReplacedStatus(docs[d].st) \in DocStatus \ {"none", "verified"}
  BY <1>1, ReplacedTyped
<1>3. ReplacedStatus(docs[d].st) \in AnyStatus
  BY <1>2 DEF AnyStatus
<1>4. /\ l \in RequestType /\ l.pc = "clear" /\ l.doc = d
      /\ l.ver = docs[d].ver + 1 /\ l.next = ReplacedStatus(docs[d].st)
  <2>1. "clear" \in ProgramCounter /\ "replace" \in Operation
    BY DEF ProgramCounter, Operation
  <2>2. docs[d].ver + 1 \in Nat
    BY <1>1
  <2>. QED
    BY <2>1, <2>2, <1>3, IdleTyped DEF RequestType
<1>. HIDE DEF l
<1>5. l.ver \in 1..MaxVersions
  BY <1>1, <1>4, BoundAssumption
<1>6. Fits(l)
  BY <1>1, <1>2, <1>4, <1>5 DEF Fits, OnDocument, Replacing, Deciding
<1>. QED
  BY <1>1, <1>4, <1>6, BeginStep

\* The row is read again, and the checklist follows it.
LEMMA RereadStep ==
    ASSUME IInv, NEW r \in Requests, Reread(r)
    PROVE  IInv'
<1>1. req[r] \in RequestType /\ Fits(req[r]) /\ req[r].pc = "reread"
  BY DEF IInv, TypeOK, Reread, At
<1>2. req[r].doc \in Docs /\ docs[req[r].doc].st \in DocStatus \ {"none"}
  BY <1>1 DEF Fits, OnDocument, IInv, TypeOK, TablesOK
<1>3. docs[req[r].doc].st \in AnyStatus
  BY <1>2 DEF AnyStatus
<1>. DEFINE l == [req[r] EXCEPT !.pc = "sync", !.seen = docs[req[r].doc].st]
<1>4. /\ l \in RequestType /\ l.pc = "sync" /\ l.doc = req[r].doc
      /\ l.seen = docs[req[r].doc].st
  BY <1>1, <1>3 DEF RequestType, ProgramCounter
<1>5. Continue(r, l) /\ UNCHANGED <<documents, queries, period, filing>>
  BY DEF Reread
<1>. HIDE DEF l
<1>6. Fits(l)
  BY <1>2, <1>4 DEF Fits, Replacing, Deciding
<1>. QED
  BY <1>1, <1>4, <1>5, <1>6, ReadStep

LEMMA ChecklistTyped ==
    ASSUME NEW st \in DocStatus \ {"none"}
    PROVE  ChecklistFor(st) \in ChecklistStatus
BY DEF ChecklistFor, DocStatus, ChecklistStatus, Queried, Verified

LEMMA SyncStep ==
    ASSUME IInv, NEW r \in Requests, SyncChecklist(r)
    PROVE  IInv'
<1>1. req[r] \in RequestType /\ Fits(req[r]) /\ req[r].pc = "sync"
  BY DEF IInv, TypeOK, SyncChecklist, At
<1>2. /\ req[r].seen \in DocStatus \ {"none"}
      /\ req[r].doc \in Docs /\ docs[req[r].doc].st # "none"
  BY <1>1 DEF Fits, OnDocument
<1>3. checklist' \in [Checklist -> ChecklistStatus]
  <2>1. ChecklistFor(req[r].seen) \in ChecklistStatus
    BY <1>2, ChecklistTyped
  <2>. QED
    BY <2>1 DEF SyncChecklist, IInv, TypeOK, TablesOK
<1>4. UNCHANGED <<docs, versions, records, queries, period, filing>>
  BY DEF SyncChecklist
<1>5. TablesOK'
  BY <1>3, <1>4 DEF IInv, TypeOK, TablesOK, filing
<1>6. (\A q \in Queries : QueryInv(q)') /\ LinesInv'
  BY <1>4 DEF IInv, QueryInv, LinesInv, filing
<1>. DEFINE pc == IF req[r].op = "raise" THEN "query" ELSE "period"
            l == [req[r] EXCEPT !.pc = pc]
<1>7. l \in RequestType /\ l.pc \in {"query", "period"} /\ l.doc = req[r].doc
  <2>1. pc \in ProgramCounter
    BY DEF ProgramCounter
  <2>. QED
    BY <1>1, <2>1, GotoTyped
<1>8. Continue(r, l)
  BY DEF SyncChecklist, Goto
<1>. HIDE DEF l, pc
<1>9. Fits(l)
  BY <1>2, <1>7 DEF Fits, OnDocument, Replacing, Deciding
<1>. QED
  BY <1>1, <1>4, <1>5, <1>6, <1>7, <1>8, <1>9, FilingStep

LEMMA ClearStep ==
    ASSUME IInv, NEW r \in Requests, ClearCurrent(r)
    PROVE  IInv'
<1>1. req[r] \in RequestType /\ Fits(req[r]) /\ req[r].pc = "clear"
  BY DEF IInv, TypeOK, ClearCurrent, At
<1>2. /\ req[r].doc \in Docs /\ versions' = [versions EXCEPT ![req[r].doc].current = 0]
      /\ UNCHANGED <<docs, records, checklist, queries, period, filing>>
  BY <1>1 DEF ClearCurrent, Fits, OnDocument
<1>3. /\ versions' \in [Docs -> [stored : SUBSET Nat, current : Nat]]
      /\ \A d \in Docs : versions'[d].stored = versions[d].stored
  BY <1>2 DEF IInv, TypeOK, TablesOK
<1>4. PICK l \in RequestType :
          l = [req[r] EXCEPT !.pc = "insert"] /\ l.pc = "insert" /\ l.doc = req[r].doc
            /\ l.ver = req[r].ver /\ l.next = req[r].next
  <2>1. "insert" \in ProgramCounter
    BY DEF ProgramCounter
  <2>. DEFINE m == [req[r] EXCEPT !.pc = "insert"]
  <2>2. m \in RequestType /\ m.pc = "insert" /\ m.doc = req[r].doc
          /\ m.ver = req[r].ver /\ m.next = req[r].next
    BY <1>1, <2>1, GotoTyped
  <2>. QED
    BY <2>2
<1>5. req'[r] = l /\ req' = [req EXCEPT ![r] = req'[r]] /\ UNCHANGED <<started, restarts>>
  BY <1>4 DEF ClearCurrent, Goto, Continue, IInv, TypeOK
<1>6. TablesOK'
  BY <1>2, <1>3 DEF IInv, TypeOK, TablesOK, filing
<1>7. TypeOK'
  BY <1>5, <1>6, TypeStep DEF IInv, TypeOK
<1>8. Fits(req[r])'
  BY <1>1, <1>2, <1>3, <1>4, <1>5 DEF Fits, OnDocument, Replacing, Deciding
<1>9. (\A q \in Queries : QueryInv(q)') /\ LinesInv'
  BY <1>2 DEF IInv, QueryInv, LinesInv, filing
<1>10. ASSUME NEW s \in Requests, s # r, req[s].pc = "upload"
       PROVE  req'[r].doc # req[s].doc
  BY <1>4, <1>5, <1>10 DEF IInv, Exclusive
<1>. QED
  BY <1>1, <1>2, <1>3, <1>4, <1>5, <1>7, <1>8, <1>9, <1>10, PlainStep

\* The number is taken, or it is the next one and nobody else stands at it.
LEMMA InsertStep ==
    ASSUME IInv, NEW r \in Requests, InsertVersion(r)
    PROVE  IInv'
<1>1. req[r] \in RequestType /\ Fits(req[r]) /\ req[r].pc = "insert"
  BY DEF IInv, TypeOK, InsertVersion, At
<1>0. PICK d, v : d = req[r].doc /\ v = req[r].ver
  OBVIOUS
<1>2. /\ d \in Docs /\ docs[d].st # "none" /\ v \in 1..MaxVersions
      /\ v <= docs[d].ver + 1 /\ req[r].next \in DocStatus \ {"none", "verified"}
  BY <1>0, <1>1 DEF Fits, OnDocument, Replacing
<1>3. UNCHANGED <<docs, records, checklist, queries, period, filing>>
  BY DEF InsertVersion
<1>4. CASE v \in versions[d].stored
  <2>1. Return(r) /\ UNCHANGED versions
    BY <1>0, <1>4 DEF InsertVersion
  <2>2. UNCHANGED <<documents, queries, period, filing>>
    BY <1>3, <2>1 DEF documents
  <2>3. "idle" \in Free
    BY DEF Free, ProgramCounter, OnDocument, Deciding
  <2>. QED
    BY <1>1, <2>1, <2>2, <2>3, GotoRead
<1>5. CASE v \notin versions[d].stored
  <2>1. /\ versions' = [versions EXCEPT ![d] =
                [stored |-> versions[d].stored \cup {v}, current |-> v]]
        /\ Goto(r, "replace")
    BY <1>0, <1>5 DEF InsertVersion
  <2>2. DocInv(d) /\ docs[d].ver \in Nat
    BY <1>2 DEF IInv, TypeOK, TablesOK
  <2>3. v = docs[d].ver + 1 /\ versions[d].stored = 1..docs[d].ver
    BY <1>2, <1>5, <2>2 DEF DocInv
  <2>4. /\ versions' \in [Docs -> [stored : SUBSET Nat, current : Nat]]
        /\ \A e \in Docs : e # d => versions'[e] = versions[e]
        /\ versions'[d].stored = versions[d].stored \cup {v}
    BY <1>2, <2>1, <2>2, <2>3 DEF IInv, TypeOK, TablesOK
  <2>5. versions'[d].stored = 1..(docs[d].ver + 1)
    BY <2>2, <2>3, <2>4
  <2>6. PICK l \in RequestType :
            l = [req[r] EXCEPT !.pc = "replace"] /\ l.pc = "replace"
              /\ l.doc = req[r].doc /\ l.ver = req[r].ver /\ l.next = req[r].next
    <3>1. "replace" \in ProgramCounter
      BY DEF ProgramCounter
    <3>. QED
      BY <1>1, <3>1, GotoTyped
  <2>7. /\ req'[r] = l /\ req' = [req EXCEPT ![r] = req'[r]]
        /\ UNCHANGED <<started, restarts>>
        /\ \A s \in Requests : s # r => req'[s] = req[s]
    BY <2>1, <2>6 DEF Goto, Continue, IInv, TypeOK
  <2>8. TypeOK'
    <3>1. TablesOK'
      BY <1>3, <2>4 DEF IInv, TypeOK, TablesOK, filing
    <3>. QED
      BY <2>7, <3>1, TypeStep DEF IInv, TypeOK
  <2>9. ASSUME NEW s \in Requests, s # r
        PROVE  ~(req[s].pc = "replace" /\ req[s].doc = d)
    BY <1>2, <1>5, <2>2, <2>3 DEF IInv, Fits
  <2>10. ASSUME NEW s \in Requests
         PROVE  Fits(req[s])'
    <3>1. CASE s = r
      BY <3>1, <1>0, <1>2, <1>3, <2>3, <2>4, <2>6, <2>7 DEF Fits, OnDocument, Replacing, Deciding
    <3>2. CASE s # r
      <4>1. Fits(req[s]) /\ req'[s] = req[s]
        BY <3>2, <2>7 DEF IInv
      <4>2. \A e \in Docs : versions[e].stored \subseteq versions'[e].stored
        BY <2>4
      <4>. QED
        BY <4>1, <4>2, <1>3 DEF Fits, OnDocument
    <3>. QED
      BY <3>1, <3>2
  <2>11. ASSUME NEW e \in Docs
         PROVE  DocInv(e)'
    <3>1. DocInv(e)
      BY DEF IInv
    <3>2. CASE e = d
      <4>1. Stored(r, d)'
        BY <1>0, <1>3, <2>3, <2>6, <2>7 DEF Stored
      <4>2. (versions[d].stored = 1..(docs[d].ver + 1) /\ docs[d].ver + 1 <= MaxVersions)'
        BY <1>2, <1>3, <2>3, <2>5
      <4>. QED
        BY <3>1, <3>2, <4>1, <4>2, <1>3 DEF DocInv
    <3>3. CASE e # d
      <4>1. ASSUME NEW s \in Requests, Stored(s, e)
            PROVE  Stored(s, e)'
        BY <4>1, <3>3, <1>1, <1>3, <2>7 DEF Stored
      <4>. QED
        BY <3>1, <3>3, <4>1, <1>3, <2>4, <2>7 DEF DocInv
    <3>. QED
      BY <3>2, <3>3
  <2>12. (\A q \in Queries : QueryInv(q)') /\ LinesInv'
    BY <1>3 DEF IInv, QueryInv, LinesInv, filing
  <2>13. ASSUME NEW s \in Requests, NEW t \in Requests, s # t
         PROVE  Exclusive(s, t)'
    <3>1. Exclusive(s, t) /\ Exclusive(t, s)
      BY <2>13 DEF IInv
    <3>2. CASE s = r
      BY <3>1, <3>2, <1>0, <2>6, <2>7, <2>9, <2>13 DEF Exclusive
    <3>3. CASE t = r
      BY <3>1, <3>3, <1>0, <2>6, <2>7, <2>9, <2>13 DEF Exclusive
    <3>4. CASE s # r /\ t # r
      BY <3>1, <3>4, <2>7 DEF Exclusive
    <3>. QED
      BY <3>2, <3>3, <3>4
  <2>. QED
    BY <2>8, <2>10, <2>11, <2>12, <2>13 DEF IInv
<1>. QED
  BY <1>4, <1>5

\* The document points at the version stored last.
LEMMA ReplacedStep ==
    ASSUME IInv, NEW r \in Requests, WriteReplaced(r)
    PROVE  IInv'
<1>1. req[r] \in RequestType /\ Fits(req[r]) /\ req[r].pc = "replace"
  BY DEF IInv, TypeOK, WriteReplaced, At
<1>2. PICK d, v, st : d = req[r].doc /\ v = req[r].ver /\ st = req[r].next
  OBVIOUS
<1>3. /\ d \in Docs /\ docs[d].st # "none" /\ v \in 1..MaxVersions
      /\ v = docs[d].ver + 1 /\ v \in versions[d].stored
      /\ st \in DocStatus \ {"none", "verified"}
  BY <1>1, <1>2 DEF Fits, OnDocument, Replacing
<1>4. /\ docs' = [docs EXCEPT ![d].ver = v, ![d].st = st]
      /\ UNCHANGED <<versions, records, checklist, queries, period, filing>>
  BY <1>2 DEF WriteReplaced
<1>5. /\ docs' \in [Docs -> DocumentRow]
      /\ \A e \in Docs : e # d => docs'[e] = docs[e]
      /\ docs'[d].ver = v /\ docs'[d].st = st
  <2>1. docs \in [Docs -> DocumentRow] /\ docs[d] \in DocumentRow /\ v \in Nat
    BY <1>3 DEF IInv, TypeOK, TablesOK, DocumentRow
  <2>. DEFINE row == [docs[d] EXCEPT !.ver = v, !.st = st]
  <2>2. row \in DocumentRow /\ row.ver = v /\ row.st = st
    BY <2>1, <1>3 DEF DocumentRow
  <2>3. docs' = [docs EXCEPT ![d] = row]
    BY <1>3, <1>4, <2>1
  <2>. HIDE DEF row
  <2>. QED
    BY <1>3, <2>1, <2>2, <2>3
<1>6. DocInv(d) /\ docs[d].ver \in Nat
  BY <1>3 DEF IInv, TypeOK, TablesOK
<1>7. versions[d].stored = 1..v
  BY <1>3, <1>6 DEF DocInv
<1>8. PICK l \in RequestType :
          l = [req[r] EXCEPT !.pc = "reread"] /\ l.pc = "reread" /\ l.doc = d
  <2>1. "reread" \in ProgramCounter
    BY DEF ProgramCounter
  <2>. QED
    BY <1>1, <1>2, <2>1, GotoTyped
<1>9. /\ req'[r] = l /\ req' = [req EXCEPT ![r] = req'[r]]
      /\ UNCHANGED <<started, restarts>>
      /\ \A s \in Requests : s # r => req'[s] = req[s]
  BY <1>8 DEF WriteReplaced, Goto, Continue, IInv, TypeOK
<1>10. TypeOK'
  <2>1. TablesOK'
    BY <1>4, <1>5 DEF IInv, TypeOK, TablesOK, filing, DocumentRow
  <2>. QED
    BY <1>9, <2>1, TypeStep DEF IInv, TypeOK
<1>11. ASSUME NEW s \in Requests, s # r
       PROVE  ~(req[s].pc = "replace" /\ req[s].doc = d)
  BY <1>1, <1>2, <1>11 DEF IInv, Exclusive
<1>12. ASSUME NEW s \in Requests
       PROVE  Fits(req[s])'
  <2>1. CASE s = r
    BY <2>1, <1>3, <1>5, <1>8, <1>9 DEF Fits, OnDocument, Replacing, Deciding
  <2>2. CASE s # r
    <3>1. Fits(req[s]) /\ req'[s] = req[s] /\ req[s].ver \in Nat
      BY <2>2, <1>9 DEF IInv, TypeOK, RequestType
    <3>2. req[s].doc \in Docs \cup {Null}
      BY DEF IInv, TypeOK, RequestType
    <3>3. CASE req[s].doc = d
      BY <2>2, <3>1, <3>3, <1>3, <1>4, <1>5, <1>6, <1>11
         DEF Fits, OnDocument, Replacing
    <3>4. CASE req[s].doc # d
      BY <3>1, <3>2, <3>4, <1>4, <1>5 DEF Fits, OnDocument, Replacing
    <3>. QED
      BY <3>3, <3>4
  <2>. QED
    BY <2>1, <2>2
<1>13. ASSUME NEW e \in Docs
       PROVE  DocInv(e)'
  <2>1. DocInv(e)
    BY DEF IInv
  <2>2. CASE e = d
    BY <2>2, <1>3, <1>4, <1>5, <1>7 DEF DocInv
  <2>3. CASE e # d
    <3>1. ASSUME NEW s \in Requests, Stored(s, e)
          PROVE  Stored(s, e)'
      BY <2>3, <3>1, <1>2, <1>5, <1>9 DEF Stored
    <3>. QED
      BY <2>1, <2>3, <3>1, <1>4, <1>5, <1>9 DEF DocInv
  <2>. QED
    BY <2>2, <2>3
<1>14. \A q \in Queries : QueryInv(q)'
  BY <1>3, <1>4, <1>5 DEF IInv, QueryInv, TypeOK, TablesOK
<1>15. LinesInv'
  BY <1>3, <1>4, <1>5 DEF IInv, LinesInv, filing, TypeOK, TablesOK
<1>16. ASSUME NEW s \in Requests, NEW t \in Requests, s # t
       PROVE  Exclusive(s, t)'
  <2>1. Exclusive(s, t) /\ Exclusive(t, s)
    BY <1>16 DEF IInv
  <2>2. CASE s = r
    BY <2>1, <2>2, <1>2, <1>8, <1>9, <1>16 DEF Exclusive
  <2>3. CASE t = r
    BY <2>1, <2>3, <1>2, <1>8, <1>9, <1>16 DEF Exclusive
  <2>4. CASE s # r /\ t # r
    BY <2>1, <2>4, <1>9 DEF Exclusive
  <2>. QED
    BY <2>2, <2>3, <2>4
<1>. QED
  BY <1>10, <1>12, <1>13, <1>14, <1>15, <1>16 DEF IInv

\* A new document is known to its upload only.
LEMMA InsertDocumentStep ==
    ASSUME IInv, NEW r \in Requests, InsertDocument(r)
    PROVE  IInv'
<1>1. req[r] \in RequestType /\ Fits(req[r]) /\ req[r].pc = "upload"
  BY DEF IInv, TypeOK, InsertDocument, At
<1>2. PICK d : d = req[r].doc
  OBVIOUS
<1>3. d \in Docs /\ docs[d].st = "none"
  BY <1>1, <1>2 DEF Fits
<1>4. /\ docs' = [docs EXCEPT ![d] = [NoDocument EXCEPT !.st = "submitted", !.ver = 1]]
      /\ versions' = [versions EXCEPT ![d] = [stored |-> {1}, current |-> 1]]
      /\ UNCHANGED <<records, checklist, queries, period, filing>>
  BY <1>2 DEF InsertDocument
<1>5. /\ docs' \in [Docs -> DocumentRow]
      /\ \A e \in Docs : e # d => docs'[e] = docs[e]
      /\ docs'[d].ver = 1 /\ docs'[d].st = "submitted"
  BY <1>3, <1>4 DEF IInv, TypeOK, TablesOK, DocumentRow, NoDocument, DocStatus
<1>6. /\ versions' \in [Docs -> [stored : SUBSET Nat, current : Nat]]
      /\ \A e \in Docs : e # d => versions'[e] = versions[e]
      /\ versions'[d].stored = 1..1
  BY <1>3, <1>4 DEF IInv, TypeOK, TablesOK
<1>7. PICK l \in RequestType :
          l = [req[r] EXCEPT !.pc = "sync", !.seen = "submitted"]
            /\ l.pc = "sync" /\ l.doc = d /\ l.seen = "submitted"
  <2>1. "sync" \in ProgramCounter /\ "submitted" \in AnyStatus
    BY DEF ProgramCounter, AnyStatus, DocStatus
  <2>2. /\ [req[r] EXCEPT !.pc = "sync", !.seen = "submitted"] \in RequestType
        /\ [req[r] EXCEPT !.pc = "sync", !.seen = "submitted"].pc = "sync"
        /\ [req[r] EXCEPT !.pc = "sync", !.seen = "submitted"].doc = d
        /\ [req[r] EXCEPT !.pc = "sync", !.seen = "submitted"].seen = "submitted"
    BY <1>1, <1>2, <2>1 DEF RequestType
  <2>. QED
    BY <2>2
<1>8. /\ req'[r] = l /\ req' = [req EXCEPT ![r] = req'[r]]
      /\ UNCHANGED <<started, restarts>>
      /\ \A s \in Requests : s # r => req'[s] = req[s]
  BY <1>7 DEF InsertDocument, Continue, IInv, TypeOK
<1>9. TypeOK'
  <2>1. TablesOK'
    BY <1>4, <1>5, <1>6 DEF IInv, TypeOK, TablesOK, filing, DocumentRow
  <2>. QED
    BY <1>8, <2>1, TypeStep DEF IInv, TypeOK
<1>10. ASSUME NEW s \in Requests, s # r
       PROVE  req[s].doc # d
  BY <1>1, <1>2, <1>10 DEF IInv, Exclusive
<1>11. ASSUME NEW s \in Requests
       PROVE  Fits(req[s])'
  <2>1. CASE s = r
    BY <2>1, <1>3, <1>5, <1>7, <1>8 DEF Fits, Replacing, Deciding, DocStatus
  <2>2. CASE s # r
    <3>1. /\ Fits(req[s]) /\ req'[s] = req[s] /\ req[s].doc # d
          /\ req[s].doc \in Docs \cup {Null}
      BY <2>2, <1>8, <1>10 DEF IInv, TypeOK, RequestType
    <3>. QED
      BY <3>1, <1>4, <1>5, <1>6 DEF Fits, OnDocument, Replacing
  <2>. QED
    BY <2>1, <2>2
<1>12. ASSUME NEW e \in Docs
       PROVE  DocInv(e)'
  <2>1. DocInv(e)
    BY DEF IInv
  <2>2. CASE e = d
    BY <2>2, <1>5, <1>6, BoundAssumption DEF DocInv
  <2>3. CASE e # d
    <3>1. ASSUME NEW s \in Requests, Stored(s, e)
          PROVE  Stored(s, e)'
      BY <2>3, <3>1, <1>1, <1>5, <1>8 DEF Stored
    <3>. QED
      BY <2>1, <2>3, <3>1, <1>4, <1>5, <1>6, <1>8 DEF DocInv
  <2>. QED
    BY <2>2, <2>3
<1>13. \A q \in Queries : QueryInv(q)'
  BY <1>4, <1>5 DEF IInv, QueryInv, TypeOK, TablesOK
<1>14. LinesInv'
  BY <1>4, <1>5 DEF IInv, LinesInv, filing, TypeOK, TablesOK
<1>15. ASSUME NEW s \in Requests, NEW t \in Requests, s # t
       PROVE  Exclusive(s, t)'
  <2>1. Exclusive(s, t) /\ Exclusive(t, s)
    BY <1>15 DEF IInv
  <2>2. CASE s = r
    BY <2>1, <2>2, <1>2, <1>7, <1>8, <1>15 DEF Exclusive
  <2>3. CASE t = r
    BY <2>1, <2>3, <1>2, <1>7, <1>8, <1>15 DEF Exclusive
  <2>4. CASE s # r /\ t # r
    BY <2>1, <2>4, <1>8 DEF Exclusive
  <2>. QED
    BY <2>2, <2>3, <2>4
<1>. QED
  BY <1>9, <1>11, <1>12, <1>13, <1>14, <1>15 DEF IInv

\* The statements that set the status or a flag of the handler's document.
LEMMA RowWrites ==
    ASSUME IInv, NEW r \in Requests,
           \/ WriteLock(r) \/ WriteArchived(r) \/ WriteDeleted(r)
           \/ WriteOpened(r) \/ MoveQueried(r)
    PROVE  IInv'
<1>1. req[r] \in RequestType /\ Fits(req[r]) /\ docs \in [Docs -> DocumentRow]
  BY DEF IInv, TypeOK, TablesOK, DocumentRow
<1>2. {"period", "idle"} \subseteq Free
  BY DEF Free, ProgramCounter, OnDocument, Deciding
<1>3. PICK d : d = req[r].doc
  OBVIOUS
<1>4. /\ req[r].pc \in {"lock", "archive", "delete", "open", "raise"}
      /\ UNCHANGED <<versions, records, checklist, queries, period, filing>>
      /\ \E pc \in {"period", "idle"} : Goto(r, pc) \/ Return(r)
  BY DEF WriteLock, WriteArchived, WriteDeleted, WriteOpened, MoveQueried, At
<1>5. d \in Docs /\ docs[d].st # "none" /\ docs[d] \in DocumentRow
  BY <1>1, <1>3, <1>4 DEF Fits, OnDocument
<1>6. \E row \in DocumentRow :
          /\ docs' = [docs EXCEPT ![d] = row]
          /\ row.ver = docs[d].ver /\ row.st # "none"
          /\ row.st = "verified" => docs[d].st = "verified"
  <2>1. CASE WriteLock(r)
    <3>. DEFINE row == [docs[d] EXCEPT !.locked = req[r].on]
    <3>1. row \in DocumentRow /\ row.ver = docs[d].ver /\ row.st = docs[d].st
      BY <1>1, <1>5, LocalTypes DEF DocumentRow
    <3>2. docs' = [docs EXCEPT ![d] = row]
      BY <2>1, <1>1, <1>3, <1>5 DEF WriteLock
    <3>. QED
      BY <3>1, <3>2, <1>5
  <2>2. CASE WriteDeleted(r)
    <3>. DEFINE row == [docs[d] EXCEPT !.deleted = TRUE]
    <3>1. row \in DocumentRow /\ row.ver = docs[d].ver /\ row.st = docs[d].st
      BY <1>5 DEF DocumentRow
    <3>2. docs' = [docs EXCEPT ![d] = row]
      BY <2>2, <1>1, <1>3, <1>5 DEF WriteDeleted
    <3>. QED
      BY <3>1, <3>2, <1>5
  <2>3. CASE WriteArchived(r)
    <3>. DEFINE row == [docs[d] EXCEPT !.st = "archived", !.locked = TRUE]
    <3>1. row \in DocumentRow /\ row.ver = docs[d].ver /\ row.st = "archived"
      BY <1>5 DEF DocumentRow, DocStatus
    <3>2. docs' = [docs EXCEPT ![d] = row]
      BY <2>3, <1>1, <1>3, <1>5 DEF WriteArchived
    <3>. QED
      BY <3>1, <3>2
  <2>4. CASE WriteOpened(r)
    <3>. DEFINE row == [docs[d] EXCEPT !.st = "under_review"]
    <3>1. row \in DocumentRow /\ row.ver = docs[d].ver /\ row.st = "under_review"
      BY <1>5 DEF DocumentRow, DocStatus
    <3>2. docs' = [docs EXCEPT ![d] = row]
      BY <2>4, <1>1, <1>3, <1>5 DEF WriteOpened, SetStatus
    <3>. QED
      BY <3>1, <3>2
  <2>5. CASE MoveQueried(r)
    <3>. DEFINE row == [docs[d] EXCEPT !.st = "query_raised"]
    <3>1. row \in DocumentRow /\ row.ver = docs[d].ver /\ row.st = "query_raised"
      BY <1>5 DEF DocumentRow, DocStatus
    <3>2. docs' = [docs EXCEPT ![d] = row]
      BY <2>5, <1>1, <1>3, <1>5 DEF MoveQueried, SetStatus
    <3>. QED
      BY <3>1, <3>2
  <2>. QED
    BY <2>1, <2>2, <2>3, <2>4, <2>5
<1>. QED
  BY <1>2, <1>3, <1>4, <1>5, <1>6, UpdateRow

\* A status of a query changes; its document does not.
LEMMA QueryWrites ==
    ASSUME IInv, NEW r \in Requests, NEW pc \in Free,
           Goto(r, pc) \/ Return(r), req[r].pc # "replace",
           NEW q, NEW st \in QueryStatus,
           queries' = [queries EXCEPT ![q].st = st],
           UNCHANGED <<documents, period, filing>>
    PROVE  IInv'
<1>1. /\ queries' \in [Queries -> [st : QueryStatus, doc : Docs \cup {Null}]]
      /\ \A p \in Queries : queries'[p].doc = queries[p].doc
  BY DEF IInv, TypeOK, TablesOK
<1>2. TablesOK'
  BY <1>1 DEF IInv, TypeOK, TablesOK, documents, filing
<1>3. \A p \in Queries : QueryInv(p)'
  BY <1>1 DEF IInv, QueryInv, documents
<1>4. LinesInv'
  BY DEF IInv, LinesInv, documents, filing
<1>. QED
  BY <1>2, <1>3, <1>4, GotoFiling DEF documents

LEMMA RespondStep ==
    ASSUME IInv, NEW r \in Requests, RespondQuery(r) \/ WriteReopened(r)
    PROVE  IInv'
<1>1. "idle" \in Free /\ "client_responded" \in QueryStatus /\ "under_review" \in QueryStatus
  BY DEF Free, ProgramCounter, OnDocument, Deciding, QueryStatus
<1>2. /\ req[r].pc # "replace" /\ Return(r) /\ UNCHANGED <<documents, period, filing>>
      /\ \E st \in {"client_responded", "under_review"} :
            queries' = [queries EXCEPT ![req[r].qry].st = st]
  BY DEF RespondQuery, WriteReopened, At
<1>. QED
  BY <1>1, <1>2, QueryWrites

LEMMA DocumentStepsInv ==
    ASSUME IInv, NEW r \in Requests, DocumentSteps(r)
    PROVE  IInv'
<1>1. CASE AbortUpload(r)
  <2>1. /\ Return(r) /\ UNCHANGED <<documents, queries, period, filing>>
        /\ req[r].pc # "replace"
    BY <1>1 DEF AbortUpload, At
  <2>2. "idle" \in Free
    BY DEF Free, ProgramCounter, OnDocument, Deciding
  <2>. QED
    BY <2>1, <2>2, GotoRead
<1>. QED
  BY <1>1, UploadStep, OnDocumentBegins, ReplaceBegins, InsertDocumentStep, RereadStep,
     SyncStep, ClearStep, InsertStep, ReplacedStep, RespondStep, RowWrites
  DEF DocumentSteps

-----------------------------------------------------------------------------
(***************************************************************************)
(* verification.js                                                         *)
(***************************************************************************)

\* A decision starts; the version it names is the one just read.
LEMMA DecideBegins ==
    ASSUME IInv, NEW r \in Requests, NEW d \in Docs, docs[d].st # "none",
           NEW l \in RequestType, Begin(r, l), l.pc = "record", l.doc = d,
           l.next \in Targets, l.ver = docs[d].ver
    PROVE  IInv'
<1>1. l.ver \in 1..MaxVersions
  BY DEF IInv, DocInv
<1>2. Fits(l)
  BY <1>1 DEF Fits, Replacing, Deciding
<1>. QED
  BY <1>2, BeginStep

LEMMA DecideStep ==
    ASSUME IInv, NEW r \in Requests, NEW d \in Docs, NEW target \in Targets,
           NEW q \in Queries \cup {Null}, NEW on \in BOOLEAN,
           Decide(r, d, target, q, on)
    PROVE  IInv'
<1>. DEFINE op == IF q = Null THEN "none" ELSE "raise"
            l == [IdleRequest EXCEPT !.pc = "record", !.doc = d, !.qry = q,
                    !.next = target, !.on = on, !.ver = docs[d].ver, !.op = op]
<1>1. docs[d].st # "none" /\ Begin(r, l) /\ docs[d].ver \in Nat
  BY DEF Decide, IInv, TypeOK, TablesOK
<1>2. "record" \in ProgramCounter /\ op \in Operation /\ target \in AnyStatus
  BY DEF ProgramCounter, Operation, AnyStatus, Targets, DocStatus
<1>. HIDE DEF op
<1>3. /\ l \in RequestType /\ l.pc = "record" /\ l.doc = d /\ l.next = target
      /\ l.ver = docs[d].ver
  BY <1>1, <1>2, IdleTyped DEF RequestType
<1>. HIDE DEF l
<1>. QED
  BY <1>1, <1>3, DecideBegins

LEMMA DecideBulkStep ==
    ASSUME IInv, NEW r \in Requests, NEW d \in Docs,
           NEW target \in {"verified", "rejected"}, DecideBulk(r, d, target)
    PROVE  IInv'
<1>. DEFINE l == [IdleRequest EXCEPT !.pc = "record", !.doc = d,
                    !.next = target, !.ver = docs[d].ver]
<1>1. docs[d].st # "none" /\ Begin(r, l) /\ docs[d].ver \in Nat
  BY DEF DecideBulk, Visible, IInv, TypeOK, TablesOK
<1>2. "record" \in ProgramCounter /\ target \in AnyStatus /\ target \in Targets
  BY DEF ProgramCounter, AnyStatus, Targets, DocStatus
<1>3. /\ l \in RequestType /\ l.pc = "record" /\ l.doc = d /\ l.next = target
      /\ l.ver = docs[d].ver
  BY <1>1, <1>2, IdleTyped DEF RequestType
<1>. HIDE DEF l
<1>. QED
  BY <1>1, <1>2, <1>3, DecideBegins

\* The record is there before the decision is.
LEMMA RecordStep ==
    ASSUME IInv, NEW r \in Requests, InsertRecord(r)
    PROVE  IInv'
<1>1. req[r] \in RequestType /\ Fits(req[r]) /\ req[r].pc = "record"
  BY DEF IInv, TypeOK, InsertRecord, At
<1>2. /\ req[r].doc \in Docs /\ docs[req[r].doc].st # "none"
      /\ req[r].next \in Targets /\ req[r].ver \in 1..MaxVersions
  BY <1>1 DEF Fits, OnDocument
<1>3. /\ records' = IF req[r].next = "verified"
                    THEN records \cup {<<req[r].doc, req[r].ver>>} ELSE records
      /\ UNCHANGED <<docs, versions, checklist, queries, period, filing>>
  BY DEF InsertRecord
<1>4. PICK l \in RequestType :
          l = [req[r] EXCEPT !.pc = "decide"] /\ l.pc = "decide" /\ l.doc = req[r].doc
            /\ l.ver = req[r].ver /\ l.next = req[r].next
  <2>1. "decide" \in ProgramCounter
    BY DEF ProgramCounter
  <2>. QED
    BY <1>1, <2>1, GotoTyped
<1>5. req'[r] = l /\ req' = [req EXCEPT ![r] = req'[r]] /\ UNCHANGED <<started, restarts>>
  BY <1>4 DEF InsertRecord, Goto, Continue, IInv, TypeOK
<1>6. records \subseteq records' /\ records' \in SUBSET (Docs \X Nat)
  BY <1>2, <1>3 DEF IInv, TypeOK, TablesOK
<1>7. TablesOK'
  BY <1>3, <1>6 DEF IInv, TypeOK, TablesOK, filing
<1>8. TypeOK'
  BY <1>5, <1>7, TypeStep DEF IInv, TypeOK
<1>9. Fits(req[r])'
  BY <1>2, <1>3, <1>4, <1>5 DEF Fits, Replacing, Deciding
<1>10. (\A q \in Queries : QueryInv(q)') /\ LinesInv'
  BY <1>3 DEF IInv, QueryInv, LinesInv, filing
<1>11. ASSUME NEW s \in Requests, s # r, req[s].pc = "upload"
       PROVE  req'[r].doc # req[s].doc
  BY <1>4, <1>5, <1>11 DEF IInv, Exclusive
<1>. QED
  BY <1>1, <1>3, <1>4, <1>5, <1>6, <1>8, <1>9, <1>10, <1>11, PlainStep

LEMMA DecisionStep ==
    ASSUME IInv, NEW r \in Requests, WriteDecision(r)
    PROVE  IInv'
<1>1. /\ req[r] \in RequestType /\ Fits(req[r]) /\ docs \in [Docs -> DocumentRow]
      /\ req[r].pc = "decide" /\ Goto(r, "reread")
      /\ UNCHANGED <<versions, records, checklist, queries, period, filing>>
  BY DEF IInv, TypeOK, TablesOK, DocumentRow, WriteDecision, At
<1>2. PICK d : d = req[r].doc
  OBVIOUS
<1>3. /\ d \in Docs /\ docs[d].st # "none" /\ docs[d] \in DocumentRow
      /\ req[r].next \in Targets /\ req[r].ver \in 1..MaxVersions
      /\ req[r].next = "verified" => <<d, req[r].ver>> \in records
  BY <1>1, <1>2 DEF Fits, OnDocument
<1>4. PICK lk \in BOOLEAN : lk = (docs[d].locked \/ req[r].on)
  BY <1>1, <1>3, LocalTypes DEF DocumentRow
<1>5. docs' = [docs EXCEPT ![d].st = req[r].next, ![d].locked = lk]
  BY <1>1, <1>2, <1>3, <1>4 DEF WriteDecision
<1>. DEFINE row == [docs[d] EXCEPT !.st = req[r].next, !.locked = lk]
<1>6. row \in DocumentRow /\ row.ver = docs[d].ver /\ row.st = req[r].next
  BY <1>3 DEF DocumentRow, DocStatus, Targets
<1>7. docs' = [docs EXCEPT ![d] = row]
  BY <1>1, <1>3, <1>5
<1>8. req[r].next # "none"
  BY <1>3 DEF Targets
<1>. HIDE DEF row
<1>. QED
  BY <1>1, <1>2, <1>3, <1>6, <1>7, <1>8, UpdateRow

LEMMA VerificationStepsInv ==
    ASSUME IInv, NEW r \in Requests, VerificationSteps(r)
    PROVE  IInv'
BY OnDocumentBegins, DecideStep, DecideBulkStep, RowWrites, RecordStep, DecisionStep
   DEF VerificationSteps

-----------------------------------------------------------------------------
(***************************************************************************)
(* queries.js                                                              *)
(***************************************************************************)

LEMMA AskBegins ==
    ASSUME IInv, NEW r \in Requests, NEW q \in Queries,
           NEW d \in Docs \cup {Null}, AskQuery(r, q, d)
    PROVE  IInv'
<1>. DEFINE seen == IF d = Null THEN "none" ELSE docs[d].st
            l == [IdleRequest EXCEPT !.pc = "query", !.op = "ask",
                    !.qry = q, !.doc = d, !.seen = seen]
<1>1. Begin(r, l) /\ (d # Null => docs[d].st # "none")
  BY DEF AskQuery
<1>2. "query" \in ProgramCounter /\ "ask" \in Operation /\ seen \in AnyStatus
  BY DEF ProgramCounter, Operation, AnyStatus, DocStatus, IInv, TypeOK, TablesOK
<1>. HIDE DEF seen
<1>3. l \in RequestType /\ l.pc = "query" /\ l.doc = d
  BY <1>2, IdleTyped DEF RequestType
<1>. HIDE DEF l
<1>4. Fits(l)
  BY <1>1, <1>3 DEF Fits, OnDocument, Replacing, Deciding
<1>. QED
  BY <1>1, <1>3, <1>4, BeginStep

\* A query about the document of the handler, which exists.
LEMMA InsertQueryStep ==
    ASSUME IInv, NEW r \in Requests, InsertQuery(r)
    PROVE  IInv'
<1>1. req[r] \in RequestType /\ Fits(req[r]) /\ req[r].pc = "query"
  BY DEF IInv, TypeOK, InsertQuery, At
<1>2. /\ req[r].doc \in Docs \cup {Null}
      /\ req[r].doc # Null => docs[req[r].doc].st # "none"
  BY <1>1, LocalTypes DEF Fits
<1>3. /\ queries' = [queries EXCEPT ![req[r].qry] =
                        [st |-> "awaiting_client", doc |-> req[r].doc]]
      /\ UNCHANGED <<documents, period, filing>>
  BY DEF InsertQuery
<1>4. queries' \in [Queries -> [st : QueryStatus, doc : Docs \cup {Null}]]
  <2>1. "awaiting_client" \in QueryStatus
    BY DEF QueryStatus
  <2>. QED
    BY <2>1, <1>2, <1>3 DEF IInv, TypeOK, TablesOK
<1>5. TablesOK'
  BY <1>3, <1>4 DEF IInv, TypeOK, TablesOK, documents, filing
<1>6. \A q \in Queries : QueryInv(q)'
  BY <1>2, <1>3 DEF IInv, QueryInv, documents, TypeOK, TablesOK
<1>7. LinesInv' /\ UNCHANGED <<docs, versions, records>>
  BY <1>3 DEF IInv, LinesInv, documents, filing
<1>8. CASE Goto(r, "period") \/ Return(r)
  <2>1. "period" \in Free
    BY DEF Free, ProgramCounter, OnDocument, Deciding
  <2>. QED
    BY <2>1, <1>1, <1>5, <1>6, <1>7, <1>8, GotoFiling
<1>9. CASE Goto(r, "raise") /\ req[r].doc # Null
  <2>. DEFINE l == [req[r] EXCEPT !.pc = "raise"]
  <2>1. "raise" \in ProgramCounter
    BY DEF ProgramCounter
  <2>2. l \in RequestType /\ l.pc = "raise" /\ l.doc = req[r].doc
    BY <1>1, <2>1, GotoTyped
  <2>3. Continue(r, l)
    BY <1>9 DEF Goto
  <2>. HIDE DEF l
  <2>4. Fits(l)
    BY <1>2, <1>9, <2>2 DEF Fits, Replacing, Deciding
  <2>. QED
    BY <1>1, <1>5, <1>6, <1>7, <2>2, <2>3, <2>4, FilingStep
<1>. QED
  BY <1>8, <1>9 DEF InsertQuery

LEMMA ReplyBegins ==
    ASSUME IInv, NEW r \in Requests, NEW q \in Queries,
           NEW author \in {"client", "staff", "note", "resolver"},
           Reply(r, q, author)
    PROVE  IInv'
<1>1. PICK st : st = Replied(queries[q].st, author)
  OBVIOUS
<1>2. st \in QueryStatus
  BY <1>1 DEF Replied, QueryStatus, IInv, TypeOK, TablesOK
<1>3. PICK on \in BOOLEAN : on = (\/ author \in {"client", "resolver"}
                                  \/ Replied(queries[q].st, author) # queries[q].st)
  OBVIOUS
<1>. DEFINE l == [IdleRequest EXCEPT !.pc = "reply", !.qry = q, !.next = st, !.on = on]
<1>4. Begin(r, l)
  BY <1>1, <1>3 DEF Reply
<1>5. "reply" \in ProgramCounter /\ st \in AnyStatus
  BY <1>2 DEF ProgramCounter, AnyStatus
<1>6. l \in RequestType /\ l.pc = "reply" /\ l.doc = Null /\ l.next = st
  BY <1>5, IdleTyped, IdleFits DEF RequestType
<1>. HIDE DEF l
<1>7. Fits(l)
  BY <1>2, <1>6 DEF Fits, OnDocument, Replacing, Deciding
<1>. QED
  BY <1>4, <1>6, <1>7, BeginStep

LEMMA WriteReplyStep ==
    ASSUME IInv, NEW r \in Requests, WriteReply(r)
    PROVE  IInv'
<1>1. /\ req[r] \in RequestType /\ Fits(req[r]) /\ req[r].pc = "reply" /\ Return(r)
      /\ UNCHANGED <<documents, period, filing>>
  BY DEF IInv, TypeOK, WriteReply, At
<1>2. "idle" \in Free
  BY DEF Free, ProgramCounter, OnDocument, Deciding
<1>3. CASE req[r].on
  <2>1. queries' = [queries EXCEPT ![req[r].qry].st = req[r].next]
    BY <1>3 DEF WriteReply
  <2>2. req[r].next \in QueryStatus
    BY <1>1 DEF Fits
  <2>. QED
    BY <1>1, <1>2, <2>1, <2>2, QueryWrites
<1>4. CASE ~req[r].on
  <2>1. queries' = queries
    BY <1>4 DEF WriteReply, IInv, TypeOK, TablesOK
  <2>. QED
    BY <1>1, <1>2, <2>1, GotoRead
<1>. QED
  BY <1>3, <1>4

LEMMA ResolveBegins ==
    ASSUME IInv, NEW r \in Requests, NEW q \in Queries,
           (\E on \in BOOLEAN : ResolveQuery(r, q, on)) \/ ReopenQuery(r, q)
    PROVE  IInv'
<1>1. ASSUME NEW on \in BOOLEAN, ResolveQuery(r, q, on)
      PROVE  IInv'
  <2>. DEFINE l == [IdleRequest EXCEPT !.pc = "resolve", !.op = "resolve",
                    !.qry = q, !.doc = queries[q].doc, !.on = on]
  <2>1. Begin(r, l)
    BY <1>1 DEF ResolveQuery
  <2>2. queries[q].doc \in Docs \cup {Null} /\ QueryInv(q)
    BY DEF IInv, TypeOK, TablesOK
  <2>3. l \in RequestType /\ l.pc = "resolve" /\ l.doc = queries[q].doc
    <3>1. "resolve" \in ProgramCounter /\ "resolve" \in Operation
      BY DEF ProgramCounter, Operation
    <3>. QED
      BY <3>1, <2>2, IdleTyped DEF RequestType
  <2>. HIDE DEF l
  <2>4. Fits(l)
    BY <2>2, <2>3 DEF Fits, OnDocument, Replacing, Deciding, QueryInv
  <2>. QED
    BY <2>1, <2>2, <2>3, <2>4, BeginStep DEF QueryInv
<1>2. CASE ReopenQuery(r, q)
  <2>. DEFINE l == [IdleRequest EXCEPT !.pc = "reopen", !.qry = q]
  <2>1. "reopen" \in Free /\ "reopen" \in ProgramCounter
    BY DEF Free, ProgramCounter, OnDocument, Deciding
  <2>2. l \in RequestType /\ l.pc = "reopen" /\ l.doc = Null
    BY <2>1, IdleTyped, IdleFits DEF RequestType
  <2>3. Begin(r, l)
    BY <1>2 DEF ReopenQuery
  <2>. HIDE DEF l
  <2>. QED
    BY <2>1, <2>2, <2>3, BeginFree
<1>. QED
  BY <1>1, <1>2

\* The handler goes on to release the document of its query.
LEMMA ResolvedStep ==
    ASSUME IInv, NEW r \in Requests, WriteResolved(r)
    PROVE  IInv'
<1>1. req[r] \in RequestType /\ Fits(req[r]) /\ req[r].pc = "resolve"
  BY DEF IInv, TypeOK, WriteResolved, At
<1>2. /\ req[r].doc \in Docs \cup {Null}
      /\ req[r].doc # Null => docs[req[r].doc].st # "none"
  BY <1>1, LocalTypes DEF Fits
<1>3. /\ queries' = [queries EXCEPT ![req[r].qry].st = "resolved"]
      /\ UNCHANGED <<documents, period, filing>>
  BY DEF WriteResolved
<1>4. "period" \in Free /\ "resolved" \in QueryStatus /\ "release" \in ProgramCounter
  BY DEF Free, ProgramCounter, OnDocument, Deciding, QueryStatus
<1>5. CASE Goto(r, "period")
  BY <1>1, <1>3, <1>4, <1>5, QueryWrites
<1>6. CASE Goto(r, "release") /\ req[r].doc # Null
  <2>. DEFINE l == [req[r] EXCEPT !.pc = "release"]
  <2>1. l \in RequestType /\ l.pc = "release" /\ l.doc = req[r].doc
    BY <1>1, <1>4, GotoTyped
  <2>2. Continue(r, l)
    BY <1>6 DEF Goto
  <2>. HIDE DEF l
  <2>3. Fits(l)
    BY <1>2, <1>6, <2>1 DEF Fits, Replacing, Deciding
  <2>4. /\ queries' \in [Queries -> [st : QueryStatus, doc : Docs \cup {Null}]]
        /\ \A p \in Queries : queries'[p].doc = queries[p].doc
    <3>1. queries \in [Queries -> [st : QueryStatus, doc : Docs \cup {Null}]]
      BY DEF IInv, TypeOK, TablesOK
    <3>. QED
      BY <1>3, <1>4, <3>1
  <2>5. TablesOK'
    BY <1>3, <2>4 DEF IInv, TypeOK, TablesOK, documents, filing
  <2>6. (\A p \in Queries : QueryInv(p)') /\ LinesInv'
    BY <1>3, <2>4 DEF IInv, QueryInv, LinesInv, documents, filing
  <2>7. UNCHANGED <<docs, versions, records>>
    BY <1>3 DEF documents
  <2>. QED
    BY <1>1, <2>1, <2>2, <2>3, <2>5, <2>6, <2>7, FilingStep
<1>. QED
  BY <1>5, <1>6 DEF WriteResolved

LEMMA ReleaseSteps ==
    ASSUME IInv, NEW r \in Requests, ReadReleased(r) \/ WriteReleased(r)
    PROVE  IInv'
<1>1. req[r] \in RequestType /\ Fits(req[r])
  BY DEF IInv, TypeOK
<1>2. CASE ReadReleased(r)
  <2>0. /\ req[r].pc = "release" /\ UNCHANGED <<documents, queries, period, filing>>
        /\ Goto(r, "released") \/ Goto(r, "period")
    BY <1>2 DEF ReadReleased, At
  <2>1. "period" \in Free /\ "released" \in ProgramCounter
    BY DEF Free, ProgramCounter, OnDocument, Deciding
  <2>2. CASE Goto(r, "period")
    BY <2>0, <2>1, <2>2, GotoRead
  <2>3. CASE Goto(r, "released")
    <3>. DEFINE l == [req[r] EXCEPT !.pc = "released"]
    <3>1. l \in RequestType /\ l.pc = "released" /\ l.doc = req[r].doc
      BY <1>1, <2>1, GotoTyped
    <3>2. Continue(r, l)
      BY <2>3 DEF Goto
    <3>. HIDE DEF l
    <3>3. Fits(l)
      BY <1>1, <2>0, <3>1 DEF Fits, OnDocument, Replacing, Deciding
    <3>. QED
      BY <2>0, <3>1, <3>2, <3>3, ReadStep
  <2>. QED
    BY <2>0, <2>2, <2>3
<1>3. CASE WriteReleased(r)
  <2>0. /\ req[r].pc = "released"
        /\ docs' = [docs EXCEPT ![req[r].doc].st = "under_review"]
        /\ UNCHANGED <<versions, records, checklist, queries, period, filing>>
    BY <1>3 DEF WriteReleased, At, SetStatus
  <2>1. req[r].doc \in Docs /\ docs[req[r].doc].st # "none"
    BY <1>1, <2>0 DEF Fits, OnDocument
  <2>2. PICK l \in RequestType :
            l = [req[r] EXCEPT !.pc = "period", !.op = "release"]
              /\ l.pc = "period" /\ l.doc = req[r].doc
    <3>1. "period" \in ProgramCounter /\ "release" \in Operation
      BY DEF ProgramCounter, Operation
    <3>2. /\ [req[r] EXCEPT !.pc = "period", !.op = "release"] \in RequestType
          /\ [req[r] EXCEPT !.pc = "period", !.op = "release"].pc = "period"
          /\ [req[r] EXCEPT !.pc = "period", !.op = "release"].doc = req[r].doc
      BY <1>1, <3>1 DEF RequestType
    <3>. QED
      BY <3>2
  <2>3. Continue(r, l)
    BY <1>3, <2>2 DEF WriteReleased
  <2>4. Fits(l)' /\ l.pc \notin {"replace", "upload"}
    BY <2>2, FreeFits DEF Free, ProgramCounter, OnDocument, Deciding
  <2>5. /\ docs' \in [Docs -> DocumentRow]
        /\ \A d \in Docs :
              /\ docs'[d].ver = docs[d].ver
              /\ docs'[d].st = "none" <=> docs[d].st = "none"
              /\ docs'[d].st = "verified" => docs[d].st = "verified"
    <3>1. "under_review" \in DocStatus /\ docs \in [Docs -> DocumentRow]
      BY DEF IInv, TypeOK, TablesOK, DocumentRow, DocStatus
    <3>2. docs' \in [Docs -> DocumentRow]
      BY <2>0, <3>1 DEF DocumentRow
    <3>. QED
      BY <2>0, <2>1, <3>1, <3>2 DEF DocumentRow
  <2>. QED
    BY <2>0, <2>2, <2>3, <2>4, <2>5, UpdateRows
<1>. QED
  BY <1>2, <1>3

LEMMA QueryStepsInv ==
    ASSUME IInv, NEW r \in Requests, QuerySteps(r)
    PROVE  IInv'
BY AskBegins, ReplyBegins, ResolveBegins, InsertQueryStep, RowWrites, WriteReplyStep,
   ResolvedStep, ReleaseSteps, RespondStep
   DEF QuerySteps

-----------------------------------------------------------------------------
(***************************************************************************)
(* tax.js, tax-engine.js and reports.js                                    *)
(***************************************************************************)

PeriodRow == [st : Derivable \cup Terminal, received : Nat, verified : Nat]
CompRow == [st : CompStatus, lines : SUBSET Docs, basis : SUBSET Docs,
            counted : SUBSET Docs]
ReportRow == [st : ReportStatus, linked : BOOLEAN, figures : SUBSET Docs]

\* Where a handler of these modules may go from where it stands.
LEMMA Moves ==
    ASSUME IInv, NEW r \in Requests, NEW pc, Goto(r, pc) \/ Return(r),
           pc \in Free \/ (pc \in Deciding /\ req[r].pc \in Deciding)
    PROVE  \E l \in RequestType :
              /\ Continue(r, l) /\ Fits(l) /\ l.pc \notin {"replace", "upload"}
              /\ l.doc \in {req[r].doc, Null}
<1>1. req[r] \in RequestType /\ Fits(req[r])
  BY DEF IInv, TypeOK
<1>2. CASE Goto(r, pc)
  <2>. DEFINE l == [req[r] EXCEPT !.pc = pc]
  <2>1. pc \in ProgramCounter
    BY DEF Free, Deciding, ProgramCounter
  <2>2. /\ l \in RequestType /\ l.pc = pc /\ l.doc = req[r].doc
        /\ l.next = req[r].next
    BY <1>1, <2>1, GotoTyped
  <2>3. Continue(r, l)
    BY <1>2 DEF Goto
  <2>. HIDE DEF l
  <2>4. Fits(l) /\ l.pc \notin {"replace", "upload"}
    <3>1. CASE pc \in Free
      BY <2>2, <3>1, FreeFits
    <3>2. CASE pc \in Deciding /\ req[r].pc \in Deciding
      BY <1>1, <2>2, <3>2 DEF Fits, OnDocument, Replacing, Deciding
    <3>. QED
      BY <3>1, <3>2
  <2>. QED
    BY <2>2, <2>3, <2>4
<1>3. CASE Return(r)
  BY <1>3, IdleFits, IdleTyped DEF Return
<1>. QED
  BY <1>2, <1>3

\* A statement that writes the period, the computation, the report or an
\* approval.
LEMMA FilingWrites ==
    ASSUME IInv, NEW r \in Requests, NEW pc, Goto(r, pc) \/ Return(r),
           pc \in Free \/ (pc \in Deciding /\ req[r].pc \in Deciding),
           req[r].pc # "replace", UNCHANGED <<documents, queries>>,
           period' \in PeriodRow, comp' \in CompRow, report' \in ReportRow,
           approvals' \in [Approvals -> ApprovalStatus],
           \A d \in comp'.lines : docs[d].st # "none"
    PROVE  IInv'
<1>1. PICK l \in RequestType :
          /\ Continue(r, l) /\ Fits(l) /\ l.pc \notin {"replace", "upload"}
          /\ l.doc \in {req[r].doc, Null}
  BY Moves
<1>2. TablesOK'
  BY DEF IInv, TypeOK, TablesOK, documents, PeriodRow, CompRow, ReportRow
<1>3. (\A q \in Queries : QueryInv(q)') /\ LinesInv'
  BY DEF IInv, QueryInv, LinesInv, documents
<1>4. UNCHANGED <<docs, versions, records>>
  BY DEF documents
<1>. QED
  BY <1>1, <1>2, <1>3, <1>4, FilingStep

LEMMA FilingTypes ==
    ASSUME IInv
    PROVE  /\ period \in PeriodRow /\ comp \in CompRow /\ report \in ReportRow
           /\ approvals \in [Approvals -> ApprovalStatus]
           /\ comp.lines \in SUBSET Docs
           /\ \A d \in comp.lines : docs[d].st # "none"
BY DEF IInv, TypeOK, TablesOK, PeriodRow, CompRow, ReportRow, LinesInv

\* Requests about the computation or the report.
LEMMA FilingBegins ==
    ASSUME IInv, NEW r \in Requests,
           \/ RunComputation(r) \/ Finalise(r) \/ ArchiveReport(r) \/ SettleInvoice(r)
           \/ \E accepted \in BOOLEAN : SignOff(r, accepted)
           \/ \E a \in Approvals : Submit(r, a)
           \/ \E linked \in BOOLEAN : Generate(r, linked)
    PROVE  IInv'
<1>1. {"gather", "finalise", "archiveReport", "paid", "signOff", "clientReject",
       "submit", "generate"} \subseteq Free \cap ProgramCounter
  BY DEF Free, ProgramCounter, OnDocument, Deciding
<1>2. ASSUME NEW pc \in {"gather", "finalise", "archiveReport", "paid", "signOff",
                         "clientReject"},
             Begin(r, [IdleRequest EXCEPT !.pc = pc])
      PROVE  IInv'
  <2>. DEFINE l == [IdleRequest EXCEPT !.pc = pc]
  <2>1. l \in RequestType /\ l.pc = pc /\ l.doc = Null
    BY <1>1, IdleTyped, IdleFits, GotoTyped
  <2>2. Begin(r, l)
    BY <1>2
  <2>. HIDE DEF l
  <2>. QED
    BY <1>1, <2>1, <2>2, BeginFree
<1>3. ASSUME NEW a \in Approvals, Submit(r, a)
      PROVE  IInv'
  <2>. DEFINE l == [IdleRequest EXCEPT !.pc = "submit", !.row = a]
  <2>1. l \in RequestType /\ l.pc = "submit" /\ l.doc = Null
    BY <1>1, IdleTyped, IdleFits DEF RequestType
  <2>2. Begin(r, l)
    BY <1>3 DEF Submit
  <2>. HIDE DEF l
  <2>. QED
    BY <1>1, <2>1, <2>2, BeginFree
<1>4. ASSUME NEW linked \in BOOLEAN, Generate(r, linked)
      PROVE  IInv'
  <2>1. PICK used \in SUBSET Docs : used = IF linked THEN comp.lines ELSE {}
    BY FilingTypes
  <2>. DEFINE l == [IdleRequest EXCEPT !.pc = "generate", !.on = linked, !.used = used]
  <2>2. l \in RequestType /\ l.pc = "generate" /\ l.doc = Null
    BY <1>1, IdleTyped, IdleFits DEF RequestType
  <2>3. Begin(r, l)
    BY <1>4, <2>1 DEF Generate
  <2>. HIDE DEF l
  <2>. QED
    BY <1>1, <2>2, <2>3, BeginFree
<1>5. ASSUME NEW accepted \in BOOLEAN, SignOff(r, accepted)
      PROVE  IInv'
  <2>1. CASE accepted
    BY <2>1, <1>2, <1>5 DEF SignOff
  <2>2. CASE ~accepted
    BY <2>2, <1>2, <1>5 DEF SignOff
  <2>. QED
    BY <2>1, <2>2
<1>6. RunComputation(r) \/ Finalise(r) \/ ArchiveReport(r) \/ SettleInvoice(r) => IInv'
  BY <1>2 DEF RunComputation, Finalise, ArchiveReport, SettleInvoice
<1>. QED
  BY <1>3, <1>4, <1>5, <1>6

LEMMA TaxReads ==
    ASSUME IInv, NEW r \in Requests,
           GatherVerified(r) \/ ReadLines(r) \/ ReadForAdvance(r)
    PROVE  IInv'
<1>1. req[r] \in RequestType
  BY DEF IInv, TypeOK
<1>2. {"lines", "compute", "calculated"} \subseteq Free \cap ProgramCounter
  BY DEF Free, ProgramCounter, OnDocument, Deciding
<1>3. UNCHANGED <<documents, queries, period, filing>> /\ req[r].pc # "replace"
  BY DEF GatherVerified, ReadLines, ReadForAdvance, At
<1>4. CASE GatherVerified(r)
  <2>1. PICK used \in SUBSET Docs : used = {d \in Live : docs[d].st \in Verified}
    BY DEF Live
  <2>. DEFINE l == [req[r] EXCEPT !.pc = "lines", !.used = used]
  <2>2. l \in RequestType /\ l.pc = "lines" /\ l.doc = req[r].doc
    BY <1>1, <1>2 DEF RequestType
  <2>3. Continue(r, l)
    BY <1>4, <2>1 DEF GatherVerified
  <2>. HIDE DEF l
  <2>4. Fits(l) /\ l.pc \notin {"replace", "upload"}
    BY <1>2, <2>2, FreeFits
  <2>. QED
    BY <1>3, <2>2, <2>3, <2>4, ReadStep
<1>5. CASE ReadLines(r)
  <2>. DEFINE l == [req[r] EXCEPT !.pc = "compute", !.lines = comp.lines]
  <2>2. l \in RequestType /\ l.pc = "compute" /\ l.doc = req[r].doc
    BY <1>1, <1>2, FilingTypes DEF RequestType
  <2>3. Continue(r, l)
    BY <1>5 DEF ReadLines
  <2>. HIDE DEF l
  <2>4. Fits(l) /\ l.pc \notin {"replace", "upload"}
    BY <1>2, <2>2, FreeFits
  <2>. QED
    BY <1>3, <2>2, <2>3, <2>4, ReadStep
<1>6. CASE ReadForAdvance(r)
  <2>1. Goto(r, "calculated") \/ Return(r)
    BY <1>6 DEF ReadForAdvance
  <2>. QED
    BY <1>2, <1>3, <2>1, GotoRead
<1>. QED
  BY <1>4, <1>5, <1>6

\* The statements that write the computation.
LEMMA CompWrites ==
    ASSUME IInv, NEW r \in Requests,
           WriteComputation(r) \/ WriteFinal(r) \/ WriteLine(r) \/ MarkStale(r)
    PROVE  IInv'
<1>1. req[r] \in RequestType /\ Fits(req[r])
  BY DEF IInv, TypeOK
<1>2. {"advance", "stale", "idle"} \subseteq Free
  BY DEF Free, ProgramCounter, OnDocument, Deciding
<1>3. /\ UNCHANGED <<documents, queries, period, report, approvals>>
      /\ req[r].pc # "replace"
      /\ \E pc \in {"advance", "stale", "idle"} : Goto(r, pc) \/ Return(r)
  BY DEF WriteComputation, WriteFinal, WriteLine, MarkStale, At
<1>4. {"computed", "final", "stale"} \subseteq CompStatus
  BY DEF CompStatus
<1>5. comp' \in CompRow /\ \A d \in comp'.lines : docs[d].st # "none"
  <2>1. CASE WriteComputation(r)
    <3>1. req[r].lines \in SUBSET Docs /\ req[r].lines \cap req[r].used \in SUBSET Docs
      BY <1>1, LocalTypes
    <3>. QED
      BY <2>1, <3>1, <1>4, FilingTypes DEF WriteComputation, CompRow
  <2>2. CASE WriteFinal(r)
    BY <2>2, <1>4, FilingTypes DEF WriteFinal, CompRow
  <2>3. CASE MarkStale(r)
    BY <2>3, <1>4, FilingTypes DEF MarkStale, CompRow
  <2>4. CASE WriteLine(r)
    <3>1. req[r].doc \in Docs /\ docs[req[r].doc].st # "none"
      BY <2>4, <1>1 DEF WriteLine, At, Fits, OnDocument
    <3>2. PICK lines \in SUBSET Docs :
              lines = IF req[r].on THEN comp.lines \cup {req[r].doc}
                                   ELSE comp.lines \ {req[r].doc}
      BY <3>1, FilingTypes
    <3>3. comp' = [comp EXCEPT !.lines = lines]
      BY <2>4, <3>2 DEF WriteLine
    <3>4. \A d \in lines : docs[d].st # "none"
      BY <3>1, <3>2, FilingTypes
    <3>. QED
      BY <3>3, <3>4, FilingTypes DEF CompRow
  <2>. QED
    BY <2>1, <2>2, <2>3, <2>4
<1>. QED
  BY <1>2, <1>3, <1>5, FilingTypes, FilingWrites

LEMMA EditLineBegins ==
    ASSUME IInv, NEW r \in Requests, NEW d \in Docs, NEW on \in BOOLEAN,
           EditLine(r, d, on)
    PROVE  IInv'
<1>. DEFINE l == [IdleRequest EXCEPT !.pc = "line", !.doc = d, !.on = on]
<1>1. "line" \in ProgramCounter
  BY DEF ProgramCounter
<1>2. l \in RequestType /\ l.pc = "line" /\ l.doc = d
  BY <1>1, IdleTyped DEF RequestType
<1>3. Begin(r, l)
  BY DEF EditLine
<1>4. docs[d].st # "none"
  BY FilingTypes DEF EditLine
<1>. HIDE DEF l
<1>. QED
  BY <1>2, <1>3, <1>4, BeginOn

\* The statements that write the period's status.
LEMMA StatusWrites ==
    ASSUME IInv, NEW r \in Requests,
           \/ WriteCalculated(r) \/ PeriodPending(r) \/ PeriodDecided(r)
           \/ PeriodSignedOff(r) \/ PeriodRejected(r) \/ PeriodArchived(r)
           \/ PeriodPaid(r)
    PROVE  IInv'
<1>1. Fits(req[r])
  BY DEF IInv
<1>2. {"period", "finalise", "archiveDocs", "idle"} \subseteq Free
  BY DEF Free, ProgramCounter, OnDocument, Deciding
<1>3. /\ UNCHANGED <<documents, queries, filing>>
      /\ req[r].pc # "replace"
      /\ \E pc \in {"period", "finalise", "archiveDocs", "idle"} :
            Goto(r, pc) \/ Return(r)
  BY DEF WriteCalculated, PeriodPending, PeriodDecided, PeriodSignedOff,
         PeriodRejected, PeriodArchived, PeriodPaid, WriteStatus, At
<1>4. \E st \in Terminal : period' = [period EXCEPT !.st = st]
  <2>1. CASE PeriodDecided(r)
    <3>1. req[r].next \in {"client_review", "approved", "rejected"}
      BY <2>1, <1>1 DEF PeriodDecided, WriteStatus, At, Fits, Deciding
    <3>. QED
      BY <2>1, <3>1 DEF PeriodDecided, WriteStatus, Terminal
  <2>2. CASE WriteCalculated(r)
    BY <2>2 DEF WriteCalculated, Terminal
  <2>3. CASE PeriodPending(r) \/ PeriodSignedOff(r) \/ PeriodRejected(r)
                \/ PeriodArchived(r) \/ PeriodPaid(r)
    BY <2>3 DEF PeriodPending, PeriodSignedOff, PeriodRejected, PeriodArchived,
                PeriodPaid, WriteStatus, Terminal
  <2>. QED
    BY <2>1, <2>2, <2>3
<1>5. period' \in PeriodRow
  BY <1>4, FilingTypes DEF PeriodRow
<1>. QED
  BY <1>2, <1>3, <1>5, FilingTypes, FilingWrites DEF filing

\* The statements that write the report.
LEMMA ReportWrites ==
    ASSUME IInv, NEW r \in Requests,
           \/ InsertReport(r) \/ WriteSubmitted(r) \/ WriteOutcome(r)
           \/ WriteSignedOff(r) \/ WriteClientReject(r) \/ WriteReportArchived(r)
    PROVE  IInv'
<1>1. req[r] \in RequestType /\ Fits(req[r])
  BY DEF IInv, TypeOK
<1>2. {"approval", "signPeriod", "rejectPeriod", "archivePeriod", "idle"} \subseteq Free
  BY DEF Free, ProgramCounter, OnDocument, Deciding
<1>3. UNCHANGED <<documents, queries, period, comp, approvals>> /\ req[r].pc # "replace"
  BY DEF InsertReport, WriteSubmitted, WriteOutcome, WriteSignedOff,
         WriteClientReject, WriteReportArchived, WriteReport, At
<1>4. \E pc : /\ Goto(r, pc) \/ Return(r)
              /\ pc \in Free \/ (pc \in Deciding /\ req[r].pc \in Deciding)
  <2>1. CASE WriteOutcome(r)
    BY <2>1 DEF WriteOutcome, WriteReport, At, Deciding
  <2>2. CASE ~WriteOutcome(r)
    BY <2>2, <1>2 DEF InsertReport, WriteSubmitted, WriteSignedOff,
         WriteClientReject, WriteReportArchived, WriteReport
  <2>. QED
    BY <2>1, <2>2
<1>5. report' \in ReportRow
  <2>1. CASE InsertReport(r)
    <3>1. "draft" \in ReportStatus /\ req[r].on \in BOOLEAN /\ req[r].used \in SUBSET Docs
      BY <1>1, LocalTypes DEF ReportStatus
    <3>. QED
      BY <2>1, <3>1 DEF InsertReport, ReportRow
  <2>2. CASE ~InsertReport(r)
    <3>1. \E st \in ReportStatus : report' = [report EXCEPT !.st = st]
      <4>1. CASE WriteOutcome(r)
        BY <4>1, <1>1 DEF WriteOutcome, WriteReport, At, Fits, Deciding, ReportStatus
      <4>2. CASE ~WriteOutcome(r)
        BY <2>2, <4>2 DEF WriteSubmitted, WriteSignedOff, WriteClientReject,
             WriteReportArchived, WriteReport, ReportStatus
      <4>. QED
        BY <4>1, <4>2
    <3>. QED
      BY <3>1, FilingTypes DEF ReportRow
  <2>. QED
    BY <2>1, <2>2
<1>. QED
  BY <1>3, <1>4, <1>5, FilingTypes, FilingWrites

\* The statements that write an approval.
LEMMA ApprovalWrites ==
    ASSUME IInv, NEW r \in Requests, InsertApproval(r) \/ DecideApproval(r)
    PROVE  IInv'
<1>1. UNCHANGED <<documents, queries, period, comp, report>> /\ req[r].pc # "replace"
  BY DEF InsertApproval, DecideApproval, WriteApproval, At
<1>2. \E pc : /\ Goto(r, pc) \/ Return(r)
              /\ pc \in Free \/ (pc \in Deciding /\ req[r].pc \in Deciding)
  <2>1. "pending" \in Free
    BY DEF Free, ProgramCounter, OnDocument, Deciding
  <2>2. CASE InsertApproval(r)
    BY <2>1, <2>2 DEF InsertApproval, WriteApproval
  <2>3. CASE DecideApproval(r)
    BY <2>3 DEF DecideApproval, WriteApproval, At, Deciding
  <2>. QED
    BY <2>2, <2>3
<1>3. \E st \in ApprovalStatus : approvals' = [approvals EXCEPT ![req[r].row] = st]
  BY DEF InsertApproval, DecideApproval, WriteApproval, ApprovalStatus
<1>4. approvals' \in [Approvals -> ApprovalStatus]
  BY <1>3, FilingTypes
<1>. QED
  BY <1>1, <1>2, <1>4, FilingTypes, FilingWrites

LEMMA DecideReportBegins ==
    ASSUME IInv, NEW r \in Requests,
           NEW outcome \in {"client_review", "approved", "rejected"},
           DecideReport(r, outcome)
    PROVE  IInv'
<1>1. PICK on \in BOOLEAN : on = (outcome # "rejected" /\ report.linked)
  BY FilingTypes DEF ReportRow
<1>. DEFINE l == [IdleRequest EXCEPT !.pc = "pick", !.next = outcome, !.on = on]
<1>2. Begin(r, l)
  BY <1>1 DEF DecideReport
<1>3. "pick" \in ProgramCounter /\ outcome \in AnyStatus
  BY DEF ProgramCounter, AnyStatus, ReportStatus
<1>4. l \in RequestType /\ l.pc = "pick" /\ l.doc = Null /\ l.next = outcome
  BY <1>3, IdleTyped, IdleFits DEF RequestType
<1>. HIDE DEF l
<1>5. Fits(l)
  BY <1>4 DEF Fits, OnDocument, Replacing, Deciding
<1>. QED
  BY <1>2, <1>4, <1>5, BeginStep

LEMMA PickStep ==
    ASSUME IInv, NEW r \in Requests, PickApproval(r)
    PROVE  IInv'
<1>1. /\ req[r] \in RequestType /\ Fits(req[r]) /\ req[r].pc = "pick"
      /\ UNCHANGED <<documents, queries, period, filing>>
  BY DEF IInv, TypeOK, PickApproval, At
<1>2. ASSUME NEW a \in Approvals,
             Continue(r, [req[r] EXCEPT !.pc = "decideApproval", !.row = a])
      PROVE  IInv'
  <2>. DEFINE l == [req[r] EXCEPT !.pc = "decideApproval", !.row = a]
  <2>1. "decideApproval" \in ProgramCounter
    BY DEF ProgramCounter
  <2>2. /\ l \in RequestType /\ l.pc = "decideApproval" /\ l.doc = req[r].doc
        /\ l.next = req[r].next
    BY <1>1, <2>1 DEF RequestType
  <2>3. Continue(r, l)
    BY <1>2
  <2>. HIDE DEF l
  <2>4. Fits(l)
    BY <1>1, <2>2 DEF Fits, OnDocument, Replacing, Deciding
  <2>. QED
    BY <1>1, <2>2, <2>3, <2>4, ReadStep
<1>3. CASE Goto(r, "decideReport")
  <2>1. PICK l \in RequestType :
            /\ Continue(r, l) /\ Fits(l) /\ l.pc \notin {"replace", "upload"}
            /\ l.doc \in {req[r].doc, Null}
    BY <1>1, <1>3, Moves DEF Deciding
  <2>. QED
    BY <1>1, <2>1, ReadStep
<1>. QED
  BY <1>2, <1>3 DEF PickApproval

LEMMA ArchiveDocumentsStep ==
    ASSUME IInv, NEW r \in Requests, ArchiveDocuments(r)
    PROVE  IInv'
<1>1. /\ Continue(r, IdleRequest) /\ req[r].pc # "replace"
      /\ UNCHANGED <<versions, records, checklist, queries, period, filing>>
      /\ docs \in [Docs -> DocumentRow] /\ "archived" \in DocStatus
  BY DEF ArchiveDocuments, Return, At, IInv, TypeOK, TablesOK, DocumentRow, DocStatus
<1>2. docs' = [d \in Docs |->
                  IF docs[d].st = "none" THEN docs[d]
                  ELSE [docs[d] EXCEPT !.st = "archived", !.locked = TRUE]]
  BY DEF ArchiveDocuments
<1>3. docs' \in [Docs -> DocumentRow]
  BY <1>1, <1>2 DEF DocumentRow
<1>4. \A d \in Docs :
          /\ docs'[d].ver = docs[d].ver
          /\ docs'[d].st = "none" <=> docs[d].st = "none"
          /\ docs'[d].st = "verified" => docs[d].st = "verified"
  BY <1>1, <1>2 DEF DocumentRow
<1>. QED
  BY <1>1, <1>3, <1>4, IdleFits, IdleTyped, UpdateRows

LEMMA TaxStepsInv ==
    ASSUME IInv, NEW r \in Requests, TaxSteps(r)
    PROVE  IInv'
BY FilingBegins, TaxReads, CompWrites, StatusWrites, EditLineBegins DEF TaxSteps

LEMMA ReportStepsInv ==
    ASSUME IInv, NEW r \in Requests, ReportSteps(r)
    PROVE  IInv'
BY FilingBegins, DecideReportBegins, ReportWrites, ApprovalWrites, StatusWrites,
   PickStep, ArchiveDocumentsStep
   DEF ReportSteps

-----------------------------------------------------------------------------
(***************************************************************************)
(* The invariant, and what follows from it                                 *)
(***************************************************************************)

LEMMA InitInv == Init => IInv
<1>. SUFFICES ASSUME Init PROVE IInv
  OBVIOUS
<1>1. TypeOK
  <2>1. TablesOK
    BY DEF Init, TablesOK, NoDocument, DocStatus, ChecklistStatus, QueryStatus,
           Derivable, CompStatus, ReportStatus, ApprovalStatus
  <2>. QED
    BY <2>1, IdleTyped, BoundAssumption DEF Init, TypeOK
<1>2. \A r \in Requests : req[r] = IdleRequest /\ Fits(req[r])
  BY IdleFits DEF Init
<1>3. ASSUME NEW d \in Docs
      PROVE  DocInv(d)
  <2>1. docs[d].st = "none" /\ docs[d].ver = 0 /\ versions[d].stored = {}
    BY DEF Init, NoDocument
  <2>2. 1..0 = {}
    OBVIOUS
  <2>. QED
    BY <2>1, <2>2 DEF DocInv
<1>4. (\A q \in Queries : QueryInv(q)) /\ LinesInv
  BY DEF Init, QueryInv, LinesInv
<1>5. \A r, s \in Requests : r # s => Exclusive(r, s)
  BY <1>2, IdleFits DEF Exclusive
<1>. QED
  BY <1>1, <1>2, <1>3, <1>4, <1>5 DEF IInv

\* After a restart a version may stay stored that no document points at.
LEMMA RestartStep ==
    ASSUME IInv, Restart
    PROVE  IInv'
<1>1. /\ req' = [r \in Requests |-> IdleRequest] /\ restarts' = restarts + 1
      /\ UNCHANGED <<documents, queries, period, filing, started>>
      /\ restarts < MaxRestarts /\ restarts \in Nat
  BY BoundAssumption DEF Restart, IInv, TypeOK
<1>2. TypeOK'
  <2>1. TablesOK'
    BY <1>1, TablesKept DEF IInv
  <2>. QED
    BY <1>1, <2>1, IdleTyped, BoundAssumption DEF IInv, TypeOK
<1>3. \A r \in Requests : req'[r] = IdleRequest /\ Fits(req[r])'
  BY <1>1, IdleFits
<1>4. restarts' > 0
  BY <1>1
<1>5. \A d \in Docs : DocInv(d)'
  BY <1>1, <1>4 DEF IInv, DocInv, documents
<1>6. (\A q \in Queries : QueryInv(q)') /\ LinesInv'
  BY <1>1 DEF IInv, QueryInv, LinesInv, documents, filing
<1>7. \A r, s \in Requests : r # s => Exclusive(r, s)'
  BY <1>3, IdleFits DEF Exclusive
<1>. QED
  BY <1>2, <1>3, <1>5, <1>6, <1>7 DEF IInv

LEMMA Stuttering ==
    ASSUME IInv, UNCHANGED vars
    PROVE  IInv'
<1>1. UNCHANGED <<docs, versions, records, checklist, queries, period, comp, report,
                  approvals, req, started, restarts>>
  BY DEF vars, documents, filing
<1>2. TypeOK'
  BY <1>1 DEF IInv, TypeOK, TablesOK
<1>3. \A r \in Requests : Fits(req[r])'
  BY <1>1 DEF IInv, Fits
<1>4. \A d \in Docs : DocInv(d)'
  BY <1>1 DEF IInv, DocInv, Stored
<1>5. (\A q \in Queries : QueryInv(q)') /\ LinesInv'
  BY <1>1 DEF IInv, QueryInv, LinesInv
<1>6. \A r, s \in Requests : r # s => Exclusive(r, s)'
  BY <1>1 DEF IInv, Exclusive
<1>. QED
  BY <1>2, <1>3, <1>4, <1>5, <1>6 DEF IInv

LEMMA NextInv == IInv /\ [Next]_vars => IInv'
<1>. SUFFICES ASSUME IInv, [Next]_vars PROVE IInv'
  OBVIOUS
<1>1. ASSUME NEW r \in Requests, Handler(r)
      PROVE  IInv'
  BY <1>1, RefreshSteps, DocumentStepsInv, VerificationStepsInv, QueryStepsInv,
     TaxStepsInv, ReportStepsInv
     DEF Handler
<1>. QED
  BY <1>1, RestartStep, Stuttering DEF Next

\* Every reachable state satisfies the inductive invariant the results below rest on.
THEOREM Invariance == Spec => []IInv
BY InitInv, NextInv, PTL DEF Spec

\* Every row and every handler stays within its type, for any number of
\* documents, queries, approvals and handlers.
THEOREM TypeCorrect == Spec => []TypeOK
<1>1. IInv => TypeOK
  BY DEF IInv
<1>. QED
  BY <1>1, Invariance, PTL

\* However many replacements of a document run at once, its versions are
\* numbered 1..n and it points at the last, unless a replacement stands
\* between its two writes or the process died there.
THEOREM VersionsCorrect == Spec => []VersionsInStep
<1>1. IInv => VersionsInStep
  <2>. SUFFICES ASSUME IInv, NEW d \in Docs
                PROVE  \E n \in 0..MaxVersions :
                          /\ versions[d].stored = 1..n
                          /\ \/ n = docs[d].ver
                             \/ /\ n = docs[d].ver + 1
                                /\ \/ restarts > 0
                                   \/ \E r \in Requests :
                                         At(r, "replace") /\ req[r].doc = d
                                            /\ req[r].ver = n
    BY DEF VersionsInStep
  <2>1. DocInv(d) /\ docs[d].ver \in Nat
    BY DEF IInv, TypeOK, TablesOK
  <2>2. docs[d].ver \in 0..MaxVersions
    BY <2>1, BoundAssumption DEF DocInv
  <2>3. CASE versions[d].stored = 1..docs[d].ver
    BY <2>2, <2>3
  <2>4. CASE versions[d].stored # 1..docs[d].ver
    <3>1. docs[d].ver + 1 \in 0..MaxVersions
      BY <2>1, <2>4, BoundAssumption DEF DocInv
    <3>. QED
      BY <2>1, <2>4, <3>1 DEF DocInv, Stored, At
  <2>. QED
    BY <2>3, <2>4
<1>. QED
  BY <1>1, Invariance, PTL

\* No document is verified without an approval on file, however decisions,
\* replacements, queries and restarts interleave.
THEOREM RecordCorrect == Spec => []VerifiedHasRecord
<1>1. IInv => VerifiedHasRecord
  BY DEF IInv, DocInv, VerifiedHasRecord
<1>. QED
  BY <1>1, Invariance, PTL

-----------------------------------------------------------------------------
(***************************************************************************)
(* One handler at a time: who writes what, and who comes where             *)
(***************************************************************************)

\* The locals of a handler that moves to another statement are kept.
LEMMA GoFields ==
    ASSUME TypeOK, NEW r \in Requests, NEW pc, Goto(r, pc)
    PROVE  /\ req'[r].pc = pc /\ req'[r].op = req[r].op /\ req'[r].doc = req[r].doc
           /\ req'[r].row = req[r].row /\ req'[r].next = req[r].next
           /\ req'[r].seen = req[r].seen /\ req'[r].cnt = req[r].cnt
           /\ req'[r].ver = req[r].ver /\ req'[r].lines = req[r].lines
           /\ restarts' = restarts
<1>1. req[r] \in RequestType
  BY DEF TypeOK
<1>2. req'[r] = [req[r] EXCEPT !.pc = pc] /\ restarts' = restarts
  BY DEF Goto, Continue, TypeOK
<1> QED BY <1>1, <1>2 DEF RequestType

LEMMA ReturnFields ==
    ASSUME TypeOK, NEW r \in Requests, Return(r)
    PROVE  req'[r].pc = "idle" /\ restarts' = restarts
  BY DEF Return, Continue, TypeOK, IdleRequest

LEMMA ContinueFields ==
    ASSUME TypeOK, NEW r \in Requests, NEW l, Continue(r, l)
    PROVE  req'[r] = l /\ restarts' = restarts
  BY DEF Continue, TypeOK

LEMMA BeginFields ==
    ASSUME TypeOK, NEW r \in Requests, NEW l, Begin(r, l)
    PROVE  /\ req'[r] = l /\ req[r].pc = "idle" /\ restarts' = restarts
           /\ UNCHANGED <<docs, versions, records, queries, period, comp, report, approvals>>
  BY DEF Begin, TypeOK, documents, filing

Refreshing == {"counts", "queries", "refresh"}

\* Between a change of a document and the refresh that counts it.
Unsettled(l) ==
    \/ l.pc \in {"reread", "sync", "period"} \cup Refreshing
    \/ l.pc = "query" /\ l.op = "raise"

\* The statements that lead to those about which an invariant says something.
Enters(r) ==
    /\ req'[r].pc = "record" =>
          \E d \in Docs, target \in Targets :
             \/ \E q \in Queries \cup {Null}, on \in BOOLEAN : Decide(r, d, target, q, on)
             \/ DecideBulk(r, d, target)
    /\ req'[r].pc = "decide" => InsertRecord(r)
    /\ req'[r].pc = "counts" => ReadPeriod(r)
    /\ req'[r].pc = "queries" => CountDocuments(r)
    /\ req'[r].pc = "refresh" => CountQueries(r)
    /\ req'[r].pc = "compute" => ReadLines(r)
    /\ req'[r].pc = "generate" => \E linked \in BOOLEAN : Generate(r, linked)
    /\ req'[r].pc = "submit" => \E a \in Approvals : Submit(r, a)
    /\ req'[r].pc = "approval" => WriteSubmitted(r)
    /\ req'[r].pc = "pick" =>
          \E outcome \in {"client_review", "approved", "rejected"} : DecideReport(r, outcome)
    /\ req'[r].pc = "decideApproval" => PickApproval(r)
    /\ req'[r].pc = "decideReport" => PickApproval(r) \/ DecideApproval(r)
    /\ req'[r].pc \in {"signOff", "clientReject"} =>
          \E accepted \in BOOLEAN : SignOff(r, accepted)
    /\ req'[r].pc = "archiveReport" => ArchiveReport(r)
    /\ req'[r].pc = "archivePeriod" => WriteReportArchived(r)
    /\ req'[r].pc = "archiveDocs" => PeriodArchived(r)

\* The statements that leave those that owe another one.
Leaves(r) ==
    /\ Unsettled(req[r]) /\ ~Unsettled(req'[r]) => WritePeriod(r) \/ AbortUpload(r)
    /\ req[r].pc = "stale" => MarkStale(r)
    /\ req[r].pc = "approval" => InsertApproval(r)
    /\ req[r].pc = "decideReport" => WriteOutcome(r)

DocWriter(r) ==
    \/ InsertDocument(r) \/ WriteReplaced(r) \/ WriteLock(r) \/ WriteArchived(r)
    \/ WriteDeleted(r) \/ WriteOpened(r) \/ WriteDecision(r) \/ MoveQueried(r)
    \/ WriteReleased(r) \/ ArchiveDocuments(r)

StatusWriter(r) ==
    \/ WriteCalculated(r) \/ PeriodPending(r) \/ PeriodDecided(r)
    \/ PeriodSignedOff(r) \/ PeriodRejected(r) \/ PeriodArchived(r) \/ PeriodPaid(r)

CompWriter(r) ==
    WriteComputation(r) \/ WriteFinal(r) \/ WriteLine(r) \/ MarkStale(r)

ReportWriter(r) ==
    \/ InsertReport(r) \/ WriteSubmitted(r) \/ WriteOutcome(r)
    \/ WriteSignedOff(r) \/ WriteClientReject(r) \/ WriteReportArchived(r)

\* The only statements that write a table.
Writes(r) ==
    /\ DocWriter(r) \/ UNCHANGED docs
    /\ InsertRecord(r) \/ UNCHANGED records
    /\ WritePeriod(r) \/ StatusWriter(r) \/ UNCHANGED period
    /\ CompWriter(r) \/ UNCHANGED comp
    /\ ReportWriter(r) \/ UNCHANGED report
    /\ InsertApproval(r) \/ DecideApproval(r) \/ UNCHANGED approvals

Flow(r) == Enters(r) /\ Leaves(r) /\ Writes(r) /\ restarts' = restarts

\* Statements that nothing is said about.
Plain ==
    ProgramCounter \
       {"record", "decide", "counts", "queries", "refresh", "compute", "generate",
        "submit", "approval", "pick", "decideApproval", "decideReport", "signOff",
        "clientReject", "archiveReport", "archivePeriod", "archiveDocs"}

\* A request that starts at a plain statement, or at one named here.
LEMMA BeginFlow ==
    ASSUME TypeOK, NEW r \in Requests, NEW l, Begin(r, l), Enters(r)
    PROVE  Flow(r)
<1>1. /\ req'[r] = l /\ req[r].pc = "idle" /\ restarts' = restarts
      /\ UNCHANGED <<docs, versions, records, queries, period, comp, report, approvals>>
  BY BeginFields
<1>2. Leaves(r)
  BY <1>1 DEF Leaves, Unsettled, Refreshing
<1>3. Writes(r)
  BY <1>1 DEF Writes
<1> QED BY <1>1, <1>2, <1>3 DEF Flow

LEMMA PlainEnters ==
    ASSUME NEW r, req'[r].pc \in Plain
    PROVE  Enters(r)
  BY DEF Enters, Plain

LEMMA BeginsFlow ==
    ASSUME TypeOK, NEW r \in Requests,
           \/ ViewPeriod(r) \/ RunComputation(r) \/ Finalise(r) \/ ArchiveReport(r)
           \/ SettleInvoice(r)
           \/ \E d \in Docs : \/ Upload(r, d) \/ Archive(r, d) \/ Delete(r, d) \/ Open(r, d)
                              \/ \E q \in Queries \cup {Null} : ReplaceVersion(r, d, q)
                              \/ \E on \in BOOLEAN : Lock(r, d, on) \/ EditLine(r, d, on)
           \/ \E linked \in BOOLEAN : Generate(r, linked)
           \/ \E a \in Approvals : Submit(r, a)
           \/ \E outcome \in {"client_review", "approved", "rejected"} :
                 DecideReport(r, outcome)
           \/ \E accepted \in BOOLEAN : SignOff(r, accepted)
    PROVE  Flow(r)
<1>1. ASSUME NEW l, Begin(r, l), l.pc \in Plain
      PROVE  Flow(r)
  BY <1>1, BeginFields, BeginFlow, PlainEnters
<1>2. {"period", "gather", "finalise", "paid", "upload", "archive", "delete", "open",
       "clear", "lock", "line"} \subseteq Plain
  BY DEF Plain, ProgramCounter
<1>3. CASE ViewPeriod(r) \/ RunComputation(r) \/ Finalise(r) \/ SettleInvoice(r)
  <2>1. PICK pc \in Plain : Begin(r, [IdleRequest EXCEPT !.pc = pc])
    BY <1>2, <1>3 DEF ViewPeriod, RunComputation, Finalise, SettleInvoice
  <2>2. [IdleRequest EXCEPT !.pc = pc].pc = pc
    BY DEF IdleRequest
  <2> QED BY <2>1, <2>2, <1>1
<1>4. CASE \E d \in Docs : Archive(r, d) \/ Delete(r, d) \/ Open(r, d)
  <2>1. PICK pc \in Plain, d \in Docs : Begin(r, [IdleRequest EXCEPT !.pc = pc, !.doc = d])
    BY <1>2, <1>4 DEF Archive, Delete, Open
  <2>2. [IdleRequest EXCEPT !.pc = pc, !.doc = d].pc = pc
    BY DEF IdleRequest
  <2> QED BY <2>1, <2>2, <1>1
<1>5. ASSUME NEW d \in Docs, Upload(r, d) PROVE Flow(r)
  <2>1. PICK l : l = [IdleRequest EXCEPT !.pc = "upload", !.op = "upload", !.doc = d]
    OBVIOUS
  <2>2. Begin(r, l) /\ l.pc = "upload"
    BY <2>1, <1>5 DEF Upload, IdleRequest
  <2> QED BY <2>2, <1>1, <1>2
<1>6. ASSUME NEW d \in Docs, NEW q, ReplaceVersion(r, d, q) PROVE Flow(r)
  <2>1. PICK l : l = [IdleRequest EXCEPT !.pc = "clear", !.op = "replace",
                    !.doc = d, !.qry = q, !.ver = docs[d].ver + 1,
                    !.next = ReplacedStatus(docs[d].st)]
    OBVIOUS
  <2>2. Begin(r, l) /\ l.pc = "clear"
    BY <2>1, <1>6 DEF ReplaceVersion, IdleRequest
  <2> QED BY <2>2, <1>1, <1>2
<1>7. ASSUME NEW d \in Docs, NEW on, Lock(r, d, on) \/ EditLine(r, d, on) PROVE Flow(r)
  <2>1. PICK pc \in Plain : Begin(r, [IdleRequest EXCEPT !.pc = pc, !.doc = d, !.on = on])
    BY <1>2, <1>7 DEF Lock, EditLine
  <2>2. [IdleRequest EXCEPT !.pc = pc, !.doc = d, !.on = on].pc = pc
    BY DEF IdleRequest
  <2> QED BY <2>1, <2>2, <1>1
<1>8. ASSUME NEW linked \in BOOLEAN, Generate(r, linked) PROVE Flow(r)
  <2>1. PICK l : l = [IdleRequest EXCEPT !.pc = "generate", !.on = linked,
                            !.used = IF linked THEN comp.lines ELSE {}]
    OBVIOUS
  <2>0. l.pc = "generate"
    BY <2>1 DEF IdleRequest
  <2>2. Begin(r, l)
    BY <2>1, <1>8 DEF Generate
  <2>3. req'[r].pc = "generate"
    BY <2>0, <2>2, BeginFields
  <2>4. Enters(r)
    BY <2>3, <1>8 DEF Enters
  <2> QED BY <2>2, <2>4, BeginFlow
<1>9. ASSUME NEW a \in Approvals, Submit(r, a) PROVE Flow(r)
  <2>1. PICK l : l = [IdleRequest EXCEPT !.pc = "submit", !.row = a]
    OBVIOUS
  <2>0. l.pc = "submit"
    BY <2>1 DEF IdleRequest
  <2>2. Begin(r, l)
    BY <2>1, <1>9 DEF Submit
  <2>3. req'[r].pc = "submit"
    BY <2>0, <2>2, BeginFields
  <2>4. Enters(r)
    BY <2>3, <1>9 DEF Enters
  <2> QED BY <2>2, <2>4, BeginFlow
<1>10. ASSUME NEW outcome \in {"client_review", "approved", "rejected"}, DecideReport(r, outcome)
       PROVE Flow(r)
  <2>1. PICK l : l = [IdleRequest EXCEPT !.pc = "pick", !.next = outcome,
                           !.on = outcome # "rejected" /\ report.linked]
    OBVIOUS
  <2>0. l.pc = "pick"
    BY <2>1 DEF IdleRequest
  <2>2. Begin(r, l)
    BY <2>1, <1>10 DEF DecideReport
  <2>3. req'[r].pc = "pick"
    BY <2>0, <2>2, BeginFields
  <2>4. Enters(r)
    BY <2>3, <1>10 DEF Enters
  <2> QED BY <2>2, <2>4, BeginFlow
<1>11. ASSUME NEW accepted \in BOOLEAN, SignOff(r, accepted) PROVE Flow(r)
  <2>1. PICK l : l = [IdleRequest EXCEPT !.pc = IF accepted THEN "signOff"
                                                               ELSE "clientReject"]
    OBVIOUS
  <2>0. l.pc \in {"signOff", "clientReject"}
    BY <2>1 DEF IdleRequest
  <2>2. Begin(r, l)
    BY <2>1, <1>11 DEF SignOff
  <2>3. req'[r].pc \in {"signOff", "clientReject"}
    BY <2>0, <2>2, BeginFields
  <2>4. Enters(r)
    BY <2>3, <1>11 DEF Enters
  <2> QED BY <2>2, <2>4, BeginFlow
<1>12. CASE ArchiveReport(r)
  <2>1. PICK l : l = [IdleRequest EXCEPT !.pc = "archiveReport"]
    OBVIOUS
  <2>0. l.pc = "archiveReport"
    BY <2>1 DEF IdleRequest
  <2>2. Begin(r, l)
    BY <2>1, <1>12 DEF ArchiveReport
  <2>3. req'[r].pc = "archiveReport"
    BY <2>0, <2>2, BeginFields
  <2>4. Enters(r)
    BY <2>3, <1>12 DEF Enters
  <2> QED BY <2>2, <2>4, BeginFlow
<1> QED BY <1>3, <1>4, <1>5, <1>6, <1>7, <1>8, <1>9, <1>10, <1>11, <1>12


LEMMA QueryBeginsFlow ==
    ASSUME TypeOK, NEW r \in Requests, NEW q \in Queries,
           \/ \E d \in Docs \cup {Null} : AskQuery(r, q, d)
           \/ \E author : Reply(r, q, author)
           \/ \E on \in BOOLEAN : ResolveQuery(r, q, on)
           \/ ReopenQuery(r, q)
    PROVE  Flow(r)
<1>1. ASSUME NEW l, Begin(r, l), l.pc \in {"query", "reply", "resolve", "reopen"}
      PROVE  Flow(r)
  <2>1. l.pc \in Plain
    BY <1>1 DEF Plain, ProgramCounter
  <2> QED BY <1>1, <2>1, BeginFields, BeginFlow, PlainEnters
<1>2. ASSUME NEW d, AskQuery(r, q, d) PROVE Flow(r)
  <2>1. PICK l : l = [IdleRequest EXCEPT !.pc = "query", !.op = "ask",
                    !.qry = q, !.doc = d,
                    !.seen = IF d = Null THEN "none" ELSE docs[d].st]
    OBVIOUS
  <2>2. Begin(r, l) /\ l.pc = "query"
    BY <2>1, <1>2 DEF AskQuery, IdleRequest
  <2> QED BY <2>2, <1>1
<1>3. ASSUME NEW author, Reply(r, q, author) PROVE Flow(r)
  <2>1. PICK l : l = [IdleRequest EXCEPT !.pc = "reply", !.qry = q,
                    !.next = Replied(queries[q].st, author),
                    !.on = \/ author \in {"client", "resolver"}
                           \/ Replied(queries[q].st, author) # queries[q].st]
    OBVIOUS
  <2>2. Begin(r, l)
    BY <2>1, <1>3 DEF Reply
  <2>3. l.pc = "reply"
    BY <2>1 DEF IdleRequest
  <2> QED BY <2>2, <2>3, <1>1
<1>4. ASSUME NEW on, ResolveQuery(r, q, on) PROVE Flow(r)
  <2>1. PICK l : l = [IdleRequest EXCEPT !.pc = "resolve", !.op = "resolve",
                    !.qry = q, !.doc = queries[q].doc, !.on = on]
    OBVIOUS
  <2>2. Begin(r, l) /\ l.pc = "resolve"
    BY <2>1, <1>4 DEF ResolveQuery, IdleRequest
  <2> QED BY <2>2, <1>1
<1>5. CASE ReopenQuery(r, q)
  <2>1. PICK l : l = [IdleRequest EXCEPT !.pc = "reopen", !.qry = q]
    OBVIOUS
  <2>2. Begin(r, l) /\ l.pc = "reopen"
    BY <2>1, <1>5 DEF ReopenQuery, IdleRequest
  <2> QED BY <2>2, <1>1
<1> QED BY <1>2, <1>3, <1>4, <1>5

LEMMA DecideFlow ==
    ASSUME TypeOK, NEW r \in Requests, NEW d \in Docs, NEW target \in Targets,
           \/ \E q \in Queries \cup {Null}, on \in BOOLEAN : Decide(r, d, target, q, on)
           \/ DecideBulk(r, d, target)
    PROVE  Flow(r)
<1>1. ASSUME NEW l, Begin(r, l), l.pc = "record"
      PROVE  Flow(r)
  <2>1. req'[r].pc = "record"
    BY <1>1, BeginFields
  <2>2. Enters(r)
    BY <2>1 DEF Enters
  <2> QED BY <1>1, <2>2, BeginFlow
<1>2. ASSUME NEW q, NEW on, Decide(r, d, target, q, on) PROVE Flow(r)
  <2>1. PICK l : l = [IdleRequest EXCEPT !.pc = "record", !.doc = d, !.qry = q,
                    !.next = target, !.on = on, !.ver = docs[d].ver,
                    !.op = IF q = Null THEN "none" ELSE "raise"]
    OBVIOUS
  <2>2. Begin(r, l) /\ l.pc = "record"
    BY <2>1, <1>2 DEF Decide, IdleRequest
  <2> QED BY <2>2, <1>1
<1>3. CASE DecideBulk(r, d, target)
  <2>1. PICK l : l = [IdleRequest EXCEPT !.pc = "record", !.doc = d,
                    !.next = target, !.ver = docs[d].ver]
    OBVIOUS
  <2>2. Begin(r, l) /\ l.pc = "record"
    BY <2>1, <1>3 DEF DecideBulk, IdleRequest
  <2> QED BY <2>2, <1>1
<1> QED BY <1>2, <1>3

\* refreshFilingPeriod.
LEMMA RefreshFlow ==
    ASSUME TypeOK, NEW r \in Requests, Refresh(r)
    PROVE  Flow(r)
<1>0. req[r] \in RequestType
  BY DEF TypeOK
<1>1. CASE ViewPeriod(r)
  BY <1>1, BeginsFlow
<1>2. CASE ReadPeriod(r) \/ CountDocuments(r) \/ CountQueries(r)
  <2>1. /\ req[r].pc \in {"period", "counts", "queries"}
        /\ UNCHANGED <<docs, records, period, comp, report, approvals, restarts>>
    BY <1>2 DEF ReadPeriod, CountDocuments, CountQueries, At, Continue, documents, filing
  <2>2. /\ ReadPeriod(r) => req'[r].pc = "counts"
        /\ CountDocuments(r) => req'[r].pc = "queries"
        /\ CountQueries(r) => req'[r].pc = "refresh"
    <3>1. PICK a : a = [req[r] EXCEPT !.pc = "counts", !.seen = period.st]
      OBVIOUS
    <3>2. PICK b : b = [req[r] EXCEPT !.pc = "queries", !.cnt = Counts]
      OBVIOUS
    <3>3. PICK c : c = [req[r] EXCEPT !.pc = "refresh", !.asked = OpenQueries # {}]
      OBVIOUS
    <3>4. a.pc = "counts" /\ b.pc = "queries" /\ c.pc = "refresh"
      BY <3>1, <3>2, <3>3, <1>0 DEF RequestType
    <3>5. /\ ReadPeriod(r) => Continue(r, a)
          /\ CountDocuments(r) => Continue(r, b)
          /\ CountQueries(r) => Continue(r, c)
      BY <3>1, <3>2, <3>3 DEF ReadPeriod, CountDocuments, CountQueries
    <3> QED BY <3>4, <3>5, ContinueFields
  <2>3. Enters(r)
    BY <1>2, <2>2 DEF Enters
  <2>4. Leaves(r)
    BY <1>2, <2>1, <2>2 DEF Leaves, Unsettled, Refreshing
  <2> QED BY <2>1, <2>3, <2>4 DEF Flow, Writes
<1>3. CASE WritePeriod(r)
  <2>1. /\ req[r].pc = "refresh"
        /\ UNCHANGED <<docs, records, comp, report, approvals, restarts>>
    BY <1>3 DEF WritePeriod, At, AfterRefresh, Goto, Return, Continue, documents, filing
  <2>2. CASE req[r].op = "release"
    <3>1. PICK l : l = [req[r] EXCEPT !.pc = "period", !.op = "resolve"]
      OBVIOUS
    <3>2. Continue(r, l) \/ Goto(r, "respond")
      BY <3>1, <1>3, <2>2 DEF WritePeriod, AfterRefresh
    <3>3. req'[r].pc \in {"respond", "period"}
      <4>1. l.pc = "period"
        BY <3>1, <1>0 DEF RequestType
      <4> QED BY <3>2, <4>1, ContinueFields, GoFields
    <3>4. req'[r].pc \in Plain
      BY <3>3 DEF Plain, ProgramCounter
    <3>5. Leaves(r)
      BY <1>3, <2>1 DEF Leaves
    <3> QED BY <1>3, <2>1, <3>4, <3>5, PlainEnters DEF Flow, Writes
  <2>3. CASE req[r].op # "release"
    <3>1. Goto(r, "respond") \/ Return(r)
      BY <1>3, <2>3 DEF WritePeriod, AfterRefresh
    <3>2. req'[r].pc \in {"respond", "idle"}
      BY <3>1, GoFields, ReturnFields
    <3>4. req'[r].pc \in Plain
      BY <3>2 DEF Plain, ProgramCounter
    <3>5. Leaves(r)
      BY <1>3, <2>1 DEF Leaves
    <3> QED BY <1>3, <2>1, <3>4, <3>5, PlainEnters DEF Flow, Writes
  <2> QED BY <2>2, <2>3
<1> QED BY <1>1, <1>2, <1>3 DEF Refresh

\* The statements of documents.js, verification.js and queries.js.
LEMMA DocumentFlow ==
    ASSUME TypeOK, NEW r \in Requests, DocumentSteps(r)
    PROVE  Flow(r)
<1>0. req[r] \in RequestType
  BY DEF TypeOK
<1>1. CASE \E d \in Docs :
             \/ Upload(r, d) \/ Archive(r, d) \/ Delete(r, d)
             \/ \E q \in Queries \cup {Null} : ReplaceVersion(r, d, q)
             \/ \E on \in BOOLEAN : Lock(r, d, on)
  BY <1>1, BeginsFlow
<1>2. CASE InsertDocument(r) \/ Reread(r)
  <2>1. /\ req[r].pc \in {"upload", "reread"}
        /\ UNCHANGED <<records, period, comp, report, approvals, restarts>>
        /\ InsertDocument(r) \/ UNCHANGED docs
    BY <1>2 DEF InsertDocument, Reread, At, Continue, documents, filing
  <2>2. req'[r].pc = "sync"
    <3>1. PICK st : Continue(r, [req[r] EXCEPT !.pc = "sync", !.seen = st])
      BY <1>2 DEF InsertDocument, Reread
    <3>2. PICK l : l = [req[r] EXCEPT !.pc = "sync", !.seen = st]
      OBVIOUS
    <3>3. l.pc = "sync"
      BY <3>2, <1>0 DEF RequestType
    <3> QED BY <3>1, <3>2, <3>3, ContinueFields
  <2>3. Enters(r) /\ Leaves(r)
    BY <2>1, <2>2 DEF Enters, Leaves, Unsettled
  <2> QED BY <2>1, <2>3 DEF Flow, Writes, DocWriter
<1>3. CASE AbortUpload(r)
  <2>1. /\ req[r].pc = "period" /\ Return(r)
        /\ UNCHANGED <<docs, records, period, comp, report, approvals>>
    BY <1>3 DEF AbortUpload, At, documents, filing
  <2>2. req'[r].pc = "idle" /\ restarts' = restarts
    BY <2>1, ReturnFields
  <2>3. Enters(r) /\ Leaves(r)
    BY <1>3, <2>1, <2>2 DEF Enters, Leaves
  <2> QED BY <2>1, <2>2, <2>3 DEF Flow, Writes
<1>4. CASE SyncChecklist(r)
  <2>1. /\ req[r].pc = "sync" /\ UNCHANGED <<docs, records, period, comp, report, approvals>>
        /\ Goto(r, IF req[r].op = "raise" THEN "query" ELSE "period")
    BY <1>4 DEF SyncChecklist, At, filing
  <2>2. /\ req'[r].pc = (IF req[r].op = "raise" THEN "query" ELSE "period")
        /\ req'[r].op = req[r].op /\ restarts' = restarts
    BY <2>1, GoFields
  <2>3. Enters(r)
    BY <2>2 DEF Enters
  <2>4. Leaves(r)
    BY <2>1, <2>2 DEF Leaves, Unsettled, Refreshing
  <2> QED BY <2>1, <2>2, <2>3, <2>4 DEF Flow, Writes
<1>5. CASE ClearCurrent(r) \/ InsertVersion(r) \/ RespondQuery(r)
  <2>1. /\ req[r].pc \in {"clear", "insert", "respond"}
        /\ UNCHANGED <<docs, records, period, comp, report, approvals>>
        /\ Goto(r, "insert") \/ Goto(r, "replace") \/ Return(r)
    BY <1>5 DEF ClearCurrent, InsertVersion, RespondQuery, At, documents, filing
  <2>2. req'[r].pc \in {"insert", "replace", "idle"} /\ restarts' = restarts
    BY <2>1, GoFields, ReturnFields
  <2>3. Enters(r) /\ Leaves(r)
    BY <2>1, <2>2 DEF Enters, Leaves, Unsettled, Refreshing
  <2> QED BY <2>1, <2>2, <2>3 DEF Flow, Writes
<1>6. CASE WriteReplaced(r) \/ WriteLock(r) \/ WriteArchived(r) \/ WriteDeleted(r)
  <2>1. /\ req[r].pc \in {"replace", "lock", "archive", "delete"}
        /\ UNCHANGED <<records, period, comp, report, approvals>>
        /\ Goto(r, "reread") \/ Goto(r, "period") \/ Return(r)
    BY <1>6 DEF WriteReplaced, WriteLock, WriteArchived, WriteDeleted, At, filing
  <2>2. req'[r].pc \in {"reread", "period", "idle"} /\ restarts' = restarts
    BY <2>1, GoFields, ReturnFields
  <2>3. Enters(r) /\ Leaves(r)
    BY <2>1, <2>2 DEF Enters, Leaves, Unsettled, Refreshing
  <2> QED BY <1>6, <2>1, <2>2, <2>3 DEF Flow, Writes, DocWriter
<1> QED BY <1>1, <1>2, <1>3, <1>4, <1>5, <1>6 DEF DocumentSteps

LEMMA VerificationFlow ==
    ASSUME TypeOK, NEW r \in Requests, VerificationSteps(r)
    PROVE  Flow(r)
<1>1. CASE \E d \in Docs : Open(r, d)
  BY <1>1, BeginsFlow
<1>2. CASE \E d \in Docs :
             \/ \E target \in Targets, q \in Queries \cup {Null}, on \in BOOLEAN :
                   Decide(r, d, target, q, on)
             \/ \E target \in {"verified", "rejected"} : DecideBulk(r, d, target)
  BY <1>2, DecideFlow DEF Targets
<1>3. CASE WriteOpened(r) \/ WriteDecision(r)
  <2>1. /\ req[r].pc \in {"open", "decide"}
        /\ UNCHANGED <<records, period, comp, report, approvals>>
        /\ Goto(r, "reread") \/ Goto(r, "period")
    BY <1>3 DEF WriteOpened, WriteDecision, At, filing
  <2>2. req'[r].pc \in {"reread", "period"} /\ restarts' = restarts
    BY <2>1, GoFields
  <2>3. Enters(r) /\ Leaves(r)
    BY <2>1, <2>2 DEF Enters, Leaves, Unsettled, Refreshing
  <2> QED BY <1>3, <2>1, <2>2, <2>3 DEF Flow, Writes, DocWriter
<1>4. CASE InsertRecord(r)
  <2>1. /\ req[r].pc = "record" /\ UNCHANGED <<docs, period, comp, report, approvals>>
        /\ Goto(r, "decide")
    BY <1>4 DEF InsertRecord, At, filing
  <2>2. req'[r].pc = "decide" /\ restarts' = restarts
    BY <2>1, GoFields
  <2>3. Enters(r) /\ Leaves(r)
    BY <1>4, <2>1, <2>2 DEF Enters, Leaves, Unsettled, Refreshing
  <2> QED BY <1>4, <2>1, <2>2, <2>3 DEF Flow, Writes
<1> QED BY <1>1, <1>2, <1>3, <1>4 DEF VerificationSteps

LEMMA QueryFlow ==
    ASSUME TypeOK, NEW r \in Requests, QuerySteps(r)
    PROVE  Flow(r)
<1>0. req[r] \in RequestType
  BY DEF TypeOK
<1>1. CASE \E q \in Queries :
             \/ \E d \in Docs \cup {Null} : AskQuery(r, q, d)
             \/ \E author \in {"client", "staff", "note", "resolver"} : Reply(r, q, author)
             \/ \E on \in BOOLEAN : ResolveQuery(r, q, on)
             \/ ReopenQuery(r, q)
  BY <1>1, QueryBeginsFlow
<1>2. CASE InsertQuery(r)
  <2>1. /\ req[r].pc = "query" /\ UNCHANGED <<docs, records, period, comp, report, approvals>>
        /\ IF req[r].op = "raise" THEN Goto(r, "period") ELSE Goto(r, "raise") \/ Return(r)
    BY <1>2 DEF InsertQuery, At, documents, filing
  <2>2. /\ req'[r].pc \in {"period", "raise", "idle"} /\ restarts' = restarts
        /\ req[r].op = "raise" => req'[r].pc = "period"
    BY <2>1, GoFields, ReturnFields
  <2>3. Enters(r) /\ Leaves(r)
    BY <2>1, <2>2 DEF Enters, Leaves, Unsettled, Refreshing
  <2> QED BY <2>1, <2>2, <2>3 DEF Flow, Writes
<1>3. CASE MoveQueried(r)
  <2>1. /\ req[r].pc = "raise" /\ UNCHANGED <<records, period, comp, report, approvals>>
        /\ Goto(r, "period")
    BY <1>3 DEF MoveQueried, At, filing
  <2>2. req'[r].pc = "period" /\ restarts' = restarts
    BY <2>1, GoFields
  <2>3. Enters(r) /\ Leaves(r)
    BY <2>1, <2>2 DEF Enters, Leaves, Unsettled, Refreshing
  <2> QED BY <1>3, <2>1, <2>2, <2>3 DEF Flow, Writes, DocWriter
<1>4. CASE WriteReleased(r)
  <2>1. /\ req[r].pc = "released" /\ UNCHANGED <<records, period, comp, report, approvals>>
        /\ Continue(r, [req[r] EXCEPT !.pc = "period", !.op = "release"])
    BY <1>4 DEF WriteReleased, At, filing
  <2>2. req'[r].pc = "period" /\ restarts' = restarts
    <3>1. PICK l : l = [req[r] EXCEPT !.pc = "period", !.op = "release"]
      OBVIOUS
    <3>2. l.pc = "period"
      BY <3>1, <1>0 DEF RequestType
    <3> QED BY <2>1, <3>1, <3>2, ContinueFields
  <2>3. Enters(r) /\ Leaves(r)
    BY <2>1, <2>2 DEF Enters, Leaves, Unsettled, Refreshing
  <2> QED BY <1>4, <2>1, <2>2, <2>3 DEF Flow, Writes, DocWriter
<1>5. CASE WriteReply(r) \/ WriteResolved(r) \/ ReadReleased(r) \/ WriteReopened(r)
  <2>1. /\ req[r].pc \in {"reply", "resolve", "release", "reopen"}
        /\ UNCHANGED <<docs, records, period, comp, report, approvals>>
        /\ \/ Goto(r, "release") \/ Goto(r, "period") \/ Goto(r, "released")
           \/ Return(r)
    BY <1>5 DEF WriteReply, WriteResolved, ReadReleased, WriteReopened, At, documents, filing
  <2>2. req'[r].pc \in {"release", "period", "released", "idle"} /\ restarts' = restarts
    BY <2>1, GoFields, ReturnFields
  <2>3. Enters(r) /\ Leaves(r)
    BY <2>1, <2>2 DEF Enters, Leaves, Unsettled, Refreshing
  <2> QED BY <2>1, <2>2, <2>3 DEF Flow, Writes
<1> QED BY <1>1, <1>2, <1>3, <1>4, <1>5 DEF QuerySteps


\* The statements of tax.js.
LEMMA TaxFlow ==
    ASSUME TypeOK, NEW r \in Requests, TaxSteps(r)
    PROVE  Flow(r)
<1>0. req[r] \in RequestType
  BY DEF TypeOK
<1>1. CASE RunComputation(r) \/ Finalise(r) \/ \E d \in Docs, on \in BOOLEAN : EditLine(r, d, on)
  BY <1>1, BeginsFlow
<1>2. CASE GatherVerified(r)
  <2>1. /\ req[r].pc = "gather" /\ UNCHANGED <<docs, records, period, comp, report, approvals>>
        /\ Continue(r, [req[r] EXCEPT !.pc = "lines",
                          !.used = {d \in Live : docs[d].st \in Verified}])
    BY <1>2 DEF GatherVerified, At, documents, filing
  <2>2. req'[r].pc = "lines" /\ restarts' = restarts
    <3>1. PICK l : l = [req[r] EXCEPT !.pc = "lines",
                          !.used = {d \in Live : docs[d].st \in Verified}]
      OBVIOUS
    <3>2. l.pc = "lines"
      BY <3>1, <1>0 DEF RequestType
    <3> QED BY <2>1, <3>1, <3>2, ContinueFields
  <2>3. Enters(r) /\ Leaves(r)
    BY <2>1, <2>2 DEF Enters, Leaves, Unsettled, Refreshing
  <2> QED BY <2>1, <2>2, <2>3 DEF Flow, Writes
<1>3. CASE ReadLines(r)
  <2>1. /\ req[r].pc = "lines" /\ UNCHANGED <<docs, records, period, comp, report, approvals>>
        /\ Continue(r, [req[r] EXCEPT !.pc = "compute", !.lines = comp.lines])
    BY <1>3 DEF ReadLines, At, documents, filing
  <2>2. req'[r].pc = "compute" /\ restarts' = restarts
    <3>1. PICK l : l = [req[r] EXCEPT !.pc = "compute", !.lines = comp.lines]
      OBVIOUS
    <3>2. l.pc = "compute"
      BY <3>1, <1>0 DEF RequestType
    <3> QED BY <2>1, <3>1, <3>2, ContinueFields
  <2>3. Enters(r) /\ Leaves(r)
    BY <1>3, <2>1, <2>2 DEF Enters, Leaves, Unsettled, Refreshing
  <2> QED BY <2>1, <2>2, <2>3 DEF Flow, Writes
<1>4. CASE ReadForAdvance(r) \/ WriteCalculated(r)
  <2>1. /\ req[r].pc \in {"advance", "calculated"}
        /\ UNCHANGED <<docs, records, comp, report, approvals>>
        /\ WriteCalculated(r) \/ UNCHANGED period
        /\ Goto(r, "calculated") \/ Return(r)
    BY <1>4 DEF ReadForAdvance, WriteCalculated, At, documents, filing
  <2>2. req'[r].pc \in {"calculated", "idle"} /\ restarts' = restarts
    BY <2>1, GoFields, ReturnFields
  <2>3. Enters(r) /\ Leaves(r)
    BY <2>1, <2>2 DEF Enters, Leaves, Unsettled, Refreshing
  <2> QED BY <2>1, <2>2, <2>3 DEF Flow, Writes, StatusWriter
<1>5. CASE WriteComputation(r) \/ WriteFinal(r) \/ WriteLine(r) \/ MarkStale(r)
  <2>1. /\ req[r].pc \in {"compute", "finalise", "line", "stale"}
        /\ UNCHANGED <<docs, records, period, report, approvals>>
        /\ Goto(r, "advance") \/ Goto(r, "stale") \/ Return(r)
        /\ req[r].pc = "stale" => MarkStale(r)
    BY <1>5 DEF WriteComputation, WriteFinal, WriteLine, MarkStale, At, documents
  <2>2. req'[r].pc \in {"advance", "stale", "idle"} /\ restarts' = restarts
    BY <2>1, GoFields, ReturnFields
  <2>3. Enters(r) /\ Leaves(r)
    BY <2>1, <2>2 DEF Enters, Leaves, Unsettled, Refreshing
  <2> QED BY <1>5, <2>1, <2>2, <2>3 DEF Flow, Writes, CompWriter
<1> QED BY <1>1, <1>2, <1>3, <1>4, <1>5 DEF TaxSteps

\* The statements of reports.js and the payment of the invoice.
LEMMA ReportFlow ==
    ASSUME TypeOK, NEW r \in Requests, ReportSteps(r)
    PROVE  Flow(r)
<1>0. req[r] \in RequestType
  BY DEF TypeOK
<1>1. CASE \/ \E linked \in BOOLEAN : Generate(r, linked)
           \/ \E a \in Approvals : Submit(r, a)
           \/ \E outcome \in {"client_review", "approved", "rejected"} :
                 DecideReport(r, outcome)
           \/ \E accepted \in BOOLEAN : SignOff(r, accepted)
           \/ ArchiveReport(r) \/ SettleInvoice(r)
  BY <1>1, BeginsFlow
<1>2. CASE ReportWriter(r)
  <2>1. /\ req[r].pc \in {"generate", "submit", "decideReport", "signOff", "clientReject",
                          "archiveReport"}
        /\ UNCHANGED <<docs, records, period, comp, approvals>>
        /\ req[r].pc = "decideReport" => WriteOutcome(r)
    BY <1>2 DEF ReportWriter, InsertReport, WriteSubmitted, WriteOutcome, WriteSignedOff,
                WriteClientReject, WriteReportArchived, WriteReport, At, documents
  <2>2. /\ \/ Goto(r, "decidePeriod") \/ Goto(r, "signPeriod") \/ Goto(r, "rejectPeriod")
           \/ Return(r)
           \/ Goto(r, "approval") /\ WriteSubmitted(r)
           \/ Goto(r, "archivePeriod") /\ WriteReportArchived(r)
    BY <1>2 DEF ReportWriter, InsertReport, WriteSubmitted, WriteOutcome, WriteSignedOff,
                WriteClientReject, WriteReportArchived, WriteReport
  <2>3. /\ restarts' = restarts
        /\ \/ req'[r].pc \in {"decidePeriod", "signPeriod", "rejectPeriod", "idle"}
           \/ req'[r].pc = "approval" /\ WriteSubmitted(r)
           \/ req'[r].pc = "archivePeriod" /\ WriteReportArchived(r)
    BY <2>2, GoFields, ReturnFields
  <2>4. Enters(r)
    BY <2>3 DEF Enters
  <2>5. Leaves(r)
    BY <2>1 DEF Leaves, Unsettled, Refreshing
  <2> QED BY <1>2, <2>1, <2>3, <2>4, <2>5 DEF Flow, Writes
<1>3. CASE InsertApproval(r) \/ DecideApproval(r)
  <2>1. /\ req[r].pc \in {"approval", "decideApproval"}
        /\ req[r].pc = "approval" => InsertApproval(r)
        /\ UNCHANGED <<docs, records, period, comp, report>>
        /\ Goto(r, "pending") \/ (Goto(r, "decideReport") /\ DecideApproval(r))
    BY <1>3 DEF InsertApproval, DecideApproval, WriteApproval, At, documents
  <2>2. /\ restarts' = restarts
        /\ req'[r].pc = "pending" \/ (req'[r].pc = "decideReport" /\ DecideApproval(r))
    BY <2>1, GoFields
  <2>3. Enters(r) /\ Leaves(r)
    BY <2>1, <2>2 DEF Enters, Leaves, Unsettled, Refreshing
  <2> QED BY <1>3, <2>1, <2>2, <2>3 DEF Flow, Writes
<1>4. CASE PickApproval(r)
  <2>1. /\ req[r].pc = "pick" /\ UNCHANGED <<docs, records, period, comp, report, approvals>>
        /\ \/ \E a \in Approvals :
                 Continue(r, [req[r] EXCEPT !.pc = "decideApproval", !.row = a])
           \/ Goto(r, "decideReport")
    BY <1>4 DEF PickApproval, At, documents, filing
  <2>2. req'[r].pc \in {"decideApproval", "decideReport"} /\ restarts' = restarts
    <3>1. ASSUME NEW a, Continue(r, [req[r] EXCEPT !.pc = "decideApproval", !.row = a])
          PROVE  req'[r].pc = "decideApproval" /\ restarts' = restarts
      <4>1. PICK l : l = [req[r] EXCEPT !.pc = "decideApproval", !.row = a]
        OBVIOUS
      <4>2. l.pc = "decideApproval"
        BY <4>1, <1>0 DEF RequestType
      <4> QED BY <3>1, <4>1, <4>2, ContinueFields
    <3> QED BY <2>1, <3>1, GoFields
  <2>3. Enters(r) /\ Leaves(r)
    BY <1>4, <2>1, <2>2 DEF Enters, Leaves, Unsettled, Refreshing
  <2> QED BY <2>1, <2>2, <2>3 DEF Flow, Writes
<1>5. CASE \/ PeriodPending(r) \/ PeriodDecided(r) \/ PeriodSignedOff(r)
           \/ PeriodRejected(r) \/ PeriodArchived(r) \/ PeriodPaid(r)
  <2>1. /\ req[r].pc \in {"pending", "decidePeriod", "signPeriod", "rejectPeriod",
                          "archivePeriod", "paid"}
        /\ UNCHANGED <<docs, records, comp, report, approvals>>
        /\ \/ Goto(r, "finalise") \/ Goto(r, "period") \/ Return(r)
           \/ Goto(r, "archiveDocs") /\ PeriodArchived(r)
    BY <1>5 DEF PeriodPending, PeriodDecided, PeriodSignedOff, PeriodRejected,
                PeriodArchived, PeriodPaid, WriteStatus, At, documents, filing
  <2>2. /\ restarts' = restarts
        /\ \/ req'[r].pc \in {"finalise", "period", "idle"}
           \/ req'[r].pc = "archiveDocs" /\ PeriodArchived(r)
    BY <2>1, GoFields, ReturnFields
  <2>3. Enters(r) /\ Leaves(r)
    BY <2>1, <2>2 DEF Enters, Leaves, Unsettled, Refreshing
  <2> QED BY <1>5, <2>1, <2>2, <2>3 DEF Flow, Writes, StatusWriter
<1>6. CASE ArchiveDocuments(r)
  <2>1. /\ req[r].pc = "archiveDocs" /\ Return(r)
        /\ UNCHANGED <<records, period, comp, report, approvals>>
    BY <1>6 DEF ArchiveDocuments, At, filing
  <2>2. req'[r].pc = "idle" /\ restarts' = restarts
    BY <2>1, ReturnFields
  <2>3. Enters(r) /\ Leaves(r)
    BY <2>1, <2>2 DEF Enters, Leaves, Unsettled, Refreshing
  <2> QED BY <1>6, <2>1, <2>2, <2>3 DEF Flow, Writes, DocWriter
<1> QED BY <1>1, <1>2, <1>3, <1>4, <1>5, <1>6 DEF ReportSteps, ReportWriter

LEMMA HandlerFlow ==
    ASSUME TypeOK, NEW r \in Requests, Handler(r)
    PROVE  Flow(r)
  BY RefreshFlow, DocumentFlow, VerificationFlow, QueryFlow, TaxFlow, ReportFlow
     DEF Handler


-----------------------------------------------------------------------------
(***************************************************************************)
(* One handler at a time: what the documents, the period and the           *)
(* computation say                                                         *)
(***************************************************************************)

\* No two handlers are in flight together: each request is answered before
\* the next one is sent.
OneHandler == \A r, s \in Requests : r = s

\* What a decision has read of its document still holds.
CheckedInv ==
    /\ VerifiedMeansChecked
    /\ \A r \in Requests :
          req[r].pc \in {"record", "decide"} => req[r].ver = docs[req[r].doc].ver

LEMMA CheckedStep ==
    ASSUME OneHandler, IInv, CheckedInv, NEW r \in Requests, Handler(r)
    PROVE  CheckedInv'
<1>0. /\ Flow(r) /\ Fits(req[r]) /\ req[r] \in RequestType
      /\ docs \in [Docs -> DocumentRow] /\ \A s \in Requests : s = r
  BY HandlerFlow DEF IInv, TypeOK, TablesOK, DocumentRow, OneHandler
<1>1. req'[r].pc = "record" => req'[r].ver = docs'[req'[r].doc].ver
  <2>1. SUFFICES ASSUME req'[r].pc = "record" PROVE req'[r].ver = docs'[req'[r].doc].ver
    OBVIOUS
  <2>2. PICK d \in Docs, target \in Targets :
             \/ \E q \in Queries \cup {Null}, on \in BOOLEAN : Decide(r, d, target, q, on)
             \/ DecideBulk(r, d, target)
    BY <1>0, <2>1 DEF Flow, Enters
  <2>3. ASSUME NEW l, Begin(r, l), l.ver = docs[d].ver, l.doc = d
        PROVE  req'[r].ver = docs'[req'[r].doc].ver
    BY <2>3, BeginFields DEF IInv
  <2>4. ASSUME NEW q, NEW on, Decide(r, d, target, q, on)
        PROVE  req'[r].ver = docs'[req'[r].doc].ver
    <3>1. PICK l : l = [IdleRequest EXCEPT !.pc = "record", !.doc = d, !.qry = q,
                    !.next = target, !.on = on, !.ver = docs[d].ver,
                    !.op = IF q = Null THEN "none" ELSE "raise"]
      OBVIOUS
    <3>2. Begin(r, l) /\ l.ver = docs[d].ver /\ l.doc = d
      BY <3>1, <2>4 DEF Decide, IdleRequest
    <3> QED BY <3>2, <2>3
  <2>5. CASE DecideBulk(r, d, target)
    <3>1. PICK l : l = [IdleRequest EXCEPT !.pc = "record", !.doc = d,
                    !.next = target, !.ver = docs[d].ver]
      OBVIOUS
    <3>2. Begin(r, l) /\ l.ver = docs[d].ver /\ l.doc = d
      BY <3>1, <2>5 DEF DecideBulk, IdleRequest
    <3> QED BY <3>2, <2>3
  <2> QED BY <2>2, <2>4, <2>5
<1>2. req'[r].pc = "decide" => req'[r].ver = docs'[req'[r].doc].ver
  <2>1. SUFFICES ASSUME InsertRecord(r) PROVE req'[r].ver = docs'[req'[r].doc].ver
    BY <1>0 DEF Flow, Enters
  <2>2. req[r].pc = "record" /\ docs' = docs /\ Goto(r, "decide")
    BY <2>1 DEF InsertRecord, At
  <2> QED BY <2>2, GoFields DEF CheckedInv, IInv
<1>3. ASSUME NEW d \in Docs, docs'[d].st = "verified"
      PROVE  <<d, docs'[d].ver>> \in records'
  <2>1. CASE UNCHANGED docs
    <3>1. records \subseteq records'
      BY <1>0 DEF Flow, Writes, InsertRecord
    <3> QED BY <1>3, <2>1, <3>1 DEF CheckedInv, VerifiedMeansChecked
  <2>2. CASE DocWriter(r)
    <3>0. records' = records
      BY <2>2 DEF DocWriter, InsertDocument, WriteReplaced, WriteLock, WriteArchived,
                  WriteDeleted, WriteOpened, WriteDecision, MoveQueried, WriteReleased,
                  ArchiveDocuments
    <3>1. CASE WriteDecision(r)
      <4>1. /\ req[r].pc = "decide" /\ req[r].doc \in Docs
            /\ docs' = [docs EXCEPT ![req[r].doc].st = req[r].next,
                                    ![req[r].doc].locked = @ \/ req[r].on]
        BY <3>1, <1>0 DEF WriteDecision, At, Fits, OnDocument
      <4>2. docs'[d].ver = docs[d].ver
        BY <4>1, <1>0 DEF DocumentRow
      <4>3. CASE d = req[r].doc
        <5>1. docs'[d].st = req[r].next
          BY <4>1, <4>3, <1>0 DEF DocumentRow
        <5>2. <<d, req[r].ver>> \in records
          BY <4>1, <4>3, <5>1, <1>0, <1>3 DEF Fits
        <5> QED BY <3>0, <4>1, <4>2, <4>3, <5>2 DEF CheckedInv
      <4>4. CASE d # req[r].doc
        <5>1. docs'[d] = docs[d]
          BY <4>1, <4>4, <1>0
        <5> QED BY <1>3, <3>0, <5>1 DEF CheckedInv, VerifiedMeansChecked
      <4> QED BY <4>3, <4>4
    <3>2. CASE WriteReplaced(r) \/ InsertDocument(r)
      <4>1. /\ req[r].doc \in Docs /\ docs'[req[r].doc].st # "verified"
            /\ d # req[r].doc => docs'[d] = docs[d]
        <5>1. CASE WriteReplaced(r)
          <6>1. /\ req[r].pc = "replace"
                /\ docs' = [docs EXCEPT ![req[r].doc].ver = req[r].ver,
                                        ![req[r].doc].st = req[r].next]
            BY <5>1 DEF WriteReplaced, At
          <6>2. req[r].doc \in Docs /\ req[r].next # "verified"
            BY <6>1, <1>0 DEF Fits, OnDocument, Replacing
          <6> QED BY <6>1, <6>2, <1>0 DEF DocumentRow
        <5>2. CASE InsertDocument(r)
          <6>1. req[r].doc \in Docs
            BY <5>2, <1>0 DEF InsertDocument, At, Fits
          <6> QED BY <6>1, <5>2, <1>0 DEF InsertDocument, NoDocument
        <5> QED BY <3>2, <5>1, <5>2
      <4> QED BY <1>3, <3>0, <4>1 DEF CheckedInv, VerifiedMeansChecked
    <3>3. CASE ArchiveDocuments(r)
      <4>1. docs'[d] = IF docs[d].st = "none" THEN docs[d]
                       ELSE [docs[d] EXCEPT !.st = "archived", !.locked = TRUE]
        BY <3>3 DEF ArchiveDocuments
      <4> QED BY <4>1, <1>0, <1>3 DEF DocumentRow
    <3>4. CASE \/ WriteLock(r) \/ WriteArchived(r) \/ WriteDeleted(r) \/ WriteOpened(r)
               \/ MoveQueried(r) \/ WriteReleased(r)
      <4>1. req[r].doc \in Docs
        BY <3>4, <1>0 DEF WriteLock, WriteArchived, WriteDeleted, WriteOpened, MoveQueried,
                          WriteReleased, At, Fits, OnDocument
      <4>2. docs'[d].st = docs[d].st /\ docs'[d].ver = docs[d].ver
        <5>1. CASE WriteLock(r) \/ WriteDeleted(r)
          BY <5>1, <4>1, <1>0 DEF WriteLock, WriteDeleted, DocumentRow
        <5>2. CASE WriteArchived(r)
          BY <5>2, <4>1, <1>0, <1>3 DEF WriteArchived, DocumentRow
        <5>3. CASE WriteOpened(r) \/ MoveQueried(r) \/ WriteReleased(r)
          BY <5>3, <4>1, <1>0, <1>3 DEF WriteOpened, MoveQueried, WriteReleased, SetStatus,
                                        DocumentRow
        <5> QED BY <3>4, <5>1, <5>2, <5>3
      <4> QED BY <1>3, <3>0, <4>2 DEF CheckedInv, VerifiedMeansChecked
    <3> QED BY <2>2, <3>1, <3>2, <3>3, <3>4 DEF DocWriter
  <2> QED BY <1>0, <2>1, <2>2 DEF Flow, Writes
<1> QED BY <1>0, <1>1, <1>2, <1>3 DEF CheckedInv, VerifiedMeansChecked

\* The explicit decisions write a status that refreshFilingPeriod keeps.
LEMMA StatusTerminal ==
    ASSUME IInv, NEW r \in Requests, StatusWriter(r)
    PROVE  period' = [period EXCEPT !.st = period'.st] /\ period'.st \in Terminal
<1>1. \E st \in Terminal : period' = [period EXCEPT !.st = st]
  <2>1. CASE PeriodDecided(r)
    <3>1. req[r].next \in {"client_review", "approved", "rejected"}
      BY <2>1 DEF PeriodDecided, WriteStatus, At, Fits, Deciding, IInv
    <3> QED BY <2>1, <3>1 DEF PeriodDecided, WriteStatus, Terminal
  <2>2. CASE ~PeriodDecided(r)
    BY <2>2 DEF StatusWriter, WriteCalculated, PeriodPending, PeriodSignedOff,
                PeriodRejected, PeriodArchived, PeriodPaid, WriteStatus, Terminal
  <2> QED BY <2>1, <2>2
<1>2. period \in PeriodRow
  BY FilingTypes
<1> QED BY <1>1, <1>2 DEF PeriodRow

\* What a refresh has read of the period and of the documents is still so.
RefreshInv ==
    \A r \in Requests :
       /\ req[r].pc \in Refreshing => req[r].seen = period.st
       /\ req[r].pc \in {"queries", "refresh"} => req[r].cnt = Counts

LEMMA CountsKept ==
    ASSUME UNCHANGED docs
    PROVE  Counts' = Counts /\ Live' = Live /\ \A S : LiveIn(S)' = LiveIn(S)
  BY DEF Counts, LiveIn, Live

LEMMA RefreshStep ==
    ASSUME OneHandler, IInv, RefreshInv, NEW r \in Requests, Handler(r)
    PROVE  RefreshInv'
<1>0. /\ Flow(r) /\ req[r] \in RequestType /\ \A s \in Requests : s = r
  BY HandlerFlow DEF IInv, TypeOK, OneHandler
<1>1. CASE ReadPeriod(r)
  <2>1. PICK l : l = [req[r] EXCEPT !.pc = "counts", !.seen = period.st]
    OBVIOUS
  <2>2. Continue(r, l) /\ period' = period
    BY <1>1, <2>1 DEF ReadPeriod
  <2>3. l.pc = "counts" /\ l.seen = period.st
    BY <2>1, <1>0 DEF RequestType
  <2>4. req'[r] = l
    BY <2>2, ContinueFields DEF IInv
  <2> QED BY <1>0, <2>2, <2>3, <2>4 DEF RefreshInv
<1>2. CASE CountDocuments(r)
  <2>1. PICK l : l = [req[r] EXCEPT !.pc = "queries", !.cnt = Counts]
    OBVIOUS
  <2>2. /\ Continue(r, l) /\ period' = period /\ docs' = docs /\ req[r].pc = "counts"
    BY <1>2, <2>1 DEF CountDocuments, At, documents
  <2>3. l.pc = "queries" /\ l.seen = req[r].seen /\ l.cnt = Counts
    BY <2>1, <1>0 DEF RequestType
  <2>4. req'[r] = l
    BY <2>2, ContinueFields DEF IInv
  <2> QED BY <1>0, <2>2, <2>3, <2>4, CountsKept DEF RefreshInv, Refreshing
<1>3. CASE CountQueries(r)
  <2>1. PICK l : l = [req[r] EXCEPT !.pc = "refresh", !.asked = OpenQueries # {}]
    OBVIOUS
  <2>2. /\ Continue(r, l) /\ period' = period /\ docs' = docs /\ req[r].pc = "queries"
    BY <1>3, <2>1 DEF CountQueries, At, documents
  <2>3. l.pc = "refresh" /\ l.seen = req[r].seen /\ l.cnt = req[r].cnt
    BY <2>1, <1>0 DEF RequestType
  <2>4. req'[r] = l
    BY <2>2, ContinueFields DEF IInv
  <2> QED BY <1>0, <2>2, <2>3, <2>4, CountsKept DEF RefreshInv, Refreshing
<1>4. CASE ~ (ReadPeriod(r) \/ CountDocuments(r) \/ CountQueries(r))
  <2>1. req'[r].pc \notin Refreshing
    BY <1>0, <1>4 DEF Flow, Enters, Refreshing
  <2> QED BY <1>0, <2>1 DEF RefreshInv, Refreshing
<1> QED BY <1>1, <1>2, <1>3, <1>4

\* A computation that is not stale was made from the lines there are, unless
\* the handler that changed a line has not said so yet.
CompInv ==
    /\ restarts = 0 /\ comp.st = "computed" /\ (\A r \in Requests : req[r].pc # "stale")
          => comp.basis = comp.lines
    /\ \A r \in Requests : req[r].pc = "compute" => req[r].lines = comp.lines

LEMMA CompStep ==
    ASSUME OneHandler, IInv, CompInv, NEW r \in Requests, Handler(r)
    PROVE  CompInv'
<1>0. /\ Flow(r) /\ req[r] \in RequestType /\ comp \in CompRow
      /\ \A s \in Requests : s = r
  BY HandlerFlow, FilingTypes DEF IInv, TypeOK, OneHandler
<1>1. req'[r].pc = "compute" => req'[r].lines = comp'.lines
  <2>1. SUFFICES ASSUME ReadLines(r) PROVE req'[r].lines = comp'.lines
    BY <1>0 DEF Flow, Enters
  <2>2. PICK l : l = [req[r] EXCEPT !.pc = "compute", !.lines = comp.lines]
    OBVIOUS
  <2>3. Continue(r, l) /\ comp' = comp
    BY <2>1, <2>2 DEF ReadLines, filing
  <2>4. l.lines = comp.lines
    BY <2>2, <1>0 DEF RequestType
  <2> QED BY <2>3, <2>4, ContinueFields DEF IInv
<1>2. ASSUME restarts' = 0, comp'.st = "computed", req'[r].pc # "stale"
      PROVE  comp'.basis = comp'.lines
  <2>1. CASE UNCHANGED comp
    <3>1. req[r].pc # "stale"
      <4>1. CASE req[r].pc = "stale"
        <5>1. MarkStale(r)
          BY <1>0, <4>1 DEF Flow, Leaves
        <5> QED BY <5>1, <1>0, <1>2 DEF MarkStale, CompRow
      <4> QED BY <4>1
    <3> QED BY <1>0, <1>2, <2>1, <3>1 DEF CompInv, Flow
  <2>2. CASE WriteComputation(r)
    <3>1. /\ req[r].pc = "compute"
          /\ comp' = [comp EXCEPT !.st = "computed", !.basis = req[r].lines,
                            !.counted = req[r].lines \cap req[r].used]
      BY <2>2 DEF WriteComputation, At
    <3>2. comp'.basis = req[r].lines /\ comp'.lines = comp.lines
      BY <3>1, <1>0 DEF CompRow
    <3> QED BY <3>1, <3>2 DEF CompInv
  <2>3. CASE WriteFinal(r) \/ MarkStale(r)
    <3>1. comp'.st \in {"final", "stale"}
      BY <2>3, <1>0 DEF WriteFinal, MarkStale, CompRow
    <3> QED BY <3>1, <1>2
  <2>4. CASE WriteLine(r)
    <3>1. req'[r].pc = "stale"
      BY <2>4, GoFields DEF WriteLine, IInv
    <3> QED BY <3>1, <1>2
  <2> QED BY <1>0, <2>1, <2>2, <2>3, <2>4 DEF Flow, Writes, CompWriter
<1> QED BY <1>0, <1>1, <1>2 DEF CompInv


-----------------------------------------------------------------------------
(***************************************************************************)
(* One handler at a time: the report and its approvals                     *)
(***************************************************************************)

Pending == {a \in Approvals : approvals[a] = "pending"}
SomeApproved == \E a \in Approvals : approvals[a] = "approved"

\* What a handler of reports.js with the locals l has read still holds.
ReportLocal(l) ==
    /\ l.pc = "generate" => report.st = "none"
    /\ l.pc = "submit" => report.st \in {"draft", "rejected"}
    /\ l.pc \in {"submit", "approval"} => l.row \in Approvals /\ approvals[l.row] = "none"
    /\ l.pc \in {"approval", "pick", "decideApproval", "decideReport"} =>
            report.st = "pending_approval"
    /\ l.pc = "decideApproval" => l.row \in Approvals /\ approvals[l.row] = "pending"
    /\ l.pc \in {"signOff", "clientReject"} => report.st \in {"client_review", "approved"}
    /\ l.pc = "archiveReport" => report.st \in {"signed_off", "approved"}
    /\ l.pc \in {"archivePeriod", "archiveDocs"} => report.st = "archived"
    /\ l.pc = "archiveDocs" => period.st = "archived"

ReportInv == \A r \in Requests : ReportLocal(req[r])

\* Statements about which ReportLocal says something.
Reporting ==
    {"generate", "submit", "approval", "pick", "decideApproval", "decideReport",
     "signOff", "clientReject", "archiveReport", "archivePeriod", "archiveDocs"}

LEMMA ReportStep ==
    ASSUME OneHandler, IInv, ReportInv, NEW r \in Requests, Handler(r)
    PROVE  ReportInv'
<1>0. /\ Flow(r) /\ req[r] \in RequestType /\ Fits(req[r])
      /\ report \in ReportRow /\ period \in PeriodRow
      /\ approvals \in [Approvals -> ApprovalStatus]
      /\ ReportLocal(req[r]) /\ \A s \in Requests : s = r
  BY HandlerFlow, FilingTypes DEF IInv, TypeOK, OneHandler, ReportInv
<1>1. SUFFICES ReportLocal(req[r])'
  BY <1>0 DEF ReportInv
<1>2. ASSUME NEW l, Begin(r, l), ReportLocal(l)
      PROVE  ReportLocal(req[r])'
  BY <1>2, BeginFields DEF IInv, ReportLocal
<1>3. CASE \E linked \in BOOLEAN : Generate(r, linked)
  <2>1. PICK linked \in BOOLEAN : Generate(r, linked)
    BY <1>3
  <2>2. PICK l : l = [IdleRequest EXCEPT !.pc = "generate", !.on = linked,
                        !.used = IF linked THEN comp.lines ELSE {}]
    OBVIOUS
  <2>3. Begin(r, l) /\ report.st = "none"
    BY <2>1, <2>2 DEF Generate
  <2>4. l.pc = "generate"
    BY <2>2 DEF IdleRequest
  <2>5. ReportLocal(l)
    BY <2>3, <2>4 DEF ReportLocal
  <2> QED BY <2>3, <2>5, <1>2
<1>4. CASE \E a \in Approvals : Submit(r, a)
  <2>1. PICK a \in Approvals : Submit(r, a)
    BY <1>4
  <2>2. PICK l : l = [IdleRequest EXCEPT !.pc = "submit", !.row = a]
    OBVIOUS
  <2>3. Begin(r, l) /\ report.st \in {"draft", "rejected"} /\ approvals[a] = "none"
    BY <2>1, <2>2 DEF Submit
  <2>4. l.pc = "submit" /\ l.row = a
    BY <2>2 DEF IdleRequest
  <2>5. ReportLocal(l)
    BY <2>3, <2>4 DEF ReportLocal
  <2> QED BY <2>3, <2>5, <1>2
<1>5. CASE \E outcome \in {"client_review", "approved", "rejected"} : DecideReport(r, outcome)
  <2>1. PICK outcome \in {"client_review", "approved", "rejected"} : DecideReport(r, outcome)
    BY <1>5
  <2>2. PICK l : l = [IdleRequest EXCEPT !.pc = "pick", !.next = outcome,
                        !.on = outcome # "rejected" /\ report.linked]
    OBVIOUS
  <2>3. Begin(r, l) /\ report.st = "pending_approval"
    BY <2>1, <2>2 DEF DecideReport
  <2>4. l.pc = "pick"
    BY <2>2 DEF IdleRequest
  <2>5. ReportLocal(l)
    BY <2>3, <2>4 DEF ReportLocal
  <2> QED BY <2>3, <2>5, <1>2
<1>6. CASE \E accepted \in BOOLEAN : SignOff(r, accepted)
  <2>1. PICK accepted \in BOOLEAN : SignOff(r, accepted)
    BY <1>6
  <2>2. PICK l : l = [IdleRequest EXCEPT !.pc = IF accepted THEN "signOff"
                                                            ELSE "clientReject"]
    OBVIOUS
  <2>3. Begin(r, l) /\ report.st \in {"client_review", "approved"}
    BY <2>1, <2>2 DEF SignOff
  <2>4. l.pc \in {"signOff", "clientReject"}
    BY <2>2 DEF IdleRequest
  <2>5. ReportLocal(l)
    BY <2>3, <2>4 DEF ReportLocal
  <2> QED BY <2>3, <2>5, <1>2
<1>7. CASE ArchiveReport(r)
  <2>2. PICK l : l = [IdleRequest EXCEPT !.pc = "archiveReport"]
    OBVIOUS
  <2>3. Begin(r, l) /\ report.st \in {"signed_off", "approved"}
    BY <1>7, <2>2 DEF ArchiveReport
  <2>4. l.pc = "archiveReport"
    BY <2>2 DEF IdleRequest
  <2>5. ReportLocal(l)
    BY <2>3, <2>4 DEF ReportLocal
  <2> QED BY <2>3, <2>5, <1>2
<1>8. CASE WriteSubmitted(r) \/ WriteReportArchived(r)
  <2>1. /\ req[r].pc \in {"submit", "archiveReport"} /\ approvals' = approvals
        /\ \/ Goto(r, "approval") /\ req[r].pc = "submit" /\ report' = [report EXCEPT !.st = "pending_approval"]
           \/ Goto(r, "archivePeriod") /\ report' = [report EXCEPT !.st = "archived"]
    BY <1>8 DEF WriteSubmitted, WriteReportArchived, WriteReport, At
  <2>2. /\ req'[r].row = req[r].row
        /\ \/ req'[r].pc = "approval" /\ req[r].pc = "submit" /\ report'.st = "pending_approval"
           \/ req'[r].pc = "archivePeriod" /\ report'.st = "archived"
    BY <1>0, <2>1, GoFields DEF IInv, ReportRow
  <2> QED BY <1>0, <2>1, <2>2 DEF ReportLocal
<1>9. CASE PickApproval(r)
  <2>1. /\ req[r].pc = "pick" /\ UNCHANGED <<period, report, approvals>>
        /\ \/ \E a \in Approvals :
                 /\ approvals[a] = "pending"
                 /\ Continue(r, [req[r] EXCEPT !.pc = "decideApproval", !.row = a])
           \/ Goto(r, "decideReport")
    BY <1>9 DEF PickApproval, At, filing
  <2>2. \/ req'[r].pc = "decideReport"
        \/ /\ req'[r].pc = "decideApproval" /\ req'[r].row \in Approvals
           /\ approvals[req'[r].row] = "pending"
    <3>1. ASSUME NEW a \in Approvals, approvals[a] = "pending",
                 Continue(r, [req[r] EXCEPT !.pc = "decideApproval", !.row = a])
          PROVE  /\ req'[r].pc = "decideApproval" /\ req'[r].row = a
      <4>1. PICK l : l = [req[r] EXCEPT !.pc = "decideApproval", !.row = a]
        OBVIOUS
      <4>2. l.pc = "decideApproval" /\ l.row = a
        BY <4>1, <1>0 DEF RequestType
      <4>3. req'[r] = l
        BY <3>1, <4>1, ContinueFields DEF IInv
      <4> QED BY <4>2, <4>3
    <3> QED BY <2>1, <3>1, GoFields DEF IInv
  <2> QED BY <1>0, <2>1, <2>2 DEF ReportLocal
<1>10. CASE DecideApproval(r)
  <2>1. /\ req[r].pc = "decideApproval" /\ report' = report /\ Goto(r, "decideReport")
    BY <1>10 DEF DecideApproval, WriteApproval, At
  <2>2. req'[r].pc = "decideReport"
    BY <2>1, GoFields DEF IInv
  <2> QED BY <1>0, <2>1, <2>2 DEF ReportLocal
<1>11. CASE PeriodArchived(r)
  <2>1. /\ req[r].pc = "archivePeriod" /\ report' = report /\ Goto(r, "archiveDocs")
        /\ period' = [period EXCEPT !.st = "archived"]
    BY <1>11 DEF PeriodArchived, WriteStatus, At, filing
  <2>2. req'[r].pc = "archiveDocs" /\ period'.st = "archived"
    BY <1>0, <2>1, GoFields DEF IInv, PeriodRow
  <2> QED BY <1>0, <2>1, <2>2 DEF ReportLocal
<1>12. CASE req'[r].pc \notin Reporting
  BY <1>12 DEF ReportLocal, Reporting
<1> QED BY <1>0, <1>3, <1>4, <1>5, <1>6, <1>7, <1>8, <1>9, <1>10, <1>11, <1>12
        DEF Flow, Enters, Reporting

\* One approval row is pending while the report waits, and none between the
\* two writes of a submission or of a decision.
ApprovalInv ==
    restarts = 0 =>
      /\ IF report.st = "pending_approval"
              /\ \A r \in Requests : req[r].pc \notin {"approval", "decideReport"}
         THEN \E a \in Approvals : Pending = {a}
         ELSE Pending = {}
      /\ report.st \in {"client_review", "approved", "signed_off"} => SomeApproved
      /\ \A r \in Requests :
            req[r].pc = "decideReport" /\ req[r].next # "rejected" => SomeApproved

LEMMA ApprovalStep ==
    ASSUME OneHandler, IInv, ReportInv, ApprovalInv, NEW r \in Requests, Handler(r)
    PROVE  ApprovalInv'
<1>0. /\ Flow(r) /\ req[r] \in RequestType /\ Fits(req[r])
      /\ report \in ReportRow /\ approvals \in [Approvals -> ApprovalStatus]
      /\ ReportLocal(req[r]) /\ \A s \in Requests : s = r
  BY HandlerFlow, FilingTypes DEF IInv, TypeOK, OneHandler, ReportInv
<1>1. SUFFICES ASSUME restarts = 0
               PROVE  /\ IF report'.st = "pending_approval"
                              /\ req'[r].pc \notin {"approval", "decideReport"}
                         THEN \E a \in Approvals : Pending' = {a}
                         ELSE Pending' = {}
                      /\ report'.st \in {"client_review", "approved", "signed_off"} =>
                            SomeApproved'
                      /\ req'[r].pc = "decideReport" /\ req'[r].next # "rejected" =>
                            SomeApproved'
  BY <1>0 DEF Flow, ApprovalInv
<1>2. /\ IF report.st = "pending_approval" /\ req[r].pc \notin {"approval", "decideReport"}
         THEN \E a \in Approvals : Pending = {a}
         ELSE Pending = {}
      /\ report.st \in {"client_review", "approved", "signed_off"} => SomeApproved
      /\ req[r].pc = "decideReport" /\ req[r].next # "rejected" => SomeApproved
  BY <1>0, <1>1 DEF ApprovalInv
<1>3. UNCHANGED approvals => Pending' = Pending /\ SomeApproved' = SomeApproved
  BY DEF Pending, SomeApproved
<1>4. CASE InsertApproval(r)
  <2>1. /\ req[r].pc = "approval" /\ report' = report /\ Goto(r, "pending")
        /\ approvals' = [approvals EXCEPT ![req[r].row] = "pending"]
    BY <1>4 DEF InsertApproval, WriteApproval, At
  <2>2. /\ req[r].row \in Approvals /\ approvals[req[r].row] = "none"
        /\ report.st = "pending_approval" /\ Pending = {}
    BY <1>0, <1>2, <2>1 DEF ReportLocal
  <2>3. Pending' = {req[r].row}
    BY <1>0, <2>1, <2>2 DEF Pending
  <2>4. req'[r].pc = "pending"
    BY <2>1, GoFields DEF IInv
  <2> QED BY <2>1, <2>2, <2>3, <2>4
<1>5. CASE DecideApproval(r)
  <2>1. PICK st \in {"approved", "rejected"} :
           /\ st = IF req[r].next = "rejected" THEN "rejected" ELSE "approved"
           /\ approvals' = [approvals EXCEPT ![req[r].row] = st]
    BY <1>5 DEF DecideApproval, WriteApproval
  <2>2. req[r].pc = "decideApproval" /\ report' = report /\ Goto(r, "decideReport")
    BY <1>5 DEF DecideApproval, WriteApproval, At
  <2>3. /\ req[r].row \in Approvals /\ approvals[req[r].row] = "pending"
        /\ report.st = "pending_approval"
    BY <1>0, <2>2 DEF ReportLocal
  <2>4. Pending = {req[r].row}
    <3>1. PICK a \in Approvals : Pending = {a}
      BY <1>2, <2>2, <2>3
    <3>2. req[r].row \in Pending
      BY <2>3 DEF Pending
    <3> QED BY <3>1, <3>2
  <2>5. Pending' = {}
    BY <1>0, <2>1, <2>4 DEF Pending
  <2>6. req'[r].pc = "decideReport" /\ req'[r].next = req[r].next
    BY <2>2, GoFields DEF IInv
  <2>7. req[r].next # "rejected" => SomeApproved'
    BY <1>0, <2>1, <2>3 DEF SomeApproved
  <2> QED BY <2>2, <2>3, <2>5, <2>6, <2>7
<1>6. CASE PickApproval(r)
  <2>1. req[r].pc = "pick" /\ UNCHANGED <<report, approvals>>
    BY <1>6 DEF PickApproval, At, filing
  <2>2. PICK a \in Approvals : Pending = {a}
    BY <1>0, <1>2, <2>1 DEF ReportLocal
  <2>3. approvals[a] = "pending"
    BY <2>2 DEF Pending
  <2>4. \E b \in Approvals :
           Continue(r, [req[r] EXCEPT !.pc = "decideApproval", !.row = b])
    BY <1>6, <2>3 DEF PickApproval
  <2>5. req'[r].pc = "decideApproval"
    <3>1. PICK b \in Approvals :
             Continue(r, [req[r] EXCEPT !.pc = "decideApproval", !.row = b])
      BY <2>4
    <3>2. PICK l : l = [req[r] EXCEPT !.pc = "decideApproval", !.row = b]
      OBVIOUS
    <3>3. l.pc = "decideApproval"
      BY <3>2, <1>0 DEF RequestType
    <3> QED BY <3>1, <3>2, <3>3, ContinueFields DEF IInv
  <2> QED BY <1>2, <1>3, <2>1, <2>2, <2>5
<1>7. CASE ReportWriter(r)
  <2>0. approvals' = approvals
    BY <1>7 DEF ReportWriter, InsertReport, WriteSubmitted, WriteOutcome, WriteSignedOff,
                WriteClientReject, WriteReportArchived, WriteReport
  <2>1. CASE InsertReport(r)
    <3>1. req[r].pc = "generate" /\ report'.st = "draft" /\ req'[r].pc = "idle"
      BY <2>1, ReturnFields DEF InsertReport, At, IInv
    <3>2. report.st = "none"
      BY <3>1, <1>0 DEF ReportLocal
    <3> QED BY <1>2, <1>3, <2>0, <3>1, <3>2
  <2>2. CASE WriteSubmitted(r)
    <3>1. req[r].pc = "submit" /\ report'.st = "pending_approval" /\ req'[r].pc = "approval"
      BY <2>2, <1>0, GoFields DEF WriteSubmitted, WriteReport, At, IInv, ReportRow
    <3>2. report.st \in {"draft", "rejected"}
      BY <3>1, <1>0 DEF ReportLocal
    <3> QED BY <1>2, <1>3, <2>0, <3>1, <3>2
  <2>3. CASE WriteOutcome(r)
    <3>1. req[r].pc = "decideReport" /\ report'.st = req[r].next /\ req'[r].pc = "decidePeriod"
      BY <2>3, <1>0, GoFields DEF WriteOutcome, WriteReport, At, IInv, ReportRow
    <3>2. req[r].next \in {"client_review", "approved", "rejected"}
      BY <3>1, <1>0 DEF Fits, Deciding
    <3> QED BY <1>2, <1>3, <2>0, <3>1, <3>2
  <2>4. CASE WriteSignedOff(r)
    <3>1. req[r].pc = "signOff" /\ report'.st = "signed_off" /\ req'[r].pc = "signPeriod"
      BY <2>4, <1>0, GoFields DEF WriteSignedOff, WriteReport, At, IInv, ReportRow
    <3>2. report.st \in {"client_review", "approved"}
      BY <3>1, <1>0 DEF ReportLocal
    <3> QED BY <1>2, <1>3, <2>0, <3>1, <3>2
  <2>5. CASE WriteClientReject(r)
    <3>1. req[r].pc = "clientReject" /\ report'.st = "rejected" /\ req'[r].pc = "rejectPeriod"
      BY <2>5, <1>0, GoFields DEF WriteClientReject, WriteReport, At, IInv, ReportRow
    <3>2. report.st \in {"client_review", "approved"}
      BY <3>1, <1>0 DEF ReportLocal
    <3> QED BY <1>2, <1>3, <2>0, <3>1, <3>2
  <2>6. CASE WriteReportArchived(r)
    <3>1. /\ req[r].pc = "archiveReport" /\ report'.st = "archived"
          /\ req'[r].pc = "archivePeriod"
      BY <2>6, <1>0, GoFields DEF WriteReportArchived, WriteReport, At, IInv, ReportRow
    <3>2. report.st \in {"signed_off", "approved"}
      BY <3>1, <1>0 DEF ReportLocal
    <3> QED BY <1>2, <1>3, <2>0, <3>1, <3>2
  <2> QED BY <1>7, <2>1, <2>2, <2>3, <2>4, <2>5, <2>6 DEF ReportWriter
<1>8. CASE UNCHANGED <<report, approvals>> /\ ~PickApproval(r)
  <2>1. req'[r].pc \notin {"approval", "decideReport"}
    <3>1. ~WriteSubmitted(r)
      <4>1. SUFFICES ASSUME WriteSubmitted(r) PROVE FALSE
        OBVIOUS
      <4>2. req[r].pc = "submit" /\ report'.st = "pending_approval"
        BY <4>1, <1>0 DEF WriteSubmitted, WriteReport, At, ReportRow
      <4> QED BY <4>2, <1>0, <1>8 DEF ReportLocal
    <3>2. ~DecideApproval(r)
      <4>1. SUFFICES ASSUME DecideApproval(r) PROVE FALSE
        OBVIOUS
      <4>2. /\ req[r].pc = "decideApproval"
            /\ approvals'[req[r].row] # "pending" \/ req[r].row \notin Approvals
        BY <4>1, <1>0 DEF DecideApproval, WriteApproval, At
      <4> QED BY <4>2, <1>0, <1>8 DEF ReportLocal
    <3> QED BY <1>0, <1>8, <3>1, <3>2 DEF Flow, Enters
  <2>2. req[r].pc \notin {"approval", "decideReport"}
    <3>1. ~InsertApproval(r)
      <4>1. SUFFICES ASSUME InsertApproval(r) PROVE FALSE
        OBVIOUS
      <4>2. /\ req[r].pc = "approval"
            /\ approvals'[req[r].row] = "pending" \/ req[r].row \notin Approvals
        BY <4>1, <1>0 DEF InsertApproval, WriteApproval, At
      <4> QED BY <4>2, <1>0, <1>8 DEF ReportLocal
    <3>2. ~WriteOutcome(r)
      <4>1. SUFFICES ASSUME WriteOutcome(r) PROVE FALSE
        OBVIOUS
      <4>2. req[r].pc = "decideReport" /\ report'.st = req[r].next
        BY <4>1, <1>0 DEF WriteOutcome, WriteReport, At, ReportRow
      <4>3. req[r].next \in {"client_review", "approved", "rejected"}
        BY <4>2, <1>0 DEF Fits, Deciding
      <4> QED BY <4>2, <4>3, <1>0, <1>8 DEF ReportLocal
    <3> QED BY <1>0, <3>1, <3>2 DEF Flow, Leaves
  <2> QED BY <1>2, <1>3, <1>8, <2>1, <2>2
<1> QED BY <1>0, <1>4, <1>5, <1>6, <1>7, <1>8 DEF Flow, Writes


-----------------------------------------------------------------------------
(***************************************************************************)
(* One handler at a time: the counters and the derived status              *)
(***************************************************************************)

InStep == period.received = Counts.received /\ period.verified = Counts.verified

CleanDocs ==
    /\ \A d \in Live : docs[d].st \notin Queried
    /\ \/ \A d \in Live : docs[d].st \in Verified
       \/ LiveIn(Verified) >= Cardinality(Checklist)

\* Nothing was cut short and no document has moved since the last refresh.
Settled ==
    /\ restarts = 0 /\ ~BatchFails
    /\ \A r \in Requests : ~Unsettled(req[r])

\* Until the report is archived, the period has the counts of its documents
\* wherever no refresh is owed.
CountersInv == Settled /\ report.st # "archived" => InStep

\* The same for what a verified period promises; archiving leaves its status
\* explicit.
CleanInv == Settled /\ period.st = "verified" => CleanDocs

LEMMA FiniteDocs ==
    ASSUME NEW S \in SUBSET Docs
    PROVE  IsFiniteSet(S) /\ Cardinality(S) \in Nat
  BY FiniteAssumption, FS_Subset, FS_CardinalityType

\* Counting zero documents of a status means there is none, and as many
\* verified ones as documents means all of them.
LEMMA CountsSay ==
    /\ Counts.total = Cardinality(Live) /\ Counts.verified = LiveIn(Verified)
    /\ Counts.queried \in Nat /\ Counts.awaiting \in Nat
    /\ Counts.queried = 0 => \A d \in Live : docs[d].st # "query_raised"
    /\ Counts.awaiting = 0 => \A d \in Live : docs[d].st # "awaiting_client"
    /\ Counts.verified = Counts.total => \A d \in Live : docs[d].st \in Verified
<1>1. /\ Counts.total = Cardinality(Live) /\ Counts.verified = LiveIn(Verified)
      /\ Counts.queried = LiveIn({"query_raised"})
      /\ Counts.awaiting = LiveIn({"awaiting_client"})
  BY DEF Counts
<1>2. Live \in SUBSET Docs
  BY DEF Live
<1>3. ASSUME NEW S
      PROVE  /\ LiveIn(S) \in Nat
             /\ LiveIn(S) = 0 => \A d \in Live : docs[d].st \notin S
             /\ LiveIn(S) = Cardinality(Live) => \A d \in Live : docs[d].st \in S
  <2>1. PICK T : T = {d \in Live : docs[d].st \in S}
    OBVIOUS
  <2>2. T \in SUBSET Docs /\ T \in SUBSET Live /\ LiveIn(S) = Cardinality(T)
    BY <1>2, <2>1 DEF LiveIn
  <2>3. IsFiniteSet(T) /\ Cardinality(T) \in Nat /\ IsFiniteSet(Live)
    BY <1>2, <2>2, FiniteDocs
  <2>4. Cardinality(T) = 0 => T = {}
    BY <2>3, FS_EmptySet
  <2>5. Cardinality(T) = Cardinality(Live) => T = Live
    BY <2>2, <2>3, FS_Subset
  <2> QED BY <2>1, <2>2, <2>3, <2>4, <2>5
<1> QED BY <1>1, <1>3

\* The status derived from the counts is verified only over clean documents.
LEMMA DeriveClean ==
    ASSUME NEW asked, DeriveOpen(Counts, asked) = "verified"
    PROVE  CleanDocs
<1>1. /\ ~ (Counts.queried > 0) /\ ~ (Counts.awaiting > 0)
      /\ \/ Counts.verified >= Cardinality(Checklist)
         \/ Counts.verified = Counts.total
  BY DEF DeriveOpen
<1>2. Counts.queried = 0 /\ Counts.awaiting = 0
  BY <1>1, CountsSay
<1>3. \A d \in Live : docs[d].st \notin Queried
  BY <1>2, CountsSay DEF Queried
<1> QED BY <1>1, <1>3, CountsSay DEF CleanDocs

\* A change of a document leaves its handler owing a refresh, but for the
\* lock, which no count sees, and the archive.
LEMMA DocWrites ==
    ASSUME IInv, NEW r \in Requests, DocWriter(r)
    PROVE  \/ Unsettled(req'[r])
           \/ ArchiveDocuments(r)
           \/ /\ WriteLock(r) /\ Counts' = Counts /\ Live' = Live
              /\ \A d \in Docs : docs'[d].st = docs[d].st
              /\ LiveIn(Verified)' = LiveIn(Verified)
<1>0. /\ req[r] \in RequestType /\ Fits(req[r]) /\ TypeOK
      /\ docs \in [Docs -> DocumentRow]
  BY DEF IInv, TypeOK, TablesOK, DocumentRow
<1>1. CASE InsertDocument(r)
  <2>1. PICK l : l = [req[r] EXCEPT !.pc = "sync", !.seen = "submitted"]
    OBVIOUS
  <2>2. Continue(r, l) /\ l.pc = "sync"
    BY <1>0, <1>1, <2>1 DEF InsertDocument, RequestType
  <2> QED BY <1>0, <2>2, ContinueFields DEF Unsettled
<1>2. CASE WriteReleased(r)
  <2>1. PICK l : l = [req[r] EXCEPT !.pc = "period", !.op = "release"]
    OBVIOUS
  <2>2. Continue(r, l) /\ l.pc = "period"
    BY <1>0, <1>2, <2>1 DEF WriteReleased, RequestType
  <2> QED BY <1>0, <2>2, ContinueFields DEF Unsettled
<1>3. CASE WriteReplaced(r) \/ WriteDecision(r) \/ WriteArchived(r) \/ WriteDeleted(r)
           \/ WriteOpened(r) \/ MoveQueried(r)
  <2>1. Goto(r, "reread") \/ Goto(r, "period")
    BY <1>3 DEF WriteReplaced, WriteDecision, WriteArchived, WriteDeleted, WriteOpened,
                MoveQueried
  <2> QED BY <1>0, <2>1, GoFields DEF Unsettled
<1>4. CASE WriteLock(r)
  <2>1. /\ req[r].doc \in Docs /\ docs' = [docs EXCEPT ![req[r].doc].locked = req[r].on]
    BY <1>0, <1>4 DEF WriteLock, At, Fits, OnDocument
  <2>2. \A d \in Docs : docs'[d].st = docs[d].st /\ docs'[d].deleted = docs[d].deleted
    BY <1>0, <2>1 DEF DocumentRow
  <2>3. Live' = Live
    BY <2>2 DEF Live
  <2>4. ASSUME NEW S PROVE LiveIn(S)' = LiveIn(S)
    <3>1. {d \in Live : docs[d].st \in S}' = {d \in Live : docs[d].st \in S}
      BY <2>2, <2>3 DEF Live
    <3> QED BY <3>1 DEF LiveIn
  <2>5. Counts' = Counts
    BY <2>3, <2>4 DEF Counts
  <2> QED BY <1>4, <2>2, <2>3, <2>4, <2>5
<1> QED BY <1>1, <1>2, <1>3, <1>4 DEF DocWriter

LEMMA CountersStep ==
    ASSUME OneHandler, IInv, RefreshInv, ReportInv, CountersInv, CleanInv,
           NEW r \in Requests, Handler(r)
    PROVE  CountersInv' /\ CleanInv'
<1>0. /\ Flow(r) /\ req[r] \in RequestType /\ Fits(req[r])
      /\ period \in PeriodRow /\ report \in ReportRow
      /\ ReportLocal(req[r]) /\ \A s \in Requests : s = r
  BY HandlerFlow, FilingTypes DEF IInv, TypeOK, OneHandler, ReportInv
<1>1. SUFFICES ASSUME restarts = 0, ~BatchFails, ~Unsettled(req'[r])
               PROVE  /\ report'.st # "archived" => InStep'
                      /\ period'.st = "verified" => CleanDocs'
  BY <1>0 DEF Flow, CountersInv, CleanInv, Settled, Unsettled
<1>2. CASE WritePeriod(r)
  <2>1. /\ req[r].pc = "refresh" /\ docs' = docs
        /\ period' = [st |-> Derive(req[r].seen, req[r].cnt, req[r].asked),
                      received |-> req[r].cnt.received,
                      verified |-> req[r].cnt.verified]
    BY <1>2 DEF WritePeriod, At, documents
  <2>2. req[r].seen = period.st /\ req[r].cnt = Counts
    BY <2>1 DEF RefreshInv, Refreshing
  <2>3. Counts' = Counts /\ Live' = Live /\ LiveIn(Verified)' = LiveIn(Verified)
    BY <2>1, CountsKept
  <2>4. InStep'
    BY <2>1, <2>2, <2>3 DEF InStep
  <2>5. ASSUME period'.st = "verified" PROVE CleanDocs'
    <3>1. Derive(period.st, Counts, req[r].asked) = "verified"
      BY <2>1, <2>2, <2>5
    <3>2. DeriveOpen(Counts, req[r].asked) = "verified"
      BY <3>1 DEF Derive, Terminal
    <3>3. CleanDocs
      BY <3>2, DeriveClean
    <3> QED BY <2>1, <2>3, <3>3 DEF CleanDocs
  <2> QED BY <2>4, <2>5
<1>3. CASE ~WritePeriod(r)
  <2>1. ~AbortUpload(r)
    BY <1>1 DEF AbortUpload
  <2>2. ~Unsettled(req[r])
    BY <1>0, <1>1, <1>3, <2>1 DEF Flow, Leaves
  <2>3. /\ report.st # "archived" => InStep
        /\ period.st = "verified" => CleanDocs
    BY <1>0, <1>1, <2>2 DEF CountersInv, CleanInv, Settled
  <2>4. CASE ArchiveDocuments(r)
    <3>1. req[r].pc = "archiveDocs" /\ UNCHANGED <<report, period>>
      BY <2>4 DEF ArchiveDocuments, At, filing
    <3>2. report.st = "archived" /\ period.st = "archived"
      BY <1>0, <3>1 DEF ReportLocal
    <3> QED BY <3>1, <3>2
  <2>5. CASE ~ArchiveDocuments(r)
    <3>1. /\ Counts' = Counts /\ Live' = Live
          /\ \A d \in Live : docs'[d].st = docs[d].st
          /\ LiveIn(Verified)' = LiveIn(Verified)
      <4>1. CASE UNCHANGED docs
        BY <4>1, CountsKept
      <4>2. CASE DocWriter(r)
        BY <4>2, <1>1, <2>5, DocWrites DEF Live
      <4> QED BY <1>0, <4>1, <4>2 DEF Flow, Writes
    <3>2. CleanDocs => CleanDocs'
      BY <3>1 DEF CleanDocs
    <3>3. /\ period'.received = period.received /\ period'.verified = period.verified
          /\ period'.st = "verified" => period.st = "verified"
      <4>1. CASE UNCHANGED period
        BY <4>1
      <4>2. CASE StatusWriter(r)
        <5>1. period' = [period EXCEPT !.st = period'.st] /\ period'.st \in Terminal
          BY <4>2, StatusTerminal
        <5>2. \A st : [period EXCEPT !.st = st].received = period.received
                       /\ [period EXCEPT !.st = st].verified = period.verified
          BY <1>0 DEF PeriodRow
        <5> QED BY <5>1, <5>2 DEF Terminal
      <4> QED BY <1>0, <1>3, <4>1, <4>2 DEF Flow, Writes
    <3>4. report.st = "archived" => report'.st = "archived"
      <4>1. SUFFICES ASSUME ReportWriter(r), report.st = "archived" PROVE FALSE
        BY <1>0 DEF Flow, Writes
      <4>2. req[r].pc \in {"generate", "submit", "decideReport", "signOff", "clientReject",
                           "archiveReport"}
        BY <4>1 DEF ReportWriter, InsertReport, WriteSubmitted, WriteOutcome,
                    WriteSignedOff, WriteClientReject, WriteReportArchived, WriteReport, At
      <4> QED BY <1>0, <4>1, <4>2 DEF ReportLocal
    <3> QED BY <2>3, <3>1, <3>2, <3>3, <3>4 DEF InStep
  <2> QED BY <2>4, <2>5
<1> QED BY <1>2, <1>3

-----------------------------------------------------------------------------
(***************************************************************************)
(* One handler at a time: the properties                                   *)
(***************************************************************************)

SerialInv ==
    /\ CheckedInv /\ RefreshInv /\ CompInv
    /\ ReportInv /\ ApprovalInv /\ CountersInv /\ CleanInv

LEMMA InitSerial == Init => SerialInv
<1> SUFFICES ASSUME Init PROVE SerialInv
  OBVIOUS
<1>1. /\ \A r \in Requests : req[r].pc = "idle"
      /\ \A d \in Docs : docs[d].st = "none"
      /\ \A a \in Approvals : approvals[a] = "none"
      /\ period.st = "collecting" /\ period.received = 0 /\ period.verified = 0
      /\ comp.st = "none" /\ report.st = "none"
  BY DEF Init, IdleRequest, NoDocument
<1>2. CheckedInv /\ RefreshInv /\ CompInv
  BY <1>1 DEF CheckedInv, VerifiedMeansChecked, RefreshInv, CompInv, Refreshing
<1>3. ReportInv /\ ApprovalInv
  <2>1. Pending = {}
    BY <1>1 DEF Pending
  <2> QED BY <1>1, <2>1 DEF ReportInv, ReportLocal, ApprovalInv
<1>4. CountersInv /\ CleanInv
  <2>1. Live = {}
    BY <1>1 DEF Live
  <2>2. \A S : {d \in Live : docs[d].st \in S} = {}
    BY <2>1
  <2>3. Counts.received = 0 /\ Counts.verified = 0
    BY <2>2, FS_EmptySet DEF Counts, LiveIn
  <2> QED BY <1>1, <2>3 DEF CountersInv, InStep, CleanInv
<1> QED BY <1>2, <1>3, <1>4 DEF SerialInv

LEMMA SerialStep ==
    ASSUME OneHandler, IInv, SerialInv, [Next]_vars
    PROVE  SerialInv'
<1>1. CASE \E r \in Requests : Handler(r)
  BY <1>1, CheckedStep, RefreshStep, CompStep, ReportStep, ApprovalStep, CountersStep
     DEF SerialInv
<1>2. CASE Restart
  <2>1. /\ \A r \in Requests : req'[r].pc = "idle"
        /\ restarts' # 0
        /\ UNCHANGED <<docs, records, period, comp, report, approvals>>
    BY <1>2, BoundAssumption
       DEF Restart, IdleRequest, documents, filing, IInv, TypeOK
  <2> QED BY <2>1 DEF SerialInv, CheckedInv, VerifiedMeansChecked, RefreshInv, CompInv,
            ReportInv, ReportLocal, ApprovalInv, CountersInv, CleanInv, Settled, Refreshing
<1>3. CASE UNCHANGED vars
  <2>1. UNCHANGED <<docs, records, period, comp, report, approvals, req, restarts>>
    BY <1>3 DEF vars, documents, filing
  <2>2. Counts' = Counts /\ Live' = Live /\ LiveIn(Verified)' = LiveIn(Verified)
    BY <2>1, CountsKept
  <2>3. CheckedInv' /\ RefreshInv' /\ CompInv'
    BY <2>1, <2>2 DEF SerialInv, CheckedInv, VerifiedMeansChecked, RefreshInv, CompInv
  <2>4. ReportInv' /\ ApprovalInv'
    BY <2>1 DEF SerialInv, ReportInv, ReportLocal, ApprovalInv, Pending, SomeApproved
  <2>5. CountersInv' /\ CleanInv'
    BY <2>1, <2>2 DEF SerialInv, CountersInv, CleanInv, Settled, Unsettled, InStep, CleanDocs
  <2> QED BY <2>3, <2>4, <2>5 DEF SerialInv
<1> QED BY <1>1, <1>2, <1>3 DEF Next

\* With one handler at a time every reachable state satisfies, besides, the part
\* of the invariant that handlers working over one another break.
THEOREM SerialInvariance ==
    ASSUME OneHandler
    PROVE  Spec => []SerialInv
<1>1. IInv /\ SerialInv /\ [Next]_vars => SerialInv'
  BY SerialStep
<1> QED BY <1>1, InitSerial, Invariance, PTL DEF Spec

\* documents.js: with one handler at a time the version a verified document
\* points at was approved, whatever was replaced, queried or deleted before,
\* and wherever the process died.
THEOREM CheckedCorrect ==
    ASSUME OneHandler
    PROVE  Spec => []VerifiedMeansChecked
<1>1. SerialInv => VerifiedMeansChecked
  BY DEF SerialInv, CheckedInv
<1> QED BY <1>1, SerialInvariance, PTL

\* workflow.js: with one handler at a time no step takes the period out of the
\* stages that explicit decisions drive.
THEOREM DraggedCorrect ==
    ASSUME OneHandler
    PROVE  Spec => NeverDraggedBack
<1>1. IInv /\ SerialInv /\ [Next]_vars => [period.st \in Terminal => period'.st \in Terminal]_vars
  <2> SUFFICES ASSUME IInv, SerialInv, Next, period.st \in Terminal
               PROVE  period'.st \in Terminal
    OBVIOUS
  <2>1. ASSUME NEW r \in Requests, Handler(r) PROVE period'.st \in Terminal
    <3>1. CASE WritePeriod(r)
      <4>1. /\ req[r].pc = "refresh"
            /\ period'.st = Derive(req[r].seen, req[r].cnt, req[r].asked)
        BY <3>1 DEF WritePeriod, At
      <4>2. req[r].seen = period.st
        BY <4>1 DEF SerialInv, RefreshInv, Refreshing
      <4> QED BY <4>1, <4>2 DEF Derive
    <3>2. CASE StatusWriter(r)
      BY <3>2, StatusTerminal
    <3>3. WritePeriod(r) \/ StatusWriter(r) \/ UNCHANGED period
      BY <2>1, HandlerFlow DEF Flow, Writes, IInv
    <3> QED BY <3>1, <3>2, <3>3
  <2>2. CASE Restart
    BY <2>2 DEF Restart
  <2> QED BY <2>1, <2>2 DEF Next
<1> QED BY <1>1, SerialInvariance, Invariance, PTL DEF Spec, NeverDraggedBack

\* tax.js: with one handler at a time, and until the process is killed between
\* two writes, a computation at rest that is not stale was made from the lines
\* there are.
THEOREM CurrentCorrect ==
    ASSUME OneHandler
    PROVE  Spec => [](restarts = 0 => ComputedIsCurrent)
<1>1. SerialInv => (restarts = 0 => ComputedIsCurrent)
  BY DEF SerialInv, CompInv, ComputedIsCurrent, Quiescent, At
<1> QED BY <1>1, SerialInvariance, PTL

\* approvals.js: under the same conditions the report and its approval rows
\* are in step at rest.
THEOREM ApprovalsCorrect ==
    ASSUME OneHandler
    PROVE  Spec => [](restarts = 0 => ApprovalsInStep)
<1>1. SerialInv => (restarts = 0 => ApprovalsInStep)
  <2> SUFFICES ASSUME SerialInv, restarts = 0, Quiescent
               PROVE  /\ Cardinality(Pending) =
                            (IF report.st = "pending_approval" THEN 1 ELSE 0)
                      /\ report.st \in {"client_review", "approved", "signed_off"} =>
                            SomeApproved
    BY DEF ApprovalsInStep, Pending, SomeApproved
  <2>1. /\ IF report.st = "pending_approval" THEN \E a \in Approvals : Pending = {a}
                                             ELSE Pending = {}
        /\ report.st \in {"client_review", "approved", "signed_off"} => SomeApproved
    BY DEF SerialInv, ApprovalInv, Quiescent, At
  <2> QED BY <2>1, FS_Singleton, FS_EmptySet
<1> QED BY <1>1, SerialInvariance, PTL

\* workflow.js: with one handler at a time, no upload that throws and no
\* restart, the counters of a period at rest are those of its documents until
\* its report is archived.
THEOREM CountersCorrect ==
    ASSUME OneHandler, ~BatchFails
    PROVE  Spec => [](restarts = 0 => CountersAgreeUntilArchived)
<1>1. SerialInv => (restarts = 0 => CountersAgreeUntilArchived)
  BY DEF SerialInv, CountersInv, Settled, InStep, CountersAgreeUntilArchived, Quiescent, At,
         Unsettled, Refreshing
<1> QED BY <1>1, SerialInvariance, PTL

\* Under the same conditions a period at rest that is shown as verified holds
\* no document that waits for an answer, and enough verified ones.
THEOREM CleanCorrect ==
    ASSUME OneHandler, ~BatchFails
    PROVE  Spec => [](restarts = 0 => VerifiedPeriodIsClean)
<1>1. SerialInv => (restarts = 0 => VerifiedPeriodIsClean)
  BY DEF SerialInv, CleanInv, Settled, CleanDocs, VerifiedPeriodIsClean, Quiescent, At,
         Unsettled, Refreshing
<1> QED BY <1>1, SerialInvariance, PTL

=============================================================================
