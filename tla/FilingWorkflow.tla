--------------------------- MODULE FilingWorkflow ---------------------------
(***************************************************************************)
(* One filing period of one client, from the first upload to the archive:  *)
(* src/services/workflow.js and the handlers that drive it, in             *)
(* src/modules/documents.js, verification.js, queries.js, tax.js,          *)
(* reports.js, clients.js and billing.js, with runComputation of           *)
(* src/services/tax-engine.js.                                             *)
(*                                                                         *)
(* As in Payments, no handler runs inside a transaction.  Starting a       *)
(* handler is the action that reads the rows it checks; each later action  *)
(* is one statement: a write, or a read whose result a later write uses.   *)
(* A check that fails returns an error and changes nothing, so it is not   *)
(* an action.  Left out: titles, notes, assignment, priority, notification *)
(* and audit (AuditChain), permissions (any role may call), the content of *)
(* files and tax lines.                                                    *)
(***************************************************************************)
EXTENDS Integers, FiniteSets

CONSTANTS
    Docs,         \* documents that may be uploaded to the period
    Checklist,    \* those of them whose type is on the period's checklist
    Queries,      \* query rows that may be created
    Approvals,    \* manager approval rows that may be created
    Requests,     \* request slots: how many handlers may be in flight at once
    BatchFails,   \* whether a later file of an upload may make it throw
    MaxVersions,  \* bound on the versions of a document
    MaxRequests,  \* bound on the requests
    MaxRestarts,  \* bound on the process restarts
    Null

ASSUME FiniteAssumption == IsFiniteSet(Docs) /\ Checklist \subseteq Docs
ASSUME NullAssumption ==
    Null \notin Docs /\ Null \notin Queries /\ Null \notin Approvals
ASSUME BoundAssumption ==
    /\ BatchFails \in BOOLEAN
    /\ MaxVersions \in Nat \ {0} /\ MaxRequests \in Nat /\ MaxRestarts \in Nat

VARIABLES
    docs,       \* table documents
    versions,   \* table document_versions: the numbers stored, the one flagged
    records,    \* table verification_records: the versions approved
    checklist,  \* table checklist_items, by the document of the item's type
    queries,    \* table queries
    period,     \* the row of filing_periods
    comp,       \* the row of tax_computations and its gst_records
    report,     \* the row of reports
    approvals,  \* table approvals, stage manager: status by row
    req,        \* the handlers in flight
    started,    \* requests started so far (bound)
    restarts    \* restarts so far (bound)

documents == <<docs, versions, records, checklist>>
filing == <<comp, report, approvals>>
vars == <<documents, queries, period, filing, req, started, restarts>>

-----------------------------------------------------------------------------
(***************************************************************************)
(* Rows                                                                    *)
(***************************************************************************)

\* DOCUMENT_TRANSITIONS.  No code writes "draft" or "approved" any more.
Transitions ==
    [draft           |-> {"submitted", "archived"},
     submitted       |-> {"under_review", "query_raised", "verified",
                          "rejected", "archived"},
     under_review    |-> {"verified", "rejected", "query_raised", "submitted"},
     query_raised    |-> {"awaiting_client", "under_review", "verified",
                          "rejected"},
     awaiting_client |-> {"submitted", "under_review", "query_raised",
                          "rejected"},
     verified        |-> {"approved", "under_review", "archived"},
     approved        |-> {"archived", "under_review"},
     rejected        |-> {"submitted", "under_review", "archived"},
     archived        |-> {}]

DocStatus ==
    {"none", "draft", "submitted", "under_review", "query_raised",
     "awaiting_client", "verified", "approved", "rejected", "archived"}

CanTransition(from, to) == from = to \/ to \in Transitions[from]

\* Statuses that count as verified, and the ones a query has put there.
Verified == {"verified", "approved", "archived"}
Queried == {"query_raised", "awaiting_client"}

QueryStatus ==
    {"none", "awaiting_client", "client_responded", "under_review", "resolved"}

\* The statuses refreshFilingPeriod derives, and those it leaves alone.
Derivable ==
    {"collecting", "under_review", "query_raised", "awaiting_client", "verified"}
Terminal ==
    {"calculated", "pending_approval", "approved", "client_review",
     "signed_off", "paid", "filed", "archived"}

ReportStatus ==
    {"none", "draft", "pending_approval", "rejected", "client_review",
     "approved", "signed_off", "archived"}

CompStatus == {"none", "computed", "stale", "final"}

ApprovalStatus == {"none", "pending", "approved", "rejected"}

ChecklistStatus ==
    {"pending", "submitted", "under_review", "query_raised", "verified",
     "rejected"}

NoDocument == [st |-> "none", locked |-> FALSE, deleted |-> FALSE, ver |-> 0]

NoCounts ==
    [total |-> 0, received |-> 0, verified |-> 0, queried |-> 0, awaiting |-> 0]

ProgramCounter ==
    {"idle", "upload", "open", "record", "decide", "reread", "sync", "clear",
     "insert", "replace", "lock", "archive", "delete", "query", "raise",
     "reply", "resolve", "release", "released", "reopen", "respond",
     "period", "counts", "queries", "refresh",
     "gather", "lines", "compute", "advance", "calculated", "finalise",
     "line", "stale",
     "generate", "submit", "approval", "pending", "pick", "decideApproval",
     "decideReport", "decidePeriod", "signOff", "signPeriod", "clientReject",
     "rejectPeriod", "archiveReport", "archivePeriod", "archiveDocs", "paid"}

\* The handlers whose shared statements continue differently.
Operation == {"none", "upload", "raise", "replace", "ask", "resolve", "release"}

IdleRequest ==
    [pc |-> "idle", op |-> "none", doc |-> Null, qry |-> Null, row |-> Null,
     seen |-> "none", next |-> "none", on |-> FALSE, ver |-> 0,
     used |-> {}, lines |-> {}, cnt |-> NoCounts, asked |-> FALSE]

\* Mutant: no entry for a document that waits for the client.
ChecklistForUnmapped(st) ==
    IF st = "draft" THEN "pending" ELSE IF st \in Verified THEN "verified" ELSE st

\* statusMap of syncChecklistForDocument.
ChecklistFor(st) ==
    CASE st = "draft" -> "pending"
      [] st \in Queried -> "query_raised"
      [] st \in Verified -> "verified"
      [] OTHER -> st

-----------------------------------------------------------------------------
(***************************************************************************)
(* Starting and ending a handler                                           *)
(***************************************************************************)

\* A request takes the slot r, with what it has read in local.
Begin(r, local) ==
    /\ req[r].pc = "idle"
    /\ started < MaxRequests
    /\ started' = started + 1
    /\ req' = [req EXCEPT ![r] = local]
    /\ UNCHANGED <<documents, queries, period, filing, restarts>>

\* The handler in slot r is at the statement pc.
At(r, pc) == req[r].pc = pc

\* The handler in slot r goes on with the locals local.
Continue(r, local) ==
    /\ req' = [req EXCEPT ![r] = local]
    /\ UNCHANGED <<started, restarts>>

Goto(r, pc) == Continue(r, [req[r] EXCEPT !.pc = pc])

\* The handler returns or throws: nothing of it is left.
Return(r) == Continue(r, IdleRequest)

\* The process dies and starts again: the handlers in flight are gone, what
\* they wrote stays.
Restart ==
    /\ restarts < MaxRestarts
    /\ restarts' = restarts + 1
    /\ req' = [r \in Requests |-> IdleRequest]
    /\ UNCHANGED <<documents, queries, period, filing, started>>

\* Ids are generated by the handler: no other handler in flight has this one.
InUse(id) ==
    \E s \in Requests : id \in {req[s].doc, req[s].qry, req[s].row}

SetStatus(d, st) == docs' = [docs EXCEPT ![d].st = st]

-----------------------------------------------------------------------------
(***************************************************************************)
(* refreshFilingPeriod: four statements, the last writes what the first    *)
(* three read.                                                             *)
(***************************************************************************)

Live == {d \in Docs : docs[d].st # "none" /\ ~docs[d].deleted}

LiveIn(S) == Cardinality({d \in Live : docs[d].st \in S})

Counts ==
    [total    |-> Cardinality(Live),
     received |-> LiveIn({"submitted", "under_review"} \cup Queried \cup Verified),
     verified |-> LiveIn(Verified),
     queried  |-> LiveIn({"query_raised"}),
     awaiting |-> LiveIn({"awaiting_client"})]

OpenQueries ==
    {q \in Queries :
        queries[q].st \in {"awaiting_client", "client_responded", "under_review"}}

\* Mutant: enough verified documents outweigh the one that waits.
DeriveOpenHasty(c, asked) ==
    IF Cardinality(Checklist) > 0 /\ c.verified >= Cardinality(Checklist)
         /\ c.total > 0
    THEN "verified"
    ELSE IF c.queried > 0 THEN "query_raised"
    ELSE IF c.awaiting > 0 \/ asked THEN "awaiting_client"
    ELSE IF c.received > 0 THEN "under_review" ELSE "collecting"

\* The status the counts and the open queries give.  under_review and received
\* are one branch: a document under review is received.
DeriveOpen(c, asked) ==
    IF c.queried > 0 THEN "query_raised"
    ELSE IF c.awaiting > 0 \/ asked THEN "awaiting_client"
    ELSE IF \/ Cardinality(Checklist) > 0 /\ c.verified >= Cardinality(Checklist)
                /\ c.total > 0
            \/ c.total > 0 /\ c.verified = c.total
         THEN "verified"
    ELSE IF c.received > 0 THEN "under_review"
    ELSE "collecting"

\* Mutant: the explicit decisions are not looked at.
DeriveRegardless(old, c, asked) == DeriveOpen(c, asked)

\* The status of a period that stood at old.
Derive(old, c, asked) == IF old \in Terminal THEN old ELSE DeriveOpen(c, asked)

ReadPeriod(r) ==
    /\ At(r, "period")
    /\ Continue(r, [req[r] EXCEPT !.pc = "counts", !.seen = period.st])
    /\ UNCHANGED <<documents, queries, period, filing>>

CountDocuments(r) ==
    /\ At(r, "counts")
    /\ Continue(r, [req[r] EXCEPT !.pc = "queries", !.cnt = Counts])
    /\ UNCHANGED <<documents, queries, period, filing>>

CountQueries(r) ==
    /\ At(r, "queries")
    /\ Continue(r, [req[r] EXCEPT !.pc = "refresh", !.asked = OpenQueries # {}])
    /\ UNCHANGED <<documents, queries, period, filing>>

\* Mutant: the second refresh leads to a third.
AfterRefreshForever(r) ==
    CASE req[r].op = "replace" /\ req[r].qry # Null -> Goto(r, "respond")
      [] req[r].op = "release" -> Goto(r, "period")
      [] OTHER -> Return(r)

\* What follows a refresh: a replacement answers its query; resolving a query
\* that released its document refreshes a second time.
AfterRefresh(r) ==
    CASE req[r].op = "replace" /\ req[r].qry # Null -> Goto(r, "respond")
      [] req[r].op = "release" ->
            Continue(r, [req[r] EXCEPT !.pc = "period", !.op = "resolve"])
      [] OTHER -> Return(r)

WritePeriod(r) ==
    /\ At(r, "refresh")
    /\ period' = [st |-> Derive(req[r].seen, req[r].cnt, req[r].asked),
                  received |-> req[r].cnt.received,
                  verified |-> req[r].cnt.verified]
    /\ AfterRefresh(r)
    /\ UNCHANGED <<documents, queries, filing>>

\* GET /clients/:id/periods/:periodId refreshes what it shows.
ViewPeriod(r) == Begin(r, [IdleRequest EXCEPT !.pc = "period"])

Refresh(r) ==
    ViewPeriod(r) \/ ReadPeriod(r) \/ CountDocuments(r) \/ CountQueries(r)
        \/ WritePeriod(r)

-----------------------------------------------------------------------------
(***************************************************************************)
(* documents.js: upload, replace, lock, archive, delete                    *)
(***************************************************************************)

\* POST /documents/upload, one file of it.  The period's status is not looked
\* at: an archived period accepts documents.
Upload(r, d) ==
    /\ docs[d].st = "none" /\ ~InUse(d)
    /\ Begin(r, [IdleRequest EXCEPT !.pc = "upload", !.op = "upload", !.doc = d])

\* ingestFile: the document and its version 1.  The two rows are one step, as
\* the new id is known to this request only.
InsertDocument(r) ==
    /\ At(r, "upload")
    /\ docs' = [docs EXCEPT ![req[r].doc] =
                    [NoDocument EXCEPT !.st = "submitted", !.ver = 1]]
    /\ versions' = [versions EXCEPT ![req[r].doc] =
                        [stored |-> {1}, current |-> 1]]
    /\ Continue(r, [req[r] EXCEPT !.pc = "sync", !.seen = "submitted"])
    /\ UNCHANGED <<records, checklist, queries, period, filing>>

\* A ZIP that cannot be read throws out of the loop over the files: what came
\* before it is stored, the refresh after the loop is not reached.
AbortUpload(r) ==
    /\ BatchFails
    /\ At(r, "period") /\ req[r].op = "upload"
    /\ Return(r)
    /\ UNCHANGED <<documents, queries, period, filing>>

\* The row is read again after the write, for the checklist and the refresh.
Reread(r) ==
    /\ At(r, "reread")
    /\ Continue(r, [req[r] EXCEPT !.pc = "sync",
                                  !.seen = docs[req[r].doc].st])
    /\ UNCHANGED <<documents, queries, period, filing>>

\* syncChecklistForDocument; a document that is not on the checklist has no
\* item.  The decision "raise_query" then creates the query.
SyncChecklist(r) ==
    /\ At(r, "sync")
    /\ checklist' = [d \in Checklist |->
                        IF d = req[r].doc THEN ChecklistFor(req[r].seen)
                                          ELSE checklist[d]]
    /\ Goto(r, IF req[r].op = "raise" THEN "query" ELSE "period")
    /\ UNCHANGED <<docs, versions, records, queries, period, filing>>

\* getVisibleDocument: a deleted document is not found.
Visible(d) == docs[d].st # "none" /\ ~docs[d].deleted

\* Mutant: a verified document stays verified.
ReplacedStatusKept(st) ==
    IF st \in Queried \cup {"rejected"} THEN "submitted" ELSE st

\* A replacement re-enters review.
ReplacedStatus(st) ==
    IF st \in Queried \cup {"rejected"} THEN "submitted"
    ELSE IF st \in {"verified", "approved"} THEN "under_review"
    ELSE st

\* POST /documents/:id/versions: the number and the next status come from the
\* row read here.
ReplaceVersion(r, d, q) ==
    /\ Visible(d) /\ ~docs[d].locked
    /\ docs[d].ver < MaxVersions
    /\ q # Null => queries[q].st # "none"
    /\ Begin(r, [IdleRequest EXCEPT !.pc = "clear", !.op = "replace",
                    !.doc = d, !.qry = q, !.ver = docs[d].ver + 1,
                    !.next = ReplacedStatus(docs[d].st)])

ClearCurrent(r) ==
    /\ At(r, "clear")
    /\ versions' = [versions EXCEPT ![req[r].doc].current = 0]
    /\ Goto(r, "insert")
    /\ UNCHANGED <<docs, records, checklist, queries, period, filing>>

\* Mutant: no unique index.
InsertVersionUnindexed(r) ==
    /\ At(r, "insert")
    /\ versions' = [versions EXCEPT ![req[r].doc] =
            [stored |-> @.stored \cup {req[r].ver}, current |-> req[r].ver]]
    /\ Goto(r, "replace")
    /\ UNCHANGED <<docs, records, checklist, queries, period, filing>>

\* UNIQUE (document_id, version_no): a number that is taken throws.
InsertVersion(r) ==
    /\ At(r, "insert")
    /\ LET d == req[r].doc
           v == req[r].ver
       IN  IF v \in versions[d].stored
           THEN Return(r) /\ UNCHANGED versions
           ELSE /\ versions' = [versions EXCEPT ![d] =
                        [stored |-> @.stored \cup {v}, current |-> v]]
                /\ Goto(r, "replace")
    /\ UNCHANGED <<docs, records, checklist, queries, period, filing>>

WriteReplaced(r) ==
    /\ At(r, "replace")
    /\ docs' = [docs EXCEPT ![req[r].doc].ver = req[r].ver,
                            ![req[r].doc].st = req[r].next]
    /\ Goto(r, "reread")
    /\ UNCHANGED <<versions, records, checklist, queries, period, filing>>

\* The query is answered whatever its status, resolved ones included.
RespondQuery(r) ==
    /\ At(r, "respond")
    /\ queries' = [queries EXCEPT ![req[r].qry].st = "client_responded"]
    /\ Return(r)
    /\ UNCHANGED <<documents, period, filing>>

\* POST /documents/:id/lock, with locked = on.
Lock(r, d, on) ==
    /\ docs[d].st # "none"
    /\ on => docs[d].st \in {"verified", "approved"}
    /\ Begin(r, [IdleRequest EXCEPT !.pc = "lock", !.doc = d, !.on = on])

WriteLock(r) ==
    /\ At(r, "lock")
    /\ docs' = [docs EXCEPT ![req[r].doc].locked = req[r].on]
    /\ Return(r)
    /\ UNCHANGED <<versions, records, checklist, queries, period, filing>>

\* POST /documents/:id/archive: a document nobody verified may be archived.
Archive(r, d) ==
    /\ docs[d].st # "none"
    /\ CanTransition(docs[d].st, "archived")
    /\ Begin(r, [IdleRequest EXCEPT !.pc = "archive", !.doc = d])

WriteArchived(r) ==
    /\ At(r, "archive")
    /\ docs' = [docs EXCEPT ![req[r].doc].st = "archived",
                            ![req[r].doc].locked = TRUE]
    /\ Goto(r, "period")
    /\ UNCHANGED <<versions, records, checklist, queries, period, filing>>

Delete(r, d) ==
    /\ Visible(d) /\ ~docs[d].locked
    /\ Begin(r, [IdleRequest EXCEPT !.pc = "delete", !.doc = d])

\* Mutant: the period is not refreshed.
WriteDeletedOnly(r) ==
    /\ At(r, "delete")
    /\ docs' = [docs EXCEPT ![req[r].doc].deleted = TRUE]
    /\ Return(r)
    /\ UNCHANGED <<versions, records, checklist, queries, period, filing>>

WriteDeleted(r) ==
    /\ At(r, "delete")
    /\ docs' = [docs EXCEPT ![req[r].doc].deleted = TRUE]
    /\ Goto(r, "period")
    /\ UNCHANGED <<versions, records, checklist, queries, period, filing>>

DocumentSteps(r) ==
    \/ \E d \in Docs :
          \/ Upload(r, d) \/ Archive(r, d) \/ Delete(r, d)
          \/ \E q \in Queries \cup {Null} : ReplaceVersion(r, d, q)
          \/ \E on \in BOOLEAN : Lock(r, d, on)
    \/ InsertDocument(r) \/ AbortUpload(r) \/ Reread(r) \/ SyncChecklist(r) \/ ClearCurrent(r)
    \/ InsertVersion(r) \/ WriteReplaced(r) \/ RespondQuery(r) \/ WriteLock(r)
    \/ WriteArchived(r) \/ WriteDeleted(r)

-----------------------------------------------------------------------------
(***************************************************************************)
(* verification.js: open, decide, decide in bulk                           *)
(***************************************************************************)

\* POST /verification/:id/open.
Open(r, d) ==
    /\ docs[d].st = "submitted"
    /\ Begin(r, [IdleRequest EXCEPT !.pc = "open", !.doc = d])

WriteOpened(r) ==
    /\ At(r, "open")
    /\ SetStatus(req[r].doc, "under_review")
    /\ Goto(r, "period")
    /\ UNCHANGED <<versions, records, checklist, queries, period, filing>>

FreshQuery(q) == queries[q].st = "none" /\ ~InUse(q)

\* approve, reject, request_changes, raise_query.
Targets == {"verified", "rejected", "awaiting_client", "query_raised"}

\* POST /verification/:id/decision.  A deleted document can be decided.  on:
\* the approval also locks.
Decide(r, d, target, q, on) ==
    /\ docs[d].st # "none" /\ ~docs[d].locked
    /\ CanTransition(docs[d].st, target)
    /\ on => target = "verified"
    /\ IF target = "query_raised" THEN q # Null /\ FreshQuery(q) ELSE q = Null
    /\ Begin(r, [IdleRequest EXCEPT !.pc = "record", !.doc = d, !.qry = q,
                    !.next = target, !.on = on, !.ver = docs[d].ver,
                    !.op = IF q = Null THEN "none" ELSE "raise"])

\* Mutant: no verification record.
DecideBulkUnrecorded(r, d, target) ==
    /\ Visible(d) /\ ~docs[d].locked
    /\ CanTransition(docs[d].st, target)
    /\ Begin(r, [IdleRequest EXCEPT !.pc = "decide", !.doc = d,
                    !.next = target, !.ver = docs[d].ver])

\* POST /verification/bulk, one document of it; it never locks.
DecideBulk(r, d, target) ==
    /\ Visible(d) /\ ~docs[d].locked
    /\ CanTransition(docs[d].st, target)
    /\ Begin(r, [IdleRequest EXCEPT !.pc = "record", !.doc = d,
                    !.next = target, !.ver = docs[d].ver])

\* The verification record names the version that was current when read.
InsertRecord(r) ==
    /\ At(r, "record")
    /\ records' = IF req[r].next = "verified"
                  THEN records \cup {<<req[r].doc, req[r].ver>>} ELSE records
    /\ Goto(r, "decide")
    /\ UNCHANGED <<docs, versions, checklist, queries, period, filing>>

WriteDecision(r) ==
    /\ At(r, "decide")
    /\ docs' = [docs EXCEPT ![req[r].doc].st = req[r].next,
                            ![req[r].doc].locked = @ \/ req[r].on]
    /\ Goto(r, "reread")
    /\ UNCHANGED <<versions, records, checklist, queries, period, filing>>

VerificationSteps(r) ==
    \/ \E d \in Docs :
          \/ Open(r, d)
          \/ \E target \in Targets, q \in Queries \cup {Null}, on \in BOOLEAN :
                Decide(r, d, target, q, on)
          \/ \E target \in {"verified", "rejected"} : DecideBulk(r, d, target)
    \/ WriteOpened(r) \/ InsertRecord(r) \/ WriteDecision(r)

-----------------------------------------------------------------------------
(***************************************************************************)
(* queries.js                                                              *)
(***************************************************************************)

\* POST /queries, about the document d or (Null) about the period.
AskQuery(r, q, d) ==
    /\ FreshQuery(q)
    /\ d # Null => docs[d].st # "none"
    /\ Begin(r, [IdleRequest EXCEPT !.pc = "query", !.op = "ask",
                    !.qry = q, !.doc = d,
                    !.seen = IF d = Null THEN "none" ELSE docs[d].st])

\* createQueryForDocument.  A query about a document then moves it, with no
\* look at its lock or at Transitions; a query about the period refreshes
\* nothing.
InsertQuery(r) ==
    /\ At(r, "query")
    /\ queries' = [queries EXCEPT ![req[r].qry] =
                        [st |-> "awaiting_client", doc |-> req[r].doc]]
    /\ IF req[r].op = "raise" THEN Goto(r, "period")
       ELSE IF req[r].doc # Null /\ req[r].seen \notin Queried
       THEN Goto(r, "raise")
       ELSE Return(r)
    /\ UNCHANGED <<documents, period, filing>>

MoveQueried(r) ==
    /\ At(r, "raise")
    /\ SetStatus(req[r].doc, "query_raised")
    /\ Goto(r, "period")
    /\ UNCHANGED <<versions, records, checklist, queries, period, filing>>

\* What a reply makes of a query that stood at st.
Replied(st, author) ==
    CASE author = "client" -> "client_responded"
      [] author = "staff" /\ st = "client_responded" -> "under_review"
      [] author = "resolver" -> "resolved"
      [] OTHER -> st

\* POST /queries/:id/replies.  author "note" is an internal note; "resolver"
\* closes the query with the reply and, unlike ResolveQuery, neither releases
\* the document nor refreshes the period.  A reply that leaves the status
\* alone does not write it.
Reply(r, q, author) ==
    /\ queries[q].st \notin {"none", "resolved"}
    /\ Begin(r, [IdleRequest EXCEPT !.pc = "reply", !.qry = q,
                    !.next = Replied(queries[q].st, author),
                    !.on = \/ author \in {"client", "resolver"}
                           \/ Replied(queries[q].st, author) # queries[q].st])

WriteReply(r) ==
    /\ At(r, "reply")
    /\ queries' = [queries EXCEPT ![req[r].qry].st =
                        IF req[r].on THEN req[r].next ELSE @]
    /\ Return(r)
    /\ UNCHANGED <<documents, period, filing>>

\* POST /queries/:id/resolve, with releaseDocument = on.
ResolveQuery(r, q, on) ==
    /\ queries[q].st \notin {"none", "resolved"}
    /\ Begin(r, [IdleRequest EXCEPT !.pc = "resolve", !.op = "resolve",
                    !.qry = q, !.doc = queries[q].doc, !.on = on])

WriteResolved(r) ==
    /\ At(r, "resolve")
    /\ queries' = [queries EXCEPT ![req[r].qry].st = "resolved"]
    /\ Goto(r, IF req[r].on /\ req[r].doc # Null THEN "release" ELSE "period")
    /\ UNCHANGED <<documents, period, filing>>

\* The document is released even when another query on it is still open.
ReadReleased(r) ==
    /\ At(r, "release")
    /\ Goto(r, IF docs[req[r].doc].st \in Queried THEN "released" ELSE "period")
    /\ UNCHANGED <<documents, queries, period, filing>>

WriteReleased(r) ==
    /\ At(r, "released")
    /\ SetStatus(req[r].doc, "under_review")
    /\ Continue(r, [req[r] EXCEPT !.pc = "period", !.op = "release"])
    /\ UNCHANGED <<versions, records, checklist, queries, period, filing>>

\* POST /queries/:id/reopen; the period is not refreshed.
ReopenQuery(r, q) ==
    /\ queries[q].st = "resolved"
    /\ Begin(r, [IdleRequest EXCEPT !.pc = "reopen", !.qry = q])

WriteReopened(r) ==
    /\ At(r, "reopen")
    /\ queries' = [queries EXCEPT ![req[r].qry].st = "under_review"]
    /\ Return(r)
    /\ UNCHANGED <<documents, period, filing>>

QuerySteps(r) ==
    \/ \E q \in Queries :
          \/ \E d \in Docs \cup {Null} : AskQuery(r, q, d)
          \/ \E author \in {"client", "staff", "note", "resolver"} :
                Reply(r, q, author)
          \/ \E on \in BOOLEAN : ResolveQuery(r, q, on)
          \/ ReopenQuery(r, q)
    \/ InsertQuery(r) \/ MoveQueried(r) \/ WriteReply(r) \/ WriteResolved(r)
    \/ ReadReleased(r) \/ WriteReleased(r) \/ WriteReopened(r)

-----------------------------------------------------------------------------
(***************************************************************************)
(* tax.js and tax-engine.js: one GST computation; a line is known by the   *)
(* document it is attached to                                              *)
(***************************************************************************)

\* POST /tax/computations/run.
RunComputation(r) == Begin(r, [IdleRequest EXCEPT !.pc = "gather"])

GatherVerified(r) ==
    /\ At(r, "gather")
    /\ Continue(r, [req[r] EXCEPT !.pc = "lines",
                        !.used = {d \in Live : docs[d].st \in Verified}])
    /\ UNCHANGED <<documents, queries, period, filing>>

ReadLines(r) ==
    /\ At(r, "lines")
    /\ Continue(r, [req[r] EXCEPT !.pc = "compute", !.lines = comp.lines])
    /\ UNCHANGED <<documents, queries, period, filing>>

\* The row is overwritten in place, whatever its status.
WriteComputation(r) ==
    /\ At(r, "compute")
    /\ comp' = [comp EXCEPT !.st = "computed", !.basis = req[r].lines,
                            !.counted = req[r].lines \cap req[r].used]
    /\ Goto(r, "advance")
    /\ UNCHANGED <<documents, queries, period, report, approvals>>

ReadForAdvance(r) ==
    /\ At(r, "advance")
    /\ IF period.st \in {"verified", "under_review"} THEN Goto(r, "calculated")
                                                     ELSE Return(r)
    /\ UNCHANGED <<documents, queries, period, filing>>

WriteCalculated(r) ==
    /\ At(r, "calculated")
    /\ period' = [period EXCEPT !.st = "calculated"]
    /\ Return(r)
    /\ UNCHANGED <<documents, queries, filing>>

\* POST /tax/computations/:id/finalise, warnings acknowledged.
Finalise(r) ==
    /\ comp.st \in {"computed", "stale"}
    /\ Begin(r, [IdleRequest EXCEPT !.pc = "finalise"])

\* Also the last statement of a manager's approval.
WriteFinal(r) ==
    /\ At(r, "finalise")
    /\ comp' = [comp EXCEPT !.st = "final"]
    /\ Return(r)
    /\ UNCHANGED <<documents, queries, period, report, approvals>>

\* POST, PATCH and DELETE /tax/gst-records: on adds or edits the line of d,
\* ~on deletes it.
EditLine(r, d, on) ==
    /\ comp.st \in {"computed", "stale"}
    /\ IF on THEN docs[d].st # "none" ELSE d \in comp.lines
    /\ Begin(r, [IdleRequest EXCEPT !.pc = "line", !.doc = d, !.on = on])

WriteLine(r) ==
    /\ At(r, "line")
    /\ comp' = [comp EXCEPT !.lines = IF req[r].on THEN @ \cup {req[r].doc}
                                                   ELSE @ \ {req[r].doc}]
    /\ Goto(r, "stale")
    /\ UNCHANGED <<documents, queries, period, report, approvals>>

\* Mutant: the computation keeps its status.
MarkStaleSkipped(r) ==
    /\ At(r, "stale")
    /\ Return(r)
    /\ UNCHANGED <<documents, queries, period, filing>>

MarkStale(r) ==
    /\ At(r, "stale")
    /\ comp' = [comp EXCEPT !.st = "stale"]
    /\ Return(r)
    /\ UNCHANGED <<documents, queries, period, report, approvals>>

TaxSteps(r) ==
    \/ RunComputation(r) \/ GatherVerified(r) \/ ReadLines(r)
    \/ WriteComputation(r) \/ ReadForAdvance(r) \/ WriteCalculated(r)
    \/ Finalise(r) \/ WriteFinal(r)
    \/ \E d \in Docs, on \in BOOLEAN : EditLine(r, d, on)
    \/ WriteLine(r) \/ MarkStale(r)

-----------------------------------------------------------------------------
(***************************************************************************)
(* reports.js: generate, submit, decide, sign off, archive                 *)
(***************************************************************************)

\* POST /reports for a type without a computation, or (linked) with the one
\* of the period.
Generate(r, linked) ==
    /\ report.st = "none" /\ \A s \in Requests : ~At(s, "generate")
    /\ linked => comp.st # "none"
    /\ Begin(r, [IdleRequest EXCEPT !.pc = "generate", !.on = linked,
                    !.used = IF linked THEN comp.lines ELSE {}])

\* gst_summary adds up every line of the computation.
InsertReport(r) ==
    /\ At(r, "generate")
    /\ report' = [st |-> "draft", linked |-> req[r].on, figures |-> req[r].used]
    /\ Return(r)
    /\ UNCHANGED <<documents, queries, period, comp, approvals>>

\* POST /reports/:id/submit.
Submit(r, a) ==
    /\ report.st \in {"draft", "rejected"}
    /\ approvals[a] = "none" /\ ~InUse(a)
    /\ Begin(r, [IdleRequest EXCEPT !.pc = "submit", !.row = a])

\* A statement that writes the report's status and goes on.
WriteReport(r, pc, st, next) ==
    /\ At(r, pc)
    /\ report' = [report EXCEPT !.st = st]
    /\ Goto(r, next)
    /\ UNCHANGED <<documents, queries, period, comp, approvals>>

\* A statement that writes the period's status.
WriteStatus(r, pc, st) ==
    /\ At(r, pc)
    /\ period' = [period EXCEPT !.st = st]
    /\ UNCHANGED <<documents, queries, filing>>

WriteApproval(r, pc, st, next) ==
    /\ At(r, pc)
    /\ approvals' = [approvals EXCEPT ![req[r].row] = st]
    /\ Goto(r, next)
    /\ UNCHANGED <<documents, queries, period, comp, report>>

WriteSubmitted(r) == WriteReport(r, "submit", "pending_approval", "approval")
InsertApproval(r) == WriteApproval(r, "approval", "pending", "pending")
PeriodPending(r) == WriteStatus(r, "pending", "pending_approval") /\ Return(r)

\* POST /reports/:id/decision; the outcome is the next status of the report.
DecideReport(r, outcome) ==
    /\ report.st = "pending_approval"
    /\ Begin(r, [IdleRequest EXCEPT !.pc = "pick", !.next = outcome,
                    !.on = outcome # "rejected" /\ report.linked])

\* Mutant: the approval row is left to itself.
PickApprovalNone(r) ==
    /\ At(r, "pick")
    /\ Goto(r, "decideReport")
    /\ UNCHANGED <<documents, queries, period, filing>>

\* The pending approval row, if there is one.
PickApproval(r) ==
    /\ At(r, "pick")
    /\ \/ \E a \in Approvals :
             /\ approvals[a] = "pending"
             /\ Continue(r, [req[r] EXCEPT !.pc = "decideApproval", !.row = a])
       \/ /\ \A a \in Approvals : approvals[a] # "pending"
          /\ Goto(r, "decideReport")
    /\ UNCHANGED <<documents, queries, period, filing>>

DecideApproval(r) ==
    WriteApproval(r, "decideApproval",
        IF req[r].next = "rejected" THEN "rejected" ELSE "approved",
        "decideReport")

WriteOutcome(r) == WriteReport(r, "decideReport", req[r].next, "decidePeriod")

\* Approving the report makes its computation final.
PeriodDecided(r) ==
    /\ WriteStatus(r, "decidePeriod",
            IF req[r].next = "rejected" THEN "calculated" ELSE req[r].next)
    /\ IF req[r].on THEN Goto(r, "finalise") ELSE Return(r)

\* POST /reports/:id/sign-off.
SignOff(r, accepted) ==
    /\ report.st \in {"client_review", "approved"}
    /\ Begin(r, [IdleRequest EXCEPT
                    !.pc = IF accepted THEN "signOff" ELSE "clientReject"])

WriteSignedOff(r) == WriteReport(r, "signOff", "signed_off", "signPeriod")
PeriodSignedOff(r) == WriteStatus(r, "signPeriod", "signed_off") /\ Goto(r, "period")
WriteClientReject(r) == WriteReport(r, "clientReject", "rejected", "rejectPeriod")
PeriodRejected(r) == WriteStatus(r, "rejectPeriod", "calculated") /\ Return(r)

\* POST /reports/:id/archive: the report, the period, and every document of
\* the period, the deleted ones too.  No refresh follows.
ArchiveReport(r) ==
    /\ report.st \in {"signed_off", "approved"}
    /\ Begin(r, [IdleRequest EXCEPT !.pc = "archiveReport"])

WriteReportArchived(r) ==
    WriteReport(r, "archiveReport", "archived", "archivePeriod")
PeriodArchived(r) ==
    WriteStatus(r, "archivePeriod", "archived") /\ Goto(r, "archiveDocs")

ArchiveDocuments(r) ==
    /\ At(r, "archiveDocs")
    /\ docs' = [d \in Docs |->
                    IF docs[d].st = "none" THEN docs[d]
                    ELSE [docs[d] EXCEPT !.st = "archived", !.locked = TRUE]]
    /\ Return(r)
    /\ UNCHANGED <<versions, records, checklist, queries, period, filing>>

\* settlePayment of billing.js, for the invoice of the period: its last read
\* and write.
SettleInvoice(r) ==
    /\ period.st \in {"signed_off", "approved", "client_review"}
    /\ Begin(r, [IdleRequest EXCEPT !.pc = "paid"])

PeriodPaid(r) == WriteStatus(r, "paid", "paid") /\ Return(r)

ReportSteps(r) ==
    \/ \E linked \in BOOLEAN : Generate(r, linked)
    \/ \E a \in Approvals : Submit(r, a)
    \/ \E outcome \in {"client_review", "approved", "rejected"} :
          DecideReport(r, outcome)
    \/ \E accepted \in BOOLEAN : SignOff(r, accepted)
    \/ ArchiveReport(r) \/ SettleInvoice(r)
    \/ InsertReport(r) \/ WriteSubmitted(r) \/ InsertApproval(r)
    \/ PeriodPending(r) \/ PickApproval(r) \/ DecideApproval(r)
    \/ WriteOutcome(r) \/ PeriodDecided(r) \/ WriteSignedOff(r)
    \/ PeriodSignedOff(r) \/ WriteClientReject(r) \/ PeriodRejected(r)
    \/ WriteReportArchived(r) \/ PeriodArchived(r) \/ ArchiveDocuments(r)
    \/ PeriodPaid(r)

-----------------------------------------------------------------------------
\* openFilingPeriod: an empty period that collects documents.
Init ==
    /\ docs = [d \in Docs |-> NoDocument]
    /\ versions = [d \in Docs |-> [stored |-> {}, current |-> 0]]
    /\ records = {}
    /\ checklist = [d \in Checklist |-> "pending"]
    /\ queries = [q \in Queries |-> [st |-> "none", doc |-> Null]]
    /\ period = [st |-> "collecting", received |-> 0, verified |-> 0]
    /\ comp = [st |-> "none", lines |-> {}, basis |-> {}, counted |-> {}]
    /\ report = [st |-> "none", linked |-> FALSE, figures |-> {}]
    /\ approvals = [a \in Approvals |-> "none"]
    /\ req = [r \in Requests |-> IdleRequest]
    /\ started = 0
    /\ restarts = 0

Handler(r) ==
    \/ Refresh(r) \/ DocumentSteps(r) \/ VerificationSteps(r)
    \/ QuerySteps(r) \/ TaxSteps(r) \/ ReportSteps(r)

Next == (\E r \in Requests : Handler(r)) \/ Restart

Spec == Init /\ [][Next]_vars

\* A handler that has started goes on: the event loop resumes it when its
\* statement is answered.  Nothing obliges anyone to send a request.
Advance(r) == req[r].pc # "idle" /\ Handler(r)

LiveSpec == Spec /\ \A r \in Requests : WF_vars(Advance(r))

-----------------------------------------------------------------------------
(***************************************************************************)
(* Properties                                                              *)
(***************************************************************************)

CountsType ==
    [total : Nat, received : Nat, verified : Nat, queried : Nat, awaiting : Nat]

AnyStatus ==
    DocStatus \cup QueryStatus \cup Derivable \cup Terminal \cup ReportStatus

RequestType ==
    [pc : ProgramCounter, op : Operation, doc : Docs \cup {Null},
     qry : Queries \cup {Null}, row : Approvals \cup {Null},
     seen : AnyStatus, next : AnyStatus, on : BOOLEAN, ver : Nat,
     used : SUBSET Docs, lines : SUBSET Docs, cnt : CountsType,
     asked : BOOLEAN]

TablesOK ==
    /\ docs \in [Docs -> [st : DocStatus, locked : BOOLEAN,
                          deleted : BOOLEAN, ver : Nat]]
    /\ versions \in [Docs -> [stored : SUBSET Nat, current : Nat]]
    /\ records \in SUBSET (Docs \X Nat)
    /\ checklist \in [Checklist -> ChecklistStatus]
    /\ queries \in [Queries -> [st : QueryStatus, doc : Docs \cup {Null}]]
    /\ period \in [st : Derivable \cup Terminal, received : Nat, verified : Nat]
    /\ comp \in [st : CompStatus, lines : SUBSET Docs, basis : SUBSET Docs,
                 counted : SUBSET Docs]
    /\ report \in [st : ReportStatus, linked : BOOLEAN, figures : SUBSET Docs]
    /\ approvals \in [Approvals -> ApprovalStatus]

\* Every row and every handler in flight stays within its type: the statuses
\* written are those the CHECK constraints of the tables admit.
TypeOK ==
    /\ TablesOK
    /\ req \in [Requests -> RequestType]
    /\ started \in 0..MaxRequests
    /\ restarts \in 0..MaxRestarts

Quiescent == \A r \in Requests : At(r, "idle")

\* documents.js:548: "a corrected file is not a verified file".  The version a
\* verified document points at is one that a verifier approved.
VerifiedMeansChecked ==
    \A d \in Docs : docs[d].st = "verified" => <<d, docs[d].ver>> \in records

\* However decisions, replacements and queries interleave, no document is
\* verified without an approval on file: the record is written first.
VerifiedHasRecord ==
    \A d \in Docs : docs[d].st = "verified" =>
        \E v \in 1..MaxVersions : <<d, v>> \in records

\* The UNIQUE number is the only guard between two replacements of a document
\* that read the same version_count.  It suffices: the numbers are 1..n, and
\* the document points at n unless a replacement is between its two writes or
\* the process died there.
VersionsInStep ==
    \A d \in Docs : \E n \in 0..MaxVersions :
        /\ versions[d].stored = 1..n
        /\ \/ n = docs[d].ver
           \/ /\ n = docs[d].ver + 1
              /\ \/ restarts > 0
                 \/ \E r \in Requests :
                       At(r, "replace") /\ req[r].doc = d /\ req[r].ver = n

\* workflow.js:70-72: refreshFilingPeriod "never drags a period backwards" out
\* of the stages that explicit decisions drive.
NeverDraggedBack == [][period.st \in Terminal => period'.st \in Terminal]_vars

\* workflow.js:9-10: the numbers on the dashboard are those of the documents,
\* whenever no handler is in flight.  Until the report is archived: every other
\* handler that moves a document and is not cut short refreshes the period
\* before it returns.
CountersAgreeUntilArchived ==
    Quiescent /\ report.st # "archived" =>
        /\ period.received = Counts.received
        /\ period.verified = Counts.verified

\* A period shown as verified holds no document that waits for an answer, and
\* enough documents are verified: all of them, or as many as are expected.
VerifiedPeriodIsClean ==
    Quiescent /\ period.st = "verified" =>
        /\ \A d \in Live : docs[d].st \notin Queried
        /\ \/ \A d \in Live : docs[d].st \in Verified
           \/ LiveIn(Verified) >= Cardinality(Checklist)

\* approvals.js:169: deciding through the report keeps the two in step.  At
\* rest a report waits for approval exactly while one approval row is pending,
\* and a report the client may sign has an approved row.
ApprovalsInStep ==
    Quiescent =>
        /\ Cardinality({a \in Approvals : approvals[a] = "pending"}) =
                (IF report.st = "pending_approval" THEN 1 ELSE 0)
        /\ report.st \in {"client_review", "approved", "signed_off"} =>
                \E a \in Approvals : approvals[a] = "approved"

\* tax.js:263: a changed line makes the summary stale until it is recomputed;
\* a computation that is not stale was made from the lines there are.
ComputedIsCurrent ==
    Quiescent /\ comp.st = "computed" => comp.basis = comp.lines

Approved(d) == \E v \in 1..MaxVersions : <<d, v>> \in records

\* tax-engine.js:284-285: "a report never contains a figure nobody checked".
ReportedAreChecked == \A d \in report.figures : Approved(d)

\* Every handler ends, the one that refreshes twice included.
HandlersEnd == \A r \in Requests : req[r].pc # "idle" ~> req[r].pc = "idle"

=============================================================================
