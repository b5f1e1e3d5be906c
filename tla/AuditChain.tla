----------------------------- MODULE AuditChain -----------------------------
(***************************************************************************)
(* The hash-chained audit trail of one organisation: services/audit.js,    *)
(* the anchoring and retention jobs of services/scheduler.js and the       *)
(* integrity check of modules/audit.js.                                    *)
(*                                                                         *)
(* audit() reads the head of the chain and inserts the next entry in two   *)
(* statements, and the index on (tenant_id, sequence) is not unique, so    *)
(* two requests may extend the same head.  Rows may also be changed behind *)
(* the application's back, which is what the chain is there to show.       *)
(***************************************************************************)
EXTENDS Naturals, FiniteSets

CONSTANTS
    Writers,     \* requests that may be inside audit() at once
    MaxEntries,  \* bound on the entries written
    MaxChanges,  \* bound on the direct changes of the table
    MaxPurges,   \* bound on the runs of retention that delete something
    Null

ASSUME BoundAssumption ==
    MaxEntries \in Nat /\ MaxChanges \in Nat /\ MaxPurges \in Nat

VARIABLES
    log,       \* table audit_logs, the rows of the organisation
    writer,    \* the audit() calls in flight
    anchor,    \* the settings row audit_anchor:<tenant>
    job,       \* the anchoring job in flight
    written,   \* entries written so far; names the next one
    changes,   \* direct changes of the table so far (bound)
    purges,    \* purges so far (bound)
    damaged,   \* history: a row was edited, or removed from before the head
    lost       \* history: the anchored row is gone and was not anchored anew

vars == <<log, writer, anchor, job, written, changes, purges, damaged, lost>>

\* sha256Hex(prev_hash :: canonical(row)): collision free, and over every
\* field.  id stands for the fields that tell entries apart (actor, request,
\* time), text for whether they still say what was written.
Digest(prev, seq, id, text) == <<prev, seq, id, text>>

Entry(seq, prev, id) ==
    [seq |-> seq, prev |-> prev, id |-> id, text |-> "original",
     hash |-> Digest(prev, seq, id, "original")]

\* ORDER BY sequence DESC LIMIT 1: among equal sequences the row is arbitrary.
Heads == {x \in log : \A y \in log : y.seq <= x.seq}

IdleWriter == [pc |-> "idle", seq |-> 0, prev |-> Null]
IdleJob == [pc |-> "idle", seq |-> 0, hash |-> Null]

\* No settings row yet.  Sequences start at 1.
NoAnchor == [seq |-> 0, hash |-> Null]

-----------------------------------------------------------------------------
\* Mutant: the first sequence is the missing row's 0, not 0 + 1.
ReadHeadFromZero(w) ==
    /\ writer[w].pc = "idle"
    /\ written < MaxEntries
    /\ \/ /\ log = {}
          /\ writer' = [writer EXCEPT ![w] = [pc |-> "insert", seq |-> 0, prev |-> Null]]
       \/ \E h \in Heads :
            writer' = [writer EXCEPT ![w] =
                         [pc |-> "insert", seq |-> h.seq + 1, prev |-> h.hash]]
    /\ UNCHANGED <<log, anchor, job, written, changes, purges, damaged, lost>>

\* nextSequenceAndHash.
ReadHead(w) ==
    /\ writer[w].pc = "idle"
    /\ written < MaxEntries
    /\ \/ /\ log = {}
          /\ writer' = [writer EXCEPT ![w] = [pc |-> "insert", seq |-> 1, prev |-> Null]]
       \/ \E h \in Heads :
            writer' = [writer EXCEPT ![w] =
                         [pc |-> "insert", seq |-> h.seq + 1, prev |-> h.hash]]
    /\ UNCHANGED <<log, anchor, job, written, changes, purges, damaged, lost>>

\* Mutant: the chain prefix is left out of the row.
InsertUnlinked(w) ==
    /\ writer[w].pc = "insert"
    /\ written < MaxEntries
    /\ log' = log \cup {Entry(writer[w].seq, Null, written + 1)}
    /\ written' = written + 1
    /\ writer' = [writer EXCEPT ![w] = IdleWriter]
    /\ UNCHANGED <<anchor, job, changes, purges, damaged, lost>>

\* The rest of audit(): hash the entry onto what was read and insert it.
Insert(w) ==
    /\ writer[w].pc = "insert"
    /\ written < MaxEntries
    /\ log' = log \cup {Entry(writer[w].seq, writer[w].prev, written + 1)}
    /\ written' = written + 1
    /\ writer' = [writer EXCEPT ![w] = IdleWriter]
    /\ UNCHANGED <<anchor, job, changes, purges, damaged, lost>>

-----------------------------------------------------------------------------
\* anchorChain, one statement at a time: the head ...
AnchorHead ==
    /\ job.pc = "idle"
    /\ \E h \in Heads : job' = [pc |-> "compare", seq |-> h.seq, hash |-> h.hash]
    /\ UNCHANGED <<log, writer, anchor, written, changes, purges, damaged, lost>>

\* Mutant: the anchor may move backwards.
AnchorCompareUnchecked ==
    /\ job.pc = "compare"
    /\ job' = [job EXCEPT !.pc = "write"]
    /\ UNCHANGED <<log, writer, anchor, written, changes, purges, damaged, lost>>

\* ... the last anchor, which a head below it must not replace ...
AnchorCompare ==
    /\ job.pc = "compare"
    /\ job' = IF job.seq < anchor.seq THEN IdleJob
              ELSE [job EXCEPT !.pc = "write"]
    /\ UNCHANGED <<log, writer, anchor, written, changes, purges, damaged, lost>>

\* ... and the write.
AnchorWrite ==
    /\ job.pc = "write"
    /\ anchor' = [seq |-> job.seq, hash |-> job.hash]
    /\ lost' = ~ \E x \in log : x.seq = job.seq /\ x.hash = job.hash
    /\ job' = IdleJob
    /\ UNCHANGED <<log, writer, written, changes, purges, damaged>>

-----------------------------------------------------------------------------
\* Whether the removal of the rows in gone takes the anchored one with it.
TakesAnchored(gone) ==
    \E x \in gone : x.seq = anchor.seq /\ x.hash = anchor.hash

\* purgeExpiredAuditLogs: the oldest entries go.
Purge ==
    /\ purges < MaxPurges
    /\ \E n \in {x.seq : x \in log} :
         LET gone == {x \in log : x.seq <= n} IN
         /\ log' = log \ gone
         /\ lost' = (lost \/ TakesAnchored(gone))
         /\ damaged' = (damaged /\ log' # {})
    /\ purges' = purges + 1
    /\ UNCHANGED <<writer, anchor, job, written, changes>>

\* External: an entry edited in the database, its hash left as it was.
EditRow ==
    /\ changes < MaxChanges
    /\ \E x \in log : log' = (log \ {x}) \cup {[x EXCEPT !.text = "altered"]}
    /\ changes' = changes + 1
    /\ damaged' = TRUE
    /\ UNCHANGED <<writer, anchor, job, written, purges, lost>>

\* External: an entry deleted in the database.
DeleteRow ==
    /\ changes < MaxChanges
    /\ \E x \in log :
         /\ log' = log \ {x}
         /\ damaged' = (damaged \/ \E y \in log : y.seq > x.seq)
         /\ lost' = (lost \/ TakesAnchored({x}))
    /\ changes' = changes + 1
    /\ UNCHANGED <<writer, anchor, job, written, purges>>

-----------------------------------------------------------------------------
Init ==
    /\ log = {}
    /\ writer = [w \in Writers |-> IdleWriter]
    /\ anchor = NoAnchor
    /\ job = IdleJob
    /\ written = 0 /\ changes = 0 /\ purges = 0
    /\ damaged = FALSE /\ lost = FALSE

Next ==
    \/ \E w \in Writers : ReadHead(w) \/ Insert(w)
    \/ AnchorHead \/ AnchorCompare \/ AnchorWrite
    \/ Purge \/ EditRow \/ DeleteRow

Spec == Init /\ [][Next]_vars

-----------------------------------------------------------------------------
(***************************************************************************)
(* The integrity check                                                     *)
(***************************************************************************)

\* Mutant: the walk trusts the stored hash.
VerifyChainShallow ==
    /\ \A x, y \in log : x.seq = y.seq => x = y
    /\ \A x \in log :
         IF \A y \in log : x.seq <= y.seq THEN x.prev = Null
         ELSE \E y \in log : y.seq = x.seq - 1 /\ y.hash = x.prev

\* verifyChain: sequences without gap or repeat from the first row on, every
\* row linked to the one before it, the first row to none, and every hash what
\* the row hashes to.
VerifyChain ==
    /\ \A x, y \in log : x.seq = y.seq => x = y
    /\ \A x \in log :
         /\ IF \A y \in log : x.seq <= y.seq THEN x.prev = Null
            ELSE \E y \in log : y.seq = x.seq - 1 /\ y.hash = x.prev
         /\ x.hash = Digest(x.prev, x.seq, x.id, x.text)

\* Mutant: a log that is long enough again is taken for the anchored one.
AnchorIntactByLength == \E x \in log : x.seq >= anchor.seq

\* verifyAgainstAnchor, once there is an anchor: the log reaches the anchored
\* sequence and holds the anchored entry.
AnchorIntact == \E x \in log : x.seq = anchor.seq /\ x.hash = anchor.hash

-----------------------------------------------------------------------------
(***************************************************************************)
(* Properties                                                              *)
(***************************************************************************)

\* The rows carry positive sequence numbers and distinct identities, and the
\* counters keep to their bounds.
TypeOK ==
    /\ \A x \in log : x.seq \in Nat \ {0} /\ x.id \in 1..written
    /\ \A x, y \in log : x.id = y.id => x = y
    /\ \A w \in Writers : writer[w].pc \in {"idle", "insert"} /\ writer[w].seq \in Nat
    /\ anchor.seq \in Nat
    /\ job.pc \in {"idle", "compare", "write"} /\ job.seq \in Nat
    /\ written \in 0..MaxEntries
    /\ changes \in 0..MaxChanges /\ purges \in 0..MaxPurges
    /\ damaged \in BOOLEAN /\ lost \in BOOLEAN

\* modules/audit.js explains a chain that does not verify by an edited or a
\* removed entry: a trail nobody changed and retention did not cut verifies.
FailureMeansChange == changes = 0 /\ purges = 0 => VerifyChain

\* services/audit.js: one entry edited, or removed from before the head,
\* breaks the chain for good, whatever is appended or purged afterwards.
DamageDetected == damaged => ~VerifyChain

\* A removed entry that was anchored is reported until the anchor is written
\* anew, also when the log has grown back to its length.
LossDetected == lost => ~AnchorIntact

\* anchorChain refuses to move an anchor backwards.
AnchorMonotone ==
    [][anchor'.seq >= anchor.seq]_vars

=============================================================================
