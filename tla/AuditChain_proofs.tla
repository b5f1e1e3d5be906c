------------------------- MODULE AuditChain_proofs -------------------------
(***************************************************************************)
(* What the audit trail shows, for any number of entries, direct changes   *)
(* and purges; and, for one writer at a time, that an untouched trail      *)
(* verifies.                                                               *)
(***************************************************************************)
EXTENDS AuditChain, TLAPS, WellFoundedInduction

\* The entry a hash was computed for.
HashId(h) == h[3]

\* The shape of the rows and of the calls in flight.
ShapeInv ==
    /\ \A x \in log : x = [seq |-> x.seq, prev |-> x.prev, id |-> x.id,
                           text |-> x.text, hash |-> x.hash]
    /\ writer = [w \in Writers |-> writer[w]]
    /\ \A w \in Writers : writer[w].pc = "insert" => writer[w].seq > 0
    /\ job = [pc |-> job.pc, seq |-> job.seq, hash |-> job.hash]

\* A stored hash is that of the row as it was written, and the hashes that
\* the anchor and its job hold are those of entries written earlier.
HashInv ==
    /\ \A x \in log : x.hash = Digest(x.prev, x.seq, x.id, "original")
    /\ job.pc # "idle" => HashId(job.hash) \in 1..written
    /\ lost => HashId(anchor.hash) \in 1..written

\* The anchoring job has compared what it is about to write.
JobInv == job.pc = "write" => job.seq >= anchor.seq

IInv == TypeOK /\ ShapeInv /\ HashInv /\ JobInv /\ LossDetected

LEMMA InitInv == Init => IInv
<1> SUFFICES ASSUME Init PROVE IInv
  OBVIOUS
<1>1. TypeOK
  <2>1. damaged \in BOOLEAN /\ lost \in BOOLEAN
    BY DEF Init
  <2>2. /\ \A w \in Writers : writer[w].pc = "idle" /\ writer[w].seq = 0
        /\ log = {} /\ anchor.seq = 0 /\ job.pc = "idle" /\ job.seq = 0
        /\ written = 0 /\ changes = 0 /\ purges = 0
    BY DEF Init, IdleWriter, IdleJob, NoAnchor
  <2> QED BY <2>1, <2>2, BoundAssumption DEF TypeOK
<1>2. ShapeInv
  BY DEF Init, ShapeInv, IdleWriter, IdleJob
<1>3. HashInv /\ JobInv /\ LossDetected
  BY DEF Init, HashInv, JobInv, LossDetected, IdleJob
<1> QED BY <1>1, <1>2, <1>3 DEF IInv

LEMMA ReadHeadInv ==
    ASSUME IInv, NEW w \in Writers, ReadHead(w)
    PROVE  IInv'
<1> USE DEF IInv
<1>1. PICK s \in Nat \ {0} : \E p :
        writer' = [writer EXCEPT ![w] = [pc |-> "insert", seq |-> s, prev |-> p]]
  <2>1. CASE log = {}
    BY <2>1 DEF ReadHead, Heads
  <2>2. CASE log # {}
    <3>1. PICK h \in log : writer' = [writer EXCEPT ![w] =
                              [pc |-> "insert", seq |-> h.seq + 1, prev |-> h.hash]]
      BY <2>2 DEF ReadHead, Heads
    <3>2. h.seq + 1 \in Nat \ {0}
      BY DEF TypeOK
    <3> QED BY <3>1, <3>2
  <2> QED BY <2>1, <2>2
<1>2. TypeOK'
  BY <1>1 DEF TypeOK, ShapeInv, ReadHead
<1>3. ShapeInv'
  <2>1. \A v \in Writers : writer'[v].pc = "insert" => writer'[v].seq > 0
    BY <1>1 DEF ShapeInv
  <2> QED BY <1>1, <2>1 DEF ShapeInv, ReadHead
<1>4. HashInv' /\ JobInv' /\ LossDetected'
  BY DEF HashInv, JobInv, LossDetected, AnchorIntact, ReadHead
<1> QED BY <1>2, <1>3, <1>4

LEMMA InsertInv ==
    ASSUME IInv, NEW w \in Writers, Insert(w)
    PROVE  IInv'
<1> USE DEF IInv
<1> DEFINE new == Entry(writer[w].seq, writer[w].prev, written + 1)
<1>1. new = [seq |-> writer[w].seq, prev |-> writer[w].prev, id |-> written + 1,
             text |-> "original",
             hash |-> Digest(writer[w].prev, writer[w].seq, written + 1, "original")]
  BY DEF Entry
<1>2. log' = log \cup {new} /\ written' = written + 1 /\ written' \in 0..MaxEntries
  BY BoundAssumption DEF Insert, TypeOK
<1> HIDE DEF new
<1>3. writer[w].seq \in Nat \ {0}
  BY DEF Insert, ShapeInv, TypeOK
<1>4. TypeOK'
  <2>1. \A v \in Writers : writer'[v].pc \in {"idle", "insert"} /\ writer'[v].seq \in Nat
    BY DEF Insert, IdleWriter, TypeOK, ShapeInv
  <2>2. \A x \in log' : x.seq \in Nat \ {0} /\ x.id \in 1..written'
    BY <1>1, <1>2, <1>3 DEF TypeOK
  <2>3. \A x, y \in log' : x.id = y.id => x = y
    BY <1>1, <1>2 DEF TypeOK
  <2> QED BY <1>2, <2>1, <2>2, <2>3 DEF Insert, TypeOK
<1>5. ShapeInv'
  BY <1>1, <1>2 DEF Insert, ShapeInv, IdleWriter, TypeOK
<1>6. HashInv' /\ JobInv'
  BY <1>1, <1>2 DEF Insert, HashInv, JobInv, TypeOK
<1>7. LossDetected'
  <2>1. new.hash[3] = written + 1
    BY <1>1 DEF Digest
  <2> QED BY <1>2, <2>1 DEF Insert, LossDetected, AnchorIntact, HashInv, HashId, TypeOK
<1> QED BY <1>4, <1>5, <1>6, <1>7

LEMMA AnchorJobInv ==
    ASSUME IInv, AnchorHead \/ AnchorCompare \/ AnchorWrite
    PROVE  IInv'
<1> USE DEF IInv
<1>1. CASE AnchorHead
  <2>1. PICK h \in log : job' = [pc |-> "compare", seq |-> h.seq, hash |-> h.hash]
    BY <1>1 DEF AnchorHead, Heads
  <2>2. h.hash[3] \in 1..written
    BY DEF HashInv, Digest, TypeOK
  <2>3. TypeOK' /\ ShapeInv'
    BY <1>1, <2>1 DEF AnchorHead, TypeOK, ShapeInv
  <2>4. HashInv' /\ JobInv' /\ LossDetected'
    BY <1>1, <2>1, <2>2 DEF AnchorHead, HashInv, HashId, JobInv, LossDetected, AnchorIntact
  <2> QED BY <2>3, <2>4
<1>2. CASE AnchorCompare
  <2>1. TypeOK' /\ ShapeInv'
    BY <1>2 DEF AnchorCompare, TypeOK, ShapeInv, IdleJob
  <2>2. HashInv' /\ JobInv' /\ LossDetected'
    BY <1>2 DEF AnchorCompare, HashInv, JobInv, LossDetected, AnchorIntact, IdleJob,
                ShapeInv, TypeOK
  <2> QED BY <2>1, <2>2
<1>3. CASE AnchorWrite
  <2>1. TypeOK' /\ ShapeInv'
    BY <1>3 DEF AnchorWrite, TypeOK, ShapeInv, IdleJob
  <2>2. HashInv' /\ JobInv' /\ LossDetected'
    BY <1>3 DEF AnchorWrite, HashInv, JobInv, LossDetected, AnchorIntact, IdleJob
  <2> QED BY <2>1, <2>2
<1> QED BY <1>1, <1>2, <1>3

\* Two rows with one hash are one row.
LEMMA HashNamesRow ==
    ASSUME TypeOK, HashInv, NEW x \in log, NEW y \in log, x.hash = y.hash
    PROVE  x = y /\ HashId(x.hash) \in 1..written
  BY DEF TypeOK, HashInv, Digest, HashId

LEMMA PurgeInv ==
    ASSUME IInv, Purge
    PROVE  IInv'
<1> USE DEF IInv
<1>1. PICK n \in {x.seq : x \in log} :
        /\ log' = log \ {x \in log : x.seq <= n}
        /\ lost' = (lost \/ TakesAnchored({x \in log : x.seq <= n}))
        /\ damaged' = (damaged /\ log' # {})
  BY DEF Purge
<1>2. n \in Nat
  BY DEF TypeOK
<1>3. TypeOK' /\ ShapeInv'
  <2>1. purges' \in 0..MaxPurges
    BY BoundAssumption DEF Purge, TypeOK
  <2>2. damaged' \in BOOLEAN /\ lost' \in BOOLEAN
    BY <1>1
  <2> QED BY <1>1, <2>1, <2>2 DEF Purge, TypeOK, ShapeInv
<1>4. lost' => HashId(anchor.hash) \in 1..written
  BY <1>1, HashNamesRow DEF TakesAnchored, HashInv
<1>5. LossDetected'
  BY <1>1, <1>2 DEF LossDetected, AnchorIntact, TakesAnchored, Purge
<1>6. HashInv' /\ JobInv'
  BY <1>1, <1>4 DEF HashInv, JobInv, Purge
<1> QED BY <1>3, <1>5, <1>6

LEMMA EditRowInv ==
    ASSUME IInv, EditRow
    PROVE  IInv'
<1> USE DEF IInv
<1>1. PICK x \in log : log' = (log \ {x}) \cup {[x EXCEPT !.text = "altered"]}
  BY DEF EditRow
<1> DEFINE y == [x EXCEPT !.text = "altered"]
<1>2. y = [seq |-> x.seq, prev |-> x.prev, id |-> x.id,
           text |-> "altered", hash |-> x.hash]
  BY DEF ShapeInv
<1> HIDE DEF y
<1>3. TypeOK'
  BY <1>1, <1>2, BoundAssumption DEF EditRow, TypeOK, y
<1>4. ShapeInv'
  BY <1>1, <1>2 DEF EditRow, ShapeInv, y
<1>5. HashInv' /\ JobInv'
  BY <1>1, <1>2 DEF EditRow, HashInv, JobInv, y
<1>6. LossDetected'
  BY <1>1, <1>2 DEF EditRow, LossDetected, AnchorIntact, y
<1> QED BY <1>3, <1>4, <1>5, <1>6

LEMMA DeleteRowInv ==
    ASSUME IInv, DeleteRow
    PROVE  IInv'
<1> USE DEF IInv
<1>1. PICK x \in log :
        /\ log' = log \ {x}
        /\ damaged' = (damaged \/ \E y \in log : y.seq > x.seq)
        /\ lost' = (lost \/ TakesAnchored({x}))
  BY DEF DeleteRow
<1>2. TypeOK' /\ ShapeInv'
  <2>1. changes' \in 0..MaxChanges
    BY BoundAssumption DEF DeleteRow, TypeOK
  <2>2. damaged' \in BOOLEAN /\ lost' \in BOOLEAN
    BY <1>1
  <2> QED BY <1>1, <2>1, <2>2 DEF DeleteRow, TypeOK, ShapeInv
<1>3. lost' => HashId(anchor.hash) \in 1..written
  BY <1>1, HashNamesRow DEF TakesAnchored, HashInv
<1>4. LossDetected'
  <2>1. SUFFICES ASSUME lost', NEW y \in log, y # x,
                        y.seq = anchor.seq, y.hash = anchor.hash
                 PROVE  FALSE
    BY <1>1 DEF LossDetected, AnchorIntact, DeleteRow
  <2>2. x.hash = anchor.hash
    BY <1>1, <2>1 DEF LossDetected, AnchorIntact, TakesAnchored
  <2> QED BY <2>1, <2>2, HashNamesRow
<1>5. HashInv' /\ JobInv'
  BY <1>1, <1>3 DEF HashInv, JobInv, DeleteRow
<1> QED BY <1>2, <1>4, <1>5

LEMMA StepInv == IInv /\ [Next]_vars => IInv'
<1> SUFFICES ASSUME IInv, [Next]_vars PROVE IInv'
  OBVIOUS
<1>1. CASE UNCHANGED vars
  BY <1>1 DEF vars, IInv, TypeOK, ShapeInv, HashInv, JobInv, LossDetected, AnchorIntact
<1>2. CASE Next
  BY <1>2, ReadHeadInv, InsertInv, AnchorJobInv, PurgeInv, EditRowInv, DeleteRowInv
  DEF Next
<1> QED BY <1>1, <1>2

\* The inductive invariant holds in every reachable state.
THEOREM Invariance == Spec => []IInv
  BY InitInv, StepInv, PTL DEF Spec

\* The rows keep positive sequences and distinct identities, whatever writers,
\* jobs and direct changes interleave.
THEOREM TypeCorrect == Spec => []TypeOK
<1>1. IInv => TypeOK
  BY DEF IInv
<1> QED BY <1>1, Invariance, PTL

\* A removed entry that was anchored stays reported until the next anchor.
THEOREM LossCorrect == Spec => []LossDetected
<1>1. IInv => LossDetected
  BY DEF IInv
<1> QED BY <1>1, Invariance, PTL

\* No step of the anchoring job moves the anchor backwards.
THEOREM AnchorCorrect == Spec => AnchorMonotone
<1>1. IInv /\ [Next]_vars => [anchor'.seq >= anchor.seq]_vars
  <2> SUFFICES ASSUME IInv, Next PROVE anchor'.seq >= anchor.seq
    OBVIOUS
  <2>1. anchor.seq \in Nat
    BY DEF IInv, TypeOK
  <2>2. CASE AnchorWrite
    BY <2>2 DEF AnchorWrite, IInv, JobInv
  <2>3. CASE ~AnchorWrite
    BY <2>1, <2>3 DEF Next, ReadHead, Insert, AnchorHead, AnchorCompare, Purge,
                      EditRow, DeleteRow
  <2> QED BY <2>2, <2>3
<1> QED BY <1>1, Invariance, PTL DEF Spec, AnchorMonotone

-----------------------------------------------------------------------------
(***************************************************************************)
(* One writer at a time                                                    *)
(***************************************************************************)

\* What a writer between its two statements has read is still the head.
ReadIsHead(w) ==
    \/ log = {} /\ writer[w].seq = 1 /\ writer[w].prev = Null
    \/ \E h \in Heads : writer[w].seq = h.seq + 1 /\ writer[w].prev = h.hash

\* An untouched trail verifies, and the writer extends its head.
ChainInv ==
    changes = 0 /\ purges = 0 =>
        /\ VerifyChain
        /\ \A w \in Writers : writer[w].pc = "insert" => ReadIsHead(w)

\* An entry that extends the head keeps the chain.
LEMMA ExtendHead ==
    ASSUME TypeOK, VerifyChain, NEW w \in Writers, ReadIsHead(w),
           log' = log \cup {Entry(writer[w].seq, writer[w].prev, written + 1)}
    PROVE  VerifyChain'
<1> DEFINE new == Entry(writer[w].seq, writer[w].prev, written + 1)
<1>1. /\ new.seq = writer[w].seq /\ new.prev = writer[w].prev
      /\ new.hash = Digest(new.prev, new.seq, new.id, new.text)
  BY DEF Entry
<1>2. log' = log \cup {new}
  OBVIOUS
<1> HIDE DEF new
<1>3. CASE log = {} /\ writer[w].seq = 1 /\ writer[w].prev = Null
  <2>1. log' = {new}
    BY <1>2, <1>3
  <2> QED BY <2>1, <1>1, <1>3 DEF VerifyChain
<1>4. CASE \E h \in Heads : writer[w].seq = h.seq + 1 /\ writer[w].prev = h.hash
  <2>1. PICK h \in log : /\ \A y \in log : y.seq <= h.seq
                        /\ new.seq = h.seq + 1 /\ new.prev = h.hash
    BY <1>1, <1>4 DEF Heads
  <2>2. \A x \in log : x.seq \in Nat /\ x.seq < new.seq
    BY <2>1 DEF TypeOK
  <2>3. \A x, y \in log' : x.seq = y.seq => x = y
    BY <1>2, <2>2 DEF VerifyChain
  <2>4. ASSUME NEW x \in log
        PROVE  /\ IF \A y \in log' : x.seq <= y.seq THEN x.prev = Null
                  ELSE \E y \in log' : y.seq = x.seq - 1 /\ y.hash = x.prev
               /\ x.hash = Digest(x.prev, x.seq, x.id, x.text)
    <3>1. (\A y \in log' : x.seq <= y.seq) <=> (\A y \in log : x.seq <= y.seq)
      BY <1>2, <2>1, <2>2
    <3> QED BY <3>1, <1>2 DEF VerifyChain
  <2>5. /\ IF \A y \in log' : new.seq <= y.seq THEN new.prev = Null
           ELSE \E y \in log' : y.seq = new.seq - 1 /\ y.hash = new.prev
        /\ new.hash = Digest(new.prev, new.seq, new.id, new.text)
    <3>1. ~ \A y \in log' : new.seq <= y.seq
      BY <1>2, <2>1, <2>2
    <3>2. h.seq = new.seq - 1 /\ h.hash = new.prev
      BY <2>1, <2>2
    <3> QED BY <3>1, <3>2, <1>1, <1>2
  <2> QED BY <1>2, <2>3, <2>4, <2>5 DEF VerifyChain
<1> QED BY <1>3, <1>4 DEF ReadIsHead

LEMMA ChainStep ==
    ASSUME \A a, b \in Writers : a = b, IInv, ChainInv, [Next]_vars
    PROVE  ChainInv'
<1> SUFFICES ASSUME changes' = 0, purges' = 0
             PROVE  /\ VerifyChain'
                    /\ \A w \in Writers : writer'[w].pc = "insert" => ReadIsHead(w)'
  BY DEF ChainInv
<1>1. changes \in Nat /\ purges \in Nat
  BY BoundAssumption DEF IInv, TypeOK
<1>2. CASE \E w \in Writers : ReadHead(w)
  <2>1. PICK w \in Writers : ReadHead(w)
    BY <1>2
  <2>2. VerifyChain'
    BY <2>1 DEF ReadHead, ChainInv, VerifyChain
  <2>3. ReadIsHead(w)'
    <3>1. CASE writer' = [writer EXCEPT ![w] = [pc |-> "insert", seq |-> 1, prev |-> Null]]
               /\ log = {}
      BY <2>1, <3>1 DEF ReadHead, ReadIsHead, IInv, ShapeInv
    <3>2. CASE \E h \in Heads :
                 writer' = [writer EXCEPT ![w] =
                              [pc |-> "insert", seq |-> h.seq + 1, prev |-> h.hash]]
      BY <2>1, <3>2 DEF ReadHead, ReadIsHead, Heads, IInv, ShapeInv
    <3> QED BY <2>1, <3>1, <3>2 DEF ReadHead
  <2> QED BY <2>2, <2>3
<1>3. CASE \E w \in Writers : Insert(w)
  <2>1. PICK w \in Writers : Insert(w)
    BY <1>3
  <2>2. VerifyChain'
    BY <2>1, ExtendHead DEF Insert, ChainInv, IInv
  <2>3. writer'[w].pc = "idle"
    BY <2>1 DEF Insert, IdleWriter, IInv, ShapeInv
  <2> QED BY <2>2, <2>3
<1>4. CASE Purge \/ EditRow \/ DeleteRow
  BY <1>1, <1>4 DEF Purge, EditRow, DeleteRow
<1>5. CASE AnchorHead \/ AnchorCompare \/ AnchorWrite \/ UNCHANGED vars
  BY <1>5 DEF AnchorHead, AnchorCompare, AnchorWrite, vars, ChainInv, VerifyChain,
              ReadIsHead, Heads
<1> QED BY <1>2, <1>3, <1>4, <1>5 DEF Next

\* With one audit() call at a time, a trail that nobody changed and that
\* retention did not cut verifies, however long it grows.
THEOREM FailureCorrect ==
    ASSUME \A a, b \in Writers : a = b
    PROVE  Spec => []FailureMeansChange
<1>1. Init => ChainInv
  BY DEF Init, ChainInv, VerifyChain, IdleWriter
<1>2. IInv /\ ChainInv /\ [Next]_vars => ChainInv'
  BY ChainStep
<1>3. ChainInv => FailureMeansChange
  BY DEF ChainInv, FailureMeansChange
<1> QED BY <1>1, <1>2, <1>3, Invariance, PTL DEF Spec

-----------------------------------------------------------------------------
(***************************************************************************)
(* One writer, one direct change: the damage shows for good                *)
(***************************************************************************)

\* No hash is the mark of the missing prefix.
NoNullHash == \A prev, seq, id, text : Digest(prev, seq, id, text) # Null

\* The rows and the writer stand in order, and only the oldest row there ever
\* was is linked to none.
OrderInv ==
    /\ \A x, y \in log : x.seq = y.seq => x = y
    /\ \A x, y \in log : x.prev = Null => x.seq <= y.seq
    /\ \A w \in Writers : writer[w].pc = "insert" =>
         /\ \A x \in log : x.seq < writer[w].seq
         /\ writer[w].prev = Null => log = {}

\* Until the table is changed directly the rows follow without a gap, and so
\* does what the writer is about to insert.
UntouchedInv ==
    changes = 0 =>
      /\ ~damaged
      /\ \A x, y \in log : x.seq < y.seq => \E z \in log : z.seq = x.seq + 1
      /\ \A w \in Writers : writer[w].pc = "insert" /\ log # {} =>
           \E x \in log : writer[w].seq = x.seq + 1

\* The three traces a change leaves: a row that does not hash to its hash, a
\* row whose predecessor is missing, and a log whose oldest row is gone.
Altered == \E x \in log : x.hash # Digest(x.prev, x.seq, x.id, x.text)
Unlinked == \E z \in log : z.prev # Null /\ \A y \in log : y.seq + 1 # z.seq
Headless == log # {} /\ \A x \in log : x.prev # Null
Broken == Altered \/ Unlinked \/ Headless

TraceInv == OrderInv /\ UntouchedInv /\ (damaged => Broken)

\* A log that is not empty has an oldest row.
LEMMA OldestRow ==
    ASSUME TypeOK, log # {}
    PROVE  \E x \in log : \A y \in log : x.seq <= y.seq
<1> DEFINE seqs == {x.seq : x \in log}
<1>1. seqs \subseteq Nat /\ seqs # {}
  BY DEF TypeOK
<1> HIDE DEF seqs
<1>2. \E m \in seqs : \A n \in seqs : ~ (<<n, m>> \in OpToRel(<, Nat))
  BY <1>1, WFMin, NatLessThanWellFounded
<1>3. PICK m \in seqs : \A n \in seqs : ~ (n < m)
  BY <1>1, <1>2 DEF OpToRel
<1>4. PICK x \in log : x.seq = m
  BY DEF seqs
<1>5. ASSUME NEW y \in log PROVE x.seq <= y.seq
  <2>1. y.seq \in seqs
    BY DEF seqs
  <2>2. x.seq \in Nat /\ y.seq \in Nat
    BY DEF TypeOK
  <2>3. ~ (y.seq < x.seq)
    BY <1>3, <1>4, <2>1
  <2> QED BY <2>2, <2>3
<1> QED BY <1>4, <1>5

\* Every one of the traces makes the chain fail.
LEMMA BrokenFails ==
    ASSUME TypeOK, Broken
    PROVE  ~VerifyChain
<1> SUFFICES ASSUME VerifyChain PROVE FALSE
  OBVIOUS
<1>1. CASE Altered
  BY <1>1 DEF Altered, VerifyChain
<1>2. CASE Unlinked
  <2>1. PICK z \in log : z.prev # Null /\ \A y \in log : y.seq + 1 # z.seq
    BY <1>2 DEF Unlinked
  <2>2. PICK y \in log : y.seq = z.seq - 1
    BY <2>1 DEF VerifyChain
  <2>3. y.seq + 1 = z.seq
    BY <2>2 DEF TypeOK
  <2> QED BY <2>1, <2>3
<1>3. CASE Headless
  <2>1. PICK x \in log : \A y \in log : x.seq <= y.seq
    BY <1>3, OldestRow DEF Headless
  <2> QED BY <1>3, <2>1 DEF Headless, VerifyChain
<1> QED BY <1>1, <1>2, <1>3 DEF Broken

LEMMA ReadHeadTrace ==
    ASSUME NoNullHash, \A a, b \in Writers : a = b, IInv, TraceInv,
           NEW w \in Writers, ReadHead(w)
    PROVE  TraceInv'
<1>1. log' = log /\ changes' = changes /\ damaged' = damaged
  BY DEF ReadHead
<1>2. \A v \in Writers : v = w
  OBVIOUS
<1>3. (Broken => Broken')
  BY <1>1 DEF Broken, Altered, Unlinked, Headless
<1>4. /\ \A x \in log : x.seq < writer'[w].seq
      /\ writer'[w].prev = Null => log = {}
      /\ log # {} => \E x \in log : writer'[w].seq = x.seq + 1
  <2>1. CASE log = {} /\ writer' = [writer EXCEPT ![w] = [pc |-> "insert", seq |-> 1, prev |-> Null]]
    BY <2>1
  <2>2. CASE \E h \in Heads :
               writer' = [writer EXCEPT ![w] =
                            [pc |-> "insert", seq |-> h.seq + 1, prev |-> h.hash]]
    <3>1. PICK h \in log : /\ \A y \in log : y.seq <= h.seq
                           /\ writer' = [writer EXCEPT ![w] =
                                [pc |-> "insert", seq |-> h.seq + 1, prev |-> h.hash]]
      BY <2>2 DEF Heads
    <3>2. writer'[w].seq = h.seq + 1 /\ writer'[w].prev = h.hash
      BY <3>1 DEF IInv, ShapeInv
    <3>3. h.hash # Null
      BY DEF NoNullHash, IInv, HashInv
    <3>4. \A x \in log : x.seq \in Nat
      BY DEF IInv, TypeOK
    <3> QED BY <3>1, <3>2, <3>3, <3>4
  <2> QED BY <2>1, <2>2 DEF ReadHead
<1>5. OrderInv'
  BY <1>1, <1>2, <1>4 DEF TraceInv, OrderInv
<1>6. UntouchedInv'
  BY <1>1, <1>2, <1>4 DEF TraceInv, UntouchedInv
<1> QED BY <1>1, <1>3, <1>5, <1>6 DEF TraceInv

LEMMA InsertTrace ==
    ASSUME \A a, b \in Writers : a = b, IInv, TraceInv,
           NEW w \in Writers, Insert(w)
    PROVE  TraceInv'
<1>1. PICK e : e = Entry(writer[w].seq, writer[w].prev, written + 1)
  OBVIOUS
<1>2. /\ log' = log \cup {e} /\ changes' = changes /\ damaged' = damaged
      /\ e.seq = writer[w].seq /\ e.prev = writer[w].prev
  BY <1>1 DEF Insert, Entry
<1>3. \A v \in Writers : writer'[v].pc = "idle"
  BY DEF Insert, IdleWriter, IInv, ShapeInv
<1>4. /\ e.seq \in Nat /\ \A x \in log : x.seq \in Nat /\ x.seq < e.seq
      /\ e.prev = Null => log = {}
  BY <1>2 DEF Insert, IInv, TypeOK, TraceInv, OrderInv
<1>5. OrderInv'
  <2>1. \A x, y \in log' : x.seq = y.seq => x = y
    BY <1>2, <1>4 DEF TraceInv, OrderInv
  <2>2. \A x, y \in log' : x.prev = Null => x.seq <= y.seq
    BY <1>2, <1>4 DEF TraceInv, OrderInv
  <2> QED BY <1>3, <2>1, <2>2 DEF OrderInv
<1>6. UntouchedInv'
  <2>1. SUFFICES ASSUME changes = 0, NEW x \in log', NEW y \in log', x.seq < y.seq
                 PROVE  \E z \in log' : z.seq = x.seq + 1
    BY <1>2, <1>3 DEF TraceInv, UntouchedInv
  <2>2. x \in log
    BY <1>2, <1>4, <2>1
  <2>3. PICK b \in log : e.seq = b.seq + 1
    BY <1>2, <2>1, <2>2 DEF TraceInv, UntouchedInv, Insert
  <2>4. CASE x.seq < b.seq
    BY <1>2, <2>1, <2>2, <2>3, <2>4 DEF TraceInv, UntouchedInv
  <2>5. CASE ~ (x.seq < b.seq)
    <3>1. x.seq = b.seq
      BY <1>4, <2>2, <2>3, <2>5
    <3> QED BY <1>2, <2>3, <3>1
  <2> QED BY <2>4, <2>5
<1>7. Broken => Broken'
  <2>1. Altered => Altered'
    BY <1>2 DEF Altered
  <2>2. Unlinked => Unlinked'
    <3>1. SUFFICES ASSUME NEW z \in log, z.prev # Null, \A y \in log : y.seq + 1 # z.seq
                   PROVE  Unlinked'
      BY DEF Unlinked
    <3>2. e.seq + 1 # z.seq
      BY <1>4
    <3> QED BY <1>2, <3>1, <3>2 DEF Unlinked
  <2>3. Headless => Headless'
    BY <1>2, <1>4 DEF Headless
  <2> QED BY <2>1, <2>2, <2>3 DEF Broken
<1> QED BY <1>2, <1>5, <1>6, <1>7 DEF TraceInv

\* What retention leaves of a trail it cut is headless.
LEMMA PurgeTrace ==
    ASSUME IInv, TraceInv, Purge
    PROVE  TraceInv'
<1>1. PICK n \in Nat :
        /\ \E x \in log : x.seq = n
        /\ log' = log \ {x \in log : x.seq <= n}
        /\ damaged' = (damaged /\ log' # {})
  BY DEF Purge, IInv, TypeOK
<1>2. \A x \in log' : x \in log /\ x.seq \in Nat /\ x.seq > n
  BY <1>1 DEF IInv, TypeOK
<1>3. \A x \in log : x.seq \in Nat /\ (x.seq > n => x \in log')
  BY <1>1 DEF IInv, TypeOK
<1>4. writer' = writer /\ changes' = changes
  BY DEF Purge
<1>5. OrderInv'
  BY <1>2, <1>4 DEF TraceInv, OrderInv
<1>6. UntouchedInv'
  <2>1. SUFFICES ASSUME changes = 0 PROVE UntouchedInv'
    BY <1>4 DEF UntouchedInv
  <2>2. ~damaged'
    BY <1>1, <2>1 DEF TraceInv, UntouchedInv
  <2>3. ASSUME NEW x \in log', NEW y \in log', x.seq < y.seq
        PROVE  \E z \in log' : z.seq = x.seq + 1
    <3>1. PICK z \in log : z.seq = x.seq + 1
      BY <1>2, <2>1, <2>3 DEF TraceInv, UntouchedInv
    <3> QED BY <1>2, <1>3, <3>1
  <2>4. ASSUME NEW w \in Writers, writer[w].pc = "insert", log' # {}
        PROVE  \E x \in log' : writer[w].seq = x.seq + 1
    <3>1. PICK y \in log' : TRUE
      BY <2>4
    <3>2. PICK x \in log : writer[w].seq = x.seq + 1
      BY <1>2, <2>1, <2>4, <3>1 DEF TraceInv, UntouchedInv
    <3>3. y.seq < writer[w].seq
      BY <1>2, <2>4, <3>1 DEF TraceInv, OrderInv
    <3>4. x.seq > n
      BY <1>2, <1>3, <3>1, <3>2, <3>3
    <3> QED BY <1>3, <3>2, <3>4
  <2> QED BY <1>4, <2>2, <2>3, <2>4 DEF UntouchedInv
<1>7. damaged' => Broken'
  <2>1. PICK x \in log : x.seq = n
    BY <1>1
  <2>2. \A y \in log' : y.prev # Null
    BY <1>2, <2>1 DEF TraceInv, OrderInv
  <2> QED BY <1>1, <2>2 DEF Broken, Headless
<1> QED BY <1>5, <1>6, <1>7 DEF TraceInv

LEMMA EditRowTrace ==
    ASSUME MaxChanges <= 1, IInv, TraceInv, EditRow
    PROVE  TraceInv'
<1>1. PICK x \in log : log' = (log \ {x}) \cup {[x EXCEPT !.text = "altered"]}
  BY DEF EditRow
<1>2. PICK y : y = [x EXCEPT !.text = "altered"]
  OBVIOUS
<1>3. y.seq = x.seq /\ y.prev = x.prev /\ y.id = x.id /\ y.hash = x.hash /\ y.text = "altered"
  BY <1>2 DEF IInv, ShapeInv
<1>4. log' = (log \ {x}) \cup {y} /\ writer' = writer /\ changes' # 0
  BY <1>1, <1>2 DEF EditRow, IInv, TypeOK
<1>5. OrderInv'
  BY <1>3, <1>4 DEF TraceInv, OrderInv
<1>6. Altered'
  <2>1. y.hash # Digest(y.prev, y.seq, y.id, y.text)
    BY <1>3 DEF IInv, HashInv, Digest
  <2> QED BY <1>4, <2>1 DEF Altered
<1> QED BY <1>4, <1>5, <1>6 DEF TraceInv, UntouchedInv, Broken

LEMMA DeleteRowTrace ==
    ASSUME MaxChanges <= 1, IInv, TraceInv, DeleteRow
    PROVE  TraceInv'
<1>1. PICK x \in log :
        /\ log' = log \ {x}
        /\ damaged' = (damaged \/ \E y \in log : y.seq > x.seq)
  BY DEF DeleteRow
<1>2. writer' = writer /\ changes = 0 /\ changes' # 0 /\ ~damaged
  BY BoundAssumption DEF DeleteRow, IInv, TypeOK, TraceInv, UntouchedInv
<1>3. \A y \in log : y.seq \in Nat
  BY DEF IInv, TypeOK
<1>4. OrderInv'
  BY <1>1, <1>2 DEF TraceInv, OrderInv
<1>5. ASSUME NEW y \in log, y.seq > x.seq PROVE Broken'
  <2>1. PICK s \in log : s.seq = x.seq + 1
    BY <1>2, <1>3, <1>5 DEF TraceInv, UntouchedInv
  <2>2. s \in log' /\ s.prev # Null
    BY <1>1, <1>3, <2>1 DEF TraceInv, OrderInv
  <2>3. \A z \in log' : z.seq + 1 # s.seq
    <3>1. SUFFICES ASSUME NEW z \in log, z # x, z.seq + 1 = s.seq PROVE FALSE
      BY <1>1
    <3>2. z.seq = x.seq
      BY <1>3, <2>1, <3>1
    <3> QED BY <3>1, <3>2 DEF TraceInv, OrderInv
  <2>4. Unlinked'
    BY <2>2, <2>3 DEF Unlinked
  <2> QED BY <2>4 DEF Broken
<1>6. damaged' => Broken'
  BY <1>1, <1>2, <1>5
<1> QED BY <1>2, <1>4, <1>6 DEF TraceInv, UntouchedInv

LEMMA TraceStep ==
    ASSUME NoNullHash, \A a, b \in Writers : a = b, MaxChanges <= 1,
           IInv, TraceInv, [Next]_vars
    PROVE  TraceInv'
<1>1. CASE \E w \in Writers : ReadHead(w) \/ Insert(w)
  BY <1>1, ReadHeadTrace, InsertTrace
<1>2. CASE Purge \/ EditRow \/ DeleteRow
  BY <1>2, PurgeTrace, EditRowTrace, DeleteRowTrace
<1>3. CASE AnchorHead \/ AnchorCompare \/ AnchorWrite \/ UNCHANGED vars
  <2>1. UNCHANGED <<log, writer, changes, damaged>>
    BY <1>3 DEF AnchorHead, AnchorCompare, AnchorWrite, vars
  <2> QED BY <2>1 DEF TraceInv, OrderInv, UntouchedInv, Broken, Altered, Unlinked, Headless
<1> QED BY <1>1, <1>2, <1>3 DEF Next

\* services/audit.js: with one audit() call at a time, one entry edited, or
\* removed from before the head, breaks the chain for good, however many
\* entries are appended and whatever retention purges afterwards.  A second
\* change could undo the first, and writers that forked the chain leave a row
\* whose removal repairs it, so both are assumed away.
THEOREM DamageCorrect ==
    ASSUME NoNullHash, \A a, b \in Writers : a = b, MaxChanges <= 1
    PROVE  Spec => []DamageDetected
<1>1. Init => TraceInv
  BY DEF Init, TraceInv, OrderInv, UntouchedInv, IdleWriter
<1>2. IInv /\ TraceInv /\ [Next]_vars => TraceInv'
  BY TraceStep
<1>3. IInv /\ TraceInv => DamageDetected
  BY BrokenFails DEF IInv, TraceInv, DamageDetected
<1> QED BY <1>1, <1>2, <1>3, Invariance, PTL DEF Spec

=============================================================================
