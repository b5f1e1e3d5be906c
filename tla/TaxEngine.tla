------------------------------ MODULE TaxEngine ------------------------------
(***************************************************************************)
(* What the tax engine works out for one client: services/tax-engine.js,   *)
(* the records and the rate book of modules/tax.js and the rounding of     *)
(* utils/money.js.  Amounts are whole paise, rates whole per cent and      *)
(* dates whole numbers.  Each handler is one step here; how a run, an edit *)
(* and a finalisation interleave is the subject of FilingWorkflow.         *)
(***************************************************************************)
EXTENDS Handlers, Functions

CONSTANTS
    Invoices,       \* GST lines somebody may enter, by what the form says of them
    Corrections,    \* what a correction of a GST line may say
    Payouts,        \* payments to deductees somebody may enter
    Platform,       \* the rules every organisation starts with
    OwnRules,       \* rules an administrator may add
    RulePatches,    \* what a change of a rule may say
    StateCodes,     \* state codes a company may move to
    PeriodEnd,      \* computation of tax deducted at source -> last day of its period
    Today

\* A rule has a rate of at most a hundred per cent and a threshold.
IsRule(u) ==
    /\ {"rate", "threshold"} \subseteq DOMAIN u
    /\ u.rate \in 0..100 /\ u.threshold \in Nat

\* What the validators let through: amounts and thresholds are not negative, a rate
\* is at most a hundred per cent, a correction names some of five fields, and a
\* deduction belongs to a computation of its own kind.
ASSUME TaxConstants ==
    /\ \A i \in Invoices : i.taxable \in Nat /\ i.rate \in 0..100 /\ i.itc \in BOOLEAN
    /\ \A fix \in Corrections :
          /\ DOMAIN fix \subseteq {"taxable", "rate", "place", "itc", "cessPct"}
          /\ "taxable" \in DOMAIN fix => fix.taxable \in Nat
          /\ "rate" \in DOMAIN fix => fix.rate \in 0..100
          /\ "itc" \in DOMAIN fix => fix.itc \in BOOLEAN
    /\ IsFiniteSet(Payouts)
    /\ \A p \in Payouts : p.amount \in Nat /\ p.date \in Nat /\ p.of \in DOMAIN PeriodEnd
    /\ "gst" \notin DOMAIN PeriodEnd
    /\ \A u \in Platform \cup OwnRules : IsRule(u)
    /\ \A patch \in RulePatches :
          /\ "rate" \in DOMAIN patch => patch.rate \in 0..100
          /\ "threshold" \in DOMAIN patch => patch.threshold \in Nat

VARIABLES
    home,           \* companies.state_code
    verified,       \* documents whose status is verified, approved or archived
    rules,          \* tax_rules
    gst,            \* gst_records: invoice -> row
    tds,            \* tds_records: payout -> row
    computation,    \* tax_computations: return -> row
    outdated        \* history: what a run reads besides its lines changed since it ran

tax == <<home, verified, rules, gst, tds, computation, outdated>>
taxVars == <<server, tax>>

\* No row, and a computation that has no figures.
Nothing == [at |-> None]

\* The computation of the GST period, and one of each period with deductions.
Returns == {"gst"} \cup DOMAIN PeriodEnd

Documents == {i.doc : i \in Invoices} \cup {p.doc : p \in Payouts}

TaxInit ==
    /\ home \in StateCodes
    /\ verified = {}
    /\ rules = Platform
    /\ gst = [i \in Invoices |-> Nothing]
    /\ tds = [p \in Payouts |-> Nothing]
    /\ computation = [c \in Returns |-> [status |-> "absent", figures |-> Nothing]]
    /\ outdated = [c \in Returns |-> FALSE]

-----------------------------------------------------------------------------
\* Percentages are rounded half up, once, where they are applied.
PctOfPaise(paise, rate) == (paise * rate + 50) \div 100
PctHalved(paise, rate) == (paise * rate + 100) \div 200

Deficit(a, b) == IF a > b THEN a - b ELSE 0

ZeroTaxSupply == {"exempt", "nil", "non_gst"}

\* A supply is between states by its type, and by the two states only when the
\* type says neither.
IsInterState(state, place, supply) ==
    \/ supply \in {"export", "sez", "inter"}
    \/ supply # "intra" /\ place # None /\ place # state

\* The tax of one line: between states the whole of it is IGST, otherwise CGST takes
\* half the rate and SGST what is left of the whole.
ComputeGstLine(taxable, rate, cessPct, inter, supply) ==
    LET charged == supply \notin ZeroTaxSupply /\ rate > 0
        whole == IF charged THEN PctOfPaise(taxable, rate) ELSE 0
        cgst == IF charged /\ ~inter THEN PctHalved(taxable, rate) ELSE 0
        sgst == IF inter THEN 0 ELSE whole - cgst
        igst == IF inter THEN whole ELSE 0
        cess == IF supply \in ZeroTaxSupply THEN 0 ELSE PctOfPaise(taxable, cessPct)
    IN  [cgst |-> cgst, sgst |-> sgst, igst |-> igst, cess |-> cess,
         total |-> taxable + whole + cess]

\* The type a line is stored with.
SupplyStored(supply, inter) ==
    IF supply \notin {"intra", "inter"} THEN supply ELSE IF inter THEN "inter" ELSE "intra"

\* The summary of lines: tax on outward supplies, less the credit of the inward
\* lines that carry one, never below zero.
SummariseGst(lines, row) ==
    LET Outward == {i \in lines : i.direction = "outward"}
        Credited == {i \in lines : i.direction = "inward" /\ row[i].itc}
        taxOn(S) == SumFunction([i \in S |-> row[i].cgst + row[i].sgst + row[i].igst + row[i].cess])
    IN  [taxable |-> SumFunction([i \in Outward |-> row[i].taxable]),
         cgst |-> SumFunction([i \in Outward |-> row[i].cgst]),
         sgst |-> SumFunction([i \in Outward |-> row[i].sgst]),
         igst |-> SumFunction([i \in Outward |-> row[i].igst]),
         cess |-> SumFunction([i \in Outward |-> row[i].cess]),
         tax |-> taxOn(Outward), itc |-> taxOn(Credited),
         net |-> Deficit(taxOn(Outward), taxOn(Credited)), lines |-> Cardinality(lines)]

\* What a run makes of a line.  The rate of its cess is not stored: the cess stays
\* and the total is worked out without it.
RecomputedGst(row) ==
    LET inter == IsInterState(home, row.place, row.supply)
        line == ComputeGstLine(row.taxable, row.rate, 0, inter, row.supply)
    IN  Update(row, [cgst |-> line.cgst, sgst |-> line.sgst, igst |-> line.igst,
                     total |-> line.total, supply |-> SupplyStored(row.supply, inter)])
-----------------------------------------------------------------------------
\* The rule in force for a code on a day, as a set of at most one: an
\* organisation's own before the platform's, the latest of those.
ResolveRule(code, at) ==
    LET InForce == {u \in rules : u.code = code /\ u.verified /\ u.from <= at /\ at <= u.to}
        Own == {u \in InForce : u.own}
        Ranked == IF Own = {} THEN InForce ELSE Own
    IN  {u \in Ranked : \A v \in Ranked : v.from <= u.from}

\* The section 194C has a rate for a person and one for a company.
TdsCodeFor(section, payee) ==
    IF section # "194C" THEN section
    ELSE IF payee \in {"individual", "huf"} THEN "194C_IND" ELSE "194C_CO"

\* Tax deducted from one payment: nothing below the section's threshold, unless the
\* deductee has no PAN, who pays 20 per cent at least.
ComputeTdsLine(amount, rate, threshold, prior, hasPan) ==
    LET above == threshold = 0 \/ prior + amount >= threshold
        charged == IF ~hasPan THEN IF rate > 20 THEN rate ELSE 20
                   ELSE IF above THEN rate ELSE 0
    IN  [rate |-> charged, deducted |-> PctOfPaise(amount, charged)]

\* What payments of one computation are added up by, and their order.
Deductee(p) == IF p.pan # None THEN p.pan ELSE p.name
Before(q, p) == q.date < p.date

\* The rule a run goes by: that of the day of the payment, or of the end of the
\* period where the record names no day.
RuleOfPayout(p) ==
    ResolveRule(TdsCodeFor(p.section, p.payee), 
                IF p.date = 0 THEN PeriodEnd[p.of] ELSE p.date)

\* Mutant: what was paid before is forgotten.
RecomputedTdsAlone(p, lines) ==
    LET found == RuleOfPayout(p)
        rate == IF found = {} THEN tds[p].rate ELSE (CHOOSE u \in found : TRUE).rate
        threshold == IF found = {} THEN 0 ELSE (CHOOSE u \in found : TRUE).threshold
    IN  ComputeTdsLine(p.amount, rate, threshold, 0, p.pan # None)

\* What a run makes of a deduction, by its rule and by what this computation holds
\* of earlier payments to the same deductee, in whatever section.  Without a rule
\* the stored rate stays.
RecomputedTds(p, lines) ==
    LET found == RuleOfPayout(p)
        rate == IF found = {} THEN tds[p].rate ELSE (CHOOSE u \in found : TRUE).rate
        threshold == IF found = {} THEN 0 ELSE (CHOOSE u \in found : TRUE).threshold
        Earlier == {q \in lines : Deductee(q) = Deductee(p) /\ Before(q, p)}
        prior == SumFunction([q \in Earlier |-> q.amount])
    IN  ComputeTdsLine(p.amount, rate, threshold, prior, p.pan # None)

SummariseTds(lines, row) ==
    LET deducted == SumFunction([p \in lines |-> row[p].deducted])
        deposited == SumFunction([p \in lines |-> p.deposited])
    IN  [base |-> SumFunction([p \in lines |-> p.amount]), deducted |-> deducted,
         deposited |-> deposited, net |-> Deficit(deducted, deposited), lines |-> Cardinality(lines)]

-----------------------------------------------------------------------------
\* Only lines without a document, or whose document is verified, count.
CountsNow(line) == line.doc = None \/ line.doc \in verified

GstLines == {i \in Invoices : gst[i] # Nothing /\ CountsNow(i)}
TdsLines(c) == {p \in Payouts : p.of = c /\ tds[p] # Nothing /\ CountsNow(p)}

\* The lines and the figures a run of each computation would write.
GstRun == [i \in Invoices |-> IF i \in GstLines THEN RecomputedGst(gst[i]) ELSE gst[i]]
TdsRun(c) ==
    [p \in Payouts |-> IF p \in TdsLines(c) THEN RecomputedTds(p, TdsLines(c)) ELSE tds[p]]

\* POST /computations/run writes over the computation the period has, a final one
\* as well; the row of before is not kept.
Written(c, figures) ==
    /\ computation' = [computation EXCEPT ![c] = [status |-> "computed", figures |-> figures]]
    /\ outdated' = [outdated EXCEPT ![c] = FALSE]

RunGst(r) ==
    /\ Begin(r, Idle)
    /\ gst' = GstRun
    /\ Written("gst", SummariseGst(GstLines, GstRun))
    /\ UNCHANGED <<home, verified, rules, tds>>

RunTds(r, c) ==
    /\ Begin(r, Idle)
    /\ tds' = TdsRun(c)
    /\ Written(c, SummariseTds(TdsLines(c), TdsRun(c)))
    /\ UNCHANGED <<home, verified, rules, gst>>

\* POST /computations/:id/finalise, with the warnings acknowledged where there are
\* any, and the approval of a report: final from any status there is.
Finalise(r, c) ==
    /\ computation[c].status # "absent"
    /\ Begin(r, Idle)
    /\ computation' = [computation EXCEPT ![c].status = "final"]
    /\ UNCHANGED <<home, verified, rules, gst, tds, outdated>>

\* Lines are written while the computation is there and not final, and a line that
\* was written makes its summary stale.
Writable(c) == computation[c].status \notin {"absent", "final"}
MakeStale(c) == computation' = [computation EXCEPT ![c].status = "stale"]

PostGst(r, i) ==
    LET inter == IsInterState(home, i.place, i.supply) IN
    /\ gst[i] = Nothing /\ Writable("gst")
    /\ Begin(r, Idle)
    /\ gst' = [gst EXCEPT ![i] =
                 Update([place |-> i.place, taxable |-> i.taxable, rate |-> i.rate, itc |-> i.itc,
                         supply |-> SupplyStored(i.supply, inter)],
                        ComputeGstLine(i.taxable, i.rate, i.cessPct, inter, i.supply))]
    /\ MakeStale("gst")
    /\ UNCHANGED <<home, verified, rules, tds, outdated>>

\* PATCH of a line: what the form names changes and the tax is worked out anew.  The
\* form has no supply type, and a cess it does not name is none.
PatchGst(r, i, fix) ==
    LET row == Update(gst[i], [f \in DOMAIN fix \ {"cessPct"} |-> fix[f]])
        cessPct == IF "cessPct" \in DOMAIN fix THEN fix.cessPct ELSE 0
    IN
    /\ gst[i] # Nothing /\ Writable("gst")
    /\ Begin(r, Idle)
    /\ gst' = [gst EXCEPT ![i] =
                 Update(row, ComputeGstLine(row.taxable, row.rate, cessPct,
                                            IsInterState(home, row.place, row.supply), row.supply))]
    /\ MakeStale("gst")
    /\ UNCHANGED <<home, verified, rules, tds, outdated>>

DeleteGst(r, i) ==
    /\ gst[i] # Nothing /\ Writable("gst")
    /\ Begin(r, Idle)
    /\ gst' = [gst EXCEPT ![i] = Nothing]
    /\ MakeStale("gst")
    /\ UNCHANGED <<home, verified, rules, tds, outdated>>

\* POST of a deduction: what the client has on record for this deductee and section,
\* in whatever computation, counts towards the threshold.  Refused without a rule.
PostTds(r, p) ==
    LET SameDeductee == {q \in Payouts : /\ tds[q] # Nothing /\ q.section = p.section
                                         /\ (q.pan = p.pan /\ p.pan # None) \/ q.name = p.name}
        prior == SumFunction([q \in SameDeductee |-> q.amount])
    IN
    /\ tds[p] = Nothing /\ Writable(p.of)
    /\ \E u \in ResolveRule(TdsCodeFor(p.section, p.payee), IF p.date = 0 THEN Today ELSE p.date) :
          tds' = [tds EXCEPT ![p] = ComputeTdsLine(p.amount, u.rate, u.threshold, prior, p.pan # None)]
    /\ Begin(r, Idle)
    /\ MakeStale(p.of)
    /\ UNCHANGED <<home, verified, rules, gst, outdated>>

-----------------------------------------------------------------------------
\* The rate book.  Nothing tells the computations of a change, and only an
\* organisation's own rules are changed.  Bound: one rule of its own for a code and
\* a first day.
Outdate == outdated' = [c \in Returns |-> TRUE]

PostRule(r, u) ==
    /\ \A v \in rules : v.own => v.code # u.code \/ v.from # u.from
    /\ Begin(r, Idle)
    /\ rules' = rules \cup {u}
    /\ Outdate
    /\ UNCHANGED <<home, verified, gst, tds, computation>>

PatchRule(r, u, patch) ==
    /\ u \in rules /\ u.own
    /\ Begin(r, Idle)
    /\ rules' = (rules \ {u}) \cup {Update(u, patch)}
    /\ Outdate
    /\ UNCHANGED <<home, verified, gst, tds, computation>>

\* PATCH of the company moves it to another state.
MoveCompany(r, state) ==
    /\ Begin(r, Idle)
    /\ home' = state
    /\ Outdate
    /\ UNCHANGED <<verified, rules, gst, tds, computation>>

\* A document of a line is verified, or is sent back; see FilingWorkflow.
MarkDocument(r, d) ==
    /\ d # None
    /\ Begin(r, Idle)
    /\ verified' = IF d \in verified THEN verified \ {d} ELSE verified \cup {d}
    /\ Outdate
    /\ UNCHANGED <<home, rules, gst, tds, computation>>

-----------------------------------------------------------------------------
TaxNext ==
    \E r \in Requests :
       \/ RunGst(r) \/ \E c \in DOMAIN PeriodEnd : RunTds(r, c)
       \/ \E c \in Returns : Finalise(r, c)
       \/ \E i \in Invoices : PostGst(r, i) \/ DeleteGst(r, i)
       \/ \E i \in Invoices, fix \in Corrections : PatchGst(r, i, fix)
       \/ \E p \in Payouts : PostTds(r, p)
       \/ \E u \in OwnRules : PostRule(r, u)
       \/ \E u \in rules, patch \in RulePatches : PatchRule(r, u, patch)
       \/ \E state \in StateCodes : MoveCompany(r, state)
       \/ \E d \in Documents : MarkDocument(r, d)

TaxSpec == TaxInit /\ [][TaxNext]_taxVars

TaxTypeOK ==
    /\ home \in StateCodes /\ verified \subseteq Documents
    /\ \A u \in rules : IsRule(u)
    /\ \A i \in Invoices : gst[i] # Nothing =>
          gst[i].taxable \in Nat /\ gst[i].rate \in Nat /\ gst[i].itc \in BOOLEAN
    /\ \A p \in Payouts : tds[p] # Nothing => tds[p].rate \in 0..100 /\ tds[p].deducted \in Nat
    /\ \A c \in Returns : computation[c].status \in {"absent", "computed", "stale", "final"}
    /\ outdated \in [Returns -> BOOLEAN]

CarriesItsTax(row) ==
    /\ row.cgst + row.sgst + row.igst =
          IF row.supply \in ZeroTaxSupply THEN 0 ELSE PctOfPaise(row.taxable, row.rate)
    /\ row.cgst <= row.sgst + 1 /\ row.sgst <= row.cgst + 1
    /\ row.igst > 0 => row.cgst = 0 /\ row.sgst = 0 /\ row.supply # "intra"

\* A GST line carries the whole tax of its value and rate and no more, in IGST alone
\* or in CGST and SGST that are within a paisa of each other ("it is why CGST and
\* SGST can differ by one paisa"), through corrections and runs in any order.
LinesCarryTheirTax == \A i \in Invoices : gst[i] # Nothing => CarriesItsTax(gst[i])

\* "The computation is idempotent": while the figures of a computation are said to be
\* computed, and no document, rule or state has changed since, a run would write the
\* lines and the figures that are there, whatever was entered, corrected and taken
\* out in between.
RerunChangesNothing ==
    \A c \in Returns : computation[c].status = "computed" /\ ~outdated[c] =>
      IF c = "gst"
      THEN GstRun = gst /\ computation[c].figures = SummariseGst(GstLines, gst)
      ELSE TdsRun(c) = tds /\ computation[c].figures = SummariseTds(TdsLines(c), tds)

\* A deductee who has reached a section's threshold stays above it: in a computation,
\* once a payment bears a deduction, so does each later one under the same rule.
DeductionsDoNotLapse ==
    \A c \in DOMAIN PeriodEnd : computation[c].status = "computed" /\ ~outdated[c] =>
      \A p, q \in TdsLines(c) :
         /\ p.pan # None /\ p.pan = q.pan /\ Before(p, q)
         /\ RuleOfPayout(p) = RuleOfPayout(q) /\ RuleOfPayout(p) # {}
         /\ tds[p].rate > 0
         => tds[q].rate > 0

\* Lines, figures and deductions agree with each other: the parts above.
TaxHolds ==
    /\ TaxTypeOK
    /\ LinesCarryTheirTax
    /\ RerunChangesNothing
    /\ DeductionsDoNotLapse

=============================================================================
