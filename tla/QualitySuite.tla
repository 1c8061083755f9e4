---------------------------- MODULE QualitySuite ----------------------------
(* data/quality: QualitySuite.evaluate and verify_report, the finding codes  *)
(* and validators of models.py, and the policy.  A query is what evaluate()  *)
(* is called with; the eleven checks are operators on it, and each yields    *)
(* the findings it appends, tagged with the place in the input they come     *)
(* from (two places can yield equal findings).  A date is a number, a        *)
(* decimal an integer or NaN, a hash the data it covers.                     *)
EXTENDS Naturals, Integers, Sequences, FiniteSets

CONSTANTS Provider, Authority,   \* provider |-> provider.casefold()
          Label,         \* request fingerprints, captures, schemas, normalizers
          MaxDay,        \* date.max
          NaN,           \* a decimal that is not finite
          TextRank(_),   \* the place of a bar's fields in the order of their str()
          Queries,       \* the queries a caller starts from
          Sources,       \* the sources a caller may add
          Bars,          \* the bars a source may gain
          MaxSources, MaxBars, MaxRevisions, MaxReports

Day == 0 .. MaxDay
Field == {"open", "high", "low", "close"}
Value == Int \cup {NaN}
Bar == [session : Day, open : Value, high : Value, low : Value, close : Value, volume : Value]
Source == [provider : Provider, request : Label, capture : Label, schema : Label,
           normalizer : Label, bars : Seq(Bar)]
RevisionPair == [previous : Source, current : Source]
Policy == {p \in [schemas : SUBSET Label, minSources : {1, 2}, passBps : Nat, warnBps : Nat,
                  revisionBlocks : BOOLEAN] : p.passBps <= p.warnBps}
Query == [from : Day, to : Day, adjustment : {"raw", "split_adjusted", "total_return"},
          expected : SUBSET Day, policy : Policy, sources : Seq(Source),
          revisions : SUBSET RevisionPair]

ASSUME DomainAssumption == MaxDay \in Nat /\ NaN \notin Int
ASSUME InputAssumption == /\ \A x \in Queries : x \in Query
                          /\ \A s \in Sources : s \in Source
                          /\ \A b \in Bars : b \in Bar

HasRanks(bars) == \A k \in DOMAIN bars : TextRank(bars[k]) \in Nat

\* Every row of the inputs has a place in the order of the texts.
ASSUME RankAssumption == /\ \A x \in Queries :
                               /\ \A i \in DOMAIN x.sources : HasRanks(x.sources[i].bars)
                               /\ \A y \in x.revisions : /\ HasRanks(y.previous.bars)
                                                         /\ HasRanks(y.current.bars)
                         /\ \A s \in Sources : HasRanks(s.bars)
                         /\ \A b \in Bars : TextRank(b) \in Nat

VARIABLES q,        \* the query of the caller
          report,   \* the report the caller holds
          made,     \* the query it was made from
          trusted   \* whether verify_report() last returned

vars == <<q, report, made, trusted>>

None == [none |-> TRUE]
-----------------------------------------------------------------------------
\* Inputs: a source is a capture normalized to a sequence of bars.

Evidence(s) == [provider |-> s.provider, request |-> s.request, capture |-> s.capture]
NormalizedInput(s) == [schema |-> s.schema, normalizer |-> s.normalizer, bars |-> s.bars]
Identity(s) == <<Evidence(s), NormalizedInput(s)>>

Sessions(s) == {s.bars[k].session : k \in DOMAIN s.bars}
Least(S) == CHOOSE x \in S : \A y \in S : x <= y
Greatest(S) == CHOOSE x \in S : \A y \in S : y <= x

\* Fault: only findings that lie inside the range count.
TouchesInside(from, to, a, b) == a <= from /\ to <= b

Touches(from, to, a, b) == from <= b /\ a <= to
InRange(expected, from, to) == {d \in expected : from <= d /\ d <= to}
AllEvidence(sources) == {Evidence(sources[i]) : i \in DOMAIN sources}
Pairs(sources) == {p \in (DOMAIN sources) \X (DOMAIN sources) : p[1] < p[2]}

\* The maximal runs of consecutive members of S that lie in M.
MissingIntervals(S, M) ==
    {r \in M \X M :
        /\ r[1] <= r[2]
        /\ \A d \in S : r[1] <= d /\ d <= r[2] => d \in M
        /\ \A d \in S : d < r[1] => \E e \in S \ M : d <= e /\ e < r[1]
        /\ \A d \in S : r[2] < d => \E e \in S \ M : r[2] < e /\ e <= d}

\* The first bar of a session, in the order of the printed fields.
StableBar(s, d) ==
    LET here == {k \in DOMAIN s.bars : s.bars[k].session = d}
    IN  s.bars[CHOOSE k \in here : \A j \in here \ {k} :
                   \/ TextRank(s.bars[k]) < TextRank(s.bars[j])
                   \/ TextRank(s.bars[k]) = TextRank(s.bars[j]) /\ k < j]

Abs(x) == IF x < 0 THEN -x ELSE x
\* Fault: the sign of the difference is kept.
SignedDifferenceAtMost(l, r, bps) == (l - r) * 20000 <= bps * (Abs(l) + Abs(r))

DifferenceAtMost(l, r, bps) == Abs(l - r) * 20000 <= bps * (Abs(l) + Abs(r))

OHLCOrdered(b) == /\ b.low <= b.high
                  /\ b.low <= b.open  /\ b.open <= b.high
                  /\ b.low <= b.close /\ b.close <= b.high
-----------------------------------------------------------------------------
\* Findings and the checks that produce them.

INELIGIBLE_FINDING_CODES ==
    {"cross_source_field_conflict", "duplicate_session", "invalid_ohlc",
     "negative_volume", "non_finite_field", "non_monotonic_sessions",
     "non_positive_price", "unexpected_session"}

INCOMPLETE_FINDING_CODES ==
    {"insufficient_session_coverage", "insufficient_source_verification",
     "no_expected_sessions_in_requested_range",
     "unsupported_adjustment_semantics", "unsupported_normalized_schema"}

\* Findings of severity error or blocker; the others are warnings.
HardCodes == INELIGIBLE_FINDING_CODES \cup INCOMPLETE_FINDING_CODES

Finding(code, field, from, to, by, seen) ==
    [code |-> code, field |-> field, from |-> from, to |-> to, by |-> by, seen |-> seen]
At(site, finding) == [site |-> site, finding |-> finding]

\* Its validator: a finding that affects days in the wrong order raises.
ValidFinding(f) == f.from \in Day /\ f.to \in Day /\ f.from <= f.to

SchemaContract(sources, policy, from, to) ==
    {LET s == sources[i]
         days == Sessions(s)
     IN  At(<<i>>, Finding("unsupported_normalized_schema", "",
                           IF days = {} THEN from ELSE Least(days),
                           IF days = {} THEN to ELSE Greatest(days),
                           {Evidence(s)}, s.schema)) :
        i \in {j \in DOMAIN sources : sources[j].schema \notin policy.schemas}}

RowCount(s, d) == Cardinality({k \in DOMAIN s.bars : s.bars[k].session = d})

\* Fault: a finding spans the whole history of its source.
DuplicatesSpread(i, s) ==
    {At(<<i, d>>, Finding("duplicate_session", "", Least(Sessions(s)), Greatest(Sessions(s)),
                          {Evidence(s)}, RowCount(s, d))) :
        d \in {x \in Sessions(s) : RowCount(s, x) > 1}}

\* Fault: only a session that occurs exactly twice is a duplicate.
DuplicatesPairs(i, s) ==
    {At(<<i, d>>, Finding("duplicate_session", "", d, d, {Evidence(s)}, RowCount(s, d))) :
        d \in {x \in Sessions(s) : RowCount(s, x) = 2}}

Duplicates(i, s) ==
    {At(<<i, d>>, Finding("duplicate_session", "", d, d, {Evidence(s)}, RowCount(s, d))) :
        d \in {x \in Sessions(s) : RowCount(s, x) > 1}}

\* Fault: the days of an inversion are given in the order of its rows.
InversionsAsRead(i, s) ==
    {At(<<i, k, k>>, Finding("non_monotonic_sessions", "", s.bars[k - 1].session,
                             s.bars[k].session, {Evidence(s)}, "")) :
        k \in {j \in DOMAIN s.bars : j > 1 /\ s.bars[j - 1].session > s.bars[j].session}}

\* An inversion of adjacent rows blocks only the days between the two.
Inversions(i, s) ==
    {At(<<i, k, k>>, Finding("non_monotonic_sessions", "", s.bars[k].session,
                             s.bars[k - 1].session, {Evidence(s)}, "")) :
        k \in {j \in DOMAIN s.bars : j > 1 /\ s.bars[j - 1].session > s.bars[j].session}}

SessionIntegrity(sources) ==
    UNION {Duplicates(i, sources[i]) \cup Inversions(i, sources[i]) : i \in DOMAIN sources}

\* Findings about single rows: faults[r] is a set of <<code, field, seen>>.
Rows(sources) == UNION {{i} \X (DOMAIN sources[i].bars) : i \in DOMAIN sources}
RowAt(sources, r) == sources[r[1]].bars[r[2]]

PerRow(sources, faults) ==
    UNION {LET d == RowAt(sources, r).session
           IN  {At(<<r, x>>, Finding(x[1], x[2], d, d, {Evidence(sources[r[1]])}, x[3])) :
                    x \in faults[r]} :
           r \in Rows(sources)}

OhlcFaults(b) ==
    {<<"non_finite_field", f, b[f]>> : f \in {g \in Field : b[g] = NaN}}
    \cup {<<"non_positive_price", f, b[f]>> : f \in {g \in Field : b[g] # NaN /\ b[g] <= 0}}
    \cup (IF (\A f \in Field : b[f] # NaN) /\ ~OHLCOrdered(b)
          THEN {<<"invalid_ohlc", "", [f \in Field |-> b[f]]>>} ELSE {})
OhlcIntegrity(sources) ==
    PerRow(sources, [r \in Rows(sources) |-> OhlcFaults(RowAt(sources, r))])

VolumeFaults(b) ==
    CASE b.volume = NaN -> {<<"non_finite_field", "volume", b.volume>>}
      [] b.volume # NaN /\ b.volume < 0 -> {<<"negative_volume", "volume", b.volume>>}
      [] OTHER -> {}
VolumeIntegrity(sources) ==
    PerRow(sources, [r \in Rows(sources) |-> VolumeFaults(RowAt(sources, r))])

CalendarMembership(sources, expected) ==
    PerRow(sources, [r \in Rows(sources) |->
                        IF RowAt(sources, r).session \in expected
                        THEN {} ELSE {<<"unexpected_session", "", "">>}])

Gaps(i, s, expected) ==
    {At(<<i, r>>, Finding("source_missing_session", "", r[1], r[2], {Evidence(s)}, "")) :
        r \in MissingIntervals(expected, expected \ Sessions(s))}
SourceCoverage(sources, expected) ==
    UNION {Gaps(i, sources[i], expected) : i \in DOMAIN sources}

\* How many sources (so: independent providers) have a bar of session d.
SourceCount(sources, d) ==
    Cardinality({i \in DOMAIN sources : d \in Sessions(sources[i])})

\* Fault: coverage is looked at only at the two ends of the range.
RequestedRangeCoverageEnds(sources, expected, from, to, policy) ==
    LET S == InRange(expected, from, to)
        missing == {d \in S : d \in {from, to} /\ SourceCount(sources, d) = 0}
    IN  {At(r, Finding("insufficient_session_coverage", "", r[1], r[2], AllEvidence(sources), "")) :
            r \in MissingIntervals(S, missing)}

\* The intervals of a set M of days of S that are short of sources.
Shortfall(code, S, M, sources) ==
    {At(<<code, r>>, Finding(code, "", r[1], r[2], AllEvidence(sources), "")) :
        r \in MissingIntervals(S, M)}

RequestedRangeCoverage(sources, expected, from, to, policy) ==
    LET S == InRange(expected, from, to)
        missing == {d \in S : SourceCount(sources, d) = 0}
        unverified == {d \in S : 0 < SourceCount(sources, d)
                                 /\ SourceCount(sources, d) < policy.minSources}
    IN  Shortfall("insufficient_session_coverage", S, missing, sources)
        \cup Shortfall("insufficient_source_verification", S, unverified, sources)
        \cup (IF S # {} THEN {}
              ELSE {At(<<>>, Finding("no_expected_sessions_in_requested_range", "",
                                     from, to, AllEvidence(sources), ""))})

\* The sessions of s that t lacks.
Unshared(p, s, t) ==
    {At(<<p, d>>, Finding("cross_source_session_missing", "", d, d,
                          {Evidence(s), Evidence(t)}, Evidence(t))) :
        d \in Sessions(s) \ Sessions(t)}
CrossSourceOverlap(sources) ==
    UNION {Unshared(p, sources[p[1]], sources[p[2]]) \cup Unshared(p, sources[p[2]], sources[p[1]]) :
           p \in Pairs(sources)}

\* Finite prices of one field that differ by more than the tolerance.
Differ(l, r, d, f, bps) ==
    LET x == StableBar(l, d)[f]
        y == StableBar(r, d)[f]
    IN  x # NaN /\ y # NaN /\ ~DifferenceAtMost(x, y, bps)

Disagreements(p, l, r, policy) ==
    {At(<<p, x>>,
        Finding(IF Differ(l, r, x[1], x[2], policy.warnBps)
                THEN "cross_source_field_conflict" ELSE "cross_source_field_warning",
                x[2], x[1], x[1], {Evidence(l), Evidence(r)},
                {StableBar(l, x[1])[x[2]], StableBar(r, x[1])[x[2]]})) :
        x \in {y \in (Sessions(l) \cap Sessions(r)) \X Field :
                   Differ(l, r, y[1], y[2], policy.passBps)}}

\* Prices of two providers are compared for raw daily bars only.
CrossSourceOhlc(sources, policy, adjustment) ==
    UNION {Disagreements(p, sources[p[1]], sources[p[2]], policy) :
           p \in {y \in Pairs(sources) : adjustment = "raw"}}

\* A NaN differs from every number, itself included.
ChangedFields(old, new, d) ==
    IF d \in Sessions(old) \cap Sessions(new)
    THEN {f \in Field \cup {"volume"} : \/ StableBar(old, d)[f] # StableBar(new, d)[f]
                                       \/ StableBar(old, d)[f] = NaN}
    ELSE {"session_presence"}

Revised(x) ==
    {At(<<x, d>>, Finding("provider_history_revision", "", d, d,
                          {Evidence(x.previous), Evidence(x.current)},
                          <<ChangedFields(x.previous, x.current, d),
                            x.current.capture, x.previous.capture>>)) :
        d \in {y \in Sessions(x.previous) \cup Sessions(x.current) :
                   ChangedFields(x.previous, x.current, y) # {}}}
ProviderRevision(revisions) == UNION {Revised(x) : x \in revisions}

AdjustmentSemantics(adjustment, from, to) ==
    IF adjustment = "raw" THEN {}
    ELSE {At(<<>>, Finding("unsupported_adjustment_semantics", "", from, to,
                           {}, adjustment))}

CheckResults(qq) ==
    [schema_contract |-> SchemaContract(qq.sources, qq.policy, qq.from, qq.to),
     session_integrity |-> SessionIntegrity(qq.sources),
     ohlc_integrity |-> OhlcIntegrity(qq.sources),
     volume_integrity |-> VolumeIntegrity(qq.sources),
     calendar_membership |-> CalendarMembership(qq.sources, qq.expected),
     source_coverage |-> SourceCoverage(qq.sources, qq.expected),
     requested_range_coverage |->
         RequestedRangeCoverage(qq.sources, qq.expected, qq.from, qq.to, qq.policy),
     cross_source_overlap |-> CrossSourceOverlap(qq.sources),
     cross_source_ohlc |-> CrossSourceOhlc(qq.sources, qq.policy, qq.adjustment),
     provider_revision |-> ProviderRevision(qq.revisions),
     adjustment_semantics |-> AdjustmentSemantics(qq.adjustment, qq.from, qq.to)]

Findings(emissions) == {e.finding : e \in emissions}
AllFindings(results) == UNION {Findings(results[c]) : c \in DOMAIN results}
-----------------------------------------------------------------------------
\* From findings to the status of a check and to the eligibility of the range.

CheckStatus(qq, c, found) ==
    LET hard == {f.code : f \in found} \cap HardCodes
    IN  CASE hard \ INCOMPLETE_FINDING_CODES # {} -> "fail"
          [] hard # {} /\ hard \subseteq INCOMPLETE_FINDING_CODES -> "incomplete"
          [] hard = {} /\ found # {} -> "warning"
          [] OTHER -> IF \/ c = "cross_source_overlap" /\ Len(qq.sources) < 2
                         \/ c = "cross_source_ohlc" /\ (Len(qq.sources) < 2 \/ qq.adjustment # "raw")
                         \/ c = "provider_revision" /\ qq.revisions = {}
                      THEN "not_applicable" ELSE "pass"

IsBlocking(f) == f.code \in INELIGIBLE_FINDING_CODES
IsIncomplete(qq, f) ==
    \/ f.code \in INCOMPLETE_FINDING_CODES
    \/ f.code = "provider_history_revision" /\ qq.policy.revisionBlocks

\* Only the findings that touch the range decide its eligibility.
EvaluateRange(qq) ==
    LET relevant == {f \in AllFindings(CheckResults(qq)) : Touches(f.from, f.to, qq.from, qq.to)}
    IN  IF \E f \in relevant : IsBlocking(f) THEN "ineligible"
        ELSE IF \E f \in relevant : IsIncomplete(qq, f) THEN "incomplete"
        ELSE "eligible"

\* Fault: the report pins the captures and not the rows made of them.
ContextOfCaptures(qq) ==
    [from |-> qq.from, to |-> qq.to, adjustment |-> qq.adjustment,
     expected |-> qq.expected, policy |-> qq.policy,
     inputs |-> {Evidence(qq.sources[i]) : i \in DOMAIN qq.sources},
     revisions |-> {<<Identity(x.previous), Identity(x.current)>> : x \in qq.revisions}]

\* What the report pins of its inputs: lineage and rows of every source.
Context(qq) ==
    [from |-> qq.from, to |-> qq.to, adjustment |-> qq.adjustment,
     expected |-> qq.expected, policy |-> qq.policy,
     inputs |-> {Identity(qq.sources[i]) : i \in DOMAIN qq.sources},
     revisions |-> {<<Identity(x.previous), Identity(x.current)>> : x \in qq.revisions}]

Report(qq) ==
    LET results == CheckResults(qq)
    IN  [context |-> Context(qq),
         checks |-> [c \in DOMAIN results |->
                        [status |-> CheckStatus(qq, c, Findings(results[c])),
                         findings |-> Findings(results[c])]],
         eligibility |-> EvaluateRange(qq)]

\* What evaluate() raises DataQualityError for: the range, the sources, the
\* revision pairs, and more than one current observation of an authority.
Admissible(qq) ==
    /\ qq.from <= qq.to
    /\ Len(qq.sources) > 0
    /\ \A x \in qq.revisions :
          /\ Authority[x.previous.provider] = Authority[x.current.provider]
          /\ x.previous.request = x.current.request
          /\ Identity(x.previous) # Identity(x.current)
    /\ \A p \in Pairs(qq.sources) : Authority[qq.sources[p[1]].provider]
                              # Authority[qq.sources[p[2]].provider]

\* The report's validator wants finding_ids to be unique over all checks.
HasUniqueFindings(qq) ==
    LET results == CheckResults(qq)
    IN  \A c \in DOMAIN results :
           \A x, y \in results[c] : x.finding = y.finding => x = y

Reported(qq) == Admissible(qq) /\ HasUniqueFindings(qq)
-----------------------------------------------------------------------------
\* A caller who builds a query, evaluates it, and has a report verified.

Init == /\ q \in Queries
        /\ report = None /\ made = None /\ trusted = FALSE

AddSource(s) ==
    /\ Len(q.sources) < MaxSources
    /\ q' = [q EXCEPT !.sources = Append(@, s)]
    /\ trusted' = FALSE
    /\ UNCHANGED <<report, made>>

\* The same capture, normalized to one more row.
AddBar(i, b) ==
    /\ Len(q.sources[i].bars) < MaxBars
    /\ q' = [q EXCEPT !.sources[i].bars = Append(@, b)]
    /\ trusted' = FALSE
    /\ UNCHANGED <<report, made>>

\* Once there is a report: the same capture, normalized to another row.
Renormalize(i, k, b) ==
    /\ report # None
    /\ q' = [q EXCEPT !.sources[i].bars[k] = b]
    /\ trusted' = FALSE
    /\ UNCHANGED <<report, made>>

AddRevision(x) ==
    /\ Cardinality(q.revisions) < MaxRevisions
    /\ q' = [q EXCEPT !.revisions = @ \cup {x}]
    /\ trusted' = FALSE
    /\ UNCHANGED <<report, made>>

\* The consumer of a report asks with the sources in another order, and
\* possibly with another range, calendar or policy.
Restate(base) ==
    /\ report # None
    /\ q' = [base EXCEPT !.sources = [i \in DOMAIN q.sources |-> q.sources[Len(q.sources) + 1 - i]],
                         !.revisions = q.revisions]
    /\ trusted' = FALSE
    /\ UNCHANGED <<report, made>>

Evaluate ==
    /\ report = None /\ MaxReports > 0
    /\ Reported(q)
    /\ report' = Report(q)
    /\ made' = q
    /\ trusted' = FALSE
    /\ UNCHANGED q

VerifyReport ==
    /\ report # None
    /\ trusted' = (Reported(q) /\ report = Report(q))
    /\ UNCHANGED <<q, report, made>>

Next == \/ \E s \in Sources : AddSource(s)
        \/ \E i \in DOMAIN q.sources, b \in Bars : AddBar(i, b)
        \/ \E i \in DOMAIN q.sources, b \in Bars :
              \E k \in DOMAIN q.sources[i].bars : Renormalize(i, k, b)
        \/ \E s, t \in Sources : AddRevision([previous |-> s, current |-> t])
        \/ \E base \in Queries : Restate(base)
        \/ Evaluate
        \/ VerifyReport

Spec == Init /\ [][Next]_vars
-----------------------------------------------------------------------------
(* Properties.                                                               *)

\* The query is well-formed, a report has a verdict, and no check makes a finding
\* that QualityFinding refuses: whatever order the rows come in, and whatever a
\* gap, an empty source or an empty calendar does to its ends, evaluate() never
\* raises for a finding's days.
TypeOK == /\ q \in Query
          /\ trusted \in BOOLEAN
          /\ Admissible(q) => \A f \in AllFindings(CheckResults(q)) : ValidFinding(f)
          /\ report # None => report.eligibility \in {"eligible", "ineligible", "incomplete"}

RowsIn(s, a, b) == {k \in DOMAIN s.bars : a <= s.bars[k].session /\ s.bars[k].session <= b}
WellFormed(b) == /\ \A f \in Field : b[f] # NaN /\ b[f] > 0
                 /\ OHLCOrdered(b)
                 /\ b.volume # NaN /\ b.volume >= 0
Providers(qq, d) == {Authority[qq.sources[i].provider] :
                        i \in {j \in DOMAIN qq.sources : d \in Sessions(qq.sources[j])}}

\* What ADR-0009 lets a researcher rely on in an eligible range: sessions
\* exist, each is covered by enough independent providers, the rows in range
\* are well-formed calendar days in increasing order, and providers agree.
Promise(qq) ==
    /\ InRange(qq.expected, qq.from, qq.to) # {}
    /\ qq.adjustment = "raw"
    /\ \A d \in InRange(qq.expected, qq.from, qq.to) : Cardinality(Providers(qq, d)) >= qq.policy.minSources
    /\ \A i \in DOMAIN qq.sources :
          LET s == qq.sources[i]
              rows == RowsIn(s, qq.from, qq.to)
          IN  /\ rows # {} => s.schema \in qq.policy.schemas
              /\ \A k \in rows : WellFormed(s.bars[k]) /\ s.bars[k].session \in qq.expected
              /\ \A j, k \in rows : j < k => s.bars[j].session < s.bars[k].session
    /\ \A i, j \in DOMAIN qq.sources :
          \A k \in RowsIn(qq.sources[i], qq.from, qq.to),
             l \in RowsIn(qq.sources[j], qq.from, qq.to) :
                LET x == qq.sources[i].bars[k]
                    y == qq.sources[j].bars[l]
                IN  x.session = y.session =>
                       \A f \in Field : Abs(x[f] - y[f]) * 20000
                                          <= qq.policy.warnBps * (Abs(x[f]) + Abs(y[f]))

\* An eligible verdict holds nothing against any session of its range.
EligibleIsSound == Reported(q) /\ EvaluateRange(q) = "eligible" => Promise(q)

Over(qq, a, b) == [qq EXCEPT !.from = a, !.to = b]

\* An eligible interval of a release supports every schedule inside it
\* (structurally_supports_consumed_schedule): the verdict of a range is
\* inherited by each of its parts that has a session.
SubrangeStaysEligible ==
    Reported(q) /\ EvaluateRange(q) = "eligible" =>
        \A a, b \in q.from .. q.to :
            a <= b /\ InRange(q.expected, a, b) # {} => EvaluateRange(Over(q, a, b)) = "eligible"

\* Two adjacent ranges that are eligible are eligible as one: no evidence is
\* lost at the seam.
AdjacentRangesJoin ==
    Reported(q) =>
        \A m \in q.from .. (q.to - 1) :
            EvaluateRange(Over(q, q.from, m)) = "eligible"
            /\ EvaluateRange(Over(q, m + 1, q.to)) = "eligible"
                => EvaluateRange(q) = "eligible"

\* The rows of bs in the range, in their order.
RowsWithin(bs, a, b) ==
    LET kept[n \in 0 .. Len(bs)] ==
          IF n = 0 THEN <<>>
          ELSE IF a <= bs[n].session /\ bs[n].session <= b THEN Append(kept[n - 1], bs[n])
          ELSE kept[n - 1]
    IN  kept[Len(bs)]
TrimSource(s, a, b) == [s EXCEPT !.bars = RowsWithin(@, a, b)]
Trim(qq) ==
    [qq EXCEPT !.sources = [i \in DOMAIN @ |-> TrimSource(@[i], qq.from, qq.to)],
               !.revisions = {[previous |-> TrimSource(x.previous, qq.from, qq.to),
                               current |-> TrimSource(x.current, qq.from, qq.to)] : x \in @}]
Sorted(s) == \A k \in DOMAIN s.bars : k > 1 => s.bars[k - 1].session <= s.bars[k].session

\* Findings outside the range do not change its verdict: with accepted
\* schemas and sorted rows the verdict is that of the rows in range alone.
OutsideIsIgnored ==
    /\ Reported(q)
    /\ \A i \in DOMAIN q.sources : /\ q.sources[i].schema \in q.policy.schemas
                                   /\ Sorted(q.sources[i])
    => EvaluateRange(q) = EvaluateRange(Trim(q))

\* Every admissible query gets a report (ADR-0009, section 2: a finding
\* stays visible in the full report and gates only the ranges it touches).
AlwaysReported == Admissible(q) => Reported(q)

SameQuestion(p, r) == /\ p.from = r.from /\ p.to = r.to /\ p.adjustment = r.adjustment
                      /\ p.expected = r.expected /\ p.policy = r.policy

\* r has all the evidence of p, and possibly more rows, sources or revisions.
Extends(p, r) ==
    /\ SameQuestion(p, r)
    /\ p.revisions \subseteq r.revisions
    /\ DOMAIN p.sources \subseteq DOMAIN r.sources
    /\ \A i \in DOMAIN p.sources :
          LET n == Len(p.sources[i].bars)
          IN  /\ n <= Len(r.sources[i].bars)
              /\ p.sources[i] = [r.sources[i] EXCEPT !.bars = SubSeq(@, 1, n)]

\* More rows, sources or revisions never clear an ineligible range.
IneligibleIsFinal ==
    [][Extends(q, q') /\ Reported(q) /\ Reported(q') /\ EvaluateRange(q) = "ineligible"
          => EvaluateRange(q') = "ineligible"]_vars

\* verify_report() returns only for the inputs the report was made from, in
\* whatever order: same question, same captures, same rows, same revisions.
TrustPinsInputs ==
    trusted => /\ SameQuestion(made, q)
               /\ {q.sources[i] : i \in DOMAIN q.sources}
                    = {made.sources[i] : i \in DOMAIN made.sources}
               /\ q.revisions = made.revisions
=============================================================================
