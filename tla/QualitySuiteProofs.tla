------------------------- MODULE QualitySuiteProofs -------------------------
(* Theorems about QualitySuite, Releases and Providers, for every query and  *)
(* every answer of a vendor: the verdict of a range is inherited by its      *)
(* parts, joined from adjacent ones, not repaired by more evidence, and that *)
(* of the rows in range alone; an eligible range keeps the promise of        *)
(* ADR-0009; a report pins its inputs; a release gives out eligible days;    *)
(* what the adapters normalize does not depend on the order of the answer    *)
(* and can always be reported on; the two comparisons of the closes agree.   *)
EXTENDS QualityWorlds, FiniteSetTheorems, WellFoundedInduction, TLAPS

-----------------------------------------------------------------------------
\* Least and greatest numbers of a set.

LEMMA LeastExists ==
    ASSUME NEW T, T \subseteq Nat, T # {}
    PROVE  Least(T) \in T /\ \A y \in T : Least(T) <= y
<1> DEFINE R == OpToRel(<, Nat)
<1>1. PICK x \in T : \A y \in T : ~ (<<y, x>> \in R)
  <2>1. IsWellFoundedOn(R, Nat)
    BY NatLessThanWellFounded
  <2> HIDE DEF R
  <2>2. QED
    BY <2>1, WFMin
<1>2. \A y \in T : x <= y
  <2>1. SUFFICES ASSUME NEW y \in T, y < x PROVE FALSE
    OBVIOUS
  <2>2. <<y, x>> \in R
    BY <2>1 DEF OpToRel
  <2>3. QED
    BY <1>1, <2>2
<1>3. QED
  BY <1>2 DEF Least

\* A non-empty set of numbers up to n has a greatest one.
LEMMA GreatestExists ==
    ASSUME NEW n \in Nat, NEW T, T \subseteq 0 .. n, T # {}
    PROVE  Greatest(T) \in T /\ \A y \in T : y <= Greatest(T)
<1> DEFINE U == {m \in Nat : \A y \in T : y <= m}
           g == Least(U)
<1>1. n \in U
  OBVIOUS
<1>2. g \in U /\ \A m \in U : g <= m
  BY <1>1, LeastExists
<1>3. g \in T
  <2>1. SUFFICES ASSUME g \notin T PROVE FALSE
    OBVIOUS
  <2>2. PICK y \in T : TRUE
    OBVIOUS
  <2>3. g > 0
    BY <1>2, <2>1, <2>2
  <2>4. g - 1 \in U
    BY <1>2, <2>1, <2>3
  <2>5. QED
    BY <1>2, <2>4
<1>4. QED
  BY <1>2, <1>3 DEF Greatest

\* What is missing somewhere shows in some interval.
LEMMA IntervalExists ==
    ASSUME NEW n \in Nat, NEW S, S \subseteq 0 .. n, NEW M, M \subseteq S, M # {}
    PROVE  MissingIntervals(S, M) # {}
<1> DEFINE a == Least(M)
           After == {e \in S \ M : a < e}
           Run == {d \in M : \A e \in After : d < e}
           b == Greatest(Run)
<1>0. S \subseteq Nat /\ M \subseteq Nat
  OBVIOUS
<1>1. a \in M /\ \A d \in M : a <= d
  BY <1>0, LeastExists
<1> HIDE DEF a
<1>2. a \in Run /\ Run \subseteq 0 .. n
  BY <1>0, <1>1
<1>3. b \in Run /\ \A d \in Run : d <= b
  <2> HIDE DEF Run
  <2>1. Run # {}
    BY <1>2
  <2>2. QED
    BY <1>2, <2>1, GreatestExists
<1> HIDE DEF b
<1>4. ASSUME NEW d \in S, a <= d, d <= b PROVE d \in M
  <2>1. SUFFICES ASSUME d \notin M PROVE FALSE
    OBVIOUS
  <2>2. d \in After
    BY <1>0, <1>1, <1>4, <2>1
  <2>3. b < d
    BY <1>3, <2>2
  <2>4. QED
    BY <1>0, <1>3, <1>4, <2>3
<1>5. ASSUME NEW d \in S, b < d PROVE \E e \in S \ M : b < e /\ e <= d
  <2>1. d \notin Run
    BY <1>3, <1>5
  <2>2. CASE d \notin M
    BY <2>2, <1>5
  <2>3. CASE d \in M
    <3>1. PICK e \in After : ~(d < e)
      BY <2>1, <2>3
    <3>2. b < e
      BY <1>3
    <3>3. QED
      BY <3>1, <3>2
  <2>4. QED
    BY <2>2, <2>3
<1>6. ASSUME NEW d \in S, d < a PROVE \E e \in S \ M : d <= e /\ e < a
  BY <1>1, <1>6
<1>7. <<a, b>> \in MissingIntervals(S, M)
  <2> HIDE DEF a, b
  <2>1. b \in M /\ a \in M /\ a <= b
    BY <1>1, <1>3
  <2>2. QED
    BY <1>4, <1>5, <1>6, <2>1 DEF MissingIntervals
<1>8. QED
  BY <1>7
-----------------------------------------------------------------------------
\* The findings of a query: those of eight checks do not depend on the range.

Steady(qq) ==
    UNION {SessionIntegrity(qq.sources), OhlcIntegrity(qq.sources),
           VolumeIntegrity(qq.sources), CalendarMembership(qq.sources, qq.expected),
           SourceCoverage(qq.sources, qq.expected), CrossSourceOverlap(qq.sources),
           CrossSourceOhlc(qq.sources, qq.policy, qq.adjustment),
           ProviderRevision(qq.revisions)}

OfRange(qq) ==
    UNION {SchemaContract(qq.sources, qq.policy, qq.from, qq.to),
           RequestedRangeCoverage(qq.sources, qq.expected, qq.from, qq.to, qq.policy),
           AdjustmentSemantics(qq.adjustment, qq.from, qq.to)}

LEMMA FindingsSplit ==
    ASSUME NEW qq
    PROVE  AllFindings(CheckResults(qq)) = Findings(Steady(qq)) \cup Findings(OfRange(qq))
<1> DEFINE results == CheckResults(qq)
<1>1. DOMAIN results = {"schema_contract", "session_integrity", "ohlc_integrity",
          "volume_integrity", "calendar_membership", "source_coverage",
          "requested_range_coverage", "cross_source_overlap", "cross_source_ohlc",
          "provider_revision", "adjustment_semantics"}
  BY DEF CheckResults
<1>2. UNION {results[c] : c \in DOMAIN results} = Steady(qq) \cup OfRange(qq)
  <2>1. UNION {results[c] : c \in DOMAIN results} =
            UNION {results["schema_contract"], results["session_integrity"],
                   results["ohlc_integrity"], results["volume_integrity"],
                   results["calendar_membership"], results["source_coverage"],
                   results["requested_range_coverage"], results["cross_source_overlap"],
                   results["cross_source_ohlc"], results["provider_revision"],
                   results["adjustment_semantics"]}
    <3> HIDE DEF results
    <3>1. QED
      BY <1>1
  <2>2. QED
    BY <2>1 DEF CheckResults, Steady, OfRange
<1>3. AllFindings(results) = {e.finding : e \in UNION {results[c] : c \in DOMAIN results}}
  <2> HIDE DEF results
  <2>1. QED
    BY DEF AllFindings, Findings
<1>4. QED
  BY <1>2, <1>3 DEF Findings

\* Facts about the parts of a query.
LEMMA QueryFacts ==
    ASSUME NEW qq \in Query
    PROVE  /\ qq.from \in Day /\ qq.to \in Day /\ qq.expected \subseteq Day
           /\ \A i \in DOMAIN qq.sources :
                 /\ qq.sources[i] \in Source
                 /\ Sessions(qq.sources[i]) \subseteq Day
           /\ \A x \in qq.revisions : /\ Sessions(x.previous) \subseteq Day
                                      /\ Sessions(x.current) \subseteq Day
<1>1. ASSUME NEW s \in Source PROVE Sessions(s) \subseteq Day
  <2>1. s.bars \in Seq(Bar)
    BY <1>1 DEF Source
  <2>2. ASSUME NEW k \in DOMAIN s.bars PROVE s.bars[k].session \in Day
    <3>1. s.bars[k] \in Bar
      BY <2>1, <2>2
    <3>2. QED
      BY <3>1 DEF Bar
  <2>3. QED
    BY <2>2 DEF Sessions
<1>2. QED
  BY <1>1 DEF Query, RevisionPair

LEMMA RowFacts ==
    ASSUME NEW qq \in Query, NEW i \in DOMAIN qq.sources
    PROVE  /\ DOMAIN qq.sources[i].bars \subseteq Nat
           /\ \A m \in DOMAIN qq.sources[i].bars : qq.sources[i].bars[m].session \in Nat
<1> DEFINE s == qq.sources[i]
<1>1. s.bars \in Seq(Bar)
  BY QueryFacts DEF Source
<1>2. DOMAIN s.bars = 1 .. Len(s.bars) /\ Len(s.bars) \in Nat
  BY <1>1
<1>3. ASSUME NEW m \in DOMAIN s.bars PROVE s.bars[m].session \in Nat
  <2>1. s.bars[m] \in Bar
    BY <1>1
  <2>2. s.bars[m].session \in 0 .. MaxDay
    BY <2>1 DEF Bar, Day
  <2>3. QED
    BY <2>2
<1>4. QED
  BY <1>2, <1>3

LEMMA DayFacts == Day \subseteq Nat /\ \A d \in Day : d \in Int
  BY DomainAssumption DEF Day

LEMMA DayOrder == \A c, d \in Day : c <= c /\ (d > c => c <= d)
  BY DayFacts

\* Every finding affects days of the calendar, the first of them first.
Dated(emissions) == \A e \in emissions : /\ e.finding.from \in Day /\ e.finding.to \in Day
                                         /\ e.finding.from <= e.finding.to

LEMMA PerRowDated ==
    ASSUME NEW qq \in Query, NEW faults
    PROVE  Dated(PerRow(qq.sources, faults))
<1> DEFINE sources == qq.sources
<1>1. SUFFICES ASSUME NEW e \in PerRow(sources, faults)
               PROVE  e.finding.from \in Day /\ e.finding.to \in Day /\ e.finding.from <= e.finding.to
  BY DEF Dated
<1>2. PICK r \in Rows(sources) : \E x \in faults[r] :
          /\ e.finding.from = RowAt(sources, r).session
          /\ e.finding.to = RowAt(sources, r).session
  BY <1>1 DEF PerRow, At, Finding
<1>3. r[1] \in DOMAIN sources /\ r[2] \in DOMAIN sources[r[1]].bars
  BY <1>2 DEF Rows
<1>4. RowAt(sources, r).session \in Day
  BY <1>3, QueryFacts DEF Sessions, RowAt
<1>5. QED
  BY <1>2, <1>4, DayOrder

LEMMA SteadyDated ==
    ASSUME NEW qq \in Query
    PROVE  Dated(Steady(qq))
<1> DEFINE sources == qq.sources
<1>1. Dated(SessionIntegrity(sources))
  <2>1. SUFFICES ASSUME NEW e \in SessionIntegrity(sources)
                 PROVE  e.finding.from \in Day /\ e.finding.to \in Day /\ e.finding.from <= e.finding.to
    BY DEF Dated
  <2>0. PICK i \in DOMAIN sources : e \in Duplicates(i, sources[i]) \cup Inversions(i, sources[i])
    BY <2>1 DEF SessionIntegrity
  <2>2.     \/ \E d \in Sessions(sources[i]) : e.finding.from = d /\ e.finding.to = d
            \/ \E k \in DOMAIN sources[i].bars :
                  /\ k > 1
                  /\ e.finding.from = sources[i].bars[k].session
                  /\ e.finding.to = sources[i].bars[k - 1].session
                  /\ e.finding.to > e.finding.from
    <3>1. CASE e \in Duplicates(i, sources[i])
      <4>1. PICK d \in Sessions(sources[i]) :
                e = At(<<i, d>>, Finding("duplicate_session", "", d, d, {Evidence(sources[i])},
                                         RowCount(sources[i], d)))
        BY <3>1 DEF Duplicates
      <4>2. QED
        BY <4>1 DEF At, Finding
    <3>2. CASE e \in Inversions(i, sources[i])
      <4>1. PICK k \in DOMAIN sources[i].bars :
                /\ k > 1 /\ sources[i].bars[k - 1].session > sources[i].bars[k].session
                /\ e = At(<<i, k, k>>, Finding("non_monotonic_sessions", "",
                              sources[i].bars[k].session, sources[i].bars[k - 1].session,
                              {Evidence(sources[i])}, ""))
        BY <3>2 DEF Inversions
      <4>2. QED
        BY <4>1 DEF At, Finding
    <3>3. QED
      BY <2>0, <3>1, <3>2
  <2>3. ASSUME NEW k \in DOMAIN sources[i].bars PROVE sources[i].bars[k].session \in Day
    BY <2>0, <2>2, QueryFacts DEF Sessions
  <2>4. ASSUME NEW k \in DOMAIN sources[i].bars, k > 1 PROVE k - 1 \in DOMAIN sources[i].bars
    <3>1. sources[i].bars \in Seq(Bar)
      BY <2>0, <2>2, QueryFacts DEF Source
    <3>2. QED
      BY <3>1, <2>4
  <2>5. e.finding.from \in Day /\ e.finding.to \in Day
    BY <2>0, <2>2, <2>3, <2>4, QueryFacts
  <2>6. \/ e.finding.from = e.finding.to
        \/ e.finding.to > e.finding.from
    BY <2>2
  <2>7. QED
    BY <2>5, <2>6, DayOrder
<1>2. /\ Dated(OhlcIntegrity(sources)) /\ Dated(VolumeIntegrity(sources))
      /\ Dated(CalendarMembership(sources, qq.expected))
  BY PerRowDated DEF OhlcIntegrity, VolumeIntegrity, CalendarMembership
<1>3. Dated(SourceCoverage(sources, qq.expected))
  <2>1. SUFFICES ASSUME NEW e \in SourceCoverage(sources, qq.expected)
                 PROVE  e.finding.from \in Day /\ e.finding.to \in Day /\ e.finding.from <= e.finding.to
    BY DEF Dated
  <2>0. PICK i \in DOMAIN sources : e \in Gaps(i, sources[i], qq.expected)
    BY <2>1 DEF SourceCoverage
  <2>2.     \E r \in MissingIntervals(qq.expected, qq.expected \ Sessions(sources[i])) :
            e.finding.from = r[1] /\ e.finding.to = r[2] /\ r[1] <= r[2]
    <3>1. PICK r \in MissingIntervals(qq.expected, qq.expected \ Sessions(sources[i])) :
              e = At(<<i, r>>, Finding("source_missing_session", "", r[1], r[2],
                                       {Evidence(sources[i])}, ""))
      BY <2>0 DEF Gaps
    <3>2. r[1] <= r[2]
      BY DEF MissingIntervals
    <3>3. QED
      BY <3>1, <3>2 DEF At, Finding
  <2>3. ASSUME NEW S, NEW M, M \subseteq S, NEW r \in MissingIntervals(S, M)
        PROVE  r[1] \in S /\ r[2] \in S
    BY <2>3 DEF MissingIntervals
  <2>4. QED
    BY <2>0, <2>2, <2>3, QueryFacts
<1>4. Dated(CrossSourceOverlap(sources))
  <2>1. SUFFICES ASSUME NEW e \in CrossSourceOverlap(sources)
                 PROVE  e.finding.from \in Day /\ e.finding.to \in Day /\ e.finding.from <= e.finding.to
    BY DEF Dated
  <2>0. PICK p \in Pairs(sources) :
            \/ e \in Unshared(p, sources[p[1]], sources[p[2]])
            \/ e \in Unshared(p, sources[p[2]], sources[p[1]])
    BY <2>1 DEF CrossSourceOverlap
  <2>2.     \E d \in Sessions(sources[p[1]]) \cup Sessions(sources[p[2]]) :
               e.finding.from = d /\ e.finding.to = d
    <3>1. PICK s \in {sources[p[1]], sources[p[2]]}, t \in {sources[p[1]], sources[p[2]]} :
              e \in Unshared(p, s, t)
      BY <2>0
    <3>2. PICK d \in Sessions(s) \ Sessions(t) :
              e = At(<<p, d>>, Finding("cross_source_session_missing", "", d, d,
                                       {Evidence(s), Evidence(t)}, Evidence(t)))
      BY <3>1 DEF Unshared
    <3>3. e.finding.from = d /\ e.finding.to = d
      BY <3>2 DEF At, Finding
    <3>4. QED
      BY <3>3
  <2>3. e.finding.from \in Day /\ e.finding.from = e.finding.to
    BY <2>0, <2>2, QueryFacts DEF Pairs
  <2>4. QED
    BY <2>3, DayOrder
<1>5. Dated(CrossSourceOhlc(sources, qq.policy, qq.adjustment))
  <2>1. SUFFICES ASSUME NEW e \in CrossSourceOhlc(sources, qq.policy, qq.adjustment)
                 PROVE  e.finding.from \in Day /\ e.finding.to \in Day /\ e.finding.from <= e.finding.to
    BY DEF Dated
  <2>0. PICK p \in Pairs(sources) : e \in Disagreements(p, sources[p[1]], sources[p[2]], qq.policy)
    BY <2>1 DEF CrossSourceOhlc
  <2>2.     \E x \in (Sessions(sources[p[1]]) \cap Sessions(sources[p[2]])) \X Field :
               e.finding.from = x[1] /\ e.finding.to = x[1]
    BY <2>0 DEF Disagreements, At, Finding
  <2>3. e.finding.from \in Day /\ e.finding.from = e.finding.to
    BY <2>0, <2>2, QueryFacts DEF Pairs
  <2>4. QED
    BY <2>3, DayOrder
<1>6. Dated(ProviderRevision(qq.revisions))
  <2>1. SUFFICES ASSUME NEW e \in ProviderRevision(qq.revisions)
                 PROVE  e.finding.from \in Day /\ e.finding.to \in Day /\ e.finding.from <= e.finding.to
    BY DEF Dated
  <2>0. PICK x \in qq.revisions : e \in Revised(x)
    BY <2>1 DEF ProviderRevision
  <2>2.
            \E d \in Sessions(x.previous) \cup Sessions(x.current) :
               e.finding.from = d /\ e.finding.to = d
    <3>1. PICK d \in Sessions(x.previous) \cup Sessions(x.current) :
              e = At(<<x, d>>, Finding("provider_history_revision", "", d, d,
                          {Evidence(x.previous), Evidence(x.current)},
                          <<ChangedFields(x.previous, x.current, d),
                            x.current.capture, x.previous.capture>>))
      BY <2>0 DEF Revised
    <3>2. QED
      BY <3>1 DEF At, Finding
  <2>3. e.finding.from \in Day /\ e.finding.from = e.finding.to
    BY <2>0, <2>2, QueryFacts
  <2>4. QED
    BY <2>3, DayOrder
<1>7. QED
  BY <1>1, <1>2, <1>3, <1>4, <1>5, <1>6 DEF Steady, Dated
-----------------------------------------------------------------------------
\* What the verdict says of findings.

LEMMA EligibleMeans ==
    ASSUME NEW qq
    PROVE  EvaluateRange(qq) = "eligible" <=>
             \A f \in AllFindings(CheckResults(qq)) :
                Touches(f.from, f.to, qq.from, qq.to) => ~IsBlocking(f) /\ ~IsIncomplete(qq, f)
<1> DEFINE relevant == {f \in AllFindings(CheckResults(qq)) :
                            Touches(f.from, f.to, qq.from, qq.to)}
<1>1. EvaluateRange(qq) = IF \E f \in relevant : IsBlocking(f) THEN "ineligible"
                          ELSE IF \E f \in relevant : IsIncomplete(qq, f) THEN "incomplete"
                          ELSE "eligible"
  BY DEF EvaluateRange
<1>2. EvaluateRange(qq) = "eligible"
        <=> \A f \in relevant : ~IsBlocking(f) /\ ~IsIncomplete(qq, f)
  <2> HIDE DEF relevant
  <2>1. QED
    BY <1>1
<1>3. QED
  BY <1>2

\* An eligible range has none of the findings that make a range incomplete.
LEMMA NothingIncomplete ==
    ASSUME NEW qq \in Query, qq.from <= qq.to, EvaluateRange(qq) = "eligible"
    PROVE  /\ qq.adjustment = "raw"
           /\ InRange(qq.expected, qq.from, qq.to) # {}
           /\ \A d \in InRange(qq.expected, qq.from, qq.to) :
                 /\ SourceCount(qq.sources, d) # 0
                 /\ ~(0 < SourceCount(qq.sources, d)
                      /\ SourceCount(qq.sources, d) < qq.policy.minSources)
           /\ \A i \in DOMAIN qq.sources :
                 qq.sources[i].schema \notin qq.policy.schemas => Sessions(qq.sources[i]) # {}
<1> DEFINE S == InRange(qq.expected, qq.from, qq.to)
           sources == qq.sources
<1>1. ASSUME NEW e \in OfRange(qq), e.finding.code \in INCOMPLETE_FINDING_CODES,
             Touches(e.finding.from, e.finding.to, qq.from, qq.to)
      PROVE  FALSE
  <2>1. e.finding \in AllFindings(CheckResults(qq))
    BY FindingsSplit DEF Findings
  <2>2. QED
    BY <1>1, <2>1, EligibleMeans DEF IsIncomplete
<1>2. qq.from \in Int /\ qq.to \in Int
  BY QueryFacts, DayFacts
<1>3. qq.adjustment = "raw"
  <2>1. SUFFICES ASSUME qq.adjustment # "raw" PROVE FALSE
    OBVIOUS
  <2> DEFINE e == At(<<>>, Finding("unsupported_adjustment_semantics", "", qq.from, qq.to,
                                   {}, qq.adjustment))
  <2>2. e \in OfRange(qq)
    BY <2>1 DEF OfRange, AdjustmentSemantics
  <2>3. e.finding.code \in INCOMPLETE_FINDING_CODES
        /\ Touches(e.finding.from, e.finding.to, qq.from, qq.to)
    BY <1>2 DEF At, Finding, Touches, INCOMPLETE_FINDING_CODES
  <2>4. QED
    BY <1>1, <2>2, <2>3
<1>4. S # {}
  <2>1. SUFFICES ASSUME S = {} PROVE FALSE
    OBVIOUS
  <2> DEFINE e == At(<<>>, Finding("no_expected_sessions_in_requested_range", "",
                                   qq.from, qq.to, AllEvidence(sources), ""))
  <2>2. e \in RequestedRangeCoverage(sources, qq.expected, qq.from, qq.to, qq.policy)
    BY <2>1 DEF RequestedRangeCoverage
  <2>3. e.finding.code \in INCOMPLETE_FINDING_CODES
        /\ Touches(e.finding.from, e.finding.to, qq.from, qq.to)
    BY <1>2 DEF At, Finding, Touches, INCOMPLETE_FINDING_CODES
  <2>4. e \in OfRange(qq)
    BY <2>2 DEF OfRange
  <2>5. QED
    BY <1>1, <2>3, <2>4
<1>5. ASSUME NEW code \in INCOMPLETE_FINDING_CODES, NEW M, M \subseteq S, M # {}
      PROVE  \E e \in Shortfall(code, S, M, sources) :
                /\ e.finding.code \in INCOMPLETE_FINDING_CODES
                /\ Touches(e.finding.from, e.finding.to, qq.from, qq.to)
  <2>1. S \subseteq 0 .. MaxDay
    BY QueryFacts DEF InRange, Day
  <2>2. PICK r \in MissingIntervals(S, M) : TRUE
    BY <1>5, <2>1, IntervalExists, DomainAssumption
  <2>3. r[1] \in S /\ r[2] \in S
    BY <1>5, <2>2 DEF MissingIntervals
  <2> DEFINE e == At(<<code, r>>, Finding(code, "", r[1], r[2], AllEvidence(sources), ""))
  <2>4. e \in Shortfall(code, S, M, sources)
    BY <2>2 DEF Shortfall
  <2>5. e.finding.code = code /\ e.finding.from = r[1] /\ e.finding.to = r[2]
    BY DEF At, Finding
  <2>6. Touches(r[1], r[2], qq.from, qq.to)
    BY <2>3 DEF InRange, Touches
  <2>7. QED
    BY <1>5, <2>4, <2>5, <2>6
<1>6. {d \in S : SourceCount(sources, d) = 0} = {}
  <2> DEFINE M == {d \in S : SourceCount(sources, d) = 0}
  <2>1. Shortfall("insufficient_session_coverage", S, M, sources) \subseteq OfRange(qq)
    BY DEF OfRange, RequestedRangeCoverage
  <2>2. "insufficient_session_coverage" \in INCOMPLETE_FINDING_CODES /\ M \subseteq S
    BY DEF INCOMPLETE_FINDING_CODES
  <2> HIDE DEF M
  <2>3. M = {}
    BY <1>1, <1>5, <2>1, <2>2
  <2>4. QED
    BY <2>3 DEF M
<1>7. {d \in S : 0 < SourceCount(sources, d) /\ SourceCount(sources, d) < qq.policy.minSources} = {}
  <2> DEFINE M == {d \in S : 0 < SourceCount(sources, d)
                             /\ SourceCount(sources, d) < qq.policy.minSources}
  <2>1. Shortfall("insufficient_source_verification", S, M, sources) \subseteq OfRange(qq)
    BY DEF OfRange, RequestedRangeCoverage
  <2>2. "insufficient_source_verification" \in INCOMPLETE_FINDING_CODES /\ M \subseteq S
    BY DEF INCOMPLETE_FINDING_CODES
  <2> HIDE DEF M
  <2>3. M = {}
    BY <1>1, <1>5, <2>1, <2>2
  <2>4. QED
    BY <2>3 DEF M
<1>8. ASSUME NEW i \in DOMAIN sources, sources[i].schema \notin qq.policy.schemas,
             Sessions(sources[i]) = {}
      PROVE  FALSE
  <2> DEFINE e == At(<<i>>, Finding("unsupported_normalized_schema", "", qq.from, qq.to,
                                    {Evidence(sources[i])}, sources[i].schema))
  <2>1. e \in SchemaContract(sources, qq.policy, qq.from, qq.to)
    BY <1>8 DEF SchemaContract
  <2>2. e.finding.code \in INCOMPLETE_FINDING_CODES
        /\ Touches(e.finding.from, e.finding.to, qq.from, qq.to)
    BY <1>2 DEF At, Finding, Touches, INCOMPLETE_FINDING_CODES
  <2>3. e \in OfRange(qq)
    BY <2>1 DEF OfRange
  <2>4. QED
    BY <1>1, <2>2, <2>3
<1>9. QED
  BY <1>3, <1>4, <1>6, <1>7, <1>8
-----------------------------------------------------------------------------
\* The verdict of a range is inherited by its parts.

LEMMA OverFacts ==
    ASSUME NEW qq \in Query, NEW a \in Day, NEW b \in Day
    PROVE  /\ Over(qq, a, b) \in Query
           /\ Over(qq, a, b).from = a /\ Over(qq, a, b).to = b
           /\ Over(qq, a, b).sources = qq.sources
           /\ Over(qq, a, b).expected = qq.expected
           /\ Over(qq, a, b).policy = qq.policy
           /\ Over(qq, a, b).adjustment = qq.adjustment
           /\ Over(qq, a, b).revisions = qq.revisions
BY DEF Over, Query

\* An emission of the schema check is about the days of its source, or about
\* the range when the source has none.
LEMMA SchemaSpan ==
    ASSUME NEW qq \in Query, NEW a \in Day, NEW b \in Day,
           NEW e \in SchemaContract(qq.sources, qq.policy, a, b)
    PROVE  \E i \in DOMAIN qq.sources :
              LET days == Sessions(qq.sources[i])
              IN  /\ qq.sources[i].schema \notin qq.policy.schemas
                  /\ e.finding.code = "unsupported_normalized_schema"
                  /\ days # {} => /\ e.finding.from = Least(days) /\ e.finding.to = Greatest(days)
                                  /\ e.finding.from \in Day /\ e.finding.to \in Day
                                  /\ \A from, to : e \in SchemaContract(qq.sources, qq.policy, from, to)
<1> DEFINE Emission(i, from, to) ==
               At(<<i>>, Finding("unsupported_normalized_schema", "",
                   IF Sessions(qq.sources[i]) = {} THEN from ELSE Least(Sessions(qq.sources[i])),
                   IF Sessions(qq.sources[i]) = {} THEN to ELSE Greatest(Sessions(qq.sources[i])),
                   {Evidence(qq.sources[i])}, qq.sources[i].schema))
<1>1. PICK i \in DOMAIN qq.sources :
          qq.sources[i].schema \notin qq.policy.schemas /\ e = Emission(i, a, b)
  BY DEF SchemaContract
<1> DEFINE days == Sessions(qq.sources[i])
<1>2. e.finding.code = "unsupported_normalized_schema"
  BY <1>1 DEF At, Finding
<1>3. ASSUME days # {}
      PROVE  /\ e.finding.from = Least(days) /\ e.finding.to = Greatest(days)
             /\ e.finding.from \in Day /\ e.finding.to \in Day
             /\ \A from, to : e \in SchemaContract(qq.sources, qq.policy, from, to)
  <2>1. days \subseteq Day
    BY QueryFacts
  <2>2. e.finding.from = Least(days) /\ e.finding.to = Greatest(days)
    BY <1>1, <1>3 DEF At, Finding
  <2>3. Least(days) \in Day /\ Greatest(days) \in Day
    <3>1. days \subseteq Nat /\ days \subseteq 0 .. MaxDay
      BY <2>1, DayFacts DEF Day
    <3> HIDE DEF days
    <3>2. QED
      BY <1>3, <2>1, <3>1, LeastExists, GreatestExists, DomainAssumption
  <2>4. ASSUME NEW from, NEW to PROVE e \in SchemaContract(qq.sources, qq.policy, from, to)
    <3>1. e = Emission(i, from, to)
      BY <1>1, <1>3
    <3>2. QED
      BY <1>1, <3>1 DEF SchemaContract
  <2>5. QED
    BY <2>2, <2>3, <2>4
<1>4. QED
  BY <1>1, <1>2, <1>3

\* Theorem-level form of SubrangeStaysEligible, for any query.
LEMMA Inherited ==
    ASSUME NEW qq \in Query, NEW a \in Day, NEW b \in Day,
           qq.from <= a, a <= b, b <= qq.to, InRange(qq.expected, a, b) # {},
           EvaluateRange(qq) = "eligible"
    PROVE  EvaluateRange(Over(qq, a, b)) = "eligible"
<1> DEFINE o == Over(qq, a, b)
<1>1. /\ o.from = a /\ o.to = b /\ o.sources = qq.sources /\ o.expected = qq.expected
      /\ o.policy = qq.policy /\ o.adjustment = qq.adjustment /\ o.revisions = qq.revisions
  BY OverFacts
<1>2. a \in Int /\ b \in Int /\ qq.from \in Int /\ qq.to \in Int /\ qq.from <= qq.to
  BY QueryFacts, DayFacts
<1>3. Steady(o) = Steady(qq)
  BY <1>1 DEF Steady
<1>4. SUFFICES ASSUME NEW f \in AllFindings(CheckResults(o)), Touches(f.from, f.to, a, b)
               PROVE  ~IsBlocking(f) /\ ~IsIncomplete(o, f)
  BY <1>1, EligibleMeans
<1>5. ASSUME f \in AllFindings(CheckResults(qq)), f.from \in Day, f.to \in Day
      PROVE  ~IsBlocking(f) /\ ~IsIncomplete(o, f)
  <2>1. Touches(f.from, f.to, qq.from, qq.to)
    <3>1. f.from \in Int /\ f.to \in Int
      BY <1>5, DayFacts
    <3> HIDE DEF o
    <3>2. QED
      BY <1>2, <1>4, <3>1 DEF Touches
  <2>2. QED
    BY <1>1, <1>5, <2>1, EligibleMeans DEF IsIncomplete
<1>6. CASE f \in Findings(Steady(o))
  <2>1. f \in AllFindings(CheckResults(qq))
    BY <1>3, <1>6, FindingsSplit
  <2>2. f.from \in Day /\ f.to \in Day
    BY <1>3, <1>6, SteadyDated DEF Findings, Dated
  <2>3. QED
    BY <1>5, <2>1, <2>2
<1>7. CASE f \in Findings(OfRange(o))
  <2>1. PICK e \in OfRange(o) : f = e.finding
    BY <1>7 DEF Findings
  <2>2. CASE e \in SchemaContract(o.sources, o.policy, o.from, o.to)
    <3>0. e \in SchemaContract(qq.sources, qq.policy, a, b)
      BY <1>1, <2>2
    <3>1. PICK i \in DOMAIN qq.sources :
              LET days == Sessions(qq.sources[i])
              IN  /\ qq.sources[i].schema \notin qq.policy.schemas
                  /\ e.finding.code = "unsupported_normalized_schema"
                  /\ days # {} => /\ e.finding.from = Least(days) /\ e.finding.to = Greatest(days)
                                  /\ e.finding.from \in Day /\ e.finding.to \in Day
                                  /\ \A from, to : e \in SchemaContract(qq.sources, qq.policy, from, to)
      BY <3>0, SchemaSpan
    <3>2. Sessions(qq.sources[i]) # {}
      BY <1>2, <3>1, NothingIncomplete
    <3>3. e \in OfRange(qq)
      BY <3>1, <3>2 DEF OfRange
    <3>4. f \in AllFindings(CheckResults(qq))
      BY <2>1, <3>3, FindingsSplit DEF Findings
    <3>5. QED
      BY <1>5, <2>1, <3>1, <3>2, <3>4
  <2>3. CASE e \in RequestedRangeCoverage(o.sources, o.expected, o.from, o.to, o.policy)
    <3> DEFINE S == InRange(qq.expected, a, b)
               missing == {d \in S : SourceCount(qq.sources, d) = 0}
               unverified == {d \in S : 0 < SourceCount(qq.sources, d)
                                        /\ SourceCount(qq.sources, d) < qq.policy.minSources}
    <3>1. S \subseteq InRange(qq.expected, qq.from, qq.to)
      BY <1>2, QueryFacts, DayFacts DEF InRange
    <3>2. missing = {} /\ unverified = {}
      BY <1>2, <3>1, NothingIncomplete
    <3>3. \/ e \in Shortfall("insufficient_session_coverage", S, missing, qq.sources)
          \/ e \in Shortfall("insufficient_source_verification", S, unverified, qq.sources)
      BY <1>1, <2>3 DEF RequestedRangeCoverage
    <3>4. ASSUME NEW code PROVE Shortfall(code, S, {}, qq.sources) = {}
      BY DEF Shortfall, MissingIntervals
    <3>5. QED
      BY <3>2, <3>3, <3>4
  <2>4. CASE e \in AdjustmentSemantics(o.adjustment, o.from, o.to)
    BY <1>1, <1>2, <2>4, NothingIncomplete DEF AdjustmentSemantics
  <2>5. QED
    BY <2>1, <2>2, <2>3, <2>4 DEF OfRange
<1>8. QED
  BY <1>6, <1>7, FindingsSplit
-----------------------------------------------------------------------------
\* What an eligible verdict promises.

LEMMA Silent ==
    ASSUME NEW qq \in Query, EvaluateRange(qq) = "eligible",
           NEW e \in Steady(qq) \cup OfRange(qq),
           Touches(e.finding.from, e.finding.to, qq.from, qq.to)
    PROVE  e.finding.code \notin INELIGIBLE_FINDING_CODES
           /\ e.finding.code \notin INCOMPLETE_FINDING_CODES
<1>1. e.finding \in AllFindings(CheckResults(qq))
  BY FindingsSplit DEF Findings
<1>2. QED
  BY <1>1, EligibleMeans DEF IsBlocking, IsIncomplete

\* A row in range has none of the faults of a row check.
LEMMA RowSilent ==
    ASSUME NEW qq \in Query, EvaluateRange(qq) = "eligible",
           NEW i \in DOMAIN qq.sources, NEW k \in RowsIn(qq.sources[i], qq.from, qq.to),
           NEW faults, PerRow(qq.sources, faults) \subseteq Steady(qq),
           \A x \in faults[<<i, k>>] : x[1] \in INELIGIBLE_FINDING_CODES
    PROVE  faults[<<i, k>>] = {}
<1> DEFINE s == qq.sources[i]
           d == s.bars[k].session
<1>1. SUFFICES ASSUME NEW x \in faults[<<i, k>>] PROVE FALSE
  OBVIOUS
<1> DEFINE e == At(<<<<i, k>>, x>>, Finding(x[1], x[2], d, d, {Evidence(s)}, x[3]))
<1>2. <<i, k>> \in Rows(qq.sources)
  BY DEF Rows, RowsIn
<1>3. e \in PerRow(qq.sources, faults)
  <2> DEFINE of(r) == {At(<<r, y>>, Finding(y[1], y[2], RowAt(qq.sources, r).session,
                              RowAt(qq.sources, r).session,
                              {Evidence(qq.sources[r[1]])}, y[3])) : y \in faults[r]}
  <2>1. e \in of(<<i, k>>)
    BY <1>1 DEF RowAt
  <2>2. PerRow(qq.sources, faults) = UNION {of(r) : r \in Rows(qq.sources)}
    BY DEF PerRow
  <2> HIDE DEF of, e
  <2>3. QED
    BY <1>2, <2>1, <2>2
<1>4. e.finding.code = x[1] /\ e.finding.from = d /\ e.finding.to = d
  BY DEF At, Finding
<1>5. Touches(d, d, qq.from, qq.to)
  BY DEF Touches, RowsIn
<1> HIDE DEF e
<1>6. QED
  BY <1>1, <1>3, <1>4, <1>5, Silent

LEMMA FirstOfThree ==
    ASSUME NEW w, NEW x, NEW y, NEW z, w = <<x, y, z>>
    PROVE  w[1] = x
  OBVIOUS

LEMMA RowsWellFormed ==
    ASSUME NEW qq \in Query, EvaluateRange(qq) = "eligible",
           NEW i \in DOMAIN qq.sources, NEW k \in RowsIn(qq.sources[i], qq.from, qq.to)
    PROVE  /\ WellFormed(qq.sources[i].bars[k])
           /\ qq.sources[i].bars[k].session \in qq.expected
<1> DEFINE b == qq.sources[i].bars[k]
           r == <<i, k>>
           ohlc == [x \in Rows(qq.sources) |-> OhlcFaults(RowAt(qq.sources, x))]
           volume == [x \in Rows(qq.sources) |-> VolumeFaults(RowAt(qq.sources, x))]
           member == [x \in Rows(qq.sources) |->
                         IF RowAt(qq.sources, x).session \in qq.expected
                         THEN {} ELSE {<<"unexpected_session", "", "">>}]
<1>1. r \in Rows(qq.sources) /\ RowAt(qq.sources, r) = b
  BY DEF Rows, RowsIn, RowAt
<1>2. b \in Bar
  BY QueryFacts DEF RowsIn, Source
<1>3. ohlc[r] = OhlcFaults(b) /\ volume[r] = VolumeFaults(b)
      /\ member[r] = IF b.session \in qq.expected
                     THEN {} ELSE {<<"unexpected_session", "", "">>}
  BY <1>1
<1>4. /\ PerRow(qq.sources, ohlc) \subseteq Steady(qq)
      /\ PerRow(qq.sources, volume) \subseteq Steady(qq)
      /\ PerRow(qq.sources, member) \subseteq Steady(qq)
  BY DEF Steady, OhlcIntegrity, VolumeIntegrity, CalendarMembership
<1> HIDE DEF ohlc, volume, member, b
<1>5. OhlcFaults(b) = {}
  <2>1. \A x \in OhlcFaults(b) : x[1] \in INELIGIBLE_FINDING_CODES
    <3>1. SUFFICES ASSUME NEW x \in OhlcFaults(b)
                   PROVE  x[1] \in {"non_finite_field", "non_positive_price", "invalid_ohlc"}
      BY DEF INELIGIBLE_FINDING_CODES
    <3>2. \/ \E f \in Field : x = <<"non_finite_field", f, b[f]>>
          \/ \E f \in Field : x = <<"non_positive_price", f, b[f]>>
          \/ x = <<"invalid_ohlc", "", [f \in Field |-> b[f]]>>
      BY <3>1 DEF OhlcFaults
    <3>3. CASE \E f \in Field : x = <<"non_finite_field", f, b[f]>>
      BY <3>3, FirstOfThree
    <3>4. CASE \E f \in Field : x = <<"non_positive_price", f, b[f]>>
      BY <3>4, FirstOfThree
    <3>5. CASE x = <<"invalid_ohlc", "", [f \in Field |-> b[f]]>>
      BY <3>5, FirstOfThree
    <3>6. QED
      BY <3>2, <3>3, <3>4, <3>5
  <2>2. QED
    BY <1>3, <1>4, <2>1, RowSilent
<1>6. VolumeFaults(b) = {}
  <2>1. \A x \in VolumeFaults(b) : x[1] \in INELIGIBLE_FINDING_CODES
    BY DEF VolumeFaults, INELIGIBLE_FINDING_CODES
  <2>2. QED
    BY <1>3, <1>4, <2>1, RowSilent
<1>7. b.session \in qq.expected
  <2>1. \A x \in member[r] : x[1] \in INELIGIBLE_FINDING_CODES
    <3>1. \A x \in member[r] : x = <<"unexpected_session", "", "">>
      BY <1>3
    <3>2. \A x \in member[r] : x[1] = "unexpected_session"
      BY <3>1, FirstOfThree
    <3>3. QED
      BY <3>2 DEF INELIGIBLE_FINDING_CODES
  <2>2. member[r] = {}
    BY <1>4, <2>1, RowSilent
  <2>3. QED
    BY <1>3, <2>2
<1>8. \A f \in Field : b[f] # NaN /\ ~(b[f] <= 0)
  BY <1>5 DEF OhlcFaults
<1>9. \A f \in Field : b[f] \in Int
  BY <1>2, <1>8 DEF Bar, Value, Field
<1>10. OHLCOrdered(b)
  BY <1>5, <1>8 DEF OhlcFaults
<1>11. b.volume # NaN /\ ~(b.volume < 0) /\ b.volume \in Int
  BY <1>2, <1>6 DEF VolumeFaults, Bar, Value
<1>12. WellFormed(b)
  BY <1>8, <1>9, <1>10, <1>11 DEF WellFormed
<1>13. QED
  BY <1>7, <1>12 DEF b

\* Rows in range are of an accepted schema.
LEMMA SchemaAccepted ==
    ASSUME NEW qq \in Query, EvaluateRange(qq) = "eligible",
           NEW i \in DOMAIN qq.sources, RowsIn(qq.sources[i], qq.from, qq.to) # {}
    PROVE  qq.sources[i].schema \in qq.policy.schemas
<1> DEFINE s == qq.sources[i]
           days == Sessions(s)
           e == At(<<i>>, Finding("unsupported_normalized_schema", "",
                                  Least(days), Greatest(days), {Evidence(s)}, s.schema))
<1>1. SUFFICES ASSUME s.schema \notin qq.policy.schemas PROVE FALSE
  OBVIOUS
<1>2. PICK k \in RowsIn(s, qq.from, qq.to) : TRUE
  OBVIOUS
<1>3. s.bars[k].session \in days
  BY DEF RowsIn, Sessions
<1>4. /\ days # {} /\ days \subseteq Nat /\ days \subseteq 0 .. MaxDay
  BY <1>3, QueryFacts, DayFacts DEF Day
<1>5. Least(days) <= s.bars[k].session /\ s.bars[k].session <= Greatest(days)
      /\ Least(days) \in days /\ Greatest(days) \in days
  <2> HIDE DEF days
  <2>1. QED
    BY <1>3, <1>4, LeastExists, GreatestExists, DomainAssumption
<1>6. Touches(Least(days), Greatest(days), qq.from, qq.to)
  <2>1. qq.from <= s.bars[k].session /\ s.bars[k].session <= qq.to
    BY DEF RowsIn
  <2>2. qq.from \in Int /\ qq.to \in Int /\ s.bars[k].session \in Int
        /\ Least(days) \in Int /\ Greatest(days) \in Int
    BY <1>3, <1>4, <1>5, QueryFacts, DayFacts
  <2> HIDE DEF days
  <2>3. QED
    BY <1>5, <2>1, <2>2 DEF Touches
<1>7. e \in OfRange(qq)
  <2>1. e \in SchemaContract(qq.sources, qq.policy, qq.from, qq.to)
    BY <1>1, <1>4 DEF SchemaContract
  <2>2. QED
    BY <2>1 DEF OfRange
<1>8. /\ e.finding.code \in INCOMPLETE_FINDING_CODES
      /\ e.finding.from = Least(days) /\ e.finding.to = Greatest(days)
  BY DEF At, Finding, INCOMPLETE_FINDING_CODES
<1> HIDE DEF e
<1>9. QED
  BY <1>6, <1>7, <1>8, Silent

LEMMA TwoOfMany ==
    ASSUME NEW n \in Nat, NEW H, H \subseteq 1 .. n, NEW j \in H, NEW k \in H, j # k
    PROVE  Cardinality(H) > 1
<1>1. IsFiniteSet(H) /\ Cardinality(H) \in Nat
  <2>1. IsFiniteSet(1 .. n)
    BY FS_Interval
  <2>2. IsFiniteSet(H)
    BY <2>1, FS_Subset
  <2>3. QED
    BY <2>2, FS_CardinalityType
<1>2. Cardinality({j} \cup {k}) = 2
  <2>1. IsFiniteSet({j}) /\ Cardinality({j}) = 1
    BY FS_Singleton
  <2>2. k \notin {j}
    OBVIOUS
  <2>3. Cardinality({j} \cup {k}) = Cardinality({j}) + 1
    BY <2>1, <2>2, FS_AddElement
  <2>4. QED
    BY <2>1, <2>3
<1>3. Cardinality({j} \cup {k}) <= Cardinality(H)
  BY <1>1, FS_Subset
<1>4. QED
  BY <1>1, <1>2, <1>3

\* Rows in range are in strictly increasing order of sessions.
LEMMA RowsIncrease ==
    ASSUME NEW qq \in Query, EvaluateRange(qq) = "eligible", NEW i \in DOMAIN qq.sources,
           NEW j \in RowsIn(qq.sources[i], qq.from, qq.to),
           NEW k \in RowsIn(qq.sources[i], qq.from, qq.to), j < k
    PROVE  qq.sources[i].bars[j].session < qq.sources[i].bars[k].session
<1> DEFINE s == qq.sources[i]
           day(m) == s.bars[m].session
<1>1. /\ s.bars \in Seq(Bar) /\ DOMAIN s.bars = 1 .. Len(s.bars) /\ Len(s.bars) \in Nat
      /\ j \in 1 .. Len(s.bars) /\ k \in 1 .. Len(s.bars)
  BY QueryFacts DEF Source, RowsIn
<1>2. \A m \in 1 .. Len(s.bars) : day(m) \in Nat
  BY <1>1, QueryFacts, DayFacts DEF Sessions
<1>3. /\ qq.from <= day(j) /\ day(j) <= qq.to /\ qq.from <= day(k) /\ day(k) <= qq.to
      /\ qq.from \in Int /\ qq.to \in Int
  BY QueryFacts, DayFacts DEF RowsIn
<1>4. ASSUME NEW e \in SessionIntegrity(qq.sources),
             e.finding.code \in INELIGIBLE_FINDING_CODES,
             Touches(e.finding.from, e.finding.to, qq.from, qq.to)
      PROVE  FALSE
  <2>1. e \in Steady(qq)
    BY <1>4 DEF Steady
  <2>2. QED
    BY <1>4, <2>1, Silent
<1>5. day(j) # day(k)
  <2>1. SUFFICES ASSUME day(j) = day(k) PROVE FALSE
    OBVIOUS
  <2> DEFINE d == day(j)
             e == At(<<i, d>>, Finding("duplicate_session", "", d, d, {Evidence(s)}, RowCount(s, d)))
  <2>2. RowCount(s, d) > 1
    <3> DEFINE H == {m \in DOMAIN s.bars : s.bars[m].session = d}
    <3>1. H \subseteq 1 .. Len(s.bars) /\ j \in H /\ k \in H /\ j # k
      BY <1>1, <2>1
    <3> HIDE DEF H, s
    <3>2. Cardinality(H) > 1
      BY <1>1, <3>1, TwoOfMany
    <3>3. QED
      BY <3>2 DEF RowCount, H
  <2>3. d \in Sessions(s)
    BY <1>1 DEF Sessions
  <2>4. e \in SessionIntegrity(qq.sources)
    <3>1. e \in Duplicates(i, s)
      BY <2>2, <2>3 DEF Duplicates
    <3>2. QED
      BY <3>1 DEF SessionIntegrity
  <2>5. e.finding.code \in INELIGIBLE_FINDING_CODES /\ e.finding.from = d /\ e.finding.to = d
    BY DEF At, Finding, INELIGIBLE_FINDING_CODES
  <2>6. Touches(d, d, qq.from, qq.to)
    BY <1>3 DEF Touches
  <2> HIDE DEF e
  <2>7. QED
    BY <1>4, <2>4, <2>5, <2>6
<1>6. ~(day(j) > day(k))
  <2>1. SUFFICES ASSUME day(j) > day(k) PROVE FALSE
    OBVIOUS
  <2> DEFINE T == {m \in 1 .. Len(s.bars) : j < m /\ m <= k /\ day(m) <= day(k)}
             p == Least(T)
  <2>2. p \in T /\ \A m \in T : p <= m
    <3>1. k \in T /\ T \subseteq Nat
      BY <1>1, <1>2
    <3> HIDE DEF T
    <3>2. QED
      BY <3>1, LeastExists
  <2> HIDE DEF p
  <2>3. p \in 1 .. Len(s.bars) /\ p - 1 \in 1 .. Len(s.bars) /\ j < p /\ p <= k
        /\ day(p) <= day(k)
    BY <1>1, <2>2
  <2>10. day(p) \in Int /\ day(p - 1) \in Int /\ day(k) \in Int
    BY <1>1, <1>2, <2>3
  <2>4. day(p - 1) > day(k)
    <3>1. CASE p - 1 = j
      BY <2>1, <3>1
    <3>2. CASE p - 1 # j
      <4>1. p - 1 \notin T
        BY <2>2, <2>3
      <4>2. j < p - 1 /\ p - 1 <= k
        BY <1>1, <2>3, <3>2
      <4>3. ~(day(p - 1) <= day(k))
        BY <2>3, <4>1, <4>2
      <4>4. QED
        <5> HIDE DEF day
        <5>1. QED
          BY <2>10, <4>3
    <3>3. QED
      BY <3>1, <3>2
  <2> DEFINE e == At(<<i, p, p>>, Finding("non_monotonic_sessions", "", s.bars[p].session,
                                          s.bars[p - 1].session, {Evidence(s)}, ""))
  <2>5. day(p - 1) > day(p) /\ p > 1
    <3>1. p > 1
      BY <1>1, <2>3
    <3> HIDE DEF day
    <3>2. QED
      BY <2>3, <2>4, <2>10, <3>1
  <2>6. e \in SessionIntegrity(qq.sources)
    <3>1. e \in Inversions(i, s)
      BY <1>1, <2>3, <2>5 DEF Inversions
    <3>2. QED
      BY <3>1 DEF SessionIntegrity
  <2>7. /\ e.finding.code \in INELIGIBLE_FINDING_CODES
        /\ e.finding.from = day(p) /\ e.finding.to = day(p - 1)
    BY DEF At, Finding, INELIGIBLE_FINDING_CODES
  <2>8. Touches(day(p), day(p - 1), qq.from, qq.to)
    <3> HIDE DEF day
    <3>1. QED
      BY <1>3, <2>3, <2>4, <2>10 DEF Touches
  <2> HIDE DEF e
  <2>9. QED
    BY <1>4, <2>6, <2>7, <2>8
<1>7. QED
  BY <1>1, <1>2, <1>5, <1>6

\* With one row of a session, that row stands for it.
LEMMA StableBarOfRow ==
    ASSUME NEW qq \in Query, EvaluateRange(qq) = "eligible", NEW i \in DOMAIN qq.sources,
           NEW k \in RowsIn(qq.sources[i], qq.from, qq.to)
    PROVE  StableBar(qq.sources[i], qq.sources[i].bars[k].session) = qq.sources[i].bars[k]
<1> DEFINE s == qq.sources[i]
           d == s.bars[k].session
           here == {m \in DOMAIN s.bars : s.bars[m].session = d}
<1>1. /\ DOMAIN s.bars \subseteq Nat /\ k \in DOMAIN s.bars
      /\ \A m \in DOMAIN s.bars : s.bars[m].session \in Nat
  BY RowFacts DEF RowsIn
<1>2. ASSUME NEW m \in here PROVE m = k
  <2>1. m \in RowsIn(s, qq.from, qq.to)
    BY DEF RowsIn
  <2>2. ~(m < k) /\ ~(k < m)
    BY <1>1, <2>1, RowsIncrease
  <2>3. QED
    BY <1>1, <2>2
<1>3. here = {k}
  BY <1>1, <1>2
<1>4. StableBar(s, d) =
          s.bars[CHOOSE m \in here : \A j \in here \ {m} :
                     \/ TextRank(s.bars[m]) < TextRank(s.bars[j])
                     \/ TextRank(s.bars[m]) = TextRank(s.bars[j]) /\ m < j]
  BY DEF StableBar
<1>5. (CHOOSE m \in here : \A j \in here \ {m} :
                     \/ TextRank(s.bars[m]) < TextRank(s.bars[j])
                     \/ TextRank(s.bars[m]) = TextRank(s.bars[j]) /\ m < j) = k
  <2> HIDE DEF here, s
  <2>1. QED
    BY <1>3
<1>6. QED
  BY <1>4, <1>5

LEMMA ScaledUp ==
    ASSUME NEW c \in Nat, NEW p \in Nat, NEW w \in Nat, NEW x \in Nat, p <= w, c <= p * x
    PROVE  c <= w * x
<1>1. w * x = p * x + (w - p) * x
  OBVIOUS
<1>2. (w - p) * x >= 0 /\ p * x \in Int /\ (w - p) * x \in Int
  OBVIOUS
<1>3. QED
  BY <1>1, <1>2

LEMMA DifferenceFacts ==
    ASSUME NEW x \in Int, NEW y \in Int, NEW bps \in Nat
    PROVE  /\ DifferenceAtMost(x, x, bps)
           /\ DifferenceAtMost(y, x, bps) => DifferenceAtMost(x, y, bps)
<1>1. Abs(x) \in Nat /\ Abs(y) \in Nat /\ Abs(x - y) = Abs(y - x) /\ Abs(x - x) = 0
  BY DEF Abs
<1>2. bps * (Abs(x) + Abs(x)) \in Nat
  BY <1>1
<1>3. Abs(x) + Abs(y) = Abs(y) + Abs(x)
  BY <1>1
<1>4. DifferenceAtMost(x, x, bps)
  BY <1>1, <1>2 DEF DifferenceAtMost
<1>5. DifferenceAtMost(y, x, bps) => DifferenceAtMost(x, y, bps)
  BY <1>1, <1>3 DEF DifferenceAtMost
<1>6. QED
  BY <1>4, <1>5

\* Two sources agree on the sessions of an eligible range, in this order.
LEMMA OrderedAgreement ==
    ASSUME NEW qq \in Query, qq.from <= qq.to, EvaluateRange(qq) = "eligible",
           NEW i \in DOMAIN qq.sources, NEW j \in DOMAIN qq.sources, i < j,
           NEW k \in RowsIn(qq.sources[i], qq.from, qq.to),
           NEW l \in RowsIn(qq.sources[j], qq.from, qq.to),
           qq.sources[i].bars[k].session = qq.sources[j].bars[l].session,
           NEW f \in Field
    PROVE  DifferenceAtMost(qq.sources[i].bars[k][f], qq.sources[j].bars[l][f],
                            qq.policy.warnBps)
<1> DEFINE s == qq.sources[i]
           t == qq.sources[j]
           x == s.bars[k][f]
           y == t.bars[l][f]
           d == s.bars[k].session
           p == <<i, j>>
<1>1. SUFFICES ASSUME ~DifferenceAtMost(x, y, qq.policy.warnBps) PROVE FALSE
  OBVIOUS
<1>2. x \in Int /\ y \in Int /\ x # NaN /\ y # NaN
  <2>1. s.bars[k] \in Bar /\ t.bars[l] \in Bar
    BY QueryFacts DEF RowsIn, Source
  <2>2. x \in Value /\ y \in Value
    BY <2>1 DEF Bar, Field
  <2>3. x # NaN /\ y # NaN
    BY RowsWellFormed DEF WellFormed
  <2>4. QED
    BY <2>2, <2>3 DEF Value
<1>3. qq.policy.passBps \in Nat /\ qq.policy.warnBps \in Nat
      /\ qq.policy.passBps <= qq.policy.warnBps
  BY DEF Query, Policy
<1>4. ~DifferenceAtMost(x, y, qq.policy.passBps)
  <2>1. Abs(x - y) \in Nat /\ Abs(x) \in Nat /\ Abs(y) \in Nat
    BY <1>2 DEF Abs
  <2>2. Abs(x - y) * 20000 \in Nat /\ Abs(x) + Abs(y) \in Nat
    BY <2>1
  <2> HIDE DEF x, y
  <2>3. QED
    BY <1>1, <1>3, <2>2, ScaledUp DEF DifferenceAtMost
<1>5. StableBar(s, d) = s.bars[k] /\ StableBar(t, d) = t.bars[l]
  BY StableBarOfRow
<1>6. Differ(s, t, d, f, qq.policy.passBps) /\ Differ(s, t, d, f, qq.policy.warnBps)
  BY <1>1, <1>2, <1>4, <1>5 DEF Differ
<1> DEFINE e == At(<<p, <<d, f>>>>,
                   Finding("cross_source_field_conflict", f, d, d, {Evidence(s), Evidence(t)},
                           {StableBar(s, d)[f], StableBar(t, d)[f]}))
           Code(z) == IF Differ(s, t, z[1], z[2], qq.policy.warnBps)
                      THEN "cross_source_field_conflict" ELSE "cross_source_field_warning"
           Emission(z) == At(<<p, z>>, Finding(Code(z), z[2], z[1], z[1],
                                 {Evidence(s), Evidence(t)},
                                 {StableBar(s, z[1])[z[2]], StableBar(t, z[1])[z[2]]}))
           Sites == {z \in (Sessions(s) \cap Sessions(t)) \X Field :
                        Differ(s, t, z[1], z[2], qq.policy.passBps)}
<1>7. e \in Disagreements(p, s, t, qq.policy)
  <2>1. d \in Sessions(s) \cap Sessions(t)
    BY DEF Sessions, RowsIn
  <2>2. <<d, f>> \in Sites
    <3> HIDE DEF d, s, t
    <3>1. QED
      BY <1>6, <2>1
  <2>3. Disagreements(p, s, t, qq.policy) = {Emission(z) : z \in Sites}
    BY DEF Disagreements
  <2>4. e = Emission(<<d, f>>)
    <3> HIDE DEF d, s, t
    <3>1. QED
      BY <1>6
  <2> HIDE DEF e, Emission, Sites
  <2>5. QED
    BY <2>2, <2>3, <2>4
<1>8. e \in Steady(qq)
  <2>1. qq.adjustment = "raw"
    BY NothingIncomplete
  <2>2. p \in {z \in Pairs(qq.sources) : qq.adjustment = "raw"}
    BY <2>1 DEF Pairs
  <2>3. e \in CrossSourceOhlc(qq.sources, qq.policy, qq.adjustment)
    <3> HIDE DEF e
    <3>1. qq.sources[p[1]] = s /\ qq.sources[p[2]] = t
      OBVIOUS
    <3>2. QED
      BY <1>7, <2>2, <3>1 DEF CrossSourceOhlc
  <2> HIDE DEF e
  <2>4. QED
    BY <2>3 DEF Steady
<1>9. /\ e.finding.code \in INELIGIBLE_FINDING_CODES
      /\ e.finding.from = d /\ e.finding.to = d
  BY DEF At, Finding, INELIGIBLE_FINDING_CODES
<1>10. Touches(d, d, qq.from, qq.to)
  BY DEF Touches, RowsIn
<1> HIDE DEF e
<1>11. QED
  BY <1>8, <1>9, <1>10, Silent

\* Sources are counted by provider: no two are of one authority.
LEMMA ProvidersCounted ==
    ASSUME NEW qq \in Query, Admissible(qq), NEW d
    PROVE  Cardinality(Providers(qq, d)) = SourceCount(qq.sources, d)
<1> DEFINE I == {i \in DOMAIN qq.sources : d \in Sessions(qq.sources[i])}
           A == [i \in I |-> Authority[qq.sources[i].provider]]
           T == Providers(qq, d)
<1>1. DOMAIN qq.sources = 1 .. Len(qq.sources) /\ Len(qq.sources) \in Nat
  BY DEF Query
<1>2. IsFiniteSet(I)
  <2>1. IsFiniteSet(1 .. Len(qq.sources))
    BY <1>1, FS_Interval
  <2>2. QED
    BY <1>1, <2>1, FS_Subset
<1>3. A \in [I -> T] /\ \A x \in T : \E i \in I : A[i] = x
  BY DEF Providers
<1>4. ASSUME NEW i \in I, NEW j \in I, A[i] = A[j] PROVE i = j
  <2>1. SUFFICES ASSUME i < j \/ j < i PROVE FALSE
    BY <1>1
  <2>2. <<i, j>> \in Pairs(qq.sources) \/ <<j, i>> \in Pairs(qq.sources)
    BY <2>1 DEF Pairs
  <2>3. QED
    BY <1>4, <2>2 DEF Admissible
<1>5. ExistsBijection(I, T)
  <2> HIDE DEF A, I, T
  <2>1. A \in Bijection(I, T)
    BY <1>3, <1>4 DEF Bijection, Injection, Surjection, IsInjective
  <2>2. QED
    BY <2>1 DEF ExistsBijection
<1>6. Cardinality(T) = Cardinality(I)
  <2> HIDE DEF I, T
  <2>1. QED
    BY <1>2, <1>5, FS_Bijection
<1>7. QED
  BY <1>6 DEF SourceCount
-----------------------------------------------------------------------------
\* The specification.

\* What a step keeps by itself: the query is well-formed, and a report has one
\* of the three verdicts.
Shape == /\ q \in Query
         /\ trusted \in BOOLEAN
         /\ report # None => report.eligibility \in {"eligible", "ineligible", "incomplete"}

LEMMA ShapeKept == Spec => []Shape
<1>1. Init => Shape
  BY InputAssumption DEF Init, Shape
<1>2. Shape /\ [Next]_vars => Shape'
  <2>1. SUFFICES ASSUME Shape, [Next]_vars PROVE Shape'
    OBVIOUS
  <2> USE <2>1 DEF Shape
  <2>2. ASSUME NEW s \in Sources, AddSource(s) PROVE Shape'
    <3>1. s \in Source
      BY InputAssumption
    <3>2. q'.sources = Append(q.sources, s) /\ q' \in Query
      <4>1. q.sources \in Seq(Source)
        BY DEF Query
      <4>2. Append(q.sources, s) \in Seq(Source)
        BY <3>1, <4>1
      <4>3. q' = [q EXCEPT !.sources = Append(q.sources, s)]
        BY <2>2 DEF AddSource
      <4>4. QED
        BY <4>2, <4>3 DEF Query
    <3>3. QED
      BY <2>2, <3>2 DEF AddSource
  <2>3. ASSUME NEW i \in DOMAIN q.sources, NEW b \in Bars, AddBar(i, b) PROVE Shape'
    <3> DEFINE s == q.sources[i]
               t == [s EXCEPT !.bars = Append(@, b)]
    <3>1. q.sources \in Seq(Source) /\ s \in Source /\ b \in Bar
      BY <2>3, InputAssumption DEF Query
    <3>2. t \in Source
      <4>1. s.bars \in Seq(Bar) /\ Append(s.bars, b) \in Seq(Bar)
        BY <3>1 DEF Source
      <4>2. QED
        BY <3>1, <4>1 DEF Source
    <3>3. q' = [q EXCEPT !.sources = [q.sources EXCEPT ![i] = t]]
      BY <2>3 DEF AddBar
    <3> HIDE DEF t
    <3>4. [q.sources EXCEPT ![i] = t] \in Seq(Source)
      BY <3>1, <3>2
    <3>5. q' \in Query
      BY <3>3, <3>4 DEF Query
    <3>6. QED
      BY <2>3, <3>5 DEF AddBar
  <2>10. ASSUME NEW i \in DOMAIN q.sources, NEW k \in DOMAIN q.sources[i].bars,
                NEW b \in Bars, Renormalize(i, k, b)
         PROVE  Shape'
    <3> DEFINE s == q.sources[i]
               t == [s EXCEPT !.bars[k] = b]
    <3>1. q.sources \in Seq(Source) /\ s \in Source /\ b \in Bar
      BY <2>10, InputAssumption DEF Query
    <3>2. t \in Source
      <4>1. s.bars \in Seq(Bar) /\ [s.bars EXCEPT ![k] = b] \in Seq(Bar)
        BY <3>1 DEF Source
      <4>2. QED
        BY <3>1, <4>1 DEF Source
    <3>3. q' = [q EXCEPT !.sources = [q.sources EXCEPT ![i] = t]]
      BY <2>10 DEF Renormalize
    <3> HIDE DEF t
    <3>4. [q.sources EXCEPT ![i] = t] \in Seq(Source)
      BY <3>1, <3>2
    <3>5. q' \in Query
      BY <3>3, <3>4 DEF Query
    <3>6. QED
      BY <2>10, <3>5 DEF Renormalize
  <2>4. ASSUME NEW x \in [previous : Sources, current : Sources], AddRevision(x) PROVE Shape'
    <3>1. x \in RevisionPair
      BY InputAssumption DEF RevisionPair
    <3>2. q' \in Query
      BY <2>4, <3>1 DEF AddRevision, Query
    <3>3. QED
      BY <2>4, <3>2 DEF AddRevision
  <2>5. ASSUME NEW base \in Queries, Restate(base) PROVE Shape'
    <3> DEFINE back == [i \in DOMAIN q.sources |-> q.sources[Len(q.sources) + 1 - i]]
    <3>1. base \in Query /\ q.sources \in Seq(Source) /\ q.revisions \subseteq RevisionPair
      BY InputAssumption DEF Query
    <3>2. \A i \in DOMAIN q.sources : Len(q.sources) + 1 - i \in DOMAIN q.sources
      BY <3>1
    <3>3. back \in Seq(Source)
      BY <3>1, <3>2
    <3>4. q' = [base EXCEPT !.sources = back, !.revisions = q.revisions]
      BY <2>5 DEF Restate
    <3>5. q' \in Query
      BY <3>1, <3>3, <3>4 DEF Query
    <3>6. QED
      BY <2>5, <3>5 DEF Restate
  <2>6. CASE Evaluate
    <3>1. Report(q).eligibility = EvaluateRange(q)
      BY DEF Report
    <3>2. EvaluateRange(q) \in {"eligible", "ineligible", "incomplete"}
      BY DEF EvaluateRange
    <3>3. QED
      BY <2>6, <3>1, <3>2 DEF Evaluate
  <2>7. CASE VerifyReport
    BY <2>7 DEF VerifyReport
  <2>8. CASE UNCHANGED vars
    BY <2>8 DEF vars
  <2>9. QED
    BY <2>2, <2>3, <2>4, <2>5, <2>6, <2>7, <2>8, <2>10 DEF Next
<1>3. QED
  BY <1>1, <1>2, PTL DEF Spec

\* The findings about the range itself: of a schema, of the coverage and of the
\* adjustment.
LEMMA RangeDated ==
    ASSUME NEW qq \in Query, qq.from <= qq.to
    PROVE  Dated(OfRange(qq))
<1> DEFINE sources == qq.sources
<1>1. ASSUME NEW e \in SchemaContract(sources, qq.policy, qq.from, qq.to)
      PROVE  ValidFinding(e.finding)
  <2>1. PICK i \in DOMAIN sources :
            LET days == Sessions(sources[i])
            IN  e = At(<<i>>, Finding("unsupported_normalized_schema", "",
                           IF days = {} THEN qq.from ELSE Least(days),
                           IF days = {} THEN qq.to ELSE Greatest(days),
                           {Evidence(sources[i])}, sources[i].schema))
    BY DEF SchemaContract
  <2> DEFINE days == Sessions(sources[i])
  <2>2. CASE days = {}
    <3>1. e.finding.from = qq.from /\ e.finding.to = qq.to
      BY <2>1, <2>2 DEF At, Finding
    <3>2. QED
      BY <3>1, QueryFacts DEF ValidFinding
  <2>3. CASE days # {}
    <3>1. e.finding.from = Least(days) /\ e.finding.to = Greatest(days)
      BY <2>1, <2>3 DEF At, Finding
    <3>2. days \subseteq Day /\ days \subseteq Nat /\ days \subseteq 0 .. MaxDay
      BY QueryFacts, DayFacts DEF Day
    <3> HIDE DEF days
    <3>3. /\ Least(days) \in days /\ Greatest(days) \in days
          /\ \A d \in days : Least(days) <= d
      BY <2>3, <3>2, LeastExists, GreatestExists, DomainAssumption
    <3>4. QED
      BY <3>1, <3>2, <3>3 DEF ValidFinding
  <2>4. QED
    BY <2>2, <2>3
<1>2. ASSUME NEW e \in RequestedRangeCoverage(sources, qq.expected, qq.from, qq.to, qq.policy)
      PROVE  ValidFinding(e.finding)
  <2> DEFINE S == InRange(qq.expected, qq.from, qq.to)
             missing == {d \in S : SourceCount(sources, d) = 0}
             unverified == {d \in S : 0 < SourceCount(sources, d)
                                      /\ SourceCount(sources, d) < qq.policy.minSources}
             none == At(<<>>, Finding("no_expected_sessions_in_requested_range", "",
                                      qq.from, qq.to, AllEvidence(sources), ""))
  <2>1. S \subseteq Day /\ missing \subseteq S /\ unverified \subseteq S
    BY QueryFacts DEF InRange
  <2>2. \/ e \in Shortfall("insufficient_session_coverage", S, missing, sources)
        \/ e \in Shortfall("insufficient_source_verification", S, unverified, sources)
        \/ e = none
    BY DEF RequestedRangeCoverage
  <2>3. CASE e = none
    <3>1. e.finding.from = qq.from /\ e.finding.to = qq.to
      BY <2>3 DEF At, Finding
    <3>2. QED
      BY <3>1, QueryFacts DEF ValidFinding
  <2> HIDE DEF S, missing, unverified, none
  <2>4. ASSUME NEW code, NEW M, M \subseteq S, e \in Shortfall(code, S, M, sources)
        PROVE  ValidFinding(e.finding)
    <3>1. PICK r \in MissingIntervals(S, M) :
              e = At(<<code, r>>, Finding(code, "", r[1], r[2], AllEvidence(sources), ""))
      BY <2>4 DEF Shortfall
    <3>2. e.finding.from = r[1] /\ e.finding.to = r[2]
      BY <3>1 DEF At, Finding
    <3>3. r[1] \in M /\ r[2] \in M /\ r[1] <= r[2]
      BY DEF MissingIntervals
    <3>4. QED
      BY <2>1, <2>4, <3>2, <3>3 DEF ValidFinding
  <2>5. QED
    BY <2>1, <2>2, <2>3, <2>4
<1>3. ASSUME NEW e \in AdjustmentSemantics(qq.adjustment, qq.from, qq.to)
      PROVE  ValidFinding(e.finding)
  <2>1. e = At(<<>>, Finding("unsupported_adjustment_semantics", "", qq.from, qq.to,
                             {}, qq.adjustment))
    BY DEF AdjustmentSemantics
  <2>2. e.finding.from = qq.from /\ e.finding.to = qq.to
    BY <2>1 DEF At, Finding
  <2>3. QED
    BY <2>2, QueryFacts DEF ValidFinding
<1>4. QED
  BY <1>1, <1>2, <1>3 DEF OfRange, Dated, ValidFinding

\* No check makes a finding that its validator refuses: inversions run from the
\* earlier day, gaps and shortfalls from their first.
LEMMA FindingsValid ==
    ASSUME NEW qq \in Query, Admissible(qq)
    PROVE  \A f \in AllFindings(CheckResults(qq)) : ValidFinding(f)
<1>1. Dated(Steady(qq)) /\ Dated(OfRange(qq))
  BY SteadyDated, RangeDated DEF Admissible
<1>2. AllFindings(CheckResults(qq)) = Findings(Steady(qq)) \cup Findings(OfRange(qq))
  BY FindingsSplit
<1>3. QED
  BY <1>1, <1>2 DEF Dated, Findings, ValidFinding

\* Every reachable query is well-formed, a report has one of the three verdicts,
\* and every finding of an admissible query is one that QualityFinding accepts.
THEOREM TypeCorrect == Spec => []TypeOK
<1>1. Shape => TypeOK
  BY FindingsValid DEF Shape, TypeOK
<1>2. QED
  BY <1>1, ShapeKept, PTL

\* Every part of an eligible range that has a session is eligible: a release
\* may support any schedule inside its eligible interval.
THEOREM SubrangeTheorem == Spec => []SubrangeStaysEligible
<1>1. TypeOK => SubrangeStaysEligible
  <2>1. SUFFICES ASSUME q \in Query, EvaluateRange(q) = "eligible",
                        NEW a \in q.from .. q.to, NEW b \in q.from .. q.to,
                        a <= b, InRange(q.expected, a, b) # {}
                 PROVE  EvaluateRange(Over(q, a, b)) = "eligible"
    BY DEF TypeOK, SubrangeStaysEligible
  <2>2. a \in Day /\ b \in Day /\ q.from <= a /\ b <= q.to
    BY <2>1, QueryFacts, DomainAssumption DEF Day
  <2>3. QED
    BY <2>1, <2>2, Inherited
<1>2. QED
  BY <1>1, TypeCorrect, PTL

\* An eligible verdict holds nothing against any session of its range:
\* sessions exist, enough independent providers cover each, the rows in
\* range are well-formed calendar days in order, and the providers agree.
THEOREM SoundTheorem == Spec => []EligibleIsSound
<1>1. TypeOK => EligibleIsSound
  <2>1. SUFFICES ASSUME q \in Query, Admissible(q), EvaluateRange(q) = "eligible"
                 PROVE  Promise(q)
    BY DEF TypeOK, EligibleIsSound, Reported
  <2>2. q.from <= q.to
    BY <2>1 DEF Admissible
  <2>3. InRange(q.expected, q.from, q.to) # {} /\ q.adjustment = "raw"
    BY <2>1, <2>2, NothingIncomplete
  <2>4. ASSUME NEW d \in InRange(q.expected, q.from, q.to)
        PROVE  Cardinality(Providers(q, d)) >= q.policy.minSources
    <3>1. SourceCount(q.sources, d) # 0
          /\ ~(0 < SourceCount(q.sources, d) /\ SourceCount(q.sources, d) < q.policy.minSources)
      BY <2>1, <2>2, NothingIncomplete
    <3>2. SourceCount(q.sources, d) \in Nat
      <4>1. IsFiniteSet(1 .. Len(q.sources)) /\ DOMAIN q.sources = 1 .. Len(q.sources)
        BY <2>1, FS_Interval DEF Query
      <4>2. {i \in DOMAIN q.sources : d \in Sessions(q.sources[i])} \in SUBSET (1 .. Len(q.sources))
        BY <4>1
      <4>3. IsFiniteSet({i \in DOMAIN q.sources : d \in Sessions(q.sources[i])})
        BY <4>1, <4>2, FS_Subset
      <4>4. QED
        BY <4>3, FS_CardinalityType DEF SourceCount
    <3>3. q.policy.minSources \in Nat
      BY <2>1 DEF Query, Policy
    <3>4. QED
      BY <2>1, <3>1, <3>2, <3>3, ProvidersCounted
  <2>5. ASSUME NEW i \in DOMAIN q.sources
        PROVE  LET s == q.sources[i]
                   rows == RowsIn(s, q.from, q.to)
               IN  /\ rows # {} => s.schema \in q.policy.schemas
                   /\ \A k \in rows : WellFormed(s.bars[k]) /\ s.bars[k].session \in q.expected
                   /\ \A j, k \in rows : j < k => s.bars[j].session < s.bars[k].session
    BY <2>1, SchemaAccepted, RowsWellFormed, RowsIncrease
  <2>6. ASSUME NEW i \in DOMAIN q.sources, NEW j \in DOMAIN q.sources,
               NEW k \in RowsIn(q.sources[i], q.from, q.to),
               NEW l \in RowsIn(q.sources[j], q.from, q.to),
               q.sources[i].bars[k].session = q.sources[j].bars[l].session,
               NEW f \in Field
        PROVE  DifferenceAtMost(q.sources[i].bars[k][f], q.sources[j].bars[l][f],
                                q.policy.warnBps)
    <3> DEFINE x == q.sources[i].bars[k][f]
               y == q.sources[j].bars[l][f]
    <3>1. x \in Int /\ y \in Int
      <4>1. q.sources[i].bars[k] \in Bar /\ q.sources[j].bars[l] \in Bar
        BY <2>1, QueryFacts DEF RowsIn, Source
      <4>2. x # NaN /\ y # NaN
        BY <2>1, RowsWellFormed DEF WellFormed
      <4>3. QED
        BY <4>1, <4>2 DEF Bar, Field, Value
    <3>2. q.policy.warnBps \in Nat
      BY <2>1 DEF Query, Policy
    <3>3. CASE i < j
      BY <2>1, <2>2, <2>6, <3>3, OrderedAgreement
    <3>4. CASE j < i
      <4>1. DifferenceAtMost(y, x, q.policy.warnBps)
        BY <2>1, <2>2, <2>6, <3>4, OrderedAgreement
      <4> HIDE DEF x, y
      <4>2. DifferenceAtMost(x, y, q.policy.warnBps)
        BY <3>1, <3>2, <4>1, DifferenceFacts
      <4>3. QED
        BY <4>2 DEF x, y
    <3>5. CASE i = j
      <4>1. DOMAIN q.sources[i].bars \subseteq Nat
        BY <2>1, QueryFacts DEF Source
      <4>2. ASSUME NEW m \in RowsIn(q.sources[i], q.from, q.to),
                   NEW n \in RowsIn(q.sources[i], q.from, q.to), m < n
            PROVE  q.sources[i].bars[m].session # q.sources[i].bars[n].session
        <5>1. q.sources[i].bars[m].session \in Nat /\ q.sources[i].bars[n].session \in Nat
          BY <2>1, RowFacts DEF RowsIn
        <5>2. q.sources[i].bars[m].session < q.sources[i].bars[n].session
          BY <2>1, <4>2, RowsIncrease
        <5>3. QED
          BY <5>1, <5>2
      <4>3. k = l
        <5>1. k \in Nat /\ l \in Nat
          BY <3>5, <4>1 DEF RowsIn
        <5>2. ~(k < l) /\ ~(l < k)
          BY <2>6, <3>5, <4>2
        <5>3. QED
          BY <5>1, <5>2
      <4>4. x = y
        BY <3>5, <4>3
      <4> HIDE DEF x, y
      <4>5. DifferenceAtMost(x, y, q.policy.warnBps)
        BY <3>1, <3>2, <4>4, DifferenceFacts
      <4>6. QED
        BY <4>5 DEF x, y
    <3>6. QED
      BY <2>1, <3>3, <3>4, <3>5 DEF Query
  <2>7. QED
    BY <2>3, <2>4, <2>5, <2>6 DEF Promise, DifferenceAtMost
<1>2. QED
  BY <1>1, TypeCorrect, PTL
-----------------------------------------------------------------------------
\* What a report pins.

\* A report that is held was made of the query in made, and a trusted report
\* is the one that the query of the caller yields now.
MadeOf == /\ report # None => made \in Query /\ report = Report(made)
          /\ trusted => report # None /\ report = Report(q)

\* A source is its evidence and its normalized rows.
LEMMA IdentityIsWhole ==
    ASSUME NEW s \in Source, NEW t \in Source, Identity(s) = Identity(t)
    PROVE  s = t
<1>1. Evidence(s) = Evidence(t) /\ NormalizedInput(s) = NormalizedInput(t)
  BY DEF Identity
<1>2. /\ s.provider = t.provider /\ s.request = t.request /\ s.capture = t.capture
      /\ s.schema = t.schema /\ s.normalizer = t.normalizer /\ s.bars = t.bars
  BY <1>1 DEF Evidence, NormalizedInput
<1>3. QED
  BY <1>2 DEF Source

LEMMA ContextPinsSources ==
    ASSUME NEW p \in Query, NEW r \in Query, Context(p) = Context(r)
    PROVE  {p.sources[i] : i \in DOMAIN p.sources} \subseteq {r.sources[i] : i \in DOMAIN r.sources}
<1>1. SUFFICES ASSUME NEW i \in DOMAIN p.sources
               PROVE  \E j \in DOMAIN r.sources : p.sources[i] = r.sources[j]
  OBVIOUS
<1>2. {Identity(p.sources[k]) : k \in DOMAIN p.sources}
        = {Identity(r.sources[k]) : k \in DOMAIN r.sources}
  BY DEF Context
<1>3. PICK j \in DOMAIN r.sources : Identity(p.sources[i]) = Identity(r.sources[j])
  BY <1>2
<1>4. p.sources[i] \in Source /\ r.sources[j] \in Source
  BY QueryFacts
<1>5. QED
  BY <1>3, <1>4, IdentityIsWhole

LEMMA ContextPinsRevisions ==
    ASSUME NEW p \in Query, NEW r \in Query, Context(p) = Context(r)
    PROVE  p.revisions \subseteq r.revisions
<1>1. SUFFICES ASSUME NEW x \in p.revisions PROVE x \in r.revisions
  OBVIOUS
<1> DEFINE Pair(z) == <<Identity(z.previous), Identity(z.current)>>
<1>2. {Pair(z) : z \in p.revisions} = {Pair(z) : z \in r.revisions}
  BY DEF Context
<1>3. PICK y \in r.revisions : Pair(x) = Pair(y)
  <2> HIDE DEF Pair
  <2>1. QED
    BY <1>2
<1>4. Identity(x.previous) = Identity(y.previous) /\ Identity(x.current) = Identity(y.current)
  BY <1>3
<1>5. x \in RevisionPair /\ y \in RevisionPair
  BY DEF Query
<1>6. x.previous = y.previous /\ x.current = y.current
  BY <1>4, <1>5, IdentityIsWhole DEF RevisionPair
<1>7. x = y
  BY <1>5, <1>6 DEF RevisionPair
<1>8. QED
  BY <1>7

\* verify_report() returns only for the inputs the report was made from, in
\* whatever order: same question, same captures, same rows, same revisions.
THEOREM TrustTheorem == Spec => []TrustPinsInputs
<1>1. Init => MadeOf
  BY DEF Init, MadeOf
<1>2. TypeOK /\ MadeOf /\ [Next]_vars => MadeOf'
  <2>1. SUFFICES ASSUME TypeOK, MadeOf, [Next]_vars PROVE MadeOf'
    OBVIOUS
  <2>2. ASSUME ~trusted', report' = report, made' = made PROVE MadeOf'
    BY <2>1, <2>2 DEF MadeOf
  <2>3. CASE Evaluate
    BY <2>1, <2>3 DEF Evaluate, MadeOf, TypeOK
  <2>4. CASE VerifyReport
    BY <2>1, <2>4 DEF VerifyReport, MadeOf
  <2>5. CASE UNCHANGED vars
    BY <2>1, <2>5 DEF vars, MadeOf
  <2>6. QED
    BY <2>1, <2>2, <2>3, <2>4, <2>5
    DEF Next, AddSource, AddBar, Renormalize, AddRevision, Restate
<1>3. TypeOK /\ MadeOf => TrustPinsInputs
  <2>1. SUFFICES ASSUME q \in Query, made \in Query, Report(made) = Report(q)
                 PROVE  /\ SameQuestion(made, q)
                        /\ {q.sources[i] : i \in DOMAIN q.sources}
                             = {made.sources[i] : i \in DOMAIN made.sources}
                        /\ q.revisions = made.revisions
    BY DEF TypeOK, MadeOf, TrustPinsInputs
  <2>2. Context(made) = Context(q)
    <3>1. Report(made).context = Context(made) /\ Report(q).context = Context(q)
      BY DEF Report
    <3>2. QED
      BY <2>1, <3>1
  <2>3. SameQuestion(made, q)
    BY <2>2 DEF Context, SameQuestion
  <2>4. {q.sources[i] : i \in DOMAIN q.sources} = {made.sources[i] : i \in DOMAIN made.sources}
    <3>1. {q.sources[i] : i \in DOMAIN q.sources} \subseteq {made.sources[i] : i \in DOMAIN made.sources}
      BY <2>1, <2>2, ContextPinsSources
    <3>2. {made.sources[i] : i \in DOMAIN made.sources} \subseteq {q.sources[i] : i \in DOMAIN q.sources}
      BY <2>1, <2>2, ContextPinsSources
    <3>3. QED
      BY <3>1, <3>2
  <2>5. q.revisions = made.revisions
    BY <2>1, <2>2, ContextPinsRevisions
  <2>6. QED
    BY <2>3, <2>4, <2>5
<1>4. QED
  BY <1>1, <1>2, <1>3, TypeCorrect, PTL DEF Spec

-----------------------------------------------------------------------------
\* Releases.

\* The intervals of a release are eligible ranges of the query.
LEMMA IssuedAreEligible ==
    ASSUME NEW qq, NEW x \in Issued(qq), NEW k \in DOMAIN x
    PROVE  \E r \in Eligible(qq) : x[k].first = r[1] /\ x[k].last = r[2]
<1> DEFINE intervals == {Interval(qq, r[1], r[2]) : r \in Eligible(qq)}
<1>1. x \in {<<i>> : i \in intervals} \cup {<<i, j>> : i, j \in intervals}
  BY DEF Issued
<1>2. x[k] \in intervals
  <2> HIDE DEF intervals
  <2>1. CASE \E i \in intervals : x = <<i>>
    BY <2>1
  <2>2. CASE \E i, j \in intervals : x = <<i, j>>
    BY <2>2
  <2>3. QED
    BY <1>1, <2>1, <2>2
<1>3. PICK r \in Eligible(qq) : x[k] = Interval(qq, r[1], r[2])
  BY <1>2
<1>4. QED
  BY <1>3 DEF Interval

\* A release lets an experiment consume only sessions of a stretch without a
\* gap: over any schedule that it supports, the suite finds every expected day
\* eligible, the days the schedule skips and those of another report included.
THEOREM ReleasedIsEligible == Spec => []ConsumedIsEligible
<1>1. TypeOK => ConsumedIsEligible
  <2>1. SUFFICES ASSUME q \in Query, NEW s \in Requests(q), NEW x \in Issued(q),
                        Supports(x, ScheduleOf(q), s)
                 PROVE  <<Least(s.sessions), Greatest(s.sessions)>> \in Eligible(q)
    BY DEF TypeOK, ConsumedIsEligible
  <2> DEFINE a == Least(s.sessions)
             b == Greatest(s.sessions)
  <2>2. /\ s.sessions \subseteq InRange(q.expected, q.from, q.to) /\ s.sessions # {}
    BY <2>1 DEF Requests, IsSchedule
  <2>3. s.sessions \subseteq Nat /\ s.sessions \subseteq 0 .. MaxDay
    BY <2>1, <2>2, QueryFacts, DayFacts DEF InRange, Day
  <2>4. a \in s.sessions /\ b \in s.sessions /\ a <= b
    BY <2>2, <2>3, LeastExists, GreatestExists, DomainAssumption
  <2> HIDE DEF a, b
  <2>5. PICK k \in DOMAIN x : x[k].first <= a /\ b <= x[k].last
    BY <2>1 DEF Supports, a, b
  <2>6. PICK r \in Eligible(q) : x[k].first = r[1] /\ x[k].last = r[2]
    BY <2>1, IssuedAreEligible
  <2>7. /\ r[1] \in q.from .. q.to /\ r[2] \in q.from .. q.to
        /\ EvaluateRange(Over(q, r[1], r[2])) = "eligible"
    BY <2>6 DEF Eligible
  <2>8. /\ a \in Day /\ b \in Day /\ a \in q.expected
        /\ q.from <= a /\ a <= q.to /\ q.from <= b /\ b <= q.to
    BY <2>2, <2>3, <2>4 DEF InRange, Day
  <2>9. r[1] \in Day /\ r[2] \in Day
    BY <2>1, <2>7, QueryFacts, DomainAssumption DEF Day
  <2>10. Over(Over(q, r[1], r[2]), a, b) = Over(q, a, b)
    BY <2>1 DEF Over, Query
  <2>11. InRange(q.expected, a, b) # {}
    BY <2>3, <2>4, <2>8 DEF InRange
  <2>12. EvaluateRange(Over(q, a, b)) = "eligible"
    <3> DEFINE o == Over(q, r[1], r[2])
    <3>1. o \in Query /\ o.from = r[1] /\ o.to = r[2] /\ o.expected = q.expected
      BY <2>1, <2>9, OverFacts
    <3> HIDE DEF o
    <3>2. EvaluateRange(Over(o, a, b)) = "eligible"
      BY <2>4, <2>5, <2>6, <2>7, <2>8, <2>11, <3>1, Inherited DEF o
    <3>3. QED
      BY <2>10, <3>2 DEF o
  <2>13. a \in q.from .. q.to /\ b \in q.from .. q.to
    BY <2>1, <2>3, <2>4, <2>8, QueryFacts, DayFacts
  <2>14. QED
    BY <2>4, <2>12, <2>13 DEF Eligible, a, b
<1>2. QED
  BY <1>1, TypeCorrect, PTL
-----------------------------------------------------------------------------
\* Adjacent ranges.

LEMMA LeastToGreatest ==
    ASSUME NEW T, T \subseteq Day, T # {}
    PROVE  Least(T) <= Greatest(T)
<1>1. T \subseteq Nat /\ T \subseteq 0 .. MaxDay
  BY DayFacts DEF Day
<1>2. Least(T) \in T /\ \A y \in T : y <= Greatest(T)
  BY <1>1, LeastExists, GreatestExists, DomainAssumption
<1>3. QED
  BY <1>2

\* What touches a range touches one of the parts it is cut into.
LEMMA TouchesPart ==
    ASSUME NEW x \in Int, NEW y \in Int, x <= y, NEW a \in Int, NEW b \in Int, NEW m \in Int,
           Touches(x, y, a, b)
    PROVE  Touches(x, y, a, m) \/ Touches(x, y, m + 1, b)
BY DEF Touches

\* Two adjacent ranges that are eligible are eligible as one, for any query.
LEMMA Joined ==
    ASSUME NEW qq \in Query, NEW a \in Day, NEW m \in Day, NEW n \in Day, NEW b \in Day,
           a = qq.from, b = qq.to, n = m + 1, a <= m, n <= b,
           EvaluateRange(Over(qq, a, m)) = "eligible",
           EvaluateRange(Over(qq, n, b)) = "eligible"
    PROVE  EvaluateRange(qq) = "eligible"
<1> DEFINE l == Over(qq, a, m)
           r == Over(qq, n, b)
<1>0. a \in Int /\ b \in Int /\ m \in Int /\ n \in Int
  BY DayFacts
<1>1. /\ l \in Query /\ l.from = a /\ l.to = m /\ l.sources = qq.sources
      /\ l.expected = qq.expected /\ l.policy = qq.policy /\ l.adjustment = qq.adjustment
      /\ l.revisions = qq.revisions
  BY DEF Over, Query
<1>2. /\ r \in Query /\ r.from = n /\ r.to = b /\ r.sources = qq.sources
      /\ r.expected = qq.expected /\ r.policy = qq.policy /\ r.adjustment = qq.adjustment
      /\ r.revisions = qq.revisions
  BY DEF Over, Query
<1>3. EvaluateRange(l) = "eligible" /\ EvaluateRange(r) = "eligible"
  OBVIOUS
<1> HIDE DEF l, r
<1>4. Steady(l) = Steady(qq) /\ Steady(r) = Steady(qq)
  BY <1>1, <1>2 DEF Steady
<1>5. SUFFICES ASSUME NEW f \in AllFindings(CheckResults(qq)),
                      Touches(f.from, f.to, qq.from, qq.to)
               PROVE  ~IsBlocking(f) /\ ~IsIncomplete(qq, f)
  BY EligibleMeans
<1>6. ASSUME f \in AllFindings(CheckResults(l)), f \in AllFindings(CheckResults(r)),
             f.from \in Day, f.to \in Day, f.from <= f.to
      PROVE  ~IsBlocking(f) /\ ~IsIncomplete(qq, f)
  <2>1. Touches(f.from, f.to, l.from, l.to) \/ Touches(f.from, f.to, r.from, r.to)
    <3>1. f.from \in Int /\ f.to \in Int
      BY <1>6, DayFacts
    <3>2. QED
      BY <1>0, <1>1, <1>2, <1>3, <1>5, <1>6, <3>1, TouchesPart
  <2>2. \/ ~IsBlocking(f) /\ ~IsIncomplete(l, f)
        \/ ~IsBlocking(f) /\ ~IsIncomplete(r, f)
    BY <1>3, <1>6, <2>1, EligibleMeans
  <2>3. QED
    BY <1>1, <1>2, <2>2 DEF IsIncomplete
<1>7. CASE f \in Findings(Steady(qq))
  <2>1. f \in AllFindings(CheckResults(l)) /\ f \in AllFindings(CheckResults(r))
    BY <1>4, <1>7, FindingsSplit
  <2>2. f.from \in Day /\ f.to \in Day /\ f.from <= f.to
    BY <1>7, SteadyDated DEF Findings, Dated
  <2>3. QED
    BY <1>6, <2>1, <2>2
<1>8. CASE f \in Findings(OfRange(qq))
  <2>1. PICK e \in OfRange(qq) : f = e.finding
    BY <1>8 DEF Findings
  <2>2. CASE e \in SchemaContract(qq.sources, qq.policy, qq.from, qq.to)
    <3>1. PICK i \in DOMAIN qq.sources :
              LET days == Sessions(qq.sources[i])
              IN  /\ qq.sources[i].schema \notin qq.policy.schemas
                  /\ e.finding.code = "unsupported_normalized_schema"
                  /\ days # {} => /\ e.finding.from = Least(days) /\ e.finding.to = Greatest(days)
                                  /\ e.finding.from \in Day /\ e.finding.to \in Day
                                  /\ \A from, to : e \in SchemaContract(qq.sources, qq.policy, from, to)
      BY <1>0, <2>2, SchemaSpan
    <3>2. Sessions(qq.sources[i]) # {}
      BY <1>1, <1>3, <3>1, NothingIncomplete
    <3>3. e \in OfRange(l) /\ e \in OfRange(r)
      <4>1. /\ e \in SchemaContract(l.sources, l.policy, l.from, l.to)
            /\ e \in SchemaContract(r.sources, r.policy, r.from, r.to)
        BY <1>1, <1>2, <3>1, <3>2
      <4>2. QED
        BY <4>1 DEF OfRange
    <3>4. f \in AllFindings(CheckResults(l)) /\ f \in AllFindings(CheckResults(r))
      BY <2>1, <3>3, FindingsSplit DEF Findings
    <3>5. f.from \in Day /\ f.to \in Day /\ f.from <= f.to
      BY <2>1, <3>1, <3>2, QueryFacts, LeastToGreatest
    <3>6. QED
      BY <1>6, <3>4, <3>5
  <2>3. CASE e \in RequestedRangeCoverage(qq.sources, qq.expected, qq.from, qq.to, qq.policy)
    <3> DEFINE S == InRange(qq.expected, qq.from, qq.to)
               missing == {d \in S : SourceCount(qq.sources, d) = 0}
               unverified == {d \in S : 0 < SourceCount(qq.sources, d)
                                        /\ SourceCount(qq.sources, d) < qq.policy.minSources}
    <3>1. S = InRange(l.expected, l.from, l.to) \cup InRange(r.expected, r.from, r.to)
      <4>1. \A d \in qq.expected : d \in Int
        BY QueryFacts, DayFacts
      <4>2. \A d \in qq.expected :
               (a <= d /\ d <= b) <=> (a <= d /\ d <= m) \/ (n <= d /\ d <= b)
        BY <1>0, <4>1
      <4>3. QED
        BY <1>1, <1>2, <4>2 DEF InRange
    <3>2. S # {} /\ missing = {} /\ unverified = {}
      <4>1. InRange(l.expected, l.from, l.to) # {}
            /\ \A d \in InRange(l.expected, l.from, l.to) :
                  /\ SourceCount(qq.sources, d) # 0
                  /\ ~(0 < SourceCount(qq.sources, d)
                       /\ SourceCount(qq.sources, d) < qq.policy.minSources)
        BY <1>1, <1>3, NothingIncomplete
      <4>2. \A d \in InRange(r.expected, r.from, r.to) :
                  /\ SourceCount(qq.sources, d) # 0
                  /\ ~(0 < SourceCount(qq.sources, d)
                       /\ SourceCount(qq.sources, d) < qq.policy.minSources)
        BY <1>2, <1>3, NothingIncomplete
      <4> HIDE DEF S
      <4>3. QED
        BY <3>1, <4>1, <4>2
    <3>3. \/ e \in Shortfall("insufficient_session_coverage", S, missing, qq.sources)
          \/ e \in Shortfall("insufficient_source_verification", S, unverified, qq.sources)
      BY <2>3, <3>2 DEF RequestedRangeCoverage
    <3>4. ASSUME NEW code PROVE Shortfall(code, S, {}, qq.sources) = {}
      BY DEF Shortfall, MissingIntervals
    <3>5. QED
      BY <3>2, <3>3, <3>4
  <2>4. CASE e \in AdjustmentSemantics(qq.adjustment, qq.from, qq.to)
    BY <1>1, <1>3, <2>4, NothingIncomplete DEF AdjustmentSemantics
  <2>5. QED
    BY <2>1, <2>2, <2>3, <2>4 DEF OfRange
<1>9. QED
  BY <1>5, <1>7, <1>8, FindingsSplit

\* Two adjacent ranges that are eligible are eligible as one: no evidence is
\* lost at the seam.
THEOREM JoinTheorem == Spec => []AdjacentRangesJoin
<1>1. TypeOK => AdjacentRangesJoin
  <2>1. SUFFICES ASSUME q \in Query, NEW m \in q.from .. (q.to - 1),
                        EvaluateRange(Over(q, q.from, m)) = "eligible",
                        EvaluateRange(Over(q, m + 1, q.to)) = "eligible"
                 PROVE  EvaluateRange(q) = "eligible"
    BY DEF TypeOK, AdjacentRangesJoin
  <2> DEFINE n == m + 1
  <2>2. m \in Day /\ n \in Day /\ q.from <= m /\ n <= q.to
    BY <2>1, QueryFacts, DomainAssumption DEF Day
  <2>3. q.from \in Day /\ q.to \in Day
    BY <2>1, QueryFacts
  <2>4. EvaluateRange(Over(q, n, q.to)) = "eligible" /\ n = m + 1
    BY <2>1
  <2> HIDE DEF n
  <2>5. QED
    BY <2>1, <2>2, <2>3, <2>4, Joined
<1>2. QED
  BY <1>1, TypeCorrect, PTL
-----------------------------------------------------------------------------
\* More evidence never clears a range.

LEMMA IneligibleMeans ==
    ASSUME NEW qq
    PROVE  EvaluateRange(qq) = "ineligible" <=>
             \E f \in AllFindings(CheckResults(qq)) :
                Touches(f.from, f.to, qq.from, qq.to) /\ IsBlocking(f)
<1> DEFINE relevant == {f \in AllFindings(CheckResults(qq)) :
                            Touches(f.from, f.to, qq.from, qq.to)}
<1>1. EvaluateRange(qq) = IF \E f \in relevant : IsBlocking(f) THEN "ineligible"
                          ELSE IF \E f \in relevant : IsIncomplete(qq, f) THEN "incomplete"
                          ELSE "eligible"
  BY DEF EvaluateRange
<1>2. EvaluateRange(qq) = "ineligible" <=> \E f \in relevant : IsBlocking(f)
  <2> HIDE DEF relevant
  <2>1. QED
    BY <1>1
<1>3. QED
  BY <1>2

Blocks(e) == e.finding.code \in INELIGIBLE_FINDING_CODES

\* e has an equal in what another query finds: it blocks the same days.
Echoed(e, emissions) ==
    \E x \in emissions : /\ Blocks(x)
                         /\ x.finding.from = e.finding.from
                         /\ x.finding.to = e.finding.to

\* The coverage check has three codes.
LEMMA RangeCodes ==
    ASSUME NEW qq, NEW e \in RequestedRangeCoverage(qq.sources, qq.expected, qq.from, qq.to, qq.policy)
    PROVE  e.finding.code \in {"insufficient_session_coverage", "insufficient_source_verification",
                               "no_expected_sessions_in_requested_range"}
<1>1. ASSUME NEW code, NEW S, NEW M, e \in Shortfall(code, S, M, qq.sources)
      PROVE  e.finding.code = code
  <2>1. PICK r \in MissingIntervals(S, M) :
            e = At(<<code, r>>, Finding(code, "", r[1], r[2], AllEvidence(qq.sources), ""))
    BY <1>1 DEF Shortfall
  <2>2. QED
    BY <2>1 DEF At, Finding
<1> DEFINE S == InRange(qq.expected, qq.from, qq.to)
           missing == {d \in S : SourceCount(qq.sources, d) = 0}
           unverified == {d \in S : 0 < SourceCount(qq.sources, d)
                                    /\ SourceCount(qq.sources, d) < qq.policy.minSources}
           none == At(<<>>, Finding("no_expected_sessions_in_requested_range", "",
                                    qq.from, qq.to, AllEvidence(qq.sources), ""))
<1>2. \/ e \in Shortfall("insufficient_session_coverage", S, missing, qq.sources)
      \/ e \in Shortfall("insufficient_source_verification", S, unverified, qq.sources)
      \/ e = none
  BY DEF RequestedRangeCoverage
<1>3. none.finding.code = "no_expected_sessions_in_requested_range"
  BY DEF At, Finding
<1> HIDE DEF S, missing, unverified, none
<1>4. QED
  BY <1>1, <1>2, <1>3

\* The findings about the range itself do not block.
LEMMA RangeNeverBlocks ==
    ASSUME NEW qq, NEW e \in OfRange(qq)
    PROVE  ~Blocks(e)
<1>1. CASE e \in SchemaContract(qq.sources, qq.policy, qq.from, qq.to)
  <2>1. PICK site, from, to, by, seen :
            e = At(site, Finding("unsupported_normalized_schema", "", from, to, by, seen))
    BY <1>1 DEF SchemaContract
  <2>2. QED
    BY <2>1 DEF At, Finding, Blocks, INELIGIBLE_FINDING_CODES
<1>2. CASE e \in RequestedRangeCoverage(qq.sources, qq.expected, qq.from, qq.to, qq.policy)
  <2>1. e.finding.code \in {"insufficient_session_coverage", "insufficient_source_verification",
                            "no_expected_sessions_in_requested_range"}
    BY <1>2, RangeCodes
  <2>2. QED
    BY <2>1 DEF Blocks, INELIGIBLE_FINDING_CODES
<1>3. CASE e \in AdjustmentSemantics(qq.adjustment, qq.from, qq.to)
  <2>1. e = At(<<>>, Finding("unsupported_adjustment_semantics", "", qq.from, qq.to,
                             {}, qq.adjustment))
    BY <1>3 DEF AdjustmentSemantics
  <2>2. QED
    BY <2>1 DEF At, Finding, Blocks, INELIGIBLE_FINDING_CODES
<1>4. QED
  BY <1>1, <1>2, <1>3 DEF OfRange

\* Nor do four of the checks that do not look at the range.
LEMMA WhatBlocks ==
    ASSUME NEW qq, NEW e \in Steady(qq), Blocks(e)
    PROVE  e \in UNION {SessionIntegrity(qq.sources), OhlcIntegrity(qq.sources),
                        VolumeIntegrity(qq.sources), CalendarMembership(qq.sources, qq.expected),
                        CrossSourceOhlc(qq.sources, qq.policy, qq.adjustment)}
<1>1. e \notin SourceCoverage(qq.sources, qq.expected)
  <2>1. SUFFICES ASSUME NEW i \in DOMAIN qq.sources, e \in Gaps(i, qq.sources[i], qq.expected)
                 PROVE  FALSE
    BY DEF SourceCoverage
  <2>2. e.finding.code = "source_missing_session"
    <3>1. PICK site, from, to, by, seen : e = At(site, Finding("source_missing_session", "", from, to, by, seen))
      BY <2>1 DEF Gaps
    <3>2. QED
      BY <3>1 DEF At, Finding
  <2>3. QED
    BY <2>2 DEF Blocks, INELIGIBLE_FINDING_CODES
<1>2. e \notin CrossSourceOverlap(qq.sources)
  <2>1. SUFFICES ASSUME NEW p, NEW s, NEW t, e \in Unshared(p, s, t)
                 PROVE  FALSE
    BY DEF CrossSourceOverlap
  <2>2. e.finding.code = "cross_source_session_missing"
    <3>1. PICK site, from, to, by, seen : e = At(site, Finding("cross_source_session_missing", "", from, to, by, seen))
      BY <2>1 DEF Unshared
    <3>2. QED
      BY <3>1 DEF At, Finding
  <2>3. QED
    BY <2>2 DEF Blocks, INELIGIBLE_FINDING_CODES
<1>3. e \notin ProviderRevision(qq.revisions)
  <2>1. SUFFICES ASSUME NEW x \in qq.revisions, e \in Revised(x)
                 PROVE  FALSE
    BY DEF ProviderRevision
  <2>2. e.finding.code = "provider_history_revision"
    <3>1. PICK site, from, to, by, seen : e = At(site, Finding("provider_history_revision", "", from, to, by, seen))
      BY <2>1 DEF Revised
    <3>2. QED
      BY <3>1 DEF At, Finding
  <2>3. QED
    BY <2>2 DEF Blocks, INELIGIBLE_FINDING_CODES
<1>4. QED
  BY <1>1, <1>2, <1>3 DEF Steady

\* A query that extends another has its rows at their places.
LEMMA RowsStay ==
    ASSUME NEW p \in Query, NEW r \in Query, Extends(p, r), NEW i \in DOMAIN p.sources
    PROVE  /\ i \in DOMAIN r.sources
           /\ DOMAIN p.sources[i].bars \subseteq DOMAIN r.sources[i].bars
           /\ \A k \in DOMAIN p.sources[i].bars : p.sources[i].bars[k] = r.sources[i].bars[k]
<1> DEFINE s == p.sources[i]
           t == r.sources[i]
           n == Len(s.bars)
<1>1. i \in DOMAIN r.sources /\ n <= Len(t.bars) /\ s = [t EXCEPT !.bars = SubSeq(@, 1, n)]
  BY DEF Extends
<1>2. s \in Source /\ t \in Source
  BY <1>1, QueryFacts
<1> HIDE DEF s, t
<1>3. s.bars \in Seq(Bar) /\ t.bars \in Seq(Bar)
  BY <1>2 DEF Source
<1>4. s.bars = SubSeq(t.bars, 1, n)
  BY <1>1, <1>2 DEF Source
<1>5. DOMAIN s.bars \subseteq DOMAIN t.bars /\ \A k \in DOMAIN s.bars : s.bars[k] = t.bars[k]
  BY <1>1, <1>3, <1>4
<1>6. QED
  BY <1>1, <1>5 DEF s, t

\* The rows of a session, by their places.
PlacesOf(s, d) == {k \in DOMAIN s.bars : s.bars[k].session = d}

LEMMA CountGrows ==
    ASSUME NEW p \in Query, NEW r \in Query, Extends(p, r), NEW i \in DOMAIN p.sources, NEW d
    PROVE  /\ PlacesOf(p.sources[i], d) \subseteq PlacesOf(r.sources[i], d)
           /\ RowCount(p.sources[i], d) > 1 => RowCount(r.sources[i], d) > 1
<1> DEFINE H == PlacesOf(p.sources[i], d)
           G == PlacesOf(r.sources[i], d)
<1>1. H \subseteq G
  BY RowsStay DEF PlacesOf
<1>2. r.sources[i].bars \in Seq(Bar) /\ G \subseteq 1 .. Len(r.sources[i].bars)
  BY RowsStay, QueryFacts DEF Source, PlacesOf
<1>3. IsFiniteSet(G)
  <2>1. Len(r.sources[i].bars) \in Nat
    BY <1>2
  <2>3. IsFiniteSet(1 .. Len(r.sources[i].bars))
    BY <2>1, FS_Interval
  <2> HIDE DEF G
  <2>2. QED
    BY <1>2, <2>3, FS_Subset
<1>4. /\ Cardinality(H) \in Nat /\ Cardinality(G) \in Nat
      /\ Cardinality(H) <= Cardinality(G)
  <2> HIDE DEF H, G
  <2>1. IsFiniteSet(H)
    BY <1>1, <1>3, FS_Subset
  <2>2. QED
    BY <1>1, <1>3, <2>1, FS_Subset, FS_CardinalityType
<1>5. RowCount(p.sources[i], d) = Cardinality(H) /\ RowCount(r.sources[i], d) = Cardinality(G)
  BY DEF RowCount, PlacesOf
<1>6. QED
  BY <1>1, <1>4, <1>5

\* A session with two rows is reported.
LEMMA DuplicateIsFound ==
    ASSUME NEW qq \in Query, NEW i \in DOMAIN qq.sources, NEW d \in Sessions(qq.sources[i]),
           RowCount(qq.sources[i], d) > 1, NEW e, e.finding.from = d, e.finding.to = d
    PROVE  Echoed(e, SessionIntegrity(qq.sources))
<1> DEFINE s == qq.sources[i]
           x == At(<<i, d>>, Finding("duplicate_session", "", d, d, {Evidence(s)}, RowCount(s, d)))
<1>1. x \in Duplicates(i, s)
  BY DEF Duplicates
<1>2. x \in SessionIntegrity(qq.sources)
  BY <1>1 DEF SessionIntegrity
<1>3. x.finding.from = d /\ x.finding.to = d /\ Blocks(x)
  BY DEF At, Finding, Blocks, INELIGIBLE_FINDING_CODES
<1> HIDE DEF x
<1>4. QED
  BY <1>2, <1>3 DEF Echoed

LEMMA SessionsStay ==
    ASSUME NEW p \in Query, NEW r \in Query, Extends(p, r), NEW i \in DOMAIN p.sources
    PROVE  Sessions(p.sources[i]) \subseteq Sessions(r.sources[i])
BY RowsStay DEF Sessions

LEMMA IntegrityEchoes ==
    ASSUME NEW p \in Query, NEW r \in Query, Extends(p, r), NEW e \in SessionIntegrity(p.sources)
    PROVE  Echoed(e, SessionIntegrity(r.sources))
<1>1. PICK i \in DOMAIN p.sources :
          e \in Duplicates(i, p.sources[i]) \cup Inversions(i, p.sources[i])
  BY DEF SessionIntegrity
<1> DEFINE s == p.sources[i]
           t == r.sources[i]
<1>2. i \in DOMAIN r.sources
  BY RowsStay
<1>3. CASE e \in Duplicates(i, s)
  <2>1. PICK d \in Sessions(s) :
            /\ RowCount(s, d) > 1
            /\ e = At(<<i, d>>, Finding("duplicate_session", "", d, d, {Evidence(s)}, RowCount(s, d)))
    BY <1>3 DEF Duplicates
  <2>2. e.finding.from = d /\ e.finding.to = d
    BY <2>1 DEF At, Finding
  <2>3. d \in Sessions(t) /\ RowCount(t, d) > 1
    BY <2>1, SessionsStay, CountGrows
  <2>4. QED
    BY <1>2, <2>2, <2>3, DuplicateIsFound
<1>4. CASE e \in Inversions(i, s)
  <2>1. PICK k \in DOMAIN s.bars :
            /\ k > 1 /\ s.bars[k - 1].session > s.bars[k].session
            /\ e = At(<<i, k, k>>, Finding("non_monotonic_sessions", "", s.bars[k].session,
                                           s.bars[k - 1].session, {Evidence(s)}, ""))
    BY <1>4 DEF Inversions
  <2>2. k - 1 \in DOMAIN s.bars
    <3>1. s.bars \in Seq(Bar)
      BY QueryFacts DEF Source
    <3>2. DOMAIN s.bars = 1 .. Len(s.bars) /\ Len(s.bars) \in Nat
      BY <3>1
    <3>3. k \in 1 .. Len(s.bars) /\ k > 1
      BY <2>1, <3>2
    <3>4. QED
      BY <3>2, <3>3
  <2>3. k \in DOMAIN t.bars /\ t.bars[k] = s.bars[k] /\ t.bars[k - 1] = s.bars[k - 1]
    BY <2>2, RowsStay
  <2> DEFINE x == At(<<i, k, k>>, Finding("non_monotonic_sessions", "", t.bars[k].session,
                                          t.bars[k - 1].session, {Evidence(t)}, ""))
  <2>4. x \in Inversions(i, t)
    BY <2>1, <2>3 DEF Inversions
  <2>5. x \in SessionIntegrity(r.sources)
    <3> HIDE DEF x
    <3>1. QED
      BY <1>2, <2>4 DEF SessionIntegrity
  <2>6. x.finding.from = e.finding.from /\ x.finding.to = e.finding.to /\ Blocks(x)
    BY <2>1, <2>3 DEF At, Finding, Blocks, INELIGIBLE_FINDING_CODES
  <2> HIDE DEF x
  <2>7. QED
    BY <2>5, <2>6 DEF Echoed
<1>5. QED
  BY <1>1, <1>3, <1>4

LEMMA RowAtStays ==
    ASSUME NEW p \in Query, NEW r \in Query, Extends(p, r), NEW x \in Rows(p.sources)
    PROVE  x \in Rows(r.sources) /\ RowAt(r.sources, x) = RowAt(p.sources, x)
<1>1. PICK i \in DOMAIN p.sources : \E k \in DOMAIN p.sources[i].bars : x = <<i, k>>
  BY DEF Rows
<1>2. QED
  BY <1>1, RowsStay DEF Rows, RowAt

\* A check of single rows finds in a longer query what it found in them.
LEMMA RowEchoes ==
    ASSUME NEW p \in Query, NEW r \in Query, Extends(p, r), NEW f, NEW g,
           \A x \in Rows(p.sources) : f[x] = g[x],
           NEW e \in PerRow(p.sources, f), Blocks(e)
    PROVE  Echoed(e, PerRow(r.sources, g))
<1> DEFINE of(sources, faults, x) ==
               {At(<<x, y>>, Finding(y[1], y[2], RowAt(sources, x).session,
                                     RowAt(sources, x).session,
                                     {Evidence(sources[x[1]])}, y[3])) : y \in faults[x]}
<1>1. /\ PerRow(p.sources, f) = UNION {of(p.sources, f, x) : x \in Rows(p.sources)}
      /\ PerRow(r.sources, g) = UNION {of(r.sources, g, x) : x \in Rows(r.sources)}
  BY DEF PerRow
<1>2. PICK x \in Rows(p.sources) : e \in of(p.sources, f, x)
  <2> HIDE DEF of
  <2>1. QED
    BY <1>1
<1>3. PICK y \in f[x] :
          e = At(<<x, y>>, Finding(y[1], y[2], RowAt(p.sources, x).session,
                                   RowAt(p.sources, x).session,
                                   {Evidence(p.sources[x[1]])}, y[3]))
  BY <1>2
<1>4. x \in Rows(r.sources) /\ RowAt(r.sources, x) = RowAt(p.sources, x)
  BY RowAtStays
<1> DEFINE z == At(<<x, y>>, Finding(y[1], y[2], RowAt(r.sources, x).session,
                                     RowAt(r.sources, x).session,
                                     {Evidence(r.sources[x[1]])}, y[3]))
<1>5. z \in of(r.sources, g, x)
  BY <1>3
<1>6. /\ z.finding.from = e.finding.from /\ z.finding.to = e.finding.to
      /\ z.finding.code = e.finding.code
  BY <1>3, <1>4 DEF At, Finding
<1> HIDE DEF z, of
<1>7. z \in PerRow(r.sources, g)
  BY <1>1, <1>4, <1>5
<1>8. QED
  BY <1>6, <1>7 DEF Echoed, Blocks

\* The row that stands for a session is the same, unless it has two rows now.
LEMMA StableBarStays ==
    ASSUME NEW p \in Query, NEW r \in Query, Extends(p, r), NEW i \in DOMAIN p.sources,
           NEW d \in Sessions(p.sources[i]), ~(RowCount(r.sources[i], d) > 1)
    PROVE  StableBar(p.sources[i], d) = StableBar(r.sources[i], d)
<1> DEFINE s == p.sources[i]
           t == r.sources[i]
           Best(u, H) == CHOOSE k \in H : \A j \in H \ {k} :
                             \/ TextRank(u.bars[k]) < TextRank(u.bars[j])
                             \/ TextRank(u.bars[k]) = TextRank(u.bars[j]) /\ k < j
<1>1. PICK k \in DOMAIN s.bars : s.bars[k].session = d
  BY DEF Sessions
<1>2. k \in PlacesOf(s, d) /\ k \in PlacesOf(t, d) /\ PlacesOf(s, d) \subseteq PlacesOf(t, d)
  BY <1>1, CountGrows DEF PlacesOf
<1>3. ASSUME NEW j \in PlacesOf(t, d) PROVE j = k
  <2>1. t.bars \in Seq(Bar) /\ PlacesOf(t, d) \subseteq 1 .. Len(t.bars) /\ Len(t.bars) \in Nat
    BY RowsStay, QueryFacts DEF Source, PlacesOf
  <2>2. RowCount(t, d) = Cardinality(PlacesOf(t, d))
    BY DEF RowCount, PlacesOf
  <2>3. QED
    BY <1>2, <1>3, <2>1, <2>2, TwoOfMany
<1>4. PlacesOf(s, d) = {k} /\ PlacesOf(t, d) = {k}
  BY <1>2, <1>3
<1>5. StableBar(s, d) = s.bars[Best(s, PlacesOf(s, d))] /\ StableBar(t, d) = t.bars[Best(t, PlacesOf(t, d))]
  BY DEF StableBar, PlacesOf
<1>6. \A u : Best(u, {k}) = k
  OBVIOUS
<1>7. s.bars[k] = t.bars[k]
  BY RowsStay
<1> HIDE DEF Best, s, t
<1>8. QED
  BY <1>4, <1>5, <1>6, <1>7 DEF s, t

\* A conflict of two providers stays one, or one of the two has two rows.
LEMMA ConflictEchoes ==
    ASSUME NEW p \in Query, NEW r \in Query, Extends(p, r),
           NEW e \in CrossSourceOhlc(p.sources, p.policy, p.adjustment), Blocks(e)
    PROVE  \/ Echoed(e, CrossSourceOhlc(r.sources, r.policy, r.adjustment))
           \/ Echoed(e, SessionIntegrity(r.sources))
<1>1. r.policy = p.policy /\ r.adjustment = p.adjustment
  BY DEF Extends, SameQuestion
<1>2. PICK x \in {y \in Pairs(p.sources) : p.adjustment = "raw"} :
          e \in Disagreements(x, p.sources[x[1]], p.sources[x[2]], p.policy)
  BY DEF CrossSourceOhlc
<1>3. PICK i \in DOMAIN p.sources, j \in DOMAIN p.sources : x = <<i, j>> /\ i < j
  BY DEF Pairs
<1> DEFINE l == p.sources[i]
           m == p.sources[j]
           ll == r.sources[i]
           mm == r.sources[j]
           bps == p.policy.passBps
           Code(a, b, z) == IF Differ(a, b, z[1], z[2], p.policy.warnBps)
                            THEN "cross_source_field_conflict" ELSE "cross_source_field_warning"
           Emission(a, b, z) ==
               At(<<x, z>>, Finding(Code(a, b, z), z[2], z[1], z[1],
                                    {Evidence(a), Evidence(b)},
                                    {StableBar(a, z[1])[z[2]], StableBar(b, z[1])[z[2]]}))
           Sites(a, b) == {z \in (Sessions(a) \cap Sessions(b)) \X Field :
                               Differ(a, b, z[1], z[2], bps)}
<1>4. \A a, b : Disagreements(x, a, b, p.policy) = {Emission(a, b, z) : z \in Sites(a, b)}
  BY DEF Disagreements
<1>5. PICK z \in Sites(l, m) : e = Emission(l, m, z)
  <2>1. e \in Disagreements(x, l, m, p.policy)
    BY <1>2, <1>3
  <2> HIDE DEF Emission, Sites, l, m
  <2>2. QED
    BY <1>4, <2>1
<1>6. PICK d \in Sessions(l) \cap Sessions(m), f \in Field :
          z = <<d, f>> /\ Differ(l, m, d, f, bps)
  <2> HIDE DEF l, m, bps
  <2>1. /\ z \in (Sessions(l) \cap Sessions(m)) \X Field
        /\ Differ(l, m, z[1], z[2], bps)
    BY <1>5
  <2>2. PICK d \in Sessions(l) \cap Sessions(m), f \in Field : z = <<d, f>>
    BY <2>1
  <2>3. QED
    BY <2>1, <2>2
<1>7. e.finding.from = d /\ e.finding.to = d /\ e.finding.code = Code(l, m, z)
  BY <1>5, <1>6 DEF At, Finding
<1>8. i \in DOMAIN r.sources /\ j \in DOMAIN r.sources /\ d \in Sessions(ll) \cap Sessions(mm)
  BY RowsStay, SessionsStay
<1>9. CASE RowCount(ll, d) > 1 \/ RowCount(mm, d) > 1
  BY <1>7, <1>8, <1>9, DuplicateIsFound
<1>10. CASE ~(RowCount(ll, d) > 1) /\ ~(RowCount(mm, d) > 1)
  <2>1. StableBar(ll, d) = StableBar(l, d) /\ StableBar(mm, d) = StableBar(m, d)
    BY <1>6, <1>10, StableBarStays
  <2>2. \A b : Differ(ll, mm, d, f, b) = Differ(l, m, d, f, b)
    BY <2>1 DEF Differ
  <2>3. z \in Sites(ll, mm) /\ Code(ll, mm, z) = Code(l, m, z)
    <3> HIDE DEF l, m, ll, mm
    <3>1. QED
      BY <1>6, <1>8, <2>2
  <2>4. Emission(ll, mm, z) \in Disagreements(x, r.sources[x[1]], r.sources[x[2]], r.policy)
    <3> HIDE DEF Emission, Sites, Code
    <3>1. r.sources[x[1]] = ll /\ r.sources[x[2]] = mm
      BY <1>3
    <3>2. QED
      BY <1>1, <1>4, <2>3, <3>1
  <2>5. x \in {y \in Pairs(r.sources) : r.adjustment = "raw"}
    BY <1>1, <1>2, <1>3, <1>8 DEF Pairs
  <2>6. Emission(ll, mm, z) \in CrossSourceOhlc(r.sources, r.policy, r.adjustment)
    <3> HIDE DEF Emission
    <3>1. QED
      BY <2>4, <2>5 DEF CrossSourceOhlc
  <2>7. /\ Emission(ll, mm, z).finding.from = d /\ Emission(ll, mm, z).finding.to = d
        /\ Emission(ll, mm, z).finding.code = Code(ll, mm, z)
    BY <1>6 DEF At, Finding
  <2> HIDE DEF Emission, Code
  <2>8. QED
    BY <1>7, <2>3, <2>6, <2>7 DEF Echoed, Blocks
<1>11. QED
  BY <1>9, <1>10

LEMMA SteadyEchoes ==
    ASSUME NEW p \in Query, NEW r \in Query, Extends(p, r), NEW e \in Steady(p), Blocks(e)
    PROVE  Echoed(e, Steady(r))
<1>1. CASE e \in SessionIntegrity(p.sources)
  <2>1. Echoed(e, SessionIntegrity(r.sources))
    BY <1>1, IntegrityEchoes
  <2>2. QED
    BY <2>1 DEF Echoed, Steady
<1>2. CASE e \in OhlcIntegrity(p.sources)
  <2>1. Echoed(e, OhlcIntegrity(r.sources))
    <3> DEFINE f == [x \in Rows(p.sources) |-> OhlcFaults(RowAt(p.sources, x))]
               g == [x \in Rows(r.sources) |-> OhlcFaults(RowAt(r.sources, x))]
    <3>1. \A x \in Rows(p.sources) : f[x] = g[x]
      BY RowAtStays
    <3>2. e \in PerRow(p.sources, f) /\ OhlcIntegrity(r.sources) = PerRow(r.sources, g)
      BY <1>2 DEF OhlcIntegrity
    <3> HIDE DEF f, g
    <3>3. QED
      BY <3>1, <3>2, RowEchoes
  <2>2. QED
    BY <2>1 DEF Echoed, Steady
<1>3. CASE e \in VolumeIntegrity(p.sources)
  <2>1. Echoed(e, VolumeIntegrity(r.sources))
    <3> DEFINE f == [x \in Rows(p.sources) |-> VolumeFaults(RowAt(p.sources, x))]
               g == [x \in Rows(r.sources) |-> VolumeFaults(RowAt(r.sources, x))]
    <3>1. \A x \in Rows(p.sources) : f[x] = g[x]
      BY RowAtStays
    <3>2. e \in PerRow(p.sources, f) /\ VolumeIntegrity(r.sources) = PerRow(r.sources, g)
      BY <1>3 DEF VolumeIntegrity
    <3> HIDE DEF f, g
    <3>3. QED
      BY <3>1, <3>2, RowEchoes
  <2>2. QED
    BY <2>1 DEF Echoed, Steady
<1>4. CASE e \in CalendarMembership(p.sources, p.expected)
  <2>1. Echoed(e, CalendarMembership(r.sources, r.expected))
    <3> DEFINE f == [x \in Rows(p.sources) |->
                        IF RowAt(p.sources, x).session \in p.expected
                        THEN {} ELSE {<<"unexpected_session", "", "">>}]
               g == [x \in Rows(r.sources) |->
                        IF RowAt(r.sources, x).session \in r.expected
                        THEN {} ELSE {<<"unexpected_session", "", "">>}]
    <3>0. /\ r.expected = p.expected
          /\ \A x \in Rows(p.sources) :
                x \in Rows(r.sources) /\ RowAt(r.sources, x) = RowAt(p.sources, x)
      BY RowAtStays DEF Extends, SameQuestion
    <3>1. \A x \in Rows(p.sources) : f[x] = g[x]
      BY <3>0
    <3>2. /\ e \in PerRow(p.sources, f)
          /\ CalendarMembership(r.sources, r.expected) = PerRow(r.sources, g)
      BY <1>4 DEF CalendarMembership
    <3> HIDE DEF f, g
    <3>3. QED
      BY <3>1, <3>2, RowEchoes
  <2>2. QED
    BY <2>1 DEF Echoed, Steady
<1>5. CASE e \in CrossSourceOhlc(p.sources, p.policy, p.adjustment)
  <2>1. \/ Echoed(e, CrossSourceOhlc(r.sources, r.policy, r.adjustment))
        \/ Echoed(e, SessionIntegrity(r.sources))
    BY <1>5, ConflictEchoes
  <2>2. QED
    BY <2>1 DEF Echoed, Steady
<1>6. QED
  BY <1>1, <1>2, <1>3, <1>4, <1>5, WhatBlocks

LEMMA Condemned ==
    ASSUME NEW p \in Query, NEW r \in Query, Extends(p, r), EvaluateRange(p) = "ineligible"
    PROVE  EvaluateRange(r) = "ineligible"
<1>1. PICK f \in AllFindings(CheckResults(p)) :
          Touches(f.from, f.to, p.from, p.to) /\ IsBlocking(f)
  BY IneligibleMeans
<1>2. PICK e \in Steady(p) \cup OfRange(p) : f = e.finding
  BY FindingsSplit DEF Findings
<1>3. Blocks(e)
  BY <1>1, <1>2 DEF Blocks, IsBlocking
<1>4. e \in Steady(p)
  BY <1>2, <1>3, RangeNeverBlocks
<1>5. PICK x \in Steady(r) : /\ Blocks(x)
                             /\ x.finding.from = f.from /\ x.finding.to = f.to
  BY <1>2, <1>3, <1>4, SteadyEchoes DEF Echoed
<1>6. x.finding \in AllFindings(CheckResults(r)) /\ IsBlocking(x.finding)
  BY <1>5, FindingsSplit DEF Findings, Blocks, IsBlocking
<1>7. r.from = p.from /\ r.to = p.to
  BY DEF Extends, SameQuestion
<1>8. QED
  BY <1>1, <1>5, <1>6, <1>7, IneligibleMeans

\* More rows, sources or revisions never clear an ineligible range.
THEOREM FinalTheorem == Spec => IneligibleIsFinal
<1>1. TypeOK /\ TypeOK' =>
        (Extends(q, q') /\ Reported(q) /\ Reported(q') /\ EvaluateRange(q) = "ineligible"
           => EvaluateRange(q') = "ineligible")
  BY Condemned DEF TypeOK
<1>2. QED
  BY <1>1, TypeCorrect, PTL DEF IneligibleIsFinal
-----------------------------------------------------------------------------
\* The rows in the range, one by one.

KeepStep(kept, x, a, b) ==
    IF a <= x.session /\ x.session <= b THEN Append(kept, x) ELSE kept

\* f keeps the rows in the range of the first n.
Keeping(bs, a, b, n, f) ==
    f = [i \in 0 .. n |-> IF i = 0 THEN <<>> ELSE KeepStep(f[i - 1], bs[i], a, b)]

\* There is such a function for every n.
LEMMA KeepingExist ==
    ASSUME NEW bs, NEW a, NEW b, NEW n \in Nat
    PROVE  \E f : Keeping(bs, a, b, n, f)
<1> DEFINE S == {m \in Nat : 0 <= m /\ ~ \E f : Keeping(bs, a, b, m, f)}
<1>1. SUFFICES ASSUME S # {} PROVE FALSE
  OBVIOUS
<1>2. PICK m \in S : \A k \in S : m <= k
  <2> S \subseteq Nat
    OBVIOUS
  <2> HIDE DEF S
  <2> QED
    BY <1>1, LeastExists
<1>3. CASE m = 0
  <2> DEFINE f == [i \in 0 .. m |-> <<>>]
  <2>1. Keeping(bs, a, b, m, f)
    BY <1>3 DEF Keeping
  <2>2. QED
    BY <1>2, <1>3, <2>1
<1>4. CASE m # 0
  <2>1. m - 1 \in Nat /\ 0 <= m - 1 /\ m - 1 \notin S
    BY <1>2, <1>4
  <2>2. PICK f : Keeping(bs, a, b, m - 1, f)
    BY <2>1
  <2> DEFINE step(g, i) == KeepStep(g[i - 1], bs[i], a, b)
             h == [i \in 0 .. m |-> IF i = 0 THEN <<>> ELSE step(f, i)]
  <2>3. ASSUME NEW i \in 0 .. m, i # 0 PROVE step(h, i) = step(f, i)
    <3>1. i - 1 \in 0 .. m - 1 /\ i - 1 \in 0 .. m /\ i \in Int /\ m \in Nat
      BY <2>1, <2>3
    <3>2. f[i - 1] = IF i - 1 = 0 THEN <<>> ELSE step(f, i - 1)
      <4> HIDE DEF step
      <4>1. f = [j \in 0 .. m - 1 |-> IF j = 0 THEN <<>> ELSE step(f, j)]
        BY <2>2 DEF Keeping, step
      <4>2. QED
        BY <3>1, <4>1
    <3>3. h[i - 1] = f[i - 1]
      <4> HIDE DEF step
      <4>1. QED
        BY <3>1, <3>2
    <3> HIDE DEF h
    <3>4. QED
      BY <3>3
  <2>4. h = [i \in 0 .. m |-> IF i = 0 THEN <<>> ELSE step(h, i)]
    <3> HIDE DEF step
    <3> DEFINE g == [i \in 0 .. m |-> IF i = 0 THEN <<>> ELSE step(h, i)]
    <3>1. ASSUME NEW i \in 0 .. m PROVE h[i] = g[i]
      <4>1. CASE i = 0
        BY <4>1
      <4>2. CASE i # 0
        <5>1. h[i] = step(f, i)
          BY <4>2
        <5>2. g[i] = step(h, i)
          <6> HIDE DEF h
          <6> QED
            BY <4>2
        <5>3. QED
          BY <2>3, <4>2, <5>1, <5>2
      <4>3. QED
        BY <4>1, <4>2
    <3>2. h = g
      BY <3>1
    <3> HIDE DEF h
    <3>3. QED
      BY <3>2
  <2> HIDE DEF h
  <2>5. Keeping(bs, a, b, m, h)
    BY <2>4 DEF Keeping
  <2>6. QED
    BY <1>2, <2>5
<1>5. QED
  BY <1>3, <1>4


\* RowsWithin is the last of the kept sequences.
LEMMA RowsWithinKeeps ==
    ASSUME NEW R, NEW bs \in Seq(R), NEW a, NEW b
    PROVE  \E f : Keeping(bs, a, b, Len(bs), f) /\ RowsWithin(bs, a, b) = f[Len(bs)]
<1> DEFINE kept == CHOOSE f : Keeping(bs, a, b, Len(bs), f)
<1>1. Keeping(bs, a, b, Len(bs), kept)
  BY KeepingExist
<1>2. RowsWithin(bs, a, b) = kept[Len(bs)]
  BY DEF RowsWithin, Keeping, KeepStep
<1>3. QED
  BY <1>1, <1>2

\* e places the rows of kept among the first n of bs: those in the range, in
\* their order.
Embeds(R, kept, bs, n, a, b, e) ==
    /\ kept \in Seq(R)
    /\ e \in [DOMAIN kept -> 1 .. n]
    /\ \A k \in DOMAIN kept : /\ kept[k] = bs[e[k]]
                              /\ a <= kept[k].session /\ kept[k].session <= b
    /\ \A j, k \in DOMAIN kept : j < k => e[j] < e[k]
    /\ \A m \in 1 .. n : a <= bs[m].session /\ bs[m].session <= b
                            => \E k \in DOMAIN kept : e[k] = m

\* What is kept embeds into the rows it was kept of.
LEMMA KeptEmbed ==
    ASSUME NEW R, NEW bs \in Seq(R), NEW a, NEW b, NEW f, Keeping(bs, a, b, Len(bs), f)
    PROVE  \E e : Embeds(R, f[Len(bs)], bs, Len(bs), a, b, e)
<1> DEFINE S == {m \in Nat : m <= Len(bs) /\ ~ \E e : Embeds(R, f[m], bs, m, a, b, e)}
<1>0. Len(bs) \in Nat
  OBVIOUS
<1>1. SUFFICES ASSUME S # {} PROVE FALSE
  BY <1>0
<1>2. PICK m \in S : \A k \in S : m <= k
  <2> S \subseteq Nat
    OBVIOUS
  <2> HIDE DEF S
  <2> QED
    BY <1>1, LeastExists
<1>3. \A i \in 0 .. Len(bs) : f[i] = IF i = 0 THEN <<>> ELSE KeepStep(f[i - 1], bs[i], a, b)
  <2> DEFINE g == [i \in 0 .. Len(bs) |-> IF i = 0 THEN <<>> ELSE KeepStep(f[i - 1], bs[i], a, b)]
  <2>1. f = g
    BY DEF Keeping
  <2>2. \A i \in 0 .. Len(bs) : g[i] = IF i = 0 THEN <<>> ELSE KeepStep(f[i - 1], bs[i], a, b)
    OBVIOUS
  <2> HIDE DEF g
  <2>3. QED
    BY <2>1, <2>2
<1>4. CASE m = 0
  <2>1. f[0] = <<>>
    BY <1>0, <1>3
  <2>2. Embeds(R, <<>>, bs, 0, a, b, [k \in {} |-> 1])
    BY DEF Embeds
  <2>3. QED
    BY <1>2, <1>4, <2>1, <2>2
<1>5. CASE m # 0
  <2>0. m \in Nat \ {0} /\ m <= Len(bs)
    BY <1>2, <1>5
  <2>1. m - 1 \in Nat /\ m - 1 <= Len(bs) /\ m - 1 \notin S /\ m \in 1 .. Len(bs)
    BY <1>0, <1>2, <2>0
  <2>2. PICK e : Embeds(R, f[m - 1], bs, m - 1, a, b, e)
    BY <2>1
  <2> DEFINE kept == f[m - 1]
  <2>3. f[m] = KeepStep(kept, bs[m], a, b)
    BY <1>3, <2>0, <2>1
  <2>4. CASE ~(a <= bs[m].session /\ bs[m].session <= b)
    <3>1. f[m] = kept
      BY <2>3, <2>4 DEF KeepStep
    <3>2. Embeds(R, kept, bs, m, a, b, e)
      <4> HIDE DEF kept
      <4>1. Embeds(R, kept, bs, m - 1, a, b, e)
        BY <2>2 DEF kept
      <4>2. 1 .. m - 1 \subseteq 1 .. m /\ \A i \in 1 .. m : i = m \/ i \in 1 .. m - 1
        BY <2>0
      <4>3. e \in [DOMAIN kept -> 1 .. m]
        BY <4>1, <4>2 DEF Embeds
      <4>4. QED
        BY <2>4, <4>1, <4>2, <4>3 DEF Embeds
    <3>3. QED
      BY <1>2, <3>1, <3>2
  <2>5. CASE a <= bs[m].session /\ bs[m].session <= b
    <3> DEFINE n == Len(kept) + 1
               more == Append(kept, bs[m])
               h == [k \in 1 .. n |-> IF k = n THEN m ELSE e[k]]
    <3>1. f[m] = more
      BY <2>3, <2>5 DEF KeepStep
    <3> HIDE DEF kept
    <3>2. Embeds(R, kept, bs, m - 1, a, b, e)
      BY <2>2 DEF kept
    <3>3. kept \in Seq(R) /\ Len(kept) \in Nat /\ DOMAIN kept = 1 .. Len(kept) /\ bs[m] \in R
      BY <2>1, <3>2 DEF Embeds
    <3>4. /\ more \in Seq(R) /\ DOMAIN more = 1 .. n /\ more[n] = bs[m]
          /\ \A k \in 1 .. n : k = n \/ (k \in DOMAIN kept /\ k < n)
          /\ \A k \in DOMAIN kept : more[k] = kept[k] /\ k \in 1 .. n /\ k # n
      BY <3>3
    <3> HIDE DEF more
    <3>5. /\ h[n] = m /\ \A k \in DOMAIN kept : h[k] = e[k] /\ h[k] \in 1 .. m - 1
          /\ DOMAIN h = 1 .. n
      BY <3>2, <3>3, <3>4 DEF Embeds
    <3>6. h = [k \in 1 .. n |-> h[k]]
      OBVIOUS
    <3>7. n \in 1 .. n /\ n \in Nat
      BY <3>3
    <3> HIDE DEF h, n
    <3>8. h \in [DOMAIN more -> 1 .. m]
      <4>1. ASSUME NEW k \in 1 .. n PROVE h[k] \in 1 .. m
        BY <2>0, <3>4, <3>5
      <4>2. QED
        BY <3>4, <3>6, <4>1
    <3>9. ASSUME NEW k \in DOMAIN more
          PROVE  more[k] = bs[h[k]] /\ a <= more[k].session /\ more[k].session <= b
      BY <2>5, <3>2, <3>4, <3>5, <3>9 DEF Embeds
    <3>10. ASSUME NEW j \in DOMAIN more, NEW k \in DOMAIN more, j < k
           PROVE  h[j] < h[k]
      <4>1. CASE k = n
        <5>1. j \in DOMAIN kept
          BY <3>4, <3>7, <3>10, <4>1
        <5>2. h[j] \in 1 .. m - 1 /\ h[k] = m
          BY <3>5, <4>1, <5>1
        <5>3. QED
          BY <2>0, <5>2
      <4>2. CASE k # n
        <5>1. k \in DOMAIN kept /\ k < n /\ k \in Nat
          BY <3>3, <3>4, <3>10, <4>2
        <5>2. j # n /\ j \in DOMAIN kept
          BY <3>4, <3>7, <3>10, <5>1
        <5>3. e[j] < e[k]
          BY <3>2, <3>10, <5>1, <5>2 DEF Embeds
        <5>4. QED
          BY <3>5, <5>1, <5>2, <5>3
      <4>3. QED
        BY <4>1, <4>2
    <3>11. ASSUME NEW i \in 1 .. m, a <= bs[i].session, bs[i].session <= b
           PROVE  \E k \in DOMAIN more : h[k] = i
      <4>1. CASE i = m
        BY <3>4, <3>5, <3>7, <4>1
      <4>2. CASE i # m
        <5>1. i \in 1 .. m - 1
          BY <2>0, <4>2
        <5>2. PICK k \in DOMAIN kept : e[k] = i
          BY <3>2, <3>11, <5>1 DEF Embeds
        <5>3. QED
          BY <3>4, <3>5, <5>2
      <4>3. QED
        BY <4>1, <4>2
    <3>12. Embeds(R, more, bs, m, a, b, h)
      BY <3>4, <3>8, <3>9, <3>10, <3>11 DEF Embeds
    <3>13. QED
      BY <1>2, <3>1, <3>12
  <2>6. QED
    BY <2>4, <2>5
<1>6. QED
  BY <1>4, <1>5

\* The trimmed source keeps the rows in the range, in their order.
LEMMA TrimEmbeds ==
    ASSUME NEW s \in Source, NEW a, NEW b
    PROVE  /\ TrimSource(s, a, b) \in Source
           /\ TrimSource(s, a, b).schema = s.schema
           /\ \E e : Embeds(Bar, TrimSource(s, a, b).bars, s.bars, Len(s.bars), a, b, e)
<1> DEFINE bs == s.bars
           kept == RowsWithin(bs, a, b)
<1>1. bs \in Seq(Bar)
  BY DEF Source
<1>2. PICK f : Keeping(bs, a, b, Len(bs), f) /\ kept = f[Len(bs)]
  <2> HIDE DEF bs
  <2> QED
    BY <1>1, RowsWithinKeeps
<1>3. PICK e : Embeds(Bar, kept, bs, Len(bs), a, b, e)
  <2> HIDE DEF bs, kept
  <2> QED
    BY <1>1, <1>2, KeptEmbed
<1>4. kept \in Seq(Bar)
  BY <1>3 DEF Embeds
<1>5. TrimSource(s, a, b) = [s EXCEPT !.bars = kept]
  BY DEF TrimSource
<1> HIDE DEF kept, bs
<1>6. TrimSource(s, a, b) \in Source /\ TrimSource(s, a, b).bars = kept /\ TrimSource(s, a, b).schema = s.schema
  BY <1>4, <1>5 DEF Source
<1>7. QED
  BY <1>3, <1>6 DEF bs
-----------------------------------------------------------------------------
\* Two sources that differ outside the range only.

\* The same rows in the range, the same sessions twice, and the same row for
\* each session.
SameWithin(s, t, a, b) ==
    /\ \A k \in RowsIn(s, a, b) : \E l \in DOMAIN t.bars : t.bars[l] = s.bars[k]
    /\ \A l \in RowsIn(t, a, b) : \E k \in DOMAIN s.bars : s.bars[k] = t.bars[l]
    /\ \A d \in a .. b : RowCount(s, d) > 1 <=> RowCount(t, d) > 1
    /\ \A d \in (a .. b) \cap Sessions(s) : StableBar(s, d) = StableBar(t, d)

\* Such sources have the same sessions in the range.
LEMMA SessionsAlike ==
    ASSUME NEW a \in Day, NEW b \in Day, NEW s \in Source, NEW t \in Source,
           SameWithin(s, t, a, b), NEW d \in a .. b
    PROVE  d \in Sessions(s) <=> d \in Sessions(t)
<1>1. a <= d /\ d <= b
  BY DayFacts
<1>2. ASSUME d \in Sessions(s) PROVE d \in Sessions(t)
  BY <1>1, <1>2 DEF SameWithin, Sessions, RowsIn
<1>3. ASSUME d \in Sessions(t) PROVE d \in Sessions(s)
  BY <1>1, <1>3 DEF SameWithin, Sessions, RowsIn
<1>4. QED
  BY <1>2, <1>3

\* And this is mutual.
LEMMA SameWithinBack ==
    ASSUME NEW a \in Day, NEW b \in Day, NEW s \in Source, NEW t \in Source,
           SameWithin(s, t, a, b)
    PROVE  SameWithin(t, s, a, b)
<1>1. ASSUME NEW d \in (a .. b) \cap Sessions(t) PROVE StableBar(t, d) = StableBar(s, d)
  <2>1. d \in (a .. b) \cap Sessions(s)
    BY SessionsAlike
  <2>2. QED
    BY <2>1 DEF SameWithin
<1>2. QED
  BY <1>1 DEF SameWithin

\* More than one row is two rows.
LEMMA TwoRows ==
    ASSUME NEW s \in Source, NEW d
    PROVE  RowCount(s, d) > 1 <=> \E j, k \in PlacesOf(s, d) : j # k
<1> DEFINE H == PlacesOf(s, d)
<1>1. s.bars \in Seq(Bar) /\ Len(s.bars) \in Nat /\ H \subseteq 1 .. Len(s.bars)
  BY DEF Source, PlacesOf
<1>2. RowCount(s, d) = Cardinality(H)
  BY DEF RowCount, PlacesOf
<1> HIDE DEF H
<1>3. ASSUME NEW j \in H, NEW k \in H, j # k PROVE RowCount(s, d) > 1
  BY <1>1, <1>2, <1>3, TwoOfMany
<1>4. ASSUME RowCount(s, d) > 1 PROVE \E j, k \in H : j # k
  <2>1. SUFFICES ASSUME \A j, k \in H : j = k PROVE FALSE
    OBVIOUS
  <2>2. H # {}
    BY <1>2, <1>4, FS_EmptySet
  <2>3. PICK j \in H : TRUE
    BY <2>2
  <2>4. H = {j}
    BY <2>1, <2>3
  <2>5. Cardinality(H) = 1
    BY <2>4, FS_Singleton
  <2>6. QED
    BY <1>2, <1>4, <2>5
<1>5. QED
  BY <1>3, <1>4 DEF H

\* Before(s, k, j): row k of s is the one the code takes rather than row j.
Before(s, k, j) == \/ TextRank(s.bars[k]) < TextRank(s.bars[j])
                   \/ TextRank(s.bars[k]) = TextRank(s.bars[j]) /\ k < j

\* The first row of a session, when rows have places in the order of texts.
LEMMA FirstRow ==
    ASSUME NEW s \in Source, HasRanks(s.bars), NEW d \in Sessions(s)
    PROVE  \E k \in PlacesOf(s, d) : \A j \in PlacesOf(s, d) \ {k} : Before(s, k, j)
<1> DEFINE H == PlacesOf(s, d)
           Ranks == {TextRank(s.bars[k]) : k \in H}
<1>1. H # {} /\ H \subseteq DOMAIN s.bars /\ H \subseteq Nat
  BY DEF Source, Sessions, PlacesOf
<1>2. Ranks \subseteq Nat /\ Ranks # {}
  BY <1>1 DEF HasRanks
<1>3. PICK r \in Ranks : \A x \in Ranks : r <= x
  <2> HIDE DEF Ranks
  <2> QED
    BY <1>2, LeastExists
<1> DEFINE T == {k \in H : TextRank(s.bars[k]) = r}
<1>4. T # {} /\ T \subseteq Nat
  BY <1>1
<1>5. PICK k \in T : \A j \in T : k <= j
  <2> HIDE DEF T
  <2> QED
    BY <1>4, LeastExists
<1>6. ASSUME NEW j \in H \ {k} PROVE Before(s, k, j)
  <2>1. k \in Nat /\ j \in Nat /\ TextRank(s.bars[k]) = r
    BY <1>1, <1>5
  <2>2. TextRank(s.bars[j]) \in Nat /\ r \in Nat /\ r <= TextRank(s.bars[j])
    BY <1>2, <1>3, <1>6
  <2>3. CASE TextRank(s.bars[j]) = r
    <3>1. k <= j /\ k # j
      BY <1>5, <1>6, <2>3
    <3>2. QED
      BY <2>1, <2>3, <3>1 DEF Before
  <2>4. CASE TextRank(s.bars[j]) # r
    BY <2>1, <2>2, <2>4 DEF Before
  <2>5. QED
    BY <2>3, <2>4
<1>7. QED
  BY <1>5, <1>6

\* The row that stands for a session is the one before all others.
LEMMA StableIsFirst ==
    ASSUME NEW s \in Source, HasRanks(s.bars), NEW d, NEW k \in PlacesOf(s, d),
           \A j \in PlacesOf(s, d) \ {k} : Before(s, k, j)
    PROVE  StableBar(s, d) = s.bars[k]
<1> DEFINE H == PlacesOf(s, d)
           IsFirst(m) == \A j \in H \ {m} : Before(s, m, j)
<1>1. StableBar(s, d) = s.bars[CHOOSE m \in H : IsFirst(m)]
  BY DEF StableBar, PlacesOf, Before
<1>2. ASSUME NEW m \in H, IsFirst(m) PROVE m = k
  <2>1. SUFFICES ASSUME m # k PROVE FALSE
    OBVIOUS
  <2>2. Before(s, m, k) /\ Before(s, k, m)
    BY <1>2, <2>1
  <2>3. m \in Nat /\ k \in Nat /\ TextRank(s.bars[k]) \in Nat /\ TextRank(s.bars[m]) \in Nat
    BY <1>2 DEF HasRanks, PlacesOf, Source
  <2>4. QED
    BY <2>2, <2>3 DEF Before
<1>3. IsFirst(k)
  OBVIOUS
<1> HIDE DEF H, IsFirst
<1>4. (CHOOSE m \in H : IsFirst(m)) = k
  BY <1>2, <1>3 DEF H
<1>5. QED
  BY <1>1, <1>4

\* Sorted rows are in order however far apart.
LEMMA SortedRows ==
    ASSUME NEW s \in Source, Sorted(s), NEW j \in DOMAIN s.bars, NEW k \in DOMAIN s.bars, j <= k
    PROVE  s.bars[j].session <= s.bars[k].session
<1>1. /\ s.bars \in Seq(Bar) /\ Len(s.bars) \in Nat /\ DOMAIN s.bars = 1 .. Len(s.bars)
      /\ \A m \in DOMAIN s.bars : s.bars[m].session \in Nat
  <2>1. s.bars \in Seq(Bar) /\ Len(s.bars) \in Nat /\ DOMAIN s.bars = 1 .. Len(s.bars)
    BY DEF Source
  <2>2. ASSUME NEW m \in DOMAIN s.bars PROVE s.bars[m].session \in Nat
    <3>1. s.bars[m] \in Bar
      BY <2>1
    <3>2. QED
      BY <3>1, DayFacts DEF Bar
  <2>3. QED
    BY <2>1, <2>2
<1> DEFINE Late == {m \in Nat : /\ m \in DOMAIN s.bars /\ j <= m
                                /\ ~(s.bars[j].session <= s.bars[m].session)}
<1>2. SUFFICES ASSUME Late # {} PROVE FALSE
  BY <1>1
<1>3. PICK m \in Late : \A x \in Late : m <= x
  <2>1. Late \subseteq Nat
    OBVIOUS
  <2> HIDE DEF Late
  <2>2. QED
    BY <1>2, <2>1, LeastExists
<1>4. m \in Nat /\ m \in DOMAIN s.bars /\ j \in Nat /\ j <= m /\ j # m /\ j >= 1
  BY <1>1, <1>3
<1>5. m - 1 \in DOMAIN s.bars /\ m - 1 \in Nat /\ j <= m - 1 /\ m > 1
  BY <1>1, <1>4
<1>6. m - 1 \notin Late
  BY <1>3, <1>4
<1>7. s.bars[j].session <= s.bars[m - 1].session
  BY <1>5, <1>6
<1>8. s.bars[m - 1].session <= s.bars[m].session
  BY <1>4, <1>5 DEF Sorted
<1>9. s.bars[j].session <= s.bars[m].session
  <2>1. /\ s.bars[j].session \in Nat /\ s.bars[m].session \in Nat
        /\ s.bars[m - 1].session \in Nat
    BY <1>1, <1>4, <1>5
  <2>2. QED
    BY <1>7, <1>8, <2>1
<1>10. QED
  BY <1>3, <1>9

\* Trimming a source changes nothing inside the range.
LEMMA TrimIsSame ==
    ASSUME NEW s \in Source, HasRanks(s.bars), NEW a \in Day, NEW b \in Day
    PROVE  /\ SameWithin(s, TrimSource(s, a, b), a, b)
           /\ Sorted(s) => Sorted(TrimSource(s, a, b))
<1> DEFINE t == TrimSource(s, a, b)
<1>1. PICK e : Embeds(Bar, t.bars, s.bars, Len(s.bars), a, b, e)
  BY TrimEmbeds
<1>2. t \in Source
  BY TrimEmbeds
<1> HIDE DEF t
<1>3. /\ s.bars \in Seq(Bar) /\ t.bars \in Seq(Bar) /\ DOMAIN s.bars = 1 .. Len(s.bars)
      /\ Len(s.bars) \in Nat /\ DOMAIN t.bars = 1 .. Len(t.bars) /\ Len(t.bars) \in Nat
  BY <1>2 DEF Source
<1>4. ASSUME NEW k \in DOMAIN t.bars
      PROVE  /\ e[k] \in DOMAIN s.bars /\ e[k] \in Nat /\ k \in Nat
             /\ t.bars[k] = s.bars[e[k]]
             /\ a <= t.bars[k].session /\ t.bars[k].session <= b
  BY <1>1, <1>3 DEF Embeds
<1>5. ASSUME NEW j \in DOMAIN t.bars, NEW k \in DOMAIN t.bars PROVE j < k => e[j] < e[k]
  BY <1>1 DEF Embeds
<1>6. ASSUME NEW m \in RowsIn(s, a, b) PROVE \E k \in DOMAIN t.bars : e[k] = m
  BY <1>1, <1>3 DEF Embeds, RowsIn
<1>7. ASSUME NEW d \in a .. b
      PROVE  /\ \A k \in PlacesOf(t, d) : e[k] \in PlacesOf(s, d)
             /\ \A m \in PlacesOf(s, d) : \E k \in PlacesOf(t, d) : e[k] = m
  <2>1. \A k \in PlacesOf(t, d) : e[k] \in PlacesOf(s, d)
    BY <1>4 DEF PlacesOf
  <2>2. ASSUME NEW m \in PlacesOf(s, d) PROVE \E k \in PlacesOf(t, d) : e[k] = m
    <3>1. m \in RowsIn(s, a, b)
      BY DayFacts DEF PlacesOf, RowsIn
    <3>2. PICK k \in DOMAIN t.bars : e[k] = m
      BY <1>6, <3>1
    <3>3. t.bars[k].session = d
      BY <1>4, <3>2 DEF PlacesOf
    <3>4. QED
      BY <3>2, <3>3 DEF PlacesOf
  <2>3. QED
    BY <2>1, <2>2
<1>8. ASSUME NEW j \in DOMAIN t.bars, NEW k \in DOMAIN t.bars, j # k PROVE e[j] # e[k]
  <2>1. j < k \/ k < j
    BY <1>4, <1>8
  <2>2. e[j] < e[k] \/ e[k] < e[j]
    BY <1>5, <2>1
  <2>3. QED
    BY <1>4, <2>2
<1>9. ASSUME NEW d \in a .. b PROVE RowCount(s, d) > 1 <=> RowCount(t, d) > 1
  <2>1. ASSUME NEW j \in PlacesOf(s, d), NEW k \in PlacesOf(s, d), j # k
        PROVE  \E l, m \in PlacesOf(t, d) : l # m
    BY <1>7, <2>1
  <2>2. ASSUME NEW j \in PlacesOf(t, d), NEW k \in PlacesOf(t, d), j # k
        PROVE  \E l, m \in PlacesOf(s, d) : l # m
    <3>1. e[j] # e[k]
      BY <1>8, <2>2 DEF PlacesOf
    <3>2. QED
      BY <1>7, <3>1
  <2>3. QED
    BY <1>2, <2>1, <2>2, TwoRows
<1>10. HasRanks(t.bars)
  BY <1>4 DEF HasRanks
<1>11. ASSUME NEW d \in (a .. b) \cap Sessions(s) PROVE StableBar(s, d) = StableBar(t, d)
  <2>1. PICK m \in PlacesOf(s, d) : \A j \in PlacesOf(s, d) \ {m} : Before(s, m, j)
    BY FirstRow
  <2>2. PICK k \in PlacesOf(t, d) : e[k] = m
    BY <1>7
  <2>3. ASSUME NEW j \in PlacesOf(t, d) \ {k} PROVE Before(t, k, j)
    <3>1. j \in DOMAIN t.bars /\ k \in DOMAIN t.bars
      BY <2>2, <2>3 DEF PlacesOf
    <3>2. e[j] \in PlacesOf(s, d) /\ e[j] # m
      BY <1>7, <1>8, <2>2, <2>3, <3>1
    <3>3. Before(s, m, e[j])
      BY <2>1, <3>2
    <3>4. t.bars[k] = s.bars[m] /\ t.bars[j] = s.bars[e[j]]
      BY <1>4, <2>2, <3>1
    <3>5. m < e[j] => k < j
      <4>1. SUFFICES ASSUME m < e[j], ~(k < j) PROVE FALSE
        OBVIOUS
      <4>2. j < k
        BY <1>4, <2>3, <3>1, <4>1
      <4>3. e[j] < m
        BY <1>5, <2>2, <3>1, <4>2
      <4>4. QED
        BY <1>4, <2>2, <3>1, <4>1, <4>3
    <3>6. QED
      BY <3>3, <3>4, <3>5 DEF Before
  <2>4. StableBar(s, d) = s.bars[m]
    BY <2>1, StableIsFirst
  <2>5. StableBar(t, d) = t.bars[k]
    BY <1>2, <1>10, <2>2, <2>3, StableIsFirst
  <2>6. t.bars[k] = s.bars[m]
    BY <1>4, <2>2 DEF PlacesOf
  <2>7. QED
    BY <2>4, <2>5, <2>6
<1>12. SameWithin(s, t, a, b)
  <2>1. ASSUME NEW k \in RowsIn(s, a, b) PROVE \E l \in DOMAIN t.bars : t.bars[l] = s.bars[k]
    BY <1>4, <1>6
  <2>2. ASSUME NEW l \in RowsIn(t, a, b) PROVE \E k \in DOMAIN s.bars : s.bars[k] = t.bars[l]
    BY <1>4 DEF RowsIn
  <2>3. QED
    BY <1>9, <1>11, <2>1, <2>2 DEF SameWithin
<1>13. ASSUME Sorted(s) PROVE Sorted(t)
  <2>1. SUFFICES ASSUME NEW k \in DOMAIN t.bars, k > 1
                 PROVE  t.bars[k - 1].session <= t.bars[k].session
    BY DEF Sorted
  <2>2. k - 1 \in DOMAIN t.bars /\ k - 1 < k
    BY <1>3, <2>1
  <2>3. e[k - 1] <= e[k]
    BY <1>4, <1>5, <2>2
  <2>4. s.bars[e[k - 1]].session <= s.bars[e[k]].session
    BY <1>4, <1>13, <2>2, <2>3, SortedRows
  <2>5. QED
    BY <1>4, <2>2, <2>4
<1>14. QED
  BY <1>12, <1>13 DEF t

-----------------------------------------------------------------------------
\* Two queries that differ outside the range only.

Orderly(qq) == \A i \in DOMAIN qq.sources : /\ qq.sources[i].schema \in qq.policy.schemas
                                            /\ Sorted(qq.sources[i])

\* Each revision of p has its like in r.
RevisionsFound(p, r) ==
    \A x \in p.revisions : \E y \in r.revisions :
        /\ SameWithin(x.previous, y.previous, p.from, p.to)
        /\ SameWithin(x.current, y.current, p.from, p.to)

Alike(p, r) ==
    /\ p \in Query /\ r \in Query
    /\ SameQuestion(p, r)
    /\ Orderly(p) /\ Orderly(r)
    /\ DOMAIN p.sources = DOMAIN r.sources
    /\ \A i \in DOMAIN p.sources : SameWithin(p.sources[i], r.sources[i], p.from, p.to)
    /\ RevisionsFound(p, r) /\ RevisionsFound(r, p)

\* Being alike is mutual.
LEMMA AlikeBack ==
    ASSUME NEW p, NEW r, Alike(p, r)
    PROVE  Alike(r, p)
<1>1. /\ p \in Query /\ r \in Query /\ p.from \in Day /\ p.to \in Day
      /\ r.from = p.from /\ r.to = p.to
      /\ \A i \in DOMAIN p.sources : p.sources[i] \in Source /\ r.sources[i] \in Source
  BY QueryFacts DEF Alike, SameQuestion
<1>2. ASSUME NEW i \in DOMAIN r.sources
      PROVE  SameWithin(r.sources[i], p.sources[i], r.from, r.to)
  <2>1. SameWithin(p.sources[i], r.sources[i], p.from, p.to) /\ i \in DOMAIN p.sources
    BY DEF Alike
  <2>2. QED
    BY <1>1, <2>1, SameWithinBack
<1>3. SameQuestion(r, p)
  BY DEF Alike, SameQuestion
<1>4. QED
  BY <1>2, <1>3 DEF Alike

\* e has an equal in what another query finds: of the same kind, and about the
\* range.
EchoedIn(e, emissions, qq) ==
    \E x \in emissions : /\ x.finding.code = e.finding.code
                         /\ Touches(x.finding.from, x.finding.to, qq.from, qq.to)

\* The kinds of findings that decide a verdict.
Matters(e) == \/ e.finding.code \in INELIGIBLE_FINDING_CODES
              \/ e.finding.code \in INCOMPLETE_FINDING_CODES
              \/ e.finding.code = "provider_history_revision"

\* What a day's finding touches.
LEMMA DayTouches ==
    ASSUME NEW p \in Query, NEW d \in Day
    PROVE  Touches(d, d, p.from, p.to) <=> d \in p.from .. p.to
  BY QueryFacts, DayFacts DEF Touches

\* Sorted rows have no inversion.
LEMMA NoInversion ==
    ASSUME NEW p \in Query, Orderly(p), NEW i \in DOMAIN p.sources
    PROVE  Inversions(i, p.sources[i]) = {}
<1> DEFINE s == p.sources[i]
<1>1. SUFFICES ASSUME NEW e \in Inversions(i, s) PROVE FALSE
  OBVIOUS
<1>2. PICK k \in DOMAIN s.bars : k > 1 /\ s.bars[k - 1].session > s.bars[k].session
  BY <1>1 DEF Inversions
<1>3. s.bars[k - 1].session <= s.bars[k].session
  BY <1>2 DEF Orderly, Sorted
<1>4. k - 1 \in DOMAIN s.bars
  <2>1. s.bars \in Seq(Bar)
    BY QueryFacts DEF Source
  <2>2. QED
    BY <1>2, <2>1
<1>5. s.bars[k - 1].session \in Nat /\ s.bars[k].session \in Nat
  BY <1>2, <1>4, RowFacts
<1>6. QED
  BY <1>2, <1>3, <1>5

\* A day of the range with two rows has two rows in the other.
LEMMA IntegrityAlike ==
    ASSUME NEW p, NEW r, Alike(p, r), NEW e \in SessionIntegrity(p.sources),
           Touches(e.finding.from, e.finding.to, p.from, p.to)
    PROVE  EchoedIn(e, SessionIntegrity(r.sources), p)
<1>0. p \in Query /\ r \in Query /\ Orderly(p)
  BY DEF Alike
<1>1. PICK i \in DOMAIN p.sources : e \in Duplicates(i, p.sources[i]) \cup Inversions(i, p.sources[i])
  BY DEF SessionIntegrity
<1> DEFINE s == p.sources[i]
           t == r.sources[i]
<1>2. e \in Duplicates(i, s)
  BY <1>0, <1>1, NoInversion
<1>3. PICK d \in Sessions(s) :
          /\ RowCount(s, d) > 1
          /\ e = At(<<i, d>>, Finding("duplicate_session", "", d, d, {Evidence(s)}, RowCount(s, d)))
  BY <1>2 DEF Duplicates
<1>4. e.finding.from = d /\ e.finding.to = d /\ e.finding.code = "duplicate_session"
  BY <1>3 DEF At, Finding
<1>5. d \in p.from .. p.to /\ d \in Day
  BY <1>0, <1>4, QueryFacts, DayTouches
<1>6. i \in DOMAIN r.sources /\ SameWithin(s, t, p.from, p.to)
  BY DEF Alike
<1>7. d \in Sessions(t) /\ RowCount(t, d) > 1
  <2>1. s \in Source /\ t \in Source /\ p.from \in Day /\ p.to \in Day
    BY <1>0, <1>6, QueryFacts
  <2> HIDE DEF s, t
  <2>2. d \in Sessions(t)
    BY <1>3, <1>5, <1>6, <2>1, SessionsAlike
  <2>3. QED
    BY <1>3, <1>5, <1>6, <2>2 DEF SameWithin
<1> DEFINE x == At(<<i, d>>, Finding("duplicate_session", "", d, d, {Evidence(t)}, RowCount(t, d)))
<1>8. x \in Duplicates(i, t)
  BY <1>7 DEF Duplicates
<1>9. x.finding.from = d /\ x.finding.to = d /\ x.finding.code = "duplicate_session"
  BY DEF At, Finding
<1> HIDE DEF x
<1>10. x \in SessionIntegrity(r.sources)
  BY <1>6, <1>8 DEF SessionIntegrity
<1>11. QED
  BY <1>4, <1>9, <1>10 DEF EchoedIn

\* A check of single rows finds in the range what it finds in the other's.
LEMMA RowsAlike ==
    ASSUME NEW p, NEW r, Alike(p, r), NEW f, NEW g,
           \A x \in Rows(p.sources), y \in Rows(r.sources) :
               RowAt(p.sources, x) = RowAt(r.sources, y) => f[x] = g[y],
           NEW e \in PerRow(p.sources, f),
           Touches(e.finding.from, e.finding.to, p.from, p.to)
    PROVE  EchoedIn(e, PerRow(r.sources, g), p)
<1> DEFINE of(sources, faults, x) ==
               {At(<<x, y>>, Finding(y[1], y[2], RowAt(sources, x).session,
                                     RowAt(sources, x).session,
                                     {Evidence(sources[x[1]])}, y[3])) : y \in faults[x]}
<1>0. p \in Query /\ r \in Query
  BY DEF Alike
<1>1. /\ PerRow(p.sources, f) = UNION {of(p.sources, f, x) : x \in Rows(p.sources)}
      /\ PerRow(r.sources, g) = UNION {of(r.sources, g, x) : x \in Rows(r.sources)}
  BY DEF PerRow
<1>2. PICK x \in Rows(p.sources) : e \in of(p.sources, f, x)
  <2> HIDE DEF of
  <2>1. QED
    BY <1>1
<1>3. PICK y \in f[x] :
          e = At(<<x, y>>, Finding(y[1], y[2], RowAt(p.sources, x).session,
                                   RowAt(p.sources, x).session,
                                   {Evidence(p.sources[x[1]])}, y[3]))
  BY <1>2
<1>4. PICK i \in DOMAIN p.sources : \E k \in DOMAIN p.sources[i].bars : x = <<i, k>>
  BY DEF Rows
<1>4a. PICK k \in DOMAIN p.sources[i].bars : x = <<i, k>>
  BY <1>4
<1>5. RowAt(p.sources, x) = p.sources[i].bars[k]
  BY <1>4a DEF RowAt
<1>6. /\ e.finding.from = p.sources[i].bars[k].session
      /\ e.finding.to = p.sources[i].bars[k].session
      /\ e.finding.code = y[1]
  BY <1>3, <1>5 DEF At, Finding
<1>7. k \in RowsIn(p.sources[i], p.from, p.to)
  BY <1>6 DEF RowsIn, Touches
<1>8. PICK l \in DOMAIN r.sources[i].bars : r.sources[i].bars[l] = p.sources[i].bars[k]
  BY <1>7 DEF Alike, SameWithin
<1> DEFINE w == <<i, l>>
<1>9. w \in Rows(r.sources) /\ RowAt(r.sources, w) = RowAt(p.sources, x)
  <2>1. i \in DOMAIN r.sources
    BY DEF Alike
  <2>2. QED
    BY <1>5, <1>8, <2>1 DEF Rows, RowAt
<1> HIDE DEF w
<1>10. y \in g[w]
  BY <1>9
<1> DEFINE z == At(<<w, y>>, Finding(y[1], y[2], RowAt(r.sources, w).session,
                                     RowAt(r.sources, w).session,
                                     {Evidence(r.sources[w[1]])}, y[3]))
<1>11. z \in of(r.sources, g, w)
  BY <1>10
<1>12. /\ z.finding.from = e.finding.from /\ z.finding.to = e.finding.to
       /\ z.finding.code = e.finding.code
  BY <1>5, <1>6, <1>9 DEF At, Finding
<1> HIDE DEF z, of
<1>13. z \in PerRow(r.sources, g)
  BY <1>1, <1>9, <1>11
<1>14. QED
  BY <1>12, <1>13 DEF EchoedIn

\* Two providers disagree about a day of the range in both or in neither.
LEMMA ConflictAlike ==
    ASSUME NEW p, NEW r, Alike(p, r),
           NEW e \in CrossSourceOhlc(p.sources, p.policy, p.adjustment),
           Touches(e.finding.from, e.finding.to, p.from, p.to)
    PROVE  EchoedIn(e, CrossSourceOhlc(r.sources, r.policy, r.adjustment), p)
<1>0. p \in Query /\ r \in Query
  BY DEF Alike
<1>1. r.policy = p.policy /\ r.adjustment = p.adjustment
  BY DEF Alike, SameQuestion
<1>2. PICK x \in {y \in Pairs(p.sources) : p.adjustment = "raw"} :
          e \in Disagreements(x, p.sources[x[1]], p.sources[x[2]], p.policy)
  BY DEF CrossSourceOhlc
<1>3. PICK i \in DOMAIN p.sources, j \in DOMAIN p.sources : x = <<i, j>> /\ i < j
  BY DEF Pairs
<1> DEFINE l == p.sources[i]
           m == p.sources[j]
           ll == r.sources[i]
           mm == r.sources[j]
           bps == p.policy.passBps
           Code(a, b, z) == IF Differ(a, b, z[1], z[2], p.policy.warnBps)
                            THEN "cross_source_field_conflict" ELSE "cross_source_field_warning"
           Emission(a, b, z) ==
               At(<<x, z>>, Finding(Code(a, b, z), z[2], z[1], z[1],
                                    {Evidence(a), Evidence(b)},
                                    {StableBar(a, z[1])[z[2]], StableBar(b, z[1])[z[2]]}))
           Sites(a, b) == {z \in (Sessions(a) \cap Sessions(b)) \X Field :
                               Differ(a, b, z[1], z[2], bps)}
<1>4. \A a, b : Disagreements(x, a, b, p.policy) = {Emission(a, b, z) : z \in Sites(a, b)}
  BY DEF Disagreements
<1>5. PICK z \in Sites(l, m) : e = Emission(l, m, z)
  <2>1. e \in Disagreements(x, l, m, p.policy)
    BY <1>2, <1>3
  <2> HIDE DEF Emission, Sites, l, m
  <2>2. QED
    BY <1>4, <2>1
<1>6. PICK d \in Sessions(l) \cap Sessions(m), f \in Field :
          z = <<d, f>> /\ Differ(l, m, d, f, bps)
  <2> HIDE DEF l, m, bps
  <2>1. /\ z \in (Sessions(l) \cap Sessions(m)) \X Field
        /\ Differ(l, m, z[1], z[2], bps)
    BY <1>5
  <2>2. PICK d \in Sessions(l) \cap Sessions(m), f \in Field : z = <<d, f>>
    BY <2>1
  <2>3. QED
    BY <2>1, <2>2
<1>7. e.finding.from = d /\ e.finding.to = d /\ e.finding.code = Code(l, m, z)
  BY <1>5, <1>6 DEF At, Finding
<1>8. d \in p.from .. p.to
  <2>1. d \in Day
    BY <1>0, QueryFacts
  <2>2. QED
    BY <1>0, <1>7, <2>1, DayTouches
<1>9. /\ i \in DOMAIN r.sources /\ j \in DOMAIN r.sources
      /\ SameWithin(l, ll, p.from, p.to) /\ SameWithin(m, mm, p.from, p.to)
  BY DEF Alike
<1>10. d \in Sessions(ll) \cap Sessions(mm)
  <2>1. /\ l \in Source /\ m \in Source /\ ll \in Source /\ mm \in Source
        /\ p.from \in Day /\ p.to \in Day
    BY <1>0, <1>9, QueryFacts
  <2> HIDE DEF l, m, ll, mm
  <2>2. QED
    BY <1>6, <1>8, <1>9, <2>1, SessionsAlike
<1>11. StableBar(ll, d) = StableBar(l, d) /\ StableBar(mm, d) = StableBar(m, d)
  <2> HIDE DEF l, m, ll, mm
  <2>1. QED
    BY <1>6, <1>8, <1>9 DEF SameWithin
<1>12. \A b : Differ(ll, mm, d, f, b) = Differ(l, m, d, f, b)
  BY <1>11 DEF Differ
<1>13. z \in Sites(ll, mm) /\ Code(ll, mm, z) = Code(l, m, z)
  <2> HIDE DEF l, m, ll, mm
  <2>1. QED
    BY <1>6, <1>10, <1>12
<1>14. Emission(ll, mm, z) \in Disagreements(x, r.sources[x[1]], r.sources[x[2]], r.policy)
  <2> HIDE DEF Emission, Sites, Code
  <2>1. r.sources[x[1]] = ll /\ r.sources[x[2]] = mm
    BY <1>3
  <2>2. QED
    BY <1>1, <1>4, <1>13, <2>1
<1>15. x \in {y \in Pairs(r.sources) : r.adjustment = "raw"}
  BY <1>1, <1>2, <1>3, <1>9 DEF Pairs
<1>16. Emission(ll, mm, z) \in CrossSourceOhlc(r.sources, r.policy, r.adjustment)
  <2> HIDE DEF Emission
  <2>1. QED
    BY <1>14, <1>15 DEF CrossSourceOhlc
<1>17. /\ Emission(ll, mm, z).finding.from = d /\ Emission(ll, mm, z).finding.to = d
       /\ Emission(ll, mm, z).finding.code = Code(ll, mm, z)
  BY <1>6 DEF At, Finding
<1> HIDE DEF Emission, Code
<1>18. QED
  BY <1>7, <1>13, <1>16, <1>17 DEF EchoedIn

\* The fields in which two vintages of a day differ.
LEMMA ChangesAlike ==
    ASSUME NEW a \in Day, NEW b \in Day, NEW d \in a .. b,
           NEW s \in Source, NEW t \in Source, NEW ss \in Source, NEW tt \in Source,
           SameWithin(s, ss, a, b), SameWithin(t, tt, a, b)
    PROVE  /\ ChangedFields(ss, tt, d) = ChangedFields(s, t, d)
           /\ d \in Sessions(s) \cup Sessions(t) => d \in Sessions(ss) \cup Sessions(tt)
<1>1. (d \in Sessions(s) <=> d \in Sessions(ss)) /\ (d \in Sessions(t) <=> d \in Sessions(tt))
  BY SessionsAlike
<1>2. CASE d \in Sessions(s) \cap Sessions(t)
  <2>1. StableBar(ss, d) = StableBar(s, d) /\ StableBar(tt, d) = StableBar(t, d)
    BY <1>2 DEF SameWithin
  <2>2. QED
    BY <1>1, <1>2, <2>1 DEF ChangedFields
<1>3. CASE d \notin Sessions(s) \cap Sessions(t)
  BY <1>1, <1>3 DEF ChangedFields
<1>4. QED
  BY <1>2, <1>3

\* A revision of a day of the range is one in the other.
LEMMA RevisionAlike ==
    ASSUME NEW p, NEW r, Alike(p, r), NEW e \in ProviderRevision(p.revisions),
           Touches(e.finding.from, e.finding.to, p.from, p.to)
    PROVE  EchoedIn(e, ProviderRevision(r.revisions), p)
<1> DEFINE Emission(x, d) == At(<<x, d>>, Finding("provider_history_revision", "", d, d,
                                  {Evidence(x.previous), Evidence(x.current)},
                                  <<ChangedFields(x.previous, x.current, d),
                                    x.current.capture, x.previous.capture>>))
           Days(x) == {d \in Sessions(x.previous) \cup Sessions(x.current) :
                           ChangedFields(x.previous, x.current, d) # {}}
<1>0. p \in Query /\ r \in Query
  BY DEF Alike
<1>1. \A x : Revised(x) = {Emission(x, d) : d \in Days(x)}
  BY DEF Revised
<1>2. \A x, d : /\ Emission(x, d).finding.from = d /\ Emission(x, d).finding.to = d
                /\ Emission(x, d).finding.code = "provider_history_revision"
  BY DEF At, Finding
<1> HIDE DEF Emission
<1>3. PICK x \in p.revisions : e \in Revised(x)
  BY DEF ProviderRevision
<1>4. PICK d \in Days(x) : e = Emission(x, d)
  <2> HIDE DEF Days
  <2>1. QED
    BY <1>1, <1>3
<1>5. d \in p.from .. p.to
  <2>1. d \in Day
    BY <1>0, QueryFacts
  <2>2. QED
    BY <1>0, <1>2, <1>4, <2>1, DayTouches
<1>6. PICK y \in r.revisions : /\ SameWithin(x.previous, y.previous, p.from, p.to)
                               /\ SameWithin(x.current, y.current, p.from, p.to)
  BY DEF Alike, RevisionsFound
<1>7. /\ x.previous \in Source /\ x.current \in Source /\ y.previous \in Source
      /\ y.current \in Source /\ p.from \in Day /\ p.to \in Day
  BY <1>0 DEF Query, RevisionPair
<1>8. d \in Days(y)
  BY <1>5, <1>6, <1>7, ChangesAlike
<1>9. Emission(y, d) \in ProviderRevision(r.revisions)
  <2> HIDE DEF Days
  <2>1. QED
    BY <1>1, <1>8 DEF ProviderRevision
<1>10. QED
  BY <1>2, <1>4, <1>9 DEF EchoedIn

\* As many sources cover each day of the range.
LEMMA CountAlike ==
    ASSUME NEW p, NEW r, Alike(p, r), NEW d \in p.from .. p.to
    PROVE  SourceCount(p.sources, d) = SourceCount(r.sources, d)
<1>1. /\ p \in Query /\ r \in Query /\ p.from \in Day /\ p.to \in Day
      /\ DOMAIN p.sources = DOMAIN r.sources
  BY QueryFacts DEF Alike
<1>2. ASSUME NEW i \in DOMAIN p.sources
      PROVE  d \in Sessions(p.sources[i]) <=> d \in Sessions(r.sources[i])
  <2>1. p.sources[i] \in Source /\ r.sources[i] \in Source
    BY <1>1, QueryFacts
  <2>2. SameWithin(p.sources[i], r.sources[i], p.from, p.to)
    BY DEF Alike
  <2>3. QED
    BY <1>1, <2>1, <2>2, SessionsAlike
<1>3. {i \in DOMAIN p.sources : d \in Sessions(p.sources[i])}
        = {i \in DOMAIN r.sources : d \in Sessions(r.sources[i])}
  BY <1>1, <1>2
<1>4. QED
  BY <1>3 DEF SourceCount

\* The intervals of a shortage do not depend on whose sources they name.
LEMMA ShortfallAlike ==
    ASSUME NEW p, NEW r, NEW code, NEW S, NEW M, NEW e \in Shortfall(code, S, M, p.sources),
           Touches(e.finding.from, e.finding.to, p.from, p.to)
    PROVE  EchoedIn(e, Shortfall(code, S, M, r.sources), p)
<1>1. PICK g \in MissingIntervals(S, M) :
          e = At(<<code, g>>, Finding(code, "", g[1], g[2], AllEvidence(p.sources), ""))
  BY DEF Shortfall
<1> DEFINE x == At(<<code, g>>, Finding(code, "", g[1], g[2], AllEvidence(r.sources), ""))
<1>2. x \in Shortfall(code, S, M, r.sources)
  BY DEF Shortfall
<1>3. /\ x.finding.code = e.finding.code
      /\ x.finding.from = e.finding.from /\ x.finding.to = e.finding.to
  BY <1>1 DEF At, Finding
<1> HIDE DEF x
<1>4. QED
  BY <1>2, <1>3 DEF EchoedIn

\* The range is short of sources in both or in neither.
LEMMA CoverageAlike ==
    ASSUME NEW p, NEW r, Alike(p, r),
           NEW e \in RequestedRangeCoverage(p.sources, p.expected, p.from, p.to, p.policy),
           Touches(e.finding.from, e.finding.to, p.from, p.to)
    PROVE  EchoedIn(e, RequestedRangeCoverage(r.sources, r.expected, r.from, r.to, r.policy), p)
<1> DEFINE S == InRange(p.expected, p.from, p.to)
           Missing(sources) == {d \in S : SourceCount(sources, d) = 0}
           Unverified(sources) == {d \in S : 0 < SourceCount(sources, d)
                                    /\ SourceCount(sources, d) < p.policy.minSources}
           Nothing(sources) == At(<<>>, Finding("no_expected_sessions_in_requested_range", "",
                                     p.from, p.to, AllEvidence(sources), ""))
           Coverage(sources) ==
               Shortfall("insufficient_session_coverage", S, Missing(sources), sources)
               \cup Shortfall("insufficient_source_verification", S, Unverified(sources), sources)
               \cup (IF S # {} THEN {} ELSE {Nothing(sources)})
<1>1. /\ e \in Coverage(p.sources)
      /\ RequestedRangeCoverage(r.sources, r.expected, r.from, r.to, r.policy) = Coverage(r.sources)
  BY DEF RequestedRangeCoverage, Alike, SameQuestion
<1>2. \A d \in S : SourceCount(p.sources, d) = SourceCount(r.sources, d)
  <2>1. S \subseteq p.from .. p.to
    <3>1. p \in Query
      BY DEF Alike
    <3>2. p.from \in Nat /\ p.to \in Nat /\ p.expected \subseteq Nat
      BY <3>1, QueryFacts, DayFacts
    <3>3. QED
      BY <3>2 DEF InRange
  <2>2. QED
    BY <2>1, CountAlike
<1>3. Missing(p.sources) = Missing(r.sources) /\ Unverified(p.sources) = Unverified(r.sources)
  BY <1>2
<1>4. \A sources : /\ Nothing(sources).finding.from = p.from /\ Nothing(sources).finding.to = p.to
                   /\ Nothing(sources).finding.code = "no_expected_sessions_in_requested_range"
  BY DEF At, Finding
<1> HIDE DEF S, Missing, Unverified, Nothing
<1>5. CASE e \in Shortfall("insufficient_session_coverage", S, Missing(p.sources), p.sources)
  <2>1. EchoedIn(e, Shortfall("insufficient_session_coverage", S, Missing(p.sources), r.sources), p)
    BY <1>5, ShortfallAlike
  <2>2. QED
    BY <1>1, <1>3, <2>1 DEF EchoedIn
<1>6. CASE e \in Shortfall("insufficient_source_verification", S, Unverified(p.sources), p.sources)
  <2>1. EchoedIn(e, Shortfall("insufficient_source_verification", S, Unverified(p.sources), r.sources), p)
    BY <1>6, ShortfallAlike
  <2>2. QED
    BY <1>1, <1>3, <2>1 DEF EchoedIn
<1>7. CASE S = {} /\ e = Nothing(p.sources)
  <2>1. Nothing(r.sources) \in Coverage(r.sources)
    BY <1>7
  <2>2. QED
    BY <1>1, <1>4, <1>7, <2>1 DEF EchoedIn
<1>8. QED
  BY <1>1, <1>5, <1>6, <1>7

\* Which checks find what matters, when every schema is accepted.
LEMMA WhatMatters ==
    ASSUME NEW p, Orderly(p), NEW e \in Steady(p) \cup OfRange(p), Matters(e)
    PROVE  e \in UNION {SessionIntegrity(p.sources), OhlcIntegrity(p.sources),
                        VolumeIntegrity(p.sources), CalendarMembership(p.sources, p.expected),
                        CrossSourceOhlc(p.sources, p.policy, p.adjustment),
                        ProviderRevision(p.revisions),
                        RequestedRangeCoverage(p.sources, p.expected, p.from, p.to, p.policy),
                        AdjustmentSemantics(p.adjustment, p.from, p.to)}
<1>1. e \notin SourceCoverage(p.sources, p.expected)
  <2>1. SUFFICES ASSUME NEW i \in DOMAIN p.sources, e \in Gaps(i, p.sources[i], p.expected)
                 PROVE  FALSE
    BY DEF SourceCoverage
  <2>2. e.finding.code = "source_missing_session"
    <3>1. PICK site, from, to, by, seen : e = At(site, Finding("source_missing_session", "", from, to, by, seen))
      BY <2>1 DEF Gaps
    <3>2. QED
      BY <3>1 DEF At, Finding
  <2>3. QED
    BY <2>2 DEF Matters, INELIGIBLE_FINDING_CODES, INCOMPLETE_FINDING_CODES
<1>2. e \notin CrossSourceOverlap(p.sources)
  <2>1. SUFFICES ASSUME NEW x, NEW s, NEW t, e \in Unshared(x, s, t)
                 PROVE  FALSE
    BY DEF CrossSourceOverlap
  <2>2. e.finding.code = "cross_source_session_missing"
    <3>1. PICK site, from, to, by, seen : e = At(site, Finding("cross_source_session_missing", "", from, to, by, seen))
      BY <2>1 DEF Unshared
    <3>2. QED
      BY <3>1 DEF At, Finding
  <2>3. QED
    BY <2>2 DEF Matters, INELIGIBLE_FINDING_CODES, INCOMPLETE_FINDING_CODES
<1>3. e \notin SchemaContract(p.sources, p.policy, p.from, p.to)
  <2>1. SchemaContract(p.sources, p.policy, p.from, p.to) = {}
    BY DEF SchemaContract, Orderly
  <2>2. QED
    BY <2>1
<1>4. QED
  BY <1>1, <1>2, <1>3 DEF Steady, OfRange

\* What matters to one of two alike queries has its like in the other.
LEMMA MattersAlike ==
    ASSUME NEW p, NEW r, Alike(p, r), NEW e \in Steady(p) \cup OfRange(p), Matters(e),
           Touches(e.finding.from, e.finding.to, p.from, p.to)
    PROVE  EchoedIn(e, Steady(r) \cup OfRange(r), p)
<1>0. Orderly(p) /\ r.expected = p.expected
  BY DEF Alike, SameQuestion
<1>1. CASE e \in SessionIntegrity(p.sources)
  <2>1. EchoedIn(e, SessionIntegrity(r.sources), p)
    BY <1>1, IntegrityAlike
  <2>2. QED
    BY <2>1 DEF EchoedIn, Steady
<1>2. CASE e \in OhlcIntegrity(p.sources)
  <2> DEFINE f == [x \in Rows(p.sources) |-> OhlcFaults(RowAt(p.sources, x))]
             g == [x \in Rows(r.sources) |-> OhlcFaults(RowAt(r.sources, x))]
  <2>1. \A x \in Rows(p.sources), y \in Rows(r.sources) :
            RowAt(p.sources, x) = RowAt(r.sources, y) => f[x] = g[y]
    OBVIOUS
  <2>2. e \in PerRow(p.sources, f) /\ OhlcIntegrity(r.sources) = PerRow(r.sources, g)
    BY <1>2 DEF OhlcIntegrity
  <2> HIDE DEF f, g
  <2>3. EchoedIn(e, OhlcIntegrity(r.sources), p)
    BY <2>1, <2>2, RowsAlike
  <2>4. QED
    BY <2>3 DEF EchoedIn, Steady
<1>3. CASE e \in VolumeIntegrity(p.sources)
  <2> DEFINE f == [x \in Rows(p.sources) |-> VolumeFaults(RowAt(p.sources, x))]
             g == [x \in Rows(r.sources) |-> VolumeFaults(RowAt(r.sources, x))]
  <2>1. \A x \in Rows(p.sources), y \in Rows(r.sources) :
            RowAt(p.sources, x) = RowAt(r.sources, y) => f[x] = g[y]
    OBVIOUS
  <2>2. e \in PerRow(p.sources, f) /\ VolumeIntegrity(r.sources) = PerRow(r.sources, g)
    BY <1>3 DEF VolumeIntegrity
  <2> HIDE DEF f, g
  <2>3. EchoedIn(e, VolumeIntegrity(r.sources), p)
    BY <2>1, <2>2, RowsAlike
  <2>4. QED
    BY <2>3 DEF EchoedIn, Steady
<1>4. CASE e \in CalendarMembership(p.sources, p.expected)
  <2> DEFINE Faults(sources) ==
                 [x \in Rows(sources) |->
                     IF RowAt(sources, x).session \in p.expected
                     THEN {} ELSE {<<"unexpected_session", "", "">>}]
             f == Faults(p.sources)
             g == Faults(r.sources)
  <2>1. \A x \in Rows(p.sources), y \in Rows(r.sources) :
            RowAt(p.sources, x) = RowAt(r.sources, y) => f[x] = g[y]
    OBVIOUS
  <2>2. /\ e \in PerRow(p.sources, f)
        /\ CalendarMembership(r.sources, r.expected) = PerRow(r.sources, g)
    BY <1>0, <1>4 DEF CalendarMembership
  <2> HIDE DEF f, g
  <2>3. EchoedIn(e, CalendarMembership(r.sources, r.expected), p)
    BY <2>1, <2>2, RowsAlike
  <2>4. QED
    BY <2>3 DEF EchoedIn, Steady
<1>5. CASE e \in CrossSourceOhlc(p.sources, p.policy, p.adjustment)
  <2>1. EchoedIn(e, CrossSourceOhlc(r.sources, r.policy, r.adjustment), p)
    BY <1>5, ConflictAlike
  <2>2. QED
    BY <2>1 DEF EchoedIn, Steady
<1>6. CASE e \in ProviderRevision(p.revisions)
  <2>1. EchoedIn(e, ProviderRevision(r.revisions), p)
    BY <1>6, RevisionAlike
  <2>2. QED
    BY <2>1 DEF EchoedIn, Steady
<1>7. CASE e \in RequestedRangeCoverage(p.sources, p.expected, p.from, p.to, p.policy)
  <2>1. EchoedIn(e, RequestedRangeCoverage(r.sources, r.expected, r.from, r.to, r.policy), p)
    BY <1>7, CoverageAlike
  <2>2. QED
    BY <2>1 DEF EchoedIn, OfRange
<1>8. CASE e \in AdjustmentSemantics(p.adjustment, p.from, p.to)
  <2>1. e \in AdjustmentSemantics(r.adjustment, r.from, r.to)
    BY <1>8 DEF Alike, SameQuestion
  <2>2. QED
    BY <2>1 DEF EchoedIn, OfRange
<1>9. QED
  BY <1>0, <1>1, <1>2, <1>3, <1>4, <1>5, <1>6, <1>7, <1>8, WhatMatters

\* The kinds of findings about the range, in terms of the verdict.
Decisive(qq) == {e.finding.code : e \in {x \in Steady(qq) \cup OfRange(qq) :
                 Matters(x) /\ Touches(x.finding.from, x.finding.to, qq.from, qq.to)}}

\* A verdict depends on the kinds of findings about the range only.
LEMMA VerdictOfCodes ==
    ASSUME NEW qq
    PROVE  EvaluateRange(qq) =
             IF Decisive(qq) \cap INELIGIBLE_FINDING_CODES # {} THEN "ineligible"
             ELSE IF \/ Decisive(qq) \cap INCOMPLETE_FINDING_CODES # {}
                     \/ "provider_history_revision" \in Decisive(qq) /\ qq.policy.revisionBlocks
                  THEN "incomplete"
             ELSE "eligible"
<1> DEFINE relevant == {f \in AllFindings(CheckResults(qq)) : Touches(f.from, f.to, qq.from, qq.to)}
<1>1. \A f : f \in relevant <=> \E e \in Steady(qq) \cup OfRange(qq) :
                                  e.finding = f /\ Touches(f.from, f.to, qq.from, qq.to)
  BY FindingsSplit DEF Findings
<1> HIDE DEF relevant
<1>2. (\E f \in relevant : IsBlocking(f)) <=> Decisive(qq) \cap INELIGIBLE_FINDING_CODES # {}
  BY <1>1 DEF IsBlocking, Decisive, Matters
<1>3. (\E f \in relevant : IsIncomplete(qq, f))
        <=> \/ Decisive(qq) \cap INCOMPLETE_FINDING_CODES # {}
            \/ "provider_history_revision" \in Decisive(qq) /\ qq.policy.revisionBlocks
  BY <1>1 DEF IsIncomplete, Decisive, Matters
<1>4. QED
  BY <1>2, <1>3 DEF EvaluateRange, relevant

LEMMA KindsAlike ==
    ASSUME NEW p, NEW r, Alike(p, r)
    PROVE  Decisive(p) \subseteq Decisive(r)
<1>1. SUFFICES ASSUME NEW e \in Steady(p) \cup OfRange(p), Matters(e),
                      Touches(e.finding.from, e.finding.to, p.from, p.to)
               PROVE  e.finding.code \in Decisive(r)
  BY DEF Decisive
<1>2. PICK x \in Steady(r) \cup OfRange(r) :
          /\ x.finding.code = e.finding.code
          /\ Touches(x.finding.from, x.finding.to, p.from, p.to)
  BY <1>1, MattersAlike DEF EchoedIn
<1>3. Matters(x) /\ Touches(x.finding.from, x.finding.to, r.from, r.to)
  BY <1>1, <1>2 DEF Matters, Alike, SameQuestion
<1>4. QED
  BY <1>2, <1>3 DEF Decisive

\* Alike queries have one verdict.
LEMMA VerdictAlike ==
    ASSUME NEW p, NEW r, Alike(p, r)
    PROVE  EvaluateRange(p) = EvaluateRange(r)
<1>1. Decisive(p) = Decisive(r)
  BY KindsAlike, AlikeBack
<1>2. p.policy = r.policy
  BY DEF Alike, SameQuestion
<1>3. QED
  BY <1>1, <1>2, VerdictOfCodes

\* Every row has a place in the order of the texts.
Ranked(qq) == /\ \A i \in DOMAIN qq.sources : HasRanks(qq.sources[i].bars)
              /\ \A x \in qq.revisions : HasRanks(x.previous.bars) /\ HasRanks(x.current.bars)

\* A query and its rows in range are alike.
LEMMA TrimmedIsAlike ==
    ASSUME NEW qq \in Query, Ranked(qq), Orderly(qq)
    PROVE  Alike(qq, Trim(qq))
<1> DEFINE T(s) == TrimSource(s, qq.from, qq.to)
           sources == [i \in DOMAIN qq.sources |-> T(qq.sources[i])]
           revisions == {[previous |-> T(x.previous), current |-> T(x.current)] : x \in qq.revisions}
           r == Trim(qq)
<1>1. qq.from \in Day /\ qq.to \in Day /\ qq.sources \in Seq(Source) /\ qq.revisions \subseteq RevisionPair
  BY DEF Query
<1>2. r = [qq EXCEPT !.sources = sources, !.revisions = revisions]
  BY DEF Trim
<1>3. ASSUME NEW s \in Source, HasRanks(s.bars)
      PROVE  /\ T(s) \in Source /\ T(s).schema = s.schema
             /\ SameWithin(s, T(s), qq.from, qq.to) /\ SameWithin(T(s), s, qq.from, qq.to)
             /\ Sorted(s) => Sorted(T(s))
  <2>1. T(s) \in Source /\ T(s).schema = s.schema
    BY TrimEmbeds
  <2>2. SameWithin(s, T(s), qq.from, qq.to) /\ (Sorted(s) => Sorted(T(s)))
    BY <1>1, <1>3, TrimIsSame
  <2>3. SameWithin(T(s), s, qq.from, qq.to)
    <3> HIDE DEF T
    <3>1. QED
      BY <1>1, <2>1, <2>2, SameWithinBack
  <2>4. QED
    BY <2>1, <2>2, <2>3
<1> HIDE DEF T
<1>4. ASSUME NEW i \in DOMAIN qq.sources
      PROVE  qq.sources[i] \in Source /\ HasRanks(qq.sources[i].bars)
  BY <1>1 DEF Ranked
<1>5. ASSUME NEW x \in qq.revisions
      PROVE  /\ x.previous \in Source /\ HasRanks(x.previous.bars)
             /\ x.current \in Source /\ HasRanks(x.current.bars)
  BY <1>1 DEF Ranked, RevisionPair
<1>6. sources \in Seq(Source) /\ DOMAIN sources = DOMAIN qq.sources
  BY <1>1, <1>3, <1>4
<1>7. revisions \subseteq RevisionPair
  BY <1>3, <1>5 DEF RevisionPair
<1>8. \A i \in DOMAIN qq.sources : sources[i] = T(qq.sources[i])
  OBVIOUS
<1>9. /\ \A x \in qq.revisions : \E y \in revisions : y.previous = T(x.previous) /\ y.current = T(x.current)
      /\ \A y \in revisions : \E x \in qq.revisions : y.previous = T(x.previous) /\ y.current = T(x.current)
  <2> DEFINE trimmed(x) == [previous |-> T(x.previous), current |-> T(x.current)]
  <2>1. \A x : trimmed(x).previous = T(x.previous) /\ trimmed(x).current = T(x.current)
    OBVIOUS
  <2>2. revisions = {trimmed(x) : x \in qq.revisions}
    OBVIOUS
  <2> HIDE DEF trimmed, revisions
  <2>3. QED
    BY <2>1, <2>2
<1> HIDE DEF sources, revisions, r
<1>10. /\ r \in Query /\ r.sources = sources /\ r.revisions = revisions
       /\ SameQuestion(qq, r)
  BY <1>2, <1>6, <1>7 DEF Query, SameQuestion
<1>11. Orderly(r)
  BY <1>3, <1>4, <1>6, <1>8, <1>10 DEF Orderly, SameQuestion
<1>12. \A i \in DOMAIN qq.sources : SameWithin(qq.sources[i], r.sources[i], qq.from, qq.to)
  BY <1>3, <1>4, <1>8, <1>10
<1>13. RevisionsFound(qq, r) /\ RevisionsFound(r, qq)
  <2>1. r.from = qq.from /\ r.to = qq.to
    BY <1>10 DEF SameQuestion
  <2>2. RevisionsFound(qq, r)
    BY <1>3, <1>5, <1>9, <1>10 DEF RevisionsFound
  <2>3. RevisionsFound(r, qq)
    BY <1>3, <1>5, <1>9, <1>10, <2>1 DEF RevisionsFound
  <2>4. QED
    BY <2>2, <2>3
<1>14. QED
  BY <1>6, <1>10, <1>11, <1>12, <1>13 DEF Alike, r

\* The caller only adds rows that have places in the order of the texts.
LEMMA RanksKept == Spec => []Ranked(q)
<1>1. Init => Ranked(q)
  BY RankAssumption DEF Init, Ranked
<1>2. TypeOK /\ Ranked(q) /\ [Next]_vars => Ranked(q')
  <2>1. SUFFICES ASSUME TypeOK, Ranked(q), [Next]_vars PROVE Ranked(q')
    OBVIOUS
  <2>2. q \in Query /\ q.sources \in Seq(Source)
    BY <2>1 DEF TypeOK, Query
  <2>3. ASSUME q'.revisions = q.revisions,
               \A i \in DOMAIN q'.sources : HasRanks(q'.sources[i].bars)
        PROVE  Ranked(q')
    BY <2>1, <2>3 DEF Ranked
  <2>4. ASSUME NEW i \in DOMAIN q.sources PROVE HasRanks(q.sources[i].bars)
    BY <2>1 DEF Ranked
  <2>5. ASSUME NEW i \in DOMAIN q.sources
        PROVE  /\ q.sources[i] \in Source /\ q.sources[i].bars \in Seq(Bar)
               /\ DOMAIN q.sources[i].bars = 1 .. Len(q.sources[i].bars)
               /\ Len(q.sources[i].bars) \in Nat
    <3>1. q.sources[i] \in Source
      BY <2>2
    <3>2. q.sources[i].bars \in Seq(Bar)
      BY <3>1 DEF Source
    <3>3. QED
      BY <3>1, <3>2
  <2>6. ASSUME NEW s \in Sources, AddSource(s) PROVE Ranked(q')
    <3>1. q' = [q EXCEPT !.sources = Append(q.sources, s)]
      BY <2>6 DEF AddSource
    <3>2. q'.sources = Append(q.sources, s) /\ q'.revisions = q.revisions
      BY <2>2, <3>1 DEF Query
    <3>3. s \in Source /\ HasRanks(s.bars)
      BY InputAssumption, RankAssumption
    <3>4. ASSUME NEW i \in DOMAIN q'.sources PROVE q'.sources[i] = s \/ (i \in DOMAIN q.sources /\ q'.sources[i] = q.sources[i])
      BY <2>2, <3>2, <3>3
    <3>5. QED
      BY <2>3, <2>4, <3>2, <3>3, <3>4
  <2>7. ASSUME NEW i \in DOMAIN q.sources, NEW t, q' = [q EXCEPT !.sources = [q.sources EXCEPT ![i] = t]],
               HasRanks(t.bars)
        PROVE  Ranked(q')
    <3>1. q'.sources = [q.sources EXCEPT ![i] = t] /\ q'.revisions = q.revisions
      BY <2>2, <2>7 DEF Query
    <3>2. ASSUME NEW j \in DOMAIN q'.sources PROVE j \in DOMAIN q.sources /\ (q'.sources[j] = t \/ q'.sources[j] = q.sources[j])
      BY <2>2, <3>1
    <3>3. QED
      BY <2>3, <2>4, <2>7, <3>1, <3>2
  <2>8. ASSUME NEW i \in DOMAIN q.sources, NEW b \in Bars, AddBar(i, b) PROVE Ranked(q')
    <3> DEFINE s == q.sources[i]
               t == [s EXCEPT !.bars = Append(s.bars, b)]
    <3>1. q' = [q EXCEPT !.sources = [q.sources EXCEPT ![i] = t]]
      BY <2>8 DEF AddBar
    <3>2. t.bars = Append(s.bars, b)
      BY <2>5 DEF Source
    <3>3. b \in Bar /\ TextRank(b) \in Nat
      BY InputAssumption, RankAssumption
    <3>4. \A k \in DOMAIN t.bars : t.bars[k] = b \/ (k \in DOMAIN s.bars /\ t.bars[k] = s.bars[k])
      <4> HIDE DEF t, s
      <4>1. s.bars \in Seq(Bar)
        BY <2>5 DEF s
      <4>2. QED
        BY <3>2, <3>3, <4>1
    <3>5. HasRanks(t.bars)
      <4> HIDE DEF t, s
      <4>1. HasRanks(s.bars)
        BY <2>4 DEF s
      <4>2. QED
        BY <3>3, <3>4, <4>1 DEF HasRanks
    <3> HIDE DEF t
    <3>6. QED
      BY <2>7, <3>1, <3>5
  <2>9. ASSUME NEW i \in DOMAIN q.sources, NEW k \in DOMAIN q.sources[i].bars,
               NEW b \in Bars, Renormalize(i, k, b)
        PROVE  Ranked(q')
    <3> DEFINE s == q.sources[i]
               t == [s EXCEPT !.bars = [s.bars EXCEPT ![k] = b]]
    <3>1. q' = [q EXCEPT !.sources = [q.sources EXCEPT ![i] = t]]
      BY <2>9 DEF Renormalize
    <3>2. t.bars = [s.bars EXCEPT ![k] = b]
      BY <2>5 DEF Source
    <3>3. TextRank(b) \in Nat
      BY RankAssumption
    <3>4. \A j \in DOMAIN t.bars : t.bars[j] = b \/ (j \in DOMAIN s.bars /\ t.bars[j] = s.bars[j])
      <4> HIDE DEF t, s
      <4>1. QED
        BY <3>2
    <3>5. HasRanks(t.bars)
      <4> HIDE DEF t, s
      <4>1. HasRanks(s.bars)
        BY <2>4 DEF s
      <4>2. QED
        BY <3>3, <3>4, <4>1 DEF HasRanks
    <3> HIDE DEF t
    <3>6. QED
      BY <2>7, <3>1, <3>5
  <2>10. ASSUME NEW s \in Sources, NEW t \in Sources,
                AddRevision([previous |-> s, current |-> t])
         PROVE  Ranked(q')
    <3> DEFINE x == [previous |-> s, current |-> t]
    <3>1. q'.sources = q.sources /\ q'.revisions = q.revisions \cup {x}
      BY <2>2, <2>10 DEF AddRevision, Query
    <3>2. HasRanks(x.previous.bars) /\ HasRanks(x.current.bars)
      BY RankAssumption
    <3> HIDE DEF x
    <3>3. QED
      BY <2>1, <3>1, <3>2 DEF Ranked
  <2>11. ASSUME NEW base \in Queries, Restate(base) PROVE Ranked(q')
    <3> DEFINE back == [i \in DOMAIN q.sources |-> q.sources[Len(q.sources) + 1 - i]]
    <3>1. base \in Query
      BY InputAssumption
    <3>2. \A i \in DOMAIN q.sources : Len(q.sources) + 1 - i \in DOMAIN q.sources
      BY <2>2
    <3>3. q' = [base EXCEPT !.sources = back, !.revisions = q.revisions]
      BY <2>11 DEF Restate
    <3>4. \A i \in DOMAIN back : HasRanks(back[i].bars)
      BY <2>4, <3>2
    <3> HIDE DEF back
    <3>5. q'.sources = back /\ q'.revisions = q.revisions
      BY <3>1, <3>3 DEF Query
    <3>6. QED
      BY <2>3, <3>4, <3>5
  <2>12. ASSUME q' = q PROVE Ranked(q')
    BY <2>1, <2>12
  <2>13. QED
    BY <2>1, <2>6, <2>8, <2>9, <2>10, <2>11, <2>12
    DEF Next, Evaluate, VerifyReport, vars
<1>3. Ranked(q)' <=> Ranked(q')
  BY DEF Ranked, HasRanks
<1>4. QED
  BY <1>1, <1>2, <1>3, TypeCorrect, PTL DEF Spec

\* Findings outside the range do not change its verdict: with accepted
\* schemas and sorted rows the verdict is that of the rows in range alone.
THEOREM OutsideTheorem == Spec => []OutsideIsIgnored
<1>1. TypeOK /\ Ranked(q) => OutsideIsIgnored
  <2>1. SUFFICES ASSUME q \in Query, Ranked(q), Orderly(q)
                 PROVE  EvaluateRange(q) = EvaluateRange(Trim(q))
    BY DEF TypeOK, OutsideIsIgnored, Orderly
  <2>2. QED
    BY <2>1, TrimmedIsAlike, VerdictAlike
<1>2. QED
  BY <1>1, TypeCorrect, RanksKept, PTL
-----------------------------------------------------------------------------
\* Sorted rows.

\* Row i comes before row j in a stable sort by session.
Precedes(rows, i, j) == \/ rows[i].session < rows[j].session
                        \/ rows[i].session = rows[j].session /\ i < j

\* p lists the first n rows in that order.
Places(rows, n, p) == /\ p \in [1 .. n -> 1 .. n]
                      /\ \A j, k \in 1 .. n : j < k => Precedes(rows, p[j], p[k])

\* One more row finds its place.
LEMMA Inserted ==
    ASSUME NEW rows, NEW m \in Nat \ {0}, \A k \in 1 .. m : rows[k].session \in Int,
           NEW p, Places(rows, m - 1, p)
    PROVE  \E h : Places(rows, m, h)
<1> DEFINE x == rows[m].session
           U == {k \in 1 .. m - 1 : rows[p[k]].session > x} \cup {m}
           i == Least(U)
           h == [k \in 1 .. m |-> IF k < i THEN p[k] ELSE IF k = i THEN m ELSE p[k - 1]]
<1>1. i \in U /\ \A y \in U : i <= y
  <2>1. U \subseteq Nat /\ U # {}
    OBVIOUS
  <2> HIDE DEF U
  <2>2. QED
    BY <2>1, LeastExists
<1>2. i \in 1 .. m /\ (i # m => rows[p[i]].session > x)
  <2> HIDE DEF i
  <2> QED
    BY <1>1
<1>3. ASSUME NEW k \in 1 .. m - 1
      PROVE  /\ p[k] \in 1 .. m - 1 /\ p[k] \in 1 .. m
             /\ k < i => Precedes(rows, p[k], m)
             /\ i <= k => Precedes(rows, m, p[k])
  <2>1. p[k] \in 1 .. m - 1 /\ p[k] \in 1 .. m /\ p[k] < m /\ m \in 1 .. m
    BY DEF Places
  <2>2. rows[p[k]].session \in Int /\ x \in Int
    BY <2>1
  <2>3. ASSUME k < i PROVE Precedes(rows, p[k], m)
    <3>1. k \notin U
      <4> HIDE DEF i, U
      <4> QED
        BY <1>1, <1>2, <2>3
    <3>2. ~(rows[p[k]].session > x)
      BY <3>1
    <3>3. QED
      BY <2>1, <2>2, <3>2 DEF Precedes
  <2>4. ASSUME i <= k PROVE Precedes(rows, m, p[k])
    <3> HIDE DEF U, i
    <3>1. i \in 1 .. m - 1 /\ i # m
      BY <1>2, <2>4
    <3>2. rows[p[i]].session > x
      BY <1>2, <3>1
    <3>3. i = k \/ Precedes(rows, p[i], p[k])
      BY <2>4, <3>1 DEF Places
    <3>4. p[i] \in 1 .. m /\ rows[p[i]].session \in Int
      BY <3>1 DEF Places
    <3>5. rows[p[k]].session > x
      BY <2>2, <3>2, <3>3, <3>4 DEF Precedes
    <3>6. QED
      BY <2>2, <3>5 DEF Precedes
  <2>5. QED
    BY <2>1, <2>3, <2>4
<1> HIDE DEF x, U, i
<1>4. ASSUME NEW k \in 1 .. m PROVE h[k] \in 1 .. m
  <2>1. CASE k < i
    BY <1>2, <1>3, <2>1
  <2>2. CASE k = i
    BY <2>2
  <2>3. CASE i < k
    <3>1. k - 1 \in 1 .. m - 1 /\ ~(k < i) /\ k # i
      BY <1>2, <2>3
    <3>2. QED
      BY <1>3, <3>1
  <2>4. QED
    BY <1>2, <2>1, <2>2, <2>3
<1>5. ASSUME NEW j \in 1 .. m, NEW k \in 1 .. m, j < k PROVE Precedes(rows, h[j], h[k])
  <2>1. CASE k < i
    <3>1. j \in 1 .. m - 1 /\ k \in 1 .. m - 1 /\ j < i
      BY <1>2, <1>5, <2>1
    <3>2. h[j] = p[j] /\ h[k] = p[k]
      BY <2>1, <3>1
    <3>3. QED
      BY <1>5, <3>1, <3>2 DEF Places
  <2>2. CASE k = i
    <3>1. j \in 1 .. m - 1 /\ j < i
      BY <1>2, <1>5, <2>2
    <3>2. h[j] = p[j] /\ h[k] = m
      BY <1>2, <2>2, <3>1
    <3>3. QED
      BY <1>3, <3>1, <3>2
  <2>3. CASE i < k
    <3>1. k - 1 \in 1 .. m - 1 /\ ~(k < i) /\ k # i /\ i <= k - 1
      BY <1>2, <2>3
    <3>2. h[k] = p[k - 1]
      BY <3>1
    <3>3. CASE j < i
      <4>1. j \in 1 .. m - 1 /\ j < k - 1 /\ h[j] = p[j]
        BY <1>2, <3>1, <3>3
      <4>2. QED
        BY <3>1, <3>2, <4>1 DEF Places
    <3>4. CASE j = i
      <4>1. h[j] = m
        BY <1>2, <3>4
      <4>2. QED
        BY <1>3, <3>1, <3>2, <4>1
    <3>5. CASE i < j
      <4>1. j - 1 \in 1 .. m - 1 /\ j - 1 < k - 1 /\ ~(j < i) /\ j # i
        BY <1>2, <1>5, <3>5
      <4>2. h[j] = p[j - 1]
        BY <4>1
      <4>3. QED
        BY <3>1, <3>2, <4>1, <4>2 DEF Places
    <3>6. QED
      BY <1>2, <3>3, <3>4, <3>5
  <2>4. QED
    BY <1>2, <2>1, <2>2, <2>3
<1>6. h \in [1 .. m -> 1 .. m]
  BY <1>4
<1> HIDE DEF h
<1>7. QED
  BY <1>5, <1>6 DEF Places

\* Rows with sessions can be sorted.
LEMMA PlacesExist ==
    ASSUME NEW rows, NEW n \in Nat, \A k \in 1 .. n : rows[k].session \in Int
    PROVE  \E p : Places(rows, n, p)
<1> DEFINE S == {m \in Nat : m <= n /\ ~ \E p : Places(rows, m, p)}
<1>1. SUFFICES ASSUME S # {} PROVE FALSE
  OBVIOUS
<1>2. PICK m \in S : \A k \in S : m <= k
  <2> S \subseteq Nat
    OBVIOUS
  <2> HIDE DEF S
  <2> QED
    BY <1>1, LeastExists
<1>3. m # 0
  <2>1. Places(rows, 0, [k \in {} |-> 1])
    BY DEF Places
  <2>2. QED
    BY <1>2, <2>1
<1>4. m \in Nat \ {0} /\ m - 1 \in Nat /\ m - 1 <= n /\ m - 1 \notin S /\ m <= n
  BY <1>2, <1>3
<1>5. PICK p : Places(rows, m - 1, p)
  BY <1>4
<1>6. \A k \in 1 .. m : rows[k].session \in Int
  BY <1>4
<1>7. \E h : Places(rows, m, h)
  BY <1>4, <1>5, <1>6, Inserted
<1>8. QED
  BY <1>2, <1>7

\* Rows in order, one of a session.
Ascending(t) == \A j, k \in DOMAIN t : j < k => t[j].session < t[k].session

\* The sorted rows are the rows, in order.
LEMMA InOrderSorts ==
    ASSUME NEW R, NEW rows \in Seq(R), \A k \in DOMAIN rows : rows[k].session \in Int,
           NEW t, t = InOrder(rows)
    PROVE  /\ t \in Seq(R)
           /\ Range(t) = Range(rows)
           /\ SessionsDiffer(rows) => Ascending(t)
<1> DEFINE n == Len(rows)
           place == CHOOSE p \in [1 .. n -> 1 .. n] :
                        \A j, k \in 1 .. n : j < k => Precedes(rows, p[j], p[k])
<1>1. n \in Nat /\ DOMAIN rows = 1 .. n /\ \A k \in 1 .. n : rows[k] \in R
  OBVIOUS
<1>2. Places(rows, n, place)
  <2> HIDE DEF n
  <2>1. \E p : Places(rows, n, p)
    BY <1>1, PlacesExist
  <2>2. QED
    BY <2>1 DEF Places
<1>3. t = [k \in 1 .. n |-> rows[place[k]]]
  <2> HIDE DEF n
  <2> QED
    BY <1>1 DEF InOrder, Precedes
<1> HIDE DEF place, n
<1>4. \A j, k \in 1 .. n : j # k => place[j] # place[k]
  <2>1. SUFFICES ASSUME NEW j \in 1 .. n, NEW k \in 1 .. n, j < k PROVE place[j] # place[k]
    BY <1>1
  <2>2. Precedes(rows, place[j], place[k]) /\ place[j] \in 1 .. n /\ place[k] \in 1 .. n
    BY <1>2, <2>1 DEF Places
  <2>3. QED
    BY <1>1, <2>2 DEF Precedes
<1>5. \A m \in 1 .. n : \E k \in 1 .. n : place[k] = m
  <2>1. place \in Injection(1 .. n, 1 .. n)
    BY <1>2, <1>4 DEF Places, Injection, IsInjective
  <2>2. IsFiniteSet(1 .. n)
    BY <1>1, FS_Interval
  <2>3. place \in Surjection(1 .. n, 1 .. n)
    BY <2>1, <2>2, FS_Injection
  <2>4. QED
    BY <2>3 DEF Surjection
<1>6. \A k \in 1 .. n : place[k] \in 1 .. n /\ t[k] = rows[place[k]] /\ t[k] \in R
  BY <1>1, <1>2, <1>3 DEF Places
<1>7. DOMAIN t = 1 .. n /\ t \in Seq(R)
  BY <1>1, <1>3, <1>6
<1>8. {t[k] : k \in 1 .. n} = {rows[k] : k \in 1 .. n}
  <2>1. \A k \in 1 .. n : t[k] \in {rows[m] : m \in 1 .. n}
    BY <1>6
  <2>2. ASSUME NEW m \in 1 .. n PROVE rows[m] \in {t[k] : k \in 1 .. n}
    <3>1. PICK k \in 1 .. n : place[k] = m
      BY <1>5
    <3>2. t[k] = rows[m]
      BY <1>6, <3>1
    <3>3. QED
      BY <3>2
  <2>3. QED
    BY <2>1, <2>2
<1>9. ASSUME SessionsDiffer(rows), NEW j \in 1 .. n, NEW k \in 1 .. n, j < k
      PROVE  t[j].session < t[k].session
  <2>1. j # k
    BY <1>9
  <2>2. Precedes(rows, place[j], place[k]) /\ place[j] # place[k]
    BY <1>2, <1>4, <1>9, <2>1 DEF Places
  <2>3. rows[place[j]].session # rows[place[k]].session
    BY <1>1, <1>6, <1>9, <2>2 DEF SessionsDiffer
  <2>4. QED
    BY <1>6, <2>2, <2>3 DEF Precedes
<1>10. Range(t) = Range(rows)
  BY <1>1, <1>7, <1>8 DEF Range
<1>11. SessionsDiffer(rows) => Ascending(t)
  BY <1>7, <1>9 DEF Ascending
<1>12. QED
  BY <1>7, <1>10, <1>11

\* Such rows are determined by the set of them.
LEMMA AscendingUnique ==
    ASSUME NEW R, \A r \in R : r.session \in Int, NEW t \in Seq(R), NEW u \in Seq(R),
           Ascending(t), Ascending(u),
           Range(t) = Range(u)
    PROVE  t = u
<1>1. /\ Len(t) \in Nat /\ DOMAIN t = 1 .. Len(t) /\ t = [k \in 1 .. Len(t) |-> t[k]]
      /\ Len(u) \in Nat /\ DOMAIN u = 1 .. Len(u) /\ u = [k \in 1 .. Len(u) |-> u[k]]
      /\ \A k \in DOMAIN t : t[k].session \in Int
      /\ \A k \in DOMAIN u : u[k].session \in Int
  OBVIOUS
<1>2. ASSUME NEW v \in Seq(R), NEW w \in Seq(R), Ascending(v), Ascending(w),
             Range(v) = Range(w),
             NEW k \in DOMAIN v, \A j \in DOMAIN v : j < k => j \in DOMAIN w /\ v[j] = w[j]
      PROVE  k \in DOMAIN w /\ ~(w[k].session < v[k].session)
  <2>1. PICK i \in DOMAIN w : w[i] = v[k]
    BY <1>2 DEF Range
  <2>2. /\ Len(v) \in Nat /\ DOMAIN v = 1 .. Len(v) /\ \A m \in DOMAIN v : v[m].session \in Int
        /\ Len(w) \in Nat /\ DOMAIN w = 1 .. Len(w) /\ \A m \in DOMAIN w : w[m].session \in Int
    OBVIOUS
  <2>3. ~(i < k)
    <3>1. SUFFICES ASSUME i < k PROVE FALSE
      OBVIOUS
    <3>2. i \in DOMAIN v
      BY <2>2, <3>1
    <3>3. v[i] = w[i] /\ v[i].session < v[k].session
      BY <1>2, <3>1, <3>2 DEF Ascending
    <3>4. QED
      BY <2>1, <2>2, <3>2, <3>3
  <2>4. k \in DOMAIN w
    BY <2>1, <2>2, <2>3
  <2>5. SUFFICES ASSUME w[k].session < v[k].session PROVE FALSE
    BY <2>4
  <2>6. PICK m \in DOMAIN v : v[m] = w[k]
    BY <1>2, <2>4 DEF Range
  <2>7. m < k
    <3>1. m = k \/ k < m => v[m].session >= v[k].session
      BY <1>2, <2>2 DEF Ascending
    <3>2. v[m].session < v[k].session
      BY <2>5, <2>6
    <3>3. QED
      BY <2>2, <3>1, <3>2
  <2>8. w[m] = v[m] /\ m \in DOMAIN w
    BY <1>2, <2>7
  <2>9. w[m].session < w[k].session
    BY <1>2, <2>4, <2>7, <2>8 DEF Ascending
  <2>10. QED
    BY <2>2, <2>4, <2>6, <2>8, <2>9
<1>3. ASSUME NEW k \in Nat, k >= 1, \A j \in Nat : j >= 1 /\ j < k =>
                 (j \in DOMAIN t <=> j \in DOMAIN u) /\ (j \in DOMAIN t => t[j] = u[j])
      PROVE  (k \in DOMAIN t <=> k \in DOMAIN u) /\ (k \in DOMAIN t => t[k] = u[k])
  <2>1. /\ \A j \in DOMAIN t : j < k => j \in DOMAIN u /\ t[j] = u[j]
        /\ \A j \in DOMAIN u : j < k => j \in DOMAIN t /\ t[j] = u[j]
    BY <1>1, <1>3
  <2>2. k \in DOMAIN t => k \in DOMAIN u /\ ~(u[k].session < t[k].session)
    BY <1>2, <2>1
  <2>3. k \in DOMAIN u => k \in DOMAIN t /\ ~(t[k].session < u[k].session)
    BY <1>2, <2>1
  <2>4. ASSUME k \in DOMAIN t PROVE t[k] = u[k]
    <3>1. t[k].session = u[k].session /\ k \in DOMAIN u
      BY <1>1, <2>2, <2>3, <2>4
    <3>2. PICK i \in DOMAIN u : u[i] = t[k]
      BY <2>4 DEF Range
    <3>3. ~(i < k) /\ ~(k < i)
      BY <1>1, <3>1, <3>2 DEF Ascending
    <3>4. i = k
      BY <1>1, <3>1, <3>3
    <3>5. QED
      BY <3>2, <3>4
  <2>5. QED
    BY <2>2, <2>3, <2>4
<1> DEFINE Same(k) == (k \in DOMAIN t <=> k \in DOMAIN u) /\ (k \in DOMAIN t => t[k] = u[k])
           S == {k \in Nat : k >= 1 /\ ~Same(k)}
<1>4. S = {}
  <2>1. SUFFICES ASSUME S # {} PROVE FALSE
    OBVIOUS
  <2>2. PICK k \in S : \A j \in S : k <= j
    <3> S \subseteq Nat
      OBVIOUS
    <3> HIDE DEF S
    <3> QED
      BY <2>1, LeastExists
  <2>3. \A j \in Nat : j >= 1 /\ j < k => Same(j)
    BY <2>2
  <2>4. k \in Nat /\ k >= 1 /\ ~Same(k)
    BY <2>2
  <2>5. QED
    BY <1>3, <2>3, <2>4
<1>5. \A k \in Nat : k >= 1 => Same(k)
  BY <1>4
<1>6. \A k \in Nat : k \in 1 .. Len(t) <=> k \in 1 .. Len(u)
  BY <1>1, <1>5
<1>7. Len(t) = Len(u)
  <2> DEFINE a == Len(t)
             b == Len(u)
  <2>1. a \in Nat /\ b \in Nat
    BY <1>1
  <2> HIDE DEF a, b
  <2>2. (a \in 1 .. a <=> a \in 1 .. b) /\ (b \in 1 .. a <=> b \in 1 .. b)
    BY <1>6, <2>1 DEF a, b
  <2>3. a = b
    BY <2>1, <2>2
  <2>4. QED
    BY <2>3 DEF a, b
<1>8. \A k \in 1 .. Len(t) : t[k] = u[k]
  BY <1>1, <1>5
<1>9. QED
  BY <1>1, <1>7, <1>8
-----------------------------------------------------------------------------
\* What an adapter normalizes.

DatedRow == {r \in Row : r.session \in Day}

LEMMA WithinEmbeds ==
    ASSUME NEW R, NEW bs \in Seq(R), NEW a, NEW b
    PROVE  \E e : Embeds(R, RowsWithin(bs, a, b), bs, Len(bs), a, b, e)
<1>1. PICK f : Keeping(bs, a, b, Len(bs), f) /\ RowsWithin(bs, a, b) = f[Len(bs)]
  BY RowsWithinKeeps
<1>2. QED
  BY <1>1, KeptEmbed

RowsInside(bs, a, b) == {bs[m] : m \in {i \in DOMAIN bs : Inside(bs[i], a, b)}}

\* The rows in the range, as a set, and what they inherit of their distance.
LEMMA WithinRows ==
    ASSUME NEW R, NEW bs \in Seq(R), NEW a, NEW b, NEW w, w = RowsWithin(bs, a, b)
    PROVE  /\ w \in Seq(R)
           /\ Range(w) = RowsInside(bs, a, b)
           /\ Ascending(bs) => Ascending(w)
           /\ SessionsDiffer(bs) => SessionsDiffer(w)
<1>1. PICK e : Embeds(R, w, bs, Len(bs), a, b, e)
  BY WithinEmbeds
<1>2. /\ Len(bs) \in Nat /\ DOMAIN bs = 1 .. Len(bs)
      /\ Len(w) \in Nat /\ DOMAIN w = 1 .. Len(w)
  BY <1>1 DEF Embeds
<1>3. \A k \in DOMAIN w : e[k] \in DOMAIN bs /\ w[k] = bs[e[k]] /\ Inside(w[k], a, b)
  BY <1>1, <1>2 DEF Embeds, Inside
<1>4. \A m \in DOMAIN bs : Inside(bs[m], a, b) => \E k \in DOMAIN w : e[k] = m
  BY <1>1, <1>2 DEF Embeds, Inside
<1>5. Range(w) = RowsInside(bs, a, b)
  <2>1. \A k \in DOMAIN w : w[k] \in {bs[m] : m \in {i \in DOMAIN bs : Inside(bs[i], a, b)}}
    BY <1>3
  <2>2. ASSUME NEW m \in DOMAIN bs, Inside(bs[m], a, b) PROVE bs[m] \in {w[k] : k \in DOMAIN w}
    <3>1. PICK k \in DOMAIN w : e[k] = m
      BY <1>4, <2>2
    <3>2. w[k] = bs[m]
      BY <1>3, <3>1
    <3>3. QED
      BY <3>2
  <2>3. QED
    BY <2>1, <2>2 DEF Range, RowsInside
<1>6. \A j, k \in DOMAIN w : j < k => e[j] < e[k]
  BY <1>1 DEF Embeds
<1>7. ASSUME Ascending(bs) PROVE Ascending(w)
  BY <1>3, <1>6, <1>7 DEF Ascending
<1>8. ASSUME SessionsDiffer(bs) PROVE SessionsDiffer(w)
  <2>1. SUFFICES ASSUME NEW j \in DOMAIN w, NEW k \in DOMAIN w, w[j].session = w[k].session
                 PROVE  j = k
    BY DEF SessionsDiffer
  <2>2. e[j] = e[k]
    BY <1>3, <1>8, <2>1 DEF SessionsDiffer
  <2>3. e[j] \in Nat
    BY <1>2, <1>3
  <2>4. ~(j < k) /\ ~(k < j)
    BY <1>6, <2>2, <2>3
  <2>5. QED
    BY <1>2, <2>4
<1>9. w \in Seq(R)
  BY <1>1 DEF Embeds
<1>10. QED
  BY <1>5, <1>7, <1>8, <1>9

\* A row of finite cells that an adapter takes is a bar of the suite.
LEMMA RowIsBar ==
    ASSUME NEW r \in DatedRow, IsBar(r)
    PROVE  r \in Bar /\ WellFormed(r)
<1>1. /\ \A f \in Columns : r[f] \in Cell
      /\ r = [session |-> r.session, open |-> r.open, high |-> r.high, low |-> r.low,
              close |-> r.close, volume |-> r.volume]
  BY DEF DatedRow, Row, Columns, Field
<1>2. \A f \in Columns : r[f] \in Value /\ r[f] # NaN
  BY <1>1 DEF IsBar, Cell
<1>3. r.session \in Day /\ r.open \in Value /\ r.high \in Value /\ r.low \in Value
      /\ r.close \in Value /\ r.volume \in Value
  BY <1>2 DEF DatedRow, Columns, Field
<1>4. r \in Bar
  BY <1>1, <1>3 DEF Bar
<1>5. WellFormed(r)
  BY <1>2 DEF WellFormed, IsBar, Columns
<1>6. QED
  BY <1>4, <1>5

LEMMA DatedRows ==
    ASSUME NEW v, NEW c \in Capture, NEW from, NEW to, Accepts(v, c, from, to)
    PROVE  c.rows \in Seq(DatedRow) /\ \A k \in DOMAIN c.rows : c.rows[k].session \in Int
<1>1. c.rows \in Seq(Row)
  BY DEF Capture
<1>2. \A k \in DOMAIN c.rows : c.rows[k] \in DatedRow
  BY <1>1 DEF Accepts, DatedRow
<1>3. c.rows \in Seq(DatedRow)
  BY <1>1, <1>2
<1>4. QED
  BY <1>2, <1>3, DayFacts DEF DatedRow

\* The bars are the rows of the range, strictly in order.
LEMMA NormalizeFacts ==
    ASSUME NEW v, NEW c \in Capture, NEW from, NEW to, Accepts(v, c, from, to),
           NEW t, t = Normalize(c, from, to)
    PROVE  /\ t \in Seq(DatedRow) /\ Ascending(t)
           /\ Range(t) = RowsInside(c.rows, from, to)
           /\ \A k \in DOMAIN t : t[k] \in Bar /\ IsBar(t[k])
           /\ t \in Seq(Bar)
<1> DEFINE w == RowsWithin(c.rows, from, to)
           rows == c.rows
<1>1. rows \in Seq(DatedRow) /\ SessionsDiffer(rows)
  BY DatedRows DEF Accepts
<1>2. /\ w \in Seq(DatedRow) /\ SessionsDiffer(w)
      /\ Range(w) = RowsInside(rows, from, to)
  <2> HIDE DEF rows
  <2> QED
    BY <1>1, WithinRows DEF rows
<1>3. t = InOrder(w)
  BY DEF Normalize, Selected
<1> HIDE DEF w, rows
<1>4. \A k \in DOMAIN w : w[k].session \in Int
  <2>1. \A k \in DOMAIN w : w[k] \in DatedRow
    BY <1>2
  <2>2. QED
    BY <2>1, DayFacts DEF DatedRow
<1>5. /\ t \in Seq(DatedRow) /\ Ascending(t)
      /\ Range(t) = Range(w)
  BY <1>2, <1>3, <1>4, InOrderSorts
<1>6. ASSUME NEW k \in DOMAIN t PROVE t[k] \in Bar /\ IsBar(t[k])
  <2>1. t[k] \in RowsInside(rows, from, to)
    BY <1>2, <1>5 DEF Range
  <2>2. PICK m \in DOMAIN rows : Inside(rows[m], from, to) /\ t[k] = rows[m]
    BY <2>1 DEF RowsInside
  <2>3. IsBar(t[k]) /\ t[k] \in DatedRow
    BY <1>5, <2>2 DEF Accepts, rows
  <2>4. QED
    BY <2>3, RowIsBar
<1>7. t \in Seq(Bar)
  BY <1>5, <1>6
<1>8. QED
  BY <1>2, <1>5, <1>6, <1>7 DEF rows
-----------------------------------------------------------------------------
\* The order of the answer does not matter.

\* The captures have the same rows, each as often.
Permuted(c, d) ==
    /\ d.provider = c.provider /\ d.schema = c.schema /\ d.symbol = c.symbol /\ d.adjust = c.adjust
    /\ DOMAIN d.rows = DOMAIN c.rows /\ d.rows \in Seq(Row)
    /\ \E p \in Orders(c) : \A k \in DOMAIN c.rows : d.rows[k] = c.rows[p[k]]

LEMMA ReorderedFacts ==
    ASSUME NEW c \in Capture, NEW p \in Orders(c)
    PROVE  Reordered(c, p) \in Capture /\ Permuted(c, Reordered(c, p))
<1> DEFINE rows == c.rows
           moved == [k \in DOMAIN rows |-> rows[p[k]]]
           d == [c EXCEPT !.rows = moved]
<1>1. d = Reordered(c, p)
  BY DEF Reordered
<1>2. rows \in Seq(Row) /\ Len(rows) \in Nat /\ DOMAIN rows = 1 .. Len(rows)
  BY DEF Capture
<1>3. p \in [DOMAIN rows -> DOMAIN rows]
  BY DEF Orders
<1>4. /\ moved \in Seq(Row) /\ DOMAIN moved = DOMAIN rows
      /\ \A k \in DOMAIN rows : moved[k] = rows[p[k]]
  <2> HIDE DEF rows
  <2>1. \A k \in 1 .. Len(rows) : p[k] \in 1 .. Len(rows) /\ rows[p[k]] \in Row
    BY <1>2, <1>3
  <2>2. QED
    BY <1>2, <2>1
<1> HIDE DEF moved
<1>5. /\ d \in Capture /\ d.rows = moved
      /\ d.provider = c.provider /\ d.schema = c.schema /\ d.symbol = c.symbol /\ d.adjust = c.adjust
  BY <1>4 DEF Capture
<1>6. Permuted(c, d)
  BY <1>4, <1>5 DEF Permuted
<1>7. QED
  BY <1>1, <1>5, <1>6

LEMMA PermutedBack ==
    ASSUME NEW c, NEW d, Permuted(c, d)
    PROVE  \A m \in DOMAIN c.rows : \E k \in DOMAIN d.rows : d.rows[k] = c.rows[m]
<1>1. PICK p \in Orders(c) : \A k \in DOMAIN c.rows : d.rows[k] = c.rows[p[k]]
  BY DEF Permuted
<1>2. \A m \in DOMAIN c.rows : \E k \in DOMAIN c.rows : p[k] = m
  BY DEF Orders
<1>3. DOMAIN d.rows = DOMAIN c.rows
  BY DEF Permuted
<1>4. SUFFICES ASSUME NEW m \in DOMAIN c.rows PROVE \E k \in DOMAIN d.rows : d.rows[k] = c.rows[m]
  OBVIOUS
<1>5. PICK k \in DOMAIN c.rows : p[k] = m
  BY <1>2
<1>6. d.rows[k] = c.rows[m]
  BY <1>1, <1>5
<1>7. QED
  BY <1>3, <1>6

LEMMA AcceptsPermuted ==
    ASSUME NEW v, NEW c \in Capture, NEW d, Permuted(c, d), NEW from, NEW to
    PROVE  Accepts(v, d, from, to) <=> Accepts(v, c, from, to)
<1>1. PICK p \in Orders(c) : \A k \in DOMAIN c.rows : d.rows[k] = c.rows[p[k]]
  BY DEF Permuted
<1> DEFINE D == DOMAIN c.rows
<1>2. /\ DOMAIN d.rows = D
      /\ \A k \in D : p[k] \in D /\ d.rows[k] = c.rows[p[k]]
      /\ \A m \in D : \E k \in D : p[k] = m
      /\ \A j, k \in D : p[j] = p[k] => j = k
  <2>2. /\ p \in [D -> D]
        /\ \A m \in D : \E k \in D : p[k] = m
        /\ \A j, k \in D : p[j] = p[k] => j = k
    BY <1>1 DEF Orders
  <2>3. DOMAIN d.rows = D
    BY DEF Permuted
  <2>4. QED
    BY <1>1, <2>2, <2>3
<1> DEFINE R == c.rows
           T == d.rows
<1> HIDE DEF D
<1>3. Belongs(v, d) <=> Belongs(v, c)
  BY DEF Permuted, Belongs
<1>4. SessionsDiffer(d.rows) <=> SessionsDiffer(c.rows)
  <2> DEFINE Differ2(x) == \A j, k \in D : x[j].session = x[k].session => j = k
  <2>1. (SessionsDiffer(d.rows) <=> Differ2(T)) /\ (SessionsDiffer(c.rows) <=> Differ2(R))
    BY <1>2 DEF SessionsDiffer, D
  <2> HIDE DEF R, T
  <2>2. ASSUME Differ2(R) PROVE Differ2(T)
    <3>1. SUFFICES ASSUME NEW j \in D, NEW k \in D, T[j].session = T[k].session PROVE j = k
      OBVIOUS
    <3>2. R[p[j]].session = R[p[k]].session /\ p[j] \in D /\ p[k] \in D
      BY <1>2, <3>1 DEF R, T
    <3>3. p[j] = p[k]
      BY <2>2, <3>2
    <3>4. QED
      BY <1>2, <3>3
  <2>3. ASSUME Differ2(T) PROVE Differ2(R)
    <3>1. SUFFICES ASSUME NEW i \in D, NEW j \in D, R[i].session = R[j].session PROVE i = j
      OBVIOUS
    <3>2. PICK a \in D : p[a] = i
      BY <1>2
    <3>3. PICK b \in D : p[b] = j
      BY <1>2
    <3>4. T[a].session = T[b].session
      BY <1>2, <3>1, <3>2, <3>3 DEF R, T
    <3>5. a = b
      BY <2>3, <3>4
    <3>6. QED
      BY <3>2, <3>3, <3>5
  <2>4. QED
    BY <2>1, <2>2, <2>3
<1>5. d.rows # <<>> <=> c.rows # <<>>
  <2>1. c.rows \in Seq(Row) /\ d.rows \in Seq(Row)
    BY DEF Capture, Permuted
  <2>2. Len(d.rows) = Len(c.rows)
    <3>1. DOMAIN d.rows = DOMAIN c.rows
      BY <1>2 DEF D
    <3>2. QED
      BY <2>1, <3>1
  <2>3. QED
    BY <2>1, <2>2
<1>6. /\ (\A k \in DOMAIN d.rows : HasColumns(v, d.rows[k]) /\ d.rows[k].session \in Day)
            <=> (\A k \in DOMAIN c.rows : HasColumns(v, c.rows[k]) /\ c.rows[k].session \in Day)
      /\ (\A k \in DOMAIN d.rows : Inside(d.rows[k], from, to))
            <=> (\A k \in DOMAIN c.rows : Inside(c.rows[k], from, to))
      /\ (\A k \in DOMAIN d.rows : Inside(d.rows[k], from, to) =>
                                      d.rows[k].session \in OpenDays /\ IsBar(d.rows[k]))
            <=> (\A k \in DOMAIN c.rows : Inside(c.rows[k], from, to) =>
                                      c.rows[k].session \in OpenDays /\ IsBar(c.rows[k]))
  <2>1. (\A k \in D : T[k] = R[p[k]] /\ p[k] \in D) /\ DOMAIN d.rows = D /\ DOMAIN c.rows = D
    BY <1>2 DEF D
  <2>2. \A m \in D : \E k \in D : T[k] = R[m]
    <3> HIDE DEF R, T
    <3> QED
      BY <1>2, <2>1
  <2> HIDE DEF R, T
  <2>3. /\ (\A k \in D : HasColumns(v, T[k]) /\ T[k].session \in Day)
              <=> (\A k \in D : HasColumns(v, R[k]) /\ R[k].session \in Day)
        /\ (\A k \in D : Inside(T[k], from, to)) <=> (\A k \in D : Inside(R[k], from, to))
        /\ (\A k \in D : Inside(T[k], from, to) => T[k].session \in OpenDays /\ IsBar(T[k]))
              <=> (\A k \in D : Inside(R[k], from, to) => R[k].session \in OpenDays /\ IsBar(R[k]))
    BY <2>1, <2>2
  <2>4. QED
    BY <2>1, <2>3 DEF R, T
<1>7. QED
  BY <1>3, <1>4, <1>5, <1>6 DEF Accepts

LEMMA NormalizePermuted ==
    ASSUME NEW v, NEW c \in Capture, NEW d \in Capture, Permuted(c, d), NEW from, NEW to,
           Accepts(v, c, from, to)
    PROVE  Normalize(d, from, to) = Normalize(c, from, to)
<1> DEFINE t == Normalize(c, from, to)
           u == Normalize(d, from, to)
           In(x) == RowsInside(x.rows, from, to)
<1>1. Accepts(v, d, from, to)
  BY AcceptsPermuted
<1>2. t \in Seq(DatedRow) /\ Ascending(t) /\ Range(t) = In(c)
  BY NormalizeFacts
<1>3. u \in Seq(DatedRow) /\ Ascending(u) /\ Range(u) = In(d)
  <2>1. u = Normalize(d, from, to)
    OBVIOUS
  <2> HIDE DEF t, u
  <2>2. QED
    BY <1>1, <2>1, NormalizeFacts
<1>4. In(c) = In(d)
  <2>1. \A k \in DOMAIN d.rows : \E m \in DOMAIN c.rows : d.rows[k] = c.rows[m]
    <3>1. PICK p \in Orders(c) : \A k \in DOMAIN c.rows : d.rows[k] = c.rows[p[k]]
      BY DEF Permuted
    <3>2. p \in [DOMAIN c.rows -> DOMAIN c.rows]
      BY DEF Orders
    <3>3. QED
      BY <3>1, <3>2 DEF Permuted
  <2>2. \A m \in DOMAIN c.rows : \E k \in DOMAIN d.rows : d.rows[k] = c.rows[m]
    BY PermutedBack
  <2>3. In(c) \subseteq In(d)
    BY <2>2 DEF RowsInside
  <2>4. In(d) \subseteq In(c)
    BY <2>1 DEF RowsInside
  <2>5. QED
    BY <2>3, <2>4
<1>5. \A r \in DatedRow : r.session \in Int
  BY DayFacts DEF DatedRow
<1> HIDE DEF t, u, In
<1>6. t = u
  BY <1>2, <1>3, <1>4, <1>5, AscendingUnique
<1>7. QED
  BY <1>6 DEF t, u

\* A part of the history that akshare normalizes is that part of the bars.
LEMMA NormalizePart ==
    ASSUME NEW c \in Capture, NEW m \in Day, Accepts("akshare", c, 0, m), NEW a \in Day, NEW b \in Day,
           a <= b, b <= m
    PROVE  /\ Accepts("akshare", c, a, b)
           /\ Normalize(c, a, b) = RowsWithin(Normalize(c, 0, m), a, b)
<1>1. \A k \in DOMAIN c.rows : /\ c.rows[k].session \in Day
                               /\ Inside(c.rows[k], a, b) => Inside(c.rows[k], 0, m)
  <2>1. \A k \in DOMAIN c.rows : c.rows[k].session \in Day
    BY DEF Accepts
  <2>2. a \in Nat /\ b \in Nat /\ m \in Nat /\ \A k \in DOMAIN c.rows : c.rows[k].session \in Nat
    BY <2>1, DayFacts
  <2>3. QED
    BY <2>1, <2>2 DEF Inside
<1>2. Accepts("akshare", c, a, b)
  BY <1>1 DEF Accepts
<1> DEFINE t == Normalize(c, 0, m)
           u == Normalize(c, a, b)
           w == RowsWithin(t, a, b)
           In(x, y) == RowsInside(c.rows, x, y)
<1>3. t \in Seq(DatedRow) /\ Ascending(t) /\ Range(t) = In(0, m)
  BY NormalizeFacts
<1>4. u \in Seq(DatedRow) /\ Ascending(u) /\ Range(u) = In(a, b)
  <2>1. u = Normalize(c, a, b)
    OBVIOUS
  <2> HIDE DEF t, u
  <2>2. QED
    BY <1>2, <2>1, NormalizeFacts
<1> HIDE DEF t, u
<1>5. /\ w \in Seq(DatedRow) /\ Ascending(w)
      /\ Range(w) = RowsInside(t, a, b)
  BY <1>3, WithinRows
<1> HIDE DEF w
<1>6. RowsInside(t, a, b) = In(a, b)
  <2>1. RowsInside(t, a, b) = {r \in Range(t) : Inside(r, a, b)}
    BY DEF RowsInside, Range
  <2>2. {r \in In(0, m) : Inside(r, a, b)} = In(a, b)
    BY <1>1 DEF RowsInside
  <2> HIDE DEF In
  <2>3. QED
    BY <1>3, <2>1, <2>2
<1>7. \A r \in DatedRow : r.session \in Int
  BY DayFacts DEF DatedRow
<1> HIDE DEF In
<1>8. u = w
  BY <1>4, <1>5, <1>6, <1>7, AscendingUnique
<1>9. QED
  BY <1>2, <1>8 DEF u, w, t
-----------------------------------------------------------------------------
\* Histories as the adapters normalize them are reported on.

\* A query of such histories.
Fetched(qq) == /\ qq \in Query /\ qq.revisions = {}
               /\ \A i \in DOMAIN qq.sources :
                     /\ Ascending(qq.sources[i].bars)
                     /\ \A k \in DOMAIN qq.sources[i].bars : IsBar(qq.sources[i].bars[k])

LEMMA EvidencesDiffer ==
    ASSUME NEW qq \in Query, Admissible(qq), NEW i \in DOMAIN qq.sources, NEW j \in DOMAIN qq.sources,
           Evidence(qq.sources[i]) = Evidence(qq.sources[j])
    PROVE  i = j
<1>1. qq.sources[i].provider = qq.sources[j].provider
  BY DEF Evidence
<1>2. i \in Nat /\ j \in Nat
  BY DEF Query
<1>3. ASSUME i < j PROVE FALSE
  <2>1. <<i, j>> \in Pairs(qq.sources)
    BY <1>3 DEF Pairs
  <2>2. QED
    BY <1>1, <2>1 DEF Admissible
<1>4. ASSUME j < i PROVE FALSE
  <2>1. <<j, i>> \in Pairs(qq.sources)
    BY <1>4 DEF Pairs
  <2>2. QED
    BY <1>1, <2>1 DEF Admissible
<1>5. QED
  BY <1>2, <1>3, <1>4

LEMMA PairsDiffer ==
    ASSUME NEW qq \in Query, Admissible(qq), NEW p \in Pairs(qq.sources), NEW r \in Pairs(qq.sources),
           {Evidence(qq.sources[p[1]]), Evidence(qq.sources[p[2]])}
             = {Evidence(qq.sources[r[1]]), Evidence(qq.sources[r[2]])}
    PROVE  p = r
<1> DEFINE E(i) == Evidence(qq.sources[i])
           D == DOMAIN qq.sources
<1>1. /\ p[1] \in D /\ p[2] \in D /\ p[1] < p[2] /\ p = <<p[1], p[2]>>
      /\ r[1] \in D /\ r[2] \in D /\ r[1] < r[2] /\ r = <<r[1], r[2]>>
  BY DEF Pairs
<1>2. \A i, j \in D : E(i) = E(j) => i = j
  BY EvidencesDiffer
<1>3. D \subseteq Nat
  BY DEF Query
<1>4. {E(p[1]), E(p[2])} = {E(r[1]), E(r[2])}
  OBVIOUS
<1> HIDE DEF E, D
<1>5. (p[1] = r[1] \/ p[1] = r[2]) /\ (p[2] = r[1] \/ p[2] = r[2])
  BY <1>1, <1>2, <1>4
<1>6. p[1] = r[1] /\ p[2] = r[2]
  BY <1>1, <1>2, <1>3, <1>4, <1>5
<1>7. QED
  BY <1>1, <1>6

LEMMA OneRowEach ==
    ASSUME NEW qq, Fetched(qq), NEW i \in DOMAIN qq.sources,
           NEW j \in DOMAIN qq.sources[i].bars, NEW k \in DOMAIN qq.sources[i].bars,
           qq.sources[i].bars[j].session = qq.sources[i].bars[k].session
    PROVE  j = k
<1>1. /\ DOMAIN qq.sources[i].bars \subseteq Nat
      /\ \A m \in DOMAIN qq.sources[i].bars : qq.sources[i].bars[m].session \in Nat
  BY RowFacts DEF Fetched
<1>2. ~(j < k) /\ ~(k < j)
  BY <1>1 DEF Fetched, Ascending
<1>3. QED
  BY <1>1, <1>2

\* The row that stands for a session is its only row.
LEMMA OnlyRow ==
    ASSUME NEW qq, Fetched(qq), NEW i \in DOMAIN qq.sources, NEW k \in DOMAIN qq.sources[i].bars
    PROVE  StableBar(qq.sources[i], qq.sources[i].bars[k].session) = qq.sources[i].bars[k]
<1> DEFINE s == qq.sources[i]
           d == s.bars[k].session
           here == {m \in DOMAIN s.bars : s.bars[m].session = d}
<1>1. here = {k}
  BY OneRowEach
<1>2. StableBar(s, d) =
          s.bars[CHOOSE m \in here : \A j \in here \ {m} :
                     \/ TextRank(s.bars[m]) < TextRank(s.bars[j])
                     \/ TextRank(s.bars[m]) = TextRank(s.bars[j]) /\ m < j]
  BY DEF StableBar
<1>3. (CHOOSE m \in here : \A j \in here \ {m} :
                     \/ TextRank(s.bars[m]) < TextRank(s.bars[j])
                     \/ TextRank(s.bars[m]) = TextRank(s.bars[j]) /\ m < j) = k
  <2> HIDE DEF here, s
  <2>1. QED
    BY <1>1
<1>4. QED
  BY <1>2, <1>3

\* Nothing is wrong with such rows.
LEMMA FetchedIntegrity ==
    ASSUME NEW qq, Fetched(qq)
    PROVE  SessionIntegrity(qq.sources) = {}
<1>1. SUFFICES ASSUME NEW i \in DOMAIN qq.sources
               PROVE  Duplicates(i, qq.sources[i]) = {} /\ Inversions(i, qq.sources[i]) = {}
  BY DEF SessionIntegrity
<1> DEFINE s == qq.sources[i]
<1>2. s \in Source /\ s.bars \in Seq(Bar)
  BY QueryFacts DEF Fetched, Source
<1>3. ASSUME NEW d, RowCount(s, d) > 1 PROVE FALSE
  <2>1. PICK j, k \in PlacesOf(s, d) : j # k
    BY <1>2, <1>3, TwoRows
  <2>2. QED
    BY <2>1, OneRowEach DEF PlacesOf
<1>4. Duplicates(i, s) = {}
  BY <1>3 DEF Duplicates
<1>5. Inversions(i, s) = {}
  <2>1. SUFFICES ASSUME NEW k \in DOMAIN s.bars, k > 1, s.bars[k - 1].session > s.bars[k].session
                 PROVE  FALSE
    BY DEF Inversions
  <2>2. k - 1 \in DOMAIN s.bars /\ k - 1 < k
    BY <1>2, <2>1
  <2>3. s.bars[k - 1].session < s.bars[k].session
    BY <2>2 DEF Fetched, Ascending
  <2>4. s.bars[k - 1].session \in Nat /\ s.bars[k].session \in Nat
    BY <2>2, RowFacts DEF Fetched
  <2>5. QED
    BY <2>1, <2>3, <2>4
<1>6. QED
  BY <1>4, <1>5

LEMMA FetchedRows ==
    ASSUME NEW qq, Fetched(qq)
    PROVE  OhlcIntegrity(qq.sources) = {} /\ VolumeIntegrity(qq.sources) = {}
<1> DEFINE row(r) == RowAt(qq.sources, r)
<1>1. ASSUME NEW r \in Rows(qq.sources)
      PROVE  OhlcFaults(row(r)) = {} /\ VolumeFaults(row(r)) = {}
  <2>1. r[1] \in DOMAIN qq.sources /\ r[2] \in DOMAIN qq.sources[r[1]].bars
    BY DEF Rows
  <2>2. IsBar(row(r))
    BY <2>1 DEF Fetched, RowAt
  <2>3. row(r) \in Bar
    BY <2>1, QueryFacts DEF Fetched, Source, RowAt
  <2> HIDE DEF row
  <2>4. \A f \in Field : row(r)[f] # NaN /\ row(r)[f] \in Int /\ row(r)[f] > 0
    BY <2>2, <2>3 DEF IsBar, Columns, Bar, Value, Field
  <2>5. row(r).volume # NaN /\ row(r).volume \in Int /\ row(r).volume >= 0
    <3>1. row(r).volume \in Value /\ row(r)["volume"] # NaN
      BY <2>2, <2>3 DEF IsBar, Columns, Bar
    <3>2. QED
      BY <2>2, <3>1 DEF IsBar, Value
  <2>6. OHLCOrdered(row(r))
    BY <2>2 DEF IsBar
  <2>7. OhlcFaults(row(r)) = {}
    BY <2>4, <2>6 DEF OhlcFaults
  <2>8. VolumeFaults(row(r)) = {}
    BY <2>5 DEF VolumeFaults
  <2>9. QED
    BY <2>7, <2>8
<1>2. ASSUME NEW faults, \A r \in Rows(qq.sources) : faults[r] = {}
      PROVE  PerRow(qq.sources, faults) = {}
  BY <1>2 DEF PerRow
<1>3. OhlcIntegrity(qq.sources) = {}
  BY <1>1, <1>2 DEF OhlcIntegrity
<1>4. VolumeIntegrity(qq.sources) = {}
  BY <1>1, <1>2 DEF VolumeIntegrity
<1>5. QED
  BY <1>3, <1>4
-----------------------------------------------------------------------------
\* No finding is repeated.

Distinct(emissions) == \A x, y \in emissions : x.finding = y.finding => x = y

LEMMA SchemaDistinct ==
    ASSUME NEW qq \in Query, Admissible(qq)
    PROVE  Distinct(SchemaContract(qq.sources, qq.policy, qq.from, qq.to))
<1>1. SUFFICES ASSUME NEW x \in SchemaContract(qq.sources, qq.policy, qq.from, qq.to),
                      NEW y \in SchemaContract(qq.sources, qq.policy, qq.from, qq.to),
                      x.finding = y.finding
               PROVE  x = y
  BY DEF Distinct
<1>2. ASSUME NEW e \in SchemaContract(qq.sources, qq.policy, qq.from, qq.to)
      PROVE  \E i \in DOMAIN qq.sources : /\ e = At(<<i>>, e.finding)
                                          /\ e.finding.by = {Evidence(qq.sources[i])}
  <2>1. PICK i \in DOMAIN qq.sources : \E from, to :
            e = At(<<i>>, Finding("unsupported_normalized_schema", "", from, to,
                                  {Evidence(qq.sources[i])}, qq.sources[i].schema))
    BY DEF SchemaContract
  <2>2. PICK from, to :
            e = At(<<i>>, Finding("unsupported_normalized_schema", "", from, to,
                                  {Evidence(qq.sources[i])}, qq.sources[i].schema))
    BY <2>1
  <2>3. e = At(<<i>>, e.finding) /\ e.finding.by = {Evidence(qq.sources[i])}
    BY <2>2 DEF At, Finding
  <2>4. QED
    BY <2>3
<1>3. PICK i \in DOMAIN qq.sources : x = At(<<i>>, x.finding) /\ x.finding.by = {Evidence(qq.sources[i])}
  BY <1>2
<1>4. PICK j \in DOMAIN qq.sources : y = At(<<j>>, y.finding) /\ y.finding.by = {Evidence(qq.sources[j])}
  BY <1>2
<1>5. Evidence(qq.sources[i]) = Evidence(qq.sources[j])
  BY <1>1, <1>3, <1>4
<1>6. i = j
  BY <1>5, EvidencesDiffer
<1>7. QED
  BY <1>1, <1>3, <1>4, <1>6

LEMMA MembershipDistinct ==
    ASSUME NEW qq, Fetched(qq), Admissible(qq)
    PROVE  Distinct(CalendarMembership(qq.sources, qq.expected))
<1> DEFINE C == CalendarMembership(qq.sources, qq.expected)
           odd == <<"unexpected_session", "", "">>
           faults == [r \in Rows(qq.sources) |-> IF RowAt(qq.sources, r).session \in qq.expected
                                                 THEN {} ELSE {odd}]
<1>1. ASSUME NEW e \in C
      PROVE  \E r \in Rows(qq.sources) :
                /\ e = At(<<r, odd>>, e.finding)
                /\ e.finding.from = RowAt(qq.sources, r).session
                /\ e.finding.by = {Evidence(qq.sources[r[1]])}
  <2>1. C = PerRow(qq.sources, faults)
    BY DEF CalendarMembership
  <2>2. PICK r \in Rows(qq.sources) : \E x \in faults[r] :
            e = At(<<r, x>>, Finding(x[1], x[2], RowAt(qq.sources, r).session,
                                     RowAt(qq.sources, r).session,
                                     {Evidence(qq.sources[r[1]])}, x[3]))
    <3> HIDE DEF faults, C
    <3> QED
      BY <1>1, <2>1 DEF PerRow
  <2>3. PICK x \in faults[r] :
            e = At(<<r, x>>, Finding(x[1], x[2], RowAt(qq.sources, r).session,
                                     RowAt(qq.sources, r).session,
                                     {Evidence(qq.sources[r[1]])}, x[3]))
    BY <2>2
  <2>4. x = odd
    BY <2>3
  <2> HIDE DEF odd, faults
  <2>5. QED
    BY <2>3, <2>4 DEF At, Finding
<1> HIDE DEF C, odd
<1>2. SUFFICES ASSUME NEW x \in C, NEW y \in C, x.finding = y.finding PROVE x = y
  BY DEF Distinct, C
<1>3. PICK r \in Rows(qq.sources) :
          /\ x = At(<<r, odd>>, x.finding)
          /\ x.finding.from = RowAt(qq.sources, r).session
          /\ x.finding.by = {Evidence(qq.sources[r[1]])}
  BY <1>1
<1>4. PICK t \in Rows(qq.sources) :
          /\ y = At(<<t, odd>>, y.finding)
          /\ y.finding.from = RowAt(qq.sources, t).session
          /\ y.finding.by = {Evidence(qq.sources[t[1]])}
  BY <1>1
<1>5. /\ r[1] \in DOMAIN qq.sources /\ r[2] \in DOMAIN qq.sources[r[1]].bars /\ r = <<r[1], r[2]>>
      /\ t[1] \in DOMAIN qq.sources /\ t[2] \in DOMAIN qq.sources[t[1]].bars /\ t = <<t[1], t[2]>>
  BY DEF Rows
<1>6. r[1] = t[1]
  <2>1. Evidence(qq.sources[r[1]]) = Evidence(qq.sources[t[1]])
    BY <1>2, <1>3, <1>4
  <2>2. QED
    BY <1>5, <2>1, EvidencesDiffer DEF Fetched
<1>7. r[2] = t[2]
  <2>1. qq.sources[r[1]].bars[r[2]].session = qq.sources[r[1]].bars[t[2]].session
    BY <1>2, <1>3, <1>4, <1>6 DEF RowAt
  <2>2. QED
    BY <1>5, <1>6, <2>1, OneRowEach
<1>8. r = t
  BY <1>5, <1>6, <1>7
<1>9. QED
  BY <1>2, <1>3, <1>4, <1>8

LEMMA CoverageDistinct ==
    ASSUME NEW qq \in Query, Admissible(qq)
    PROVE  Distinct(SourceCoverage(qq.sources, qq.expected))
<1> DEFINE C == SourceCoverage(qq.sources, qq.expected)
           D == DOMAIN qq.sources
           M(i) == MissingIntervals(qq.expected, qq.expected \ Sessions(qq.sources[i]))
<1>1. ASSUME NEW e \in C
      PROVE  \E i \in D : \E r \in M(i) :
                /\ e = At(<<i, r>>, e.finding)
                /\ e.finding.from = r[1] /\ e.finding.to = r[2]
                /\ e.finding.by = {Evidence(qq.sources[i])}
  <2>1. PICK i \in D : e \in Gaps(i, qq.sources[i], qq.expected)
    BY <1>1 DEF SourceCoverage
  <2>2. PICK r \in M(i) : e = At(<<i, r>>, Finding("source_missing_session", "", r[1], r[2],
                                                   {Evidence(qq.sources[i])}, ""))
    BY <2>1 DEF Gaps
  <2> HIDE DEF M
  <2>3. QED
    BY <2>2 DEF At, Finding
<1>2. \A i : \A r \in M(i) : r = <<r[1], r[2]>>
  BY DEF MissingIntervals
<1> HIDE DEF C, M
<1>3. SUFFICES ASSUME NEW x \in C, NEW y \in C, x.finding = y.finding PROVE x = y
  BY DEF Distinct, C
<1>4. PICK i \in D : \E r \in M(i) :
          /\ x = At(<<i, r>>, x.finding) /\ x.finding.from = r[1] /\ x.finding.to = r[2]
          /\ x.finding.by = {Evidence(qq.sources[i])}
  BY <1>1
<1>5. PICK r \in M(i) :
          /\ x = At(<<i, r>>, x.finding) /\ x.finding.from = r[1] /\ x.finding.to = r[2]
          /\ x.finding.by = {Evidence(qq.sources[i])}
  BY <1>4
<1>6. PICK j \in D : \E t \in M(j) :
          /\ y = At(<<j, t>>, y.finding) /\ y.finding.from = t[1] /\ y.finding.to = t[2]
          /\ y.finding.by = {Evidence(qq.sources[j])}
  BY <1>1
<1>7. PICK t \in M(j) :
          /\ y = At(<<j, t>>, y.finding) /\ y.finding.from = t[1] /\ y.finding.to = t[2]
          /\ y.finding.by = {Evidence(qq.sources[j])}
  BY <1>6
<1>8. i = j
  <2>1. Evidence(qq.sources[i]) = Evidence(qq.sources[j])
    BY <1>3, <1>5, <1>7
  <2>2. QED
    BY <2>1, EvidencesDiffer
<1>9. r = t
  BY <1>2, <1>3, <1>5, <1>7
<1>10. QED
  BY <1>3, <1>5, <1>7, <1>8, <1>9

LEMMA ShortfallDistinct ==
    ASSUME NEW code, NEW S, NEW M, NEW sources
    PROVE  /\ Distinct(Shortfall(code, S, M, sources))
           /\ \A e \in Shortfall(code, S, M, sources) : e.finding.code = code
<1> DEFINE C == Shortfall(code, S, M, sources)
<1>1. ASSUME NEW e \in C
      PROVE  \E r \in MissingIntervals(S, M) :
                /\ e = At(<<code, r>>, e.finding) /\ e.finding.code = code
                /\ e.finding.from = r[1] /\ e.finding.to = r[2]
  <2>1. PICK r \in MissingIntervals(S, M) :
            e = At(<<code, r>>, Finding(code, "", r[1], r[2], AllEvidence(sources), ""))
    BY <1>1 DEF Shortfall
  <2>2. QED
    BY <2>1 DEF At, Finding
<1>2. \A r \in MissingIntervals(S, M) : r = <<r[1], r[2]>>
  BY DEF MissingIntervals
<1> HIDE DEF C
<1>3. ASSUME NEW x \in C, NEW y \in C, x.finding = y.finding PROVE x = y
  <2>1. PICK r \in MissingIntervals(S, M) :
            x = At(<<code, r>>, x.finding) /\ x.finding.from = r[1] /\ x.finding.to = r[2]
    BY <1>1
  <2>2. PICK t \in MissingIntervals(S, M) :
            y = At(<<code, t>>, y.finding) /\ y.finding.from = t[1] /\ y.finding.to = t[2]
    BY <1>1
  <2>3. r = t
    BY <1>2, <1>3, <2>1, <2>2
  <2>4. QED
    BY <1>3, <2>1, <2>2, <2>3
<1>4. QED
  BY <1>1, <1>3 DEF Distinct, C

LEMMA RangeDistinct ==
    ASSUME NEW qq
    PROVE  Distinct(RequestedRangeCoverage(qq.sources, qq.expected, qq.from, qq.to, qq.policy))
<1> DEFINE S == InRange(qq.expected, qq.from, qq.to)
           missing == {d \in S : SourceCount(qq.sources, d) = 0}
           unverified == {d \in S : 0 < SourceCount(qq.sources, d)
                                    /\ SourceCount(qq.sources, d) < qq.policy.minSources}
           none == At(<<>>, Finding("no_expected_sessions_in_requested_range", "",
                                    qq.from, qq.to, AllEvidence(qq.sources), ""))
           A == Shortfall("insufficient_session_coverage", S, missing, qq.sources)
           B == Shortfall("insufficient_source_verification", S, unverified, qq.sources)
           C == RequestedRangeCoverage(qq.sources, qq.expected, qq.from, qq.to, qq.policy)
<1>1. C \subseteq A \cup B \cup {none}
  <2>1. C = A \cup B \cup (IF S # {} THEN {} ELSE {none})
    BY DEF RequestedRangeCoverage
  <2> HIDE DEF A, B, C, S, none
  <2>2. QED
    BY <2>1
<1>2. /\ Distinct(A) /\ \A e \in A : e.finding.code = "insufficient_session_coverage"
      /\ Distinct(B) /\ \A e \in B : e.finding.code = "insufficient_source_verification"
  <2> HIDE DEF S, missing, unverified
  <2> QED
    BY ShortfallDistinct
<1>3. none.finding.code = "no_expected_sessions_in_requested_range"
  BY DEF At, Finding
<1> HIDE DEF A, B, C, none
<1>4. QED
  BY <1>1, <1>2, <1>3 DEF Distinct, C

\* A session that one of a pair lacks.
LEMMA OverlapShape ==
    ASSUME NEW qq, NEW e \in CrossSourceOverlap(qq.sources)
    PROVE  \E p \in Pairs(qq.sources) :
              /\ e = At(<<p, e.finding.from>>, e.finding)
              /\ e.finding.code = "cross_source_session_missing"
              /\ e.finding.by = {Evidence(qq.sources[p[1]]), Evidence(qq.sources[p[2]])}
              /\ \/ e.finding.from \in Sessions(qq.sources[p[1]]) \ Sessions(qq.sources[p[2]])
                 \/ e.finding.from \in Sessions(qq.sources[p[2]]) \ Sessions(qq.sources[p[1]])
<1>1. ASSUME NEW p, NEW s, NEW t, e \in Unshared(p, s, t)
      PROVE  /\ e = At(<<p, e.finding.from>>, e.finding)
             /\ e.finding.code = "cross_source_session_missing"
             /\ e.finding.by = {Evidence(s), Evidence(t)}
             /\ e.finding.from \in Sessions(s) \ Sessions(t)
  <2>1. PICK d \in Sessions(s) \ Sessions(t) :
            e = At(<<p, d>>, Finding("cross_source_session_missing", "", d, d,
                                     {Evidence(s), Evidence(t)}, Evidence(t)))
    BY <1>1 DEF Unshared
  <2>2. QED
    BY <2>1 DEF At, Finding
<1>2. PICK p \in Pairs(qq.sources) : \/ e \in Unshared(p, qq.sources[p[1]], qq.sources[p[2]])
                                     \/ e \in Unshared(p, qq.sources[p[2]], qq.sources[p[1]])
  BY DEF CrossSourceOverlap
<1>3. /\ e = At(<<p, e.finding.from>>, e.finding)
      /\ e.finding.code = "cross_source_session_missing"
      /\ e.finding.by = {Evidence(qq.sources[p[1]]), Evidence(qq.sources[p[2]])}
      /\ \/ e.finding.from \in Sessions(qq.sources[p[1]]) \ Sessions(qq.sources[p[2]])
         \/ e.finding.from \in Sessions(qq.sources[p[2]]) \ Sessions(qq.sources[p[1]])
  <2>1. CASE e \in Unshared(p, qq.sources[p[1]], qq.sources[p[2]])
    BY <1>1, <2>1
  <2>2. CASE e \in Unshared(p, qq.sources[p[2]], qq.sources[p[1]])
    BY <1>1, <2>2
  <2>3. QED
    BY <1>2, <2>1, <2>2
<1>4. QED
  BY <1>3

LEMMA OverlapDistinct ==
    ASSUME NEW qq \in Query, Admissible(qq)
    PROVE  Distinct(CrossSourceOverlap(qq.sources))
<1> DEFINE C == CrossSourceOverlap(qq.sources)
           by(p) == {Evidence(qq.sources[p[1]]), Evidence(qq.sources[p[2]])}
<1>1. SUFFICES ASSUME NEW x \in C, NEW y \in C, x.finding = y.finding PROVE x = y
  BY DEF Distinct
<1>2. PICK p \in Pairs(qq.sources) : x = At(<<p, x.finding.from>>, x.finding) /\ x.finding.by = by(p)
  BY OverlapShape
<1>3. PICK r \in Pairs(qq.sources) : y = At(<<r, y.finding.from>>, y.finding) /\ y.finding.by = by(r)
  BY OverlapShape
<1>4. p = r
  <2>1. by(p) = by(r)
    BY <1>1, <1>2, <1>3
  <2>2. QED
    BY <2>1, PairsDiffer
<1> HIDE DEF by, C
<1>5. QED
  BY <1>1, <1>2, <1>3, <1>4

\* Two closes, or other prices, that differ.
LEMMA DisagreementShape ==
    ASSUME NEW qq, NEW e \in CrossSourceOhlc(qq.sources, qq.policy, qq.adjustment)
    PROVE  \E p \in Pairs(qq.sources) :
              /\ e = At(<<p, <<e.finding.from, e.finding.field>>>>, e.finding)
              /\ e.finding.by = {Evidence(qq.sources[p[1]]), Evidence(qq.sources[p[2]])}
              /\ e.finding.from \in Sessions(qq.sources[p[1]]) \cap Sessions(qq.sources[p[2]])
              /\ Differ(qq.sources[p[1]], qq.sources[p[2]], e.finding.from, e.finding.field,
                        qq.policy.passBps)
              /\ e.finding.code =
                    IF Differ(qq.sources[p[1]], qq.sources[p[2]], e.finding.from, e.finding.field,
                              qq.policy.warnBps)
                    THEN "cross_source_field_conflict" ELSE "cross_source_field_warning"
<1>1. PICK p \in Pairs(qq.sources) :
          e \in Disagreements(p, qq.sources[p[1]], qq.sources[p[2]], qq.policy)
  BY DEF CrossSourceOhlc
<1> DEFINE l == qq.sources[p[1]]
           r == qq.sources[p[2]]
<1>2. PICK x \in (Sessions(l) \cap Sessions(r)) \X Field :
          /\ Differ(l, r, x[1], x[2], qq.policy.passBps)
          /\ e = At(<<p, x>>,
                    Finding(IF Differ(l, r, x[1], x[2], qq.policy.warnBps)
                            THEN "cross_source_field_conflict" ELSE "cross_source_field_warning",
                            x[2], x[1], x[1], {Evidence(l), Evidence(r)},
                            {StableBar(l, x[1])[x[2]], StableBar(r, x[1])[x[2]]}))
  BY <1>1 DEF Disagreements
<1> HIDE DEF l, r
<1>3. x = <<x[1], x[2]>> /\ x[1] \in Sessions(l) \cap Sessions(r)
  BY <1>2
<1>4. /\ e.finding.from = x[1] /\ e.finding.field = x[2]
      /\ e.finding.by = {Evidence(l), Evidence(r)}
      /\ e = At(<<p, x>>, e.finding)
      /\ e.finding.code = IF Differ(l, r, x[1], x[2], qq.policy.warnBps)
                          THEN "cross_source_field_conflict" ELSE "cross_source_field_warning"
  BY <1>2 DEF At, Finding
<1>5. /\ e = At(<<p, <<e.finding.from, e.finding.field>>>>, e.finding)
      /\ e.finding.from \in Sessions(l) \cap Sessions(r)
      /\ Differ(l, r, e.finding.from, e.finding.field, qq.policy.passBps)
      /\ e.finding.code = IF Differ(l, r, e.finding.from, e.finding.field, qq.policy.warnBps)
                          THEN "cross_source_field_conflict" ELSE "cross_source_field_warning"
  BY <1>2, <1>3, <1>4
<1>6. QED
  BY <1>4, <1>5 DEF l, r

LEMMA OhlcDistinct ==
    ASSUME NEW qq \in Query, Admissible(qq)
    PROVE  Distinct(CrossSourceOhlc(qq.sources, qq.policy, qq.adjustment))
<1> DEFINE C == CrossSourceOhlc(qq.sources, qq.policy, qq.adjustment)
           by(p) == {Evidence(qq.sources[p[1]]), Evidence(qq.sources[p[2]])}
<1>1. SUFFICES ASSUME NEW x \in C, NEW y \in C, x.finding = y.finding PROVE x = y
  BY DEF Distinct
<1>2. PICK p \in Pairs(qq.sources) :
          x = At(<<p, <<x.finding.from, x.finding.field>>>>, x.finding) /\ x.finding.by = by(p)
  BY DisagreementShape
<1>3. PICK r \in Pairs(qq.sources) :
          y = At(<<r, <<y.finding.from, y.finding.field>>>>, y.finding) /\ y.finding.by = by(r)
  BY DisagreementShape
<1>4. p = r
  <2>1. by(p) = by(r)
    BY <1>1, <1>2, <1>3
  <2>2. QED
    BY <2>1, PairsDiffer
<1> HIDE DEF by, C
<1>5. QED
  BY <1>1, <1>2, <1>3, <1>4

\* Such a query is always reported on.
LEMMA FetchedUnique ==
    ASSUME NEW qq, Fetched(qq), Admissible(qq)
    PROVE  HasUniqueFindings(qq)
<1> DEFINE results == CheckResults(qq)
<1>1. DOMAIN results = {"schema_contract", "session_integrity", "ohlc_integrity",
          "volume_integrity", "calendar_membership", "source_coverage",
          "requested_range_coverage", "cross_source_overlap", "cross_source_ohlc",
          "provider_revision", "adjustment_semantics"}
  BY DEF CheckResults
<1>2. qq \in Query
  BY DEF Fetched
<1>3. Distinct({}) /\ \A x : Distinct({x})
  BY DEF Distinct
<1>4. Distinct(results["schema_contract"])
  BY <1>2, SchemaDistinct DEF CheckResults
<1>5. Distinct(results["session_integrity"])
  BY <1>3, FetchedIntegrity DEF CheckResults
<1>6. Distinct(results["ohlc_integrity"]) /\ Distinct(results["volume_integrity"])
  BY <1>3, FetchedRows DEF CheckResults
<1>7. Distinct(results["calendar_membership"])
  BY MembershipDistinct DEF CheckResults
<1>8. Distinct(results["source_coverage"])
  BY <1>2, CoverageDistinct DEF CheckResults
<1>9. Distinct(results["requested_range_coverage"])
  BY RangeDistinct DEF CheckResults
<1>10. Distinct(results["cross_source_overlap"])
  BY <1>2, OverlapDistinct DEF CheckResults
<1>11. Distinct(results["cross_source_ohlc"])
  BY <1>2, OhlcDistinct DEF CheckResults
<1>12. Distinct(results["provider_revision"])
  <2>1. ProviderRevision(qq.revisions) = {}
    BY DEF ProviderRevision, Fetched
  <2>2. QED
    BY <1>3, <2>1 DEF CheckResults
<1>13. Distinct(results["adjustment_semantics"])
  <2>1. Distinct(AdjustmentSemantics(qq.adjustment, qq.from, qq.to))
    BY <1>3 DEF AdjustmentSemantics
  <2>2. QED
    BY <2>1 DEF CheckResults
<1> HIDE DEF results
<1>14. \A c \in DOMAIN results : Distinct(results[c])
  BY <1>1, <1>4, <1>5, <1>6, <1>7, <1>8, <1>9, <1>10, <1>11, <1>12, <1>13
<1>15. QED
  BY <1>14 DEF HasUniqueFindings, Distinct, results
-----------------------------------------------------------------------------
\* No finding is about a source's own rows.

LEMMA FetchedShape ==
    ASSUME NEW qq, Fetched(qq), NEW f \in AllFindings(CheckResults(qq))
    PROVE  f.code \notin RowCodes
<1>1. f \in Findings(Steady(qq)) \cup Findings(OfRange(qq))
  BY FindingsSplit
<1>2. PICK e \in Steady(qq) \cup OfRange(qq) : e.finding = f
  BY <1>1 DEF Findings
<1>3. CASE e \in CalendarMembership(qq.sources, qq.expected)
  <2> DEFINE odd == <<"unexpected_session", "", "">>
             faults == [r \in Rows(qq.sources) |-> IF RowAt(qq.sources, r).session \in qq.expected
                                                   THEN {} ELSE {odd}]
  <2>1. e \in PerRow(qq.sources, faults)
    BY <1>3 DEF CalendarMembership
  <2>2. PICK r \in Rows(qq.sources) : \E x \in faults[r] : e.finding.code = x[1]
    <3> HIDE DEF faults
    <3> QED
      BY <2>1 DEF PerRow, At, Finding
  <2>3. e.finding.code = odd[1]
    <3>1. faults[r] \subseteq {odd}
      OBVIOUS
    <3> HIDE DEF faults, odd
    <3>2. QED
      BY <2>2, <3>1
  <2>4. QED
    BY <1>2, <2>3 DEF RowCodes
<1>4. CASE e \in SourceCoverage(qq.sources, qq.expected)
  <2>1. PICK i \in DOMAIN qq.sources : e \in Gaps(i, qq.sources[i], qq.expected)
    BY <1>4 DEF SourceCoverage
  <2>2. PICK site, from, to, by, seen : e = At(site, Finding("source_missing_session", "", from, to, by, seen))
    BY <2>1 DEF Gaps
  <2>3. QED
    BY <1>2, <2>2 DEF At, Finding, RowCodes
<1>5. CASE e \in CrossSourceOverlap(qq.sources)
  <2>1. e.finding.code = "cross_source_session_missing"
    BY <1>5, OverlapShape
  <2>2. QED
    BY <1>2, <2>1 DEF RowCodes
<1>6. CASE e \in CrossSourceOhlc(qq.sources, qq.policy, qq.adjustment)
  <2>1. e.finding.code \in {"cross_source_field_conflict", "cross_source_field_warning"}
    BY <1>6, DisagreementShape
  <2>2. QED
    BY <1>2, <2>1 DEF RowCodes
<1>7. CASE e \in SchemaContract(qq.sources, qq.policy, qq.from, qq.to)
  <2>1. PICK site, from, to, by, seen :
            e = At(site, Finding("unsupported_normalized_schema", "", from, to, by, seen))
    BY <1>7 DEF SchemaContract
  <2>2. QED
    BY <1>2, <2>1 DEF At, Finding, RowCodes
<1>8. CASE e \in RequestedRangeCoverage(qq.sources, qq.expected, qq.from, qq.to, qq.policy)
  <2>1. e.finding.code \in {"insufficient_session_coverage", "insufficient_source_verification",
                            "no_expected_sessions_in_requested_range"}
    BY <1>8, RangeCodes
  <2>2. QED
    BY <1>2, <2>1 DEF RowCodes
<1>9. CASE e \in AdjustmentSemantics(qq.adjustment, qq.from, qq.to)
  <2>1. e = At(<<>>, Finding("unsupported_adjustment_semantics", "", qq.from, qq.to,
                             {}, qq.adjustment))
    BY <1>9 DEF AdjustmentSemantics
  <2>2. QED
    BY <1>2, <2>1 DEF At, Finding, RowCodes
<1>10. e \notin ProviderRevision(qq.revisions)
  BY DEF ProviderRevision, Fetched
<1>11. e \notin SessionIntegrity(qq.sources) /\ e \notin OhlcIntegrity(qq.sources)
       /\ e \notin VolumeIntegrity(qq.sources)
  BY FetchedIntegrity, FetchedRows
<1>12. QED
  BY <1>2, <1>3, <1>4, <1>5, <1>6, <1>7, <1>8, <1>9, <1>10, <1>11 DEF Steady, OfRange
-----------------------------------------------------------------------------
\* The world of the adapters: what they captured, and the sources made of it.

FetchHolds ==
    world = "fetch" => /\ Fetched(q)
                       /\ captured \in [Adapter -> Answers \cup {None}]
                       /\ \A v \in Adapter : captured[v] # None => captured[v].provider = v

\* A source of the adapters.
LEMMA SourceFetched ==
    ASSUME NEW v, NEW c \in Capture, NEW from, NEW to, Accepts(v, c, from, to),
           NEW s, s = SourceOf(c, from, to)
    PROVE  /\ s \in Source /\ Ascending(s.bars)
           /\ \A k \in DOMAIN s.bars : IsBar(s.bars[k])
<1> DEFINE t == Normalize(c, from, to)
<1>1. t \in Seq(Bar) /\ Ascending(t) /\ \A k \in DOMAIN t : IsBar(t[k])
  BY NormalizeFacts
<1>2. s = [provider |-> c.provider, request |-> "daily",
           capture |-> IF c.provider = "akshare" THEN "c1" ELSE "c2",
           schema |-> "v1", normalizer |-> "n1", bars |-> t]
  BY DEF SourceOf
<1> HIDE DEF t
<1>3. c.provider \in Provider /\ {"daily", "c1", "c2", "v1", "n1"} \subseteq Label
  BY NameAssumption DEF Capture
<1>4. s \in Source /\ s.bars = t
  BY <1>1, <1>2, <1>3 DEF Source
<1>5. QED
  BY <1>1, <1>4

\* A query with such a source more.
LEMMA FetchedMore ==
    ASSUME Fetched(q), NEW s \in Source, Ascending(s.bars), \A k \in DOMAIN s.bars : IsBar(s.bars[k]),
           q' = [q EXCEPT !.sources = Append(@, s)]
    PROVE  Fetched(q')
<1> DEFINE more == Append(q.sources, s)
<1>1. q \in Query /\ q.sources \in Seq(Source)
  BY DEF Fetched, Query
<1>2. /\ more \in Seq(Source) /\ DOMAIN more = 1 .. Len(q.sources) + 1
      /\ \A i \in DOMAIN more : \/ i \in DOMAIN q.sources /\ more[i] = q.sources[i]
                                \/ more[i] = s
  BY <1>1
<1> HIDE DEF more
<1>3. q' = [q EXCEPT !.sources = more]
  BY DEF more
<1>4. q' \in Query /\ q'.sources = more /\ q'.revisions = q.revisions
  BY <1>1, <1>2, <1>3 DEF Query
<1>5. \A i \in DOMAIN more : /\ Ascending(more[i].bars)
                             /\ \A k \in DOMAIN more[i].bars : IsBar(more[i].bars[k])
  BY <1>2 DEF Fetched
<1>6. QED
  BY <1>4, <1>5 DEF Fetched

LEMMA FetchInvariant == WorldsSpec => []FetchHolds
<1>1. WorldsInit => FetchHolds
  <2>1. SUFFICES ASSUME world = "fetch", FetchInit PROVE FetchHolds
    BY DEF WorldsInit, FetchHolds
  <2>2. q \in Query /\ q.sources = <<>> /\ q.revisions = {}
    BY <2>1, InputAssumption DEF FetchInit, Init
  <2>3. Fetched(q)
    BY <2>2 DEF Fetched
  <2>4. captured \in [Adapter -> Answers \cup {None}] /\ \A v \in Adapter : captured[v] = None
    BY <2>1 DEF FetchInit
  <2>5. QED
    BY <2>3, <2>4 DEF FetchHolds
<1>2. FetchHolds /\ [WorldsNext]_<<fetchVars, world>> => FetchHolds'
  <2> SUFFICES ASSUME FetchHolds, [WorldsNext]_<<fetchVars, world>>, world' = "fetch"
               PROVE  FetchHolds'
    BY DEF FetchHolds
  <2>1. world = "fetch"
    BY DEF WorldsNext, fetchVars
  <2>2. /\ Fetched(q)
        /\ captured \in [Adapter -> Answers \cup {None}]
        /\ \A v \in Adapter : captured[v] # None => captured[v].provider = v
    BY <2>1 DEF FetchHolds
  <2>3. ASSUME NEW c \in Answers, CaptureDaily(c) PROVE FetchHolds'
    <3>1. captured' = [captured EXCEPT ![c.provider] = c] /\ q' = q
      BY <2>3 DEF CaptureDaily, vars
    <3>2. captured' \in [Adapter -> Answers \cup {None}]
      BY <2>2, <3>1
    <3>3. \A v \in Adapter : captured'[v] # None => captured'[v].provider = v
      BY <2>2, <3>1
    <3>4. QED
      BY <2>2, <3>1, <3>2, <3>3 DEF FetchHolds
  <2>4. ASSUME NEW v \in Adapter, NEW w \in Adapter, NEW from, NEW to, NormalizeDaily(v, w, from, to)
        PROVE  FetchHolds'
    <3> DEFINE s == SourceOf(captured[w], from, to)
    <3>1. captured[w] \in Capture
      BY <2>2, <2>4, AnswerAssumption DEF NormalizeDaily
    <3>2. Accepts(v, captured[w], from, to) /\ UNCHANGED captured
          /\ q' = [q EXCEPT !.sources = Append(@, s)]
      BY <2>4 DEF NormalizeDaily, AddSource
    <3>3. s \in Source /\ Ascending(s.bars) /\ \A k \in DOMAIN s.bars : IsBar(s.bars[k])
      <4> HIDE DEF s
      <4>1. s = SourceOf(captured[w], from, to)
        BY DEF s
      <4>2. QED
        BY <3>1, <3>2, <4>1, SourceFetched
    <3> HIDE DEF s
    <3>4. Fetched(q')
      BY <2>2, <3>2, <3>3, FetchedMore
    <3>5. QED
      BY <2>2, <3>2, <3>4 DEF FetchHolds
  <2>5. CASE UNCHANGED <<fetchVars, world>>
    BY <2>2, <2>5 DEF FetchHolds, fetchVars, vars
  <2>6. CASE FetchNext
    BY <2>3, <2>4, <2>6 DEF FetchNext
  <2>7. QED
    BY <2>1, <2>5, <2>6 DEF WorldsNext
<1>3. QED
  BY <1>1, <1>2, PTL DEF WorldsSpec

\* What an adapter normalizes does not depend on the order of the answer or on
\* the rest of the history (normalize_daily), and the suite can always report
\* on it and finds no fault in a row.
THEOREM AdaptersTheorem == WorldsSpec => []AdaptersSatisfySuite
<1>1. FetchHolds => AdaptersSatisfySuite
  <2>1. SUFFICES ASSUME FetchHolds, world = "fetch"
                 PROVE  NormalizationIsCanonical /\ NormalizedIsReported
    BY DEF AdaptersSatisfySuite
  <2>2. Fetched(q) /\ \A v \in Adapter : captured[v] # None => captured[v] \in Capture
    BY <2>1, AnswerAssumption DEF FetchHolds
  <2>3. NormalizedIsReported
    BY <2>2, FetchedUnique, FetchedShape DEF NormalizedIsReported
  <2>4. ASSUME NEW v \in Adapter, NEW c \in Capture PROVE OrderIsImmaterial(v, c)
    <3>1. ASSUME NEW p \in Orders(c)
          PROVE  SameBars(v, c, Reordered(c, p))
      <4>1. Reordered(c, p) \in Capture /\ Permuted(c, Reordered(c, p))
        BY <3>1, ReorderedFacts
      <4>2. QED
        BY <4>1, AcceptsPermuted, NormalizePermuted DEF SameBars
    <3>2. QED
      BY <3>1 DEF OrderIsImmaterial
  <2>5. ASSUME NEW c \in Capture PROVE PartsAgree("akshare", c)
    <3>1. ASSUME Accepts("akshare", c, 0, MaxDay), NEW a \in Day, NEW b \in Day, a <= b
          PROVE  /\ Accepts("akshare", c, a, b)
                 /\ Normalize(c, a, b) = TrimSource(SourceOf(c, 0, MaxDay), a, b).bars
      <4>1. MaxDay \in Day /\ b <= MaxDay
        BY DomainAssumption DEF Day
      <4>2. /\ Accepts("akshare", c, a, b)
            /\ Normalize(c, a, b) = RowsWithin(Normalize(c, 0, MaxDay), a, b)
        BY <3>1, <4>1, NormalizePart
      <4>3. SourceOf(c, 0, MaxDay) \in Source
        BY <3>1, SourceFetched DEF Adapter
      <4>4. SourceOf(c, 0, MaxDay).bars = Normalize(c, 0, MaxDay)
        BY DEF SourceOf
      <4> DEFINE s == SourceOf(c, 0, MaxDay)
      <4> HIDE DEF s
      <4>5. TrimSource(s, a, b).bars = RowsWithin(s.bars, a, b)
        BY <4>3 DEF TrimSource, Source, s
      <4>6. QED
        BY <4>2, <4>4, <4>5 DEF s
    <3>2. QED
      BY <3>1 DEF PartsAgree
  <2>6. NormalizationIsCanonical
    BY <2>2, <2>4, <2>5 DEF NormalizationIsCanonical, Adapter
  <2>7. QED
    BY <2>3, <2>6
<1>2. QED
  BY <1>1, FetchInvariant, PTL
-----------------------------------------------------------------------------
\* Two comparisons of the closes.

LEMMA WithinFacts ==
    ASSUME NEW x \in Nat, NEW y \in Nat, NEW bps \in Nat
    PROVE  /\ WithinBps(x, y, bps) /\ WithinBps(y, x, bps) => DifferenceAtMost(x, y, bps)
           /\ ~WithinBps(x, y, bps) /\ ~WithinBps(y, x, bps) => ~DifferenceAtMost(x, y, bps)
<1> DEFINE n == Abs(x - y)
           u == bps * x
           w == bps * y
<1>1. n \in Nat /\ Abs(y - x) = n /\ Abs(x) = x /\ Abs(y) = y
  BY DEF Abs
<1>2. u \in Nat /\ w \in Nat /\ bps * (x + y) = u + w
  OBVIOUS
<1>3. /\ WithinBps(x, y, bps) <=> n * 10000 <= u
      /\ WithinBps(y, x, bps) <=> n * 10000 <= w
      /\ DifferenceAtMost(x, y, bps) <=> n * 20000 <= u + w
  BY <1>1, <1>2 DEF WithinBps, DifferenceAtMost
<1> HIDE DEF n, u, w
<1>4. QED
  BY <1>1, <1>2, <1>3

LEMMA WithinWider ==
    ASSUME NEW x \in Nat, NEW y \in Nat, NEW p \in Nat, NEW w \in Nat, p <= w
    PROVE  /\ WithinBps(x, y, p) => WithinBps(x, y, w)
           /\ DifferenceAtMost(x, y, p) => DifferenceAtMost(x, y, w)
<1>1. Abs(x - y) \in Nat /\ Abs(x) + Abs(y) \in Nat
  BY DEF Abs
<1>2. Abs(x - y) * 10000 \in Nat /\ Abs(x - y) * 20000 \in Nat
  BY <1>1
<1>3. QED
  BY <1>1, <1>2, ScaledUp DEF WithinBps, DifferenceAtMost

LEMMA CloseValue ==
    ASSUME NEW qq, Fetched(qq), NEW i \in DOMAIN qq.sources, NEW d \in Sessions(qq.sources[i])
    PROVE  StableBar(qq.sources[i], d)["close"] \in Nat /\ StableBar(qq.sources[i], d)["close"] # NaN
<1>1. PICK k \in DOMAIN qq.sources[i].bars : qq.sources[i].bars[k].session = d
  BY DEF Sessions
<1> DEFINE b == qq.sources[i].bars[k]
<1>2. StableBar(qq.sources[i], d) = b
  BY <1>1, OnlyRow
<1>3. b \in Bar /\ IsBar(b)
  BY QueryFacts DEF Fetched, Source
<1> HIDE DEF b
<1>4. b["close"] \in Value /\ b["close"] # NaN /\ b["close"] > 0
  BY <1>3 DEF Bar, IsBar, Columns, Field
<1>5. QED
  BY <1>2, <1>4 DEF Value

\* When the close comparison says what, with one or the other as the primary.
LEMMA StatusMeans ==
    ASSUME NEW l, NEW r, NEW policy, NEW d \in ComparedSessions(l, r), NEW st,
           st = Compare(l, r, policy).checks[d]
    PROVE  LET x == StableBar(l, d).close
               y == StableBar(r, d).close
               both == d \in Sessions(l) \cap Sessions(r)
           IN  /\ st = "missing" <=> ~both
               /\ st = "pass" <=> both /\ WithinBps(x, y, policy.passBps)
               /\ st = "fail" <=> /\ both /\ ~WithinBps(x, y, policy.passBps)
                                  /\ ~WithinBps(x, y, policy.warnBps)
<1> DEFINE x == StableBar(l, d).close
           y == StableBar(r, d).close
           both == d \in Sessions(l) \cap Sessions(r)
<1>1. st = SessionStatus(l, r, d, policy)
  BY DEF Compare
<1>2. SessionStatus(l, r, d, policy) =
          CASE ~both -> "missing"
            [] both /\ WithinBps(x, y, policy.passBps) -> "pass"
            [] both /\ ~WithinBps(x, y, policy.passBps) /\ WithinBps(x, y, policy.warnBps) -> "warning"
            [] OTHER -> "fail"
  BY DEF SessionStatus
<1> HIDE DEF x, y, both
<1>3. /\ st = "missing" <=> ~both
      /\ st = "pass" <=> both /\ WithinBps(x, y, policy.passBps)
      /\ st = "fail" <=> /\ both /\ ~WithinBps(x, y, policy.passBps)
                         /\ ~WithinBps(x, y, policy.warnBps)
  <2>1. CASE ~both
    BY <1>1, <1>2, <2>1
  <2>2. CASE both /\ WithinBps(x, y, policy.passBps)
    BY <1>1, <1>2, <2>2
  <2>3. CASE both /\ ~WithinBps(x, y, policy.passBps) /\ WithinBps(x, y, policy.warnBps)
    BY <1>1, <1>2, <2>3
  <2>4. CASE both /\ ~WithinBps(x, y, policy.passBps) /\ ~WithinBps(x, y, policy.warnBps)
    BY <1>1, <1>2, <2>4
  <2>5. QED
    BY <2>1, <2>2, <2>3, <2>4
<1>4. QED
  BY <1>3 DEF x, y, both

\* The findings of the suite about the closes of a pair.
LEMMA CloseMeans ==
    ASSUME Fetched(q), Admissible(q), q.adjustment = "raw", NEW p \in Pairs(q.sources), NEW d
    PROVE  LET l == q.sources[p[1]]
               r == q.sources[p[2]]
               both == d \in Sessions(l) \cap Sessions(r)
           IN  /\ d \in CloseFindings(p, "cross_source_field_conflict") <=>
                     /\ both /\ Differ(l, r, d, "close", q.policy.passBps)
                     /\ Differ(l, r, d, "close", q.policy.warnBps)
               /\ d \in CloseFindings(p, "cross_source_field_warning") =>
                     both /\ Differ(l, r, d, "close", q.policy.passBps)
<1> DEFINE l == q.sources[p[1]]
           r == q.sources[p[2]]
           both == d \in Sessions(l) \cap Sessions(r)
           C == CrossSourceOhlc(q.sources, q.policy, q.adjustment)
<1>0. CheckResults(q).cross_source_ohlc = C
  BY DEF CheckResults
<1>1. ASSUME NEW code, d \in CloseFindings(p, code)
      PROVE  /\ both /\ Differ(l, r, d, "close", q.policy.passBps)
             /\ code = "cross_source_field_conflict" => Differ(l, r, d, "close", q.policy.warnBps)
  <2>1. PICK e \in C : /\ e.finding.field = "close" /\ e.finding.code = code /\ e.finding.from = d
                       /\ e.finding.by = {Evidence(q.sources[p[1]]), Evidence(q.sources[p[2]])}
    <3> HIDE DEF C
    <3> QED
      BY <1>0, <1>1 DEF CloseFindings, Between, Findings
  <2>2. PICK x \in Pairs(q.sources) :
            /\ e.finding.by = {Evidence(q.sources[x[1]]), Evidence(q.sources[x[2]])}
            /\ e.finding.from \in Sessions(q.sources[x[1]]) \cap Sessions(q.sources[x[2]])
            /\ Differ(q.sources[x[1]], q.sources[x[2]], e.finding.from, e.finding.field,
                      q.policy.passBps)
            /\ e.finding.code =
                  IF Differ(q.sources[x[1]], q.sources[x[2]], e.finding.from, e.finding.field,
                            q.policy.warnBps)
                  THEN "cross_source_field_conflict" ELSE "cross_source_field_warning"
    BY <2>1, DisagreementShape
  <2>3. x = p
    BY <2>1, <2>2, PairsDiffer DEF Fetched
  <2>4. QED
    BY <2>1, <2>2, <2>3
<1>2. ASSUME both, Differ(l, r, d, "close", q.policy.passBps), Differ(l, r, d, "close", q.policy.warnBps)
      PROVE  d \in CloseFindings(p, "cross_source_field_conflict")
  <2> DEFINE f == Finding("cross_source_field_conflict", "close", d, d, {Evidence(l), Evidence(r)},
                          {StableBar(l, d)["close"], StableBar(r, d)["close"]})
             Code(z) == IF Differ(l, r, z[1], z[2], q.policy.warnBps)
                        THEN "cross_source_field_conflict" ELSE "cross_source_field_warning"
             Emission(z) == At(<<p, z>>, Finding(Code(z), z[2], z[1], z[1],
                                   {Evidence(l), Evidence(r)},
                                   {StableBar(l, z[1])[z[2]], StableBar(r, z[1])[z[2]]}))
             Sites == {z \in (Sessions(l) \cap Sessions(r)) \X Field :
                          Differ(l, r, z[1], z[2], q.policy.passBps)}
             e == At(<<p, <<d, "close">>>>, f)
  <2>1. e \in Disagreements(p, l, r, q.policy)
    <3>1. <<d, "close">> \in Sites
      <4> HIDE DEF l, r
      <4> QED
        BY <1>2 DEF Field
    <3>2. Disagreements(p, l, r, q.policy) = {Emission(z) : z \in Sites}
      BY DEF Disagreements
    <3>3. e = Emission(<<d, "close">>)
      <4> HIDE DEF l, r
      <4> QED
        BY <1>2
    <3> HIDE DEF e, Emission, Sites
    <3>4. QED
      BY <3>1, <3>2, <3>3
  <2>2. e \in C
    <3> HIDE DEF e
    <3>1. p \in {y \in Pairs(q.sources) : q.adjustment = "raw"}
      OBVIOUS
    <3>2. QED
      BY <2>1, <3>1 DEF CrossSourceOhlc
  <2>3. e.finding = f
    BY DEF At
  <2>4. /\ f.from = d /\ f.field = "close" /\ f.code = "cross_source_field_conflict"
        /\ f.by = {Evidence(q.sources[p[1]]), Evidence(q.sources[p[2]])}
    BY DEF Finding
  <2> HIDE DEF e, f, C
  <2>5. f \in Findings(C)
    BY <2>2, <2>3 DEF Findings
  <2>6. QED
    BY <1>0, <2>4, <2>5 DEF CloseFindings, Between
<1>3. QED
  BY <1>1, <1>2

LEMMA OverlapMeans ==
    ASSUME Fetched(q), Admissible(q), NEW p \in Pairs(q.sources), NEW d
    PROVE  d \in Between(p, Findings(CheckResults(q).cross_source_overlap)) <=>
             /\ d \in ComparedSessions(q.sources[p[1]], q.sources[p[2]])
             /\ d \notin Sessions(q.sources[p[1]]) \cap Sessions(q.sources[p[2]])
<1> DEFINE l == q.sources[p[1]]
           r == q.sources[p[2]]
           C == CrossSourceOverlap(q.sources)
<1>0. CheckResults(q).cross_source_overlap = C
  BY DEF CheckResults
<1>1. ASSUME d \in Between(p, Findings(C))
      PROVE  d \in Sessions(l) \ Sessions(r) \/ d \in Sessions(r) \ Sessions(l)
  <2>1. PICK e \in C : /\ e.finding.from = d
                       /\ e.finding.by = {Evidence(q.sources[p[1]]), Evidence(q.sources[p[2]])}
    <3> HIDE DEF C
    <3> QED
      BY <1>1 DEF Between, Findings
  <2>2. PICK x \in Pairs(q.sources) :
            /\ e.finding.by = {Evidence(q.sources[x[1]]), Evidence(q.sources[x[2]])}
            /\ \/ e.finding.from \in Sessions(q.sources[x[1]]) \ Sessions(q.sources[x[2]])
               \/ e.finding.from \in Sessions(q.sources[x[2]]) \ Sessions(q.sources[x[1]])
    BY <2>1, OverlapShape
  <2>3. x = p
    BY <2>1, <2>2, PairsDiffer DEF Fetched
  <2>4. QED
    BY <2>1, <2>2, <2>3
<1>2. ASSUME NEW s, NEW t, d \in Sessions(s) \ Sessions(t),
             Unshared(p, s, t) \subseteq C, {Evidence(s), Evidence(t)} = {Evidence(l), Evidence(r)}
      PROVE  d \in Between(p, Findings(C))
  <2> DEFINE f == Finding("cross_source_session_missing", "", d, d, {Evidence(s), Evidence(t)}, Evidence(t))
             e == At(<<p, d>>, f)
  <2>1. e \in Unshared(p, s, t)
    BY <1>2 DEF Unshared
  <2>2. e.finding = f /\ f.from = d /\ f.by = {Evidence(l), Evidence(r)}
    BY <1>2 DEF At, Finding
  <2> HIDE DEF e, f, C
  <2>3. f \in Findings(C)
    BY <1>2, <2>1, <2>2 DEF Findings
  <2>4. QED
    BY <2>2, <2>3 DEF Between
<1>3. Unshared(p, l, r) \subseteq C /\ Unshared(p, r, l) \subseteq C
  BY DEF CrossSourceOverlap
<1>4. ASSUME d \in Sessions(l) \ Sessions(r) \/ d \in Sessions(r) \ Sessions(l)
      PROVE  d \in Between(p, Findings(C))
  <2> HIDE DEF C, l, r
  <2>1. CASE d \in Sessions(l) \ Sessions(r)
    BY <1>2, <1>3, <2>1
  <2>2. CASE d \in Sessions(r) \ Sessions(l)
    <3>1. {Evidence(r), Evidence(l)} = {Evidence(l), Evidence(r)}
      OBVIOUS
    <3>2. QED
      BY <1>2, <1>3, <2>2, <3>1
  <2>3. QED
    BY <1>4, <2>1, <2>2
<1> HIDE DEF C
<1>5. QED
  BY <1>0, <1>1, <1>4 DEF ComparedSessions

\* The close comparison and the suite agree on histories the adapters
\* normalized (CrossSourceValidator.compare, QualitySuite._cross_source_*).
THEOREM ClosesTheorem == WorldsSpec => []ClosesCompareAlike
<1>1. FetchHolds => ClosesCompareAlike
  <2>1. SUFFICES ASSUME Fetched(q), Admissible(q), q.adjustment = "raw", NEW p \in Pairs(q.sources)
                 PROVE  LET l == Compare(q.sources[p[1]], q.sources[p[2]], q.policy).checks
                            r == Compare(q.sources[p[2]], q.sources[p[1]], q.policy).checks
                            conflicts == CloseFindings(p, "cross_source_field_conflict")
                            warnings == CloseFindings(p, "cross_source_field_warning")
                        IN  /\ Between(p, Findings(CheckResults(q).cross_source_overlap))
                                  = {d \in DOMAIN l : l[d] = "missing"}
                            /\ \A d \in DOMAIN l :
                                  /\ l[d] = "pass" /\ r[d] = "pass" => d \notin conflicts \cup warnings
                                  /\ l[d] = "fail" /\ r[d] = "fail" => d \in conflicts
                            /\ \A d \in conflicts : "fail" \in {l[d], r[d]}
    BY DEF FetchHolds, ClosesCompareAlike, ComparisonsAgree, Reported
  <2> DEFINE s == q.sources[p[1]]
             t == q.sources[p[2]]
             l == Compare(s, t, q.policy).checks
             r == Compare(t, s, q.policy).checks
             S == ComparedSessions(s, t)
             both(d) == d \in Sessions(s) \cap Sessions(t)
             x(d) == StableBar(s, d)["close"]
             y(d) == StableBar(t, d)["close"]
             P == q.policy.passBps
             W == q.policy.warnBps
             conflicts == CloseFindings(p, "cross_source_field_conflict")
             warnings == CloseFindings(p, "cross_source_field_warning")
  <2>2. /\ P \in Nat /\ W \in Nat /\ P <= W
        /\ p[1] \in DOMAIN q.sources /\ p[2] \in DOMAIN q.sources
    BY <2>1 DEF Fetched, Query, Policy, Pairs
  <2>3. DOMAIN l = S
    BY DEF Compare
  <2>4. ASSUME NEW d \in S
        PROVE  /\ l[d] = "missing" <=> ~both(d)
               /\ l[d] = "pass" <=> both(d) /\ WithinBps(x(d), y(d), P)
               /\ l[d] = "fail" <=> both(d) /\ ~WithinBps(x(d), y(d), P) /\ ~WithinBps(x(d), y(d), W)
               /\ r[d] = "pass" <=> both(d) /\ WithinBps(y(d), x(d), P)
               /\ r[d] = "fail" <=> both(d) /\ ~WithinBps(y(d), x(d), P) /\ ~WithinBps(y(d), x(d), W)
    <3>1. d \in ComparedSessions(s, t) /\ d \in ComparedSessions(t, s)
      BY DEF ComparedSessions
    <3>2. /\ l[d] = "missing" <=> ~both(d)
          /\ l[d] = "pass" <=> both(d) /\ WithinBps(x(d), y(d), P)
          /\ l[d] = "fail" <=> both(d) /\ ~WithinBps(x(d), y(d), P) /\ ~WithinBps(x(d), y(d), W)
      BY <3>1, StatusMeans
    <3>3. /\ r[d] = "pass" <=> both(d) /\ WithinBps(y(d), x(d), P)
          /\ r[d] = "fail" <=> both(d) /\ ~WithinBps(y(d), x(d), P) /\ ~WithinBps(y(d), x(d), W)
      BY <3>1, StatusMeans
    <3>4. QED
      BY <3>2, <3>3
  <2>5. ASSUME NEW d, both(d)
        PROVE  /\ x(d) \in Nat /\ y(d) \in Nat
               /\ Differ(s, t, d, "close", P) <=> ~DifferenceAtMost(x(d), y(d), P)
               /\ Differ(s, t, d, "close", W) <=> ~DifferenceAtMost(x(d), y(d), W)
    <3>1. x(d) \in Nat /\ y(d) \in Nat /\ x(d) # NaN /\ y(d) # NaN
      BY <2>1, <2>2, <2>5, CloseValue
    <3>2. QED
      BY <3>1 DEF Differ
  <2>6. ASSUME NEW d
        PROVE  /\ d \in conflicts <=> /\ both(d) /\ Differ(s, t, d, "close", P)
                                      /\ Differ(s, t, d, "close", W)
               /\ d \in warnings => both(d) /\ Differ(s, t, d, "close", P)
    BY <2>1, CloseMeans
  <2>7. Between(p, Findings(CheckResults(q).cross_source_overlap)) = {d \in S : l[d] = "missing"}
    <3> DEFINE B == Between(p, Findings(CheckResults(q).cross_source_overlap))
    <3>1. ASSUME NEW d PROVE d \in B <=> d \in S /\ ~both(d)
      BY <2>1, OverlapMeans
    <3> HIDE DEF B, S, both, l
    <3>2. QED
      BY <2>4, <3>1 DEF B
  <2>8. \A d : both(d) => d \in S
    BY DEF ComparedSessions
  <2> HIDE DEF s, t, l, r, S, x, y, both, P, W, conflicts, warnings
  <2>9. ASSUME NEW d \in S, l[d] = "pass", r[d] = "pass" PROVE d \notin conflicts \cup warnings
    <3>1. both(d) /\ WithinBps(x(d), y(d), P) /\ WithinBps(y(d), x(d), P)
      BY <2>4, <2>9
    <3>2. DifferenceAtMost(x(d), y(d), P)
      BY <2>2, <2>5, <3>1, WithinFacts
    <3>3. QED
      BY <2>5, <2>6, <3>1, <3>2
  <2>10. ASSUME NEW d \in S, l[d] = "fail", r[d] = "fail" PROVE d \in conflicts
    <3>1. /\ both(d) /\ ~WithinBps(x(d), y(d), P) /\ ~WithinBps(y(d), x(d), P)
          /\ ~WithinBps(x(d), y(d), W) /\ ~WithinBps(y(d), x(d), W)
      BY <2>4, <2>10
    <3>2. ~DifferenceAtMost(x(d), y(d), P) /\ ~DifferenceAtMost(x(d), y(d), W)
      BY <2>2, <2>5, <3>1, WithinFacts
    <3>3. QED
      BY <2>5, <2>6, <3>1, <3>2
  <2>11. ASSUME NEW d \in conflicts PROVE "fail" \in {l[d], r[d]}
    <3>1. both(d) /\ d \in S /\ ~DifferenceAtMost(x(d), y(d), W)
      BY <2>5, <2>6, <2>8
    <3>2. x(d) \in Nat /\ y(d) \in Nat
      BY <2>5, <3>1
    <3>3. ~WithinBps(x(d), y(d), W) \/ ~WithinBps(y(d), x(d), W)
      BY <2>2, <3>1, <3>2, WithinFacts
    <3>4. (~WithinBps(x(d), y(d), W) => ~WithinBps(x(d), y(d), P))
          /\ (~WithinBps(y(d), x(d), W) => ~WithinBps(y(d), x(d), P))
      BY <2>2, <3>2, WithinWider
    <3>5. l[d] = "fail" \/ r[d] = "fail"
      BY <2>4, <3>1, <3>3, <3>4
    <3>6. QED
      BY <3>5
  <2>12. QED
    BY <2>3, <2>7, <2>9, <2>10, <2>11 DEF s, t, l, r, conflicts, warnings
<1>2. QED
  BY <1>1, FetchInvariant, PTL
=============================================================================
