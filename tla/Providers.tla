------------------------------ MODULE Providers ------------------------------
(* data/providers and data/validation.py: the two adapters that capture what *)
(* a vendor answers and normalize the capture offline, and the older close   *)
(* comparison of two normalized histories.  A caller captures, normalizes    *)
(* each capture over some window, and adds the rows to its query for the     *)
(* quality suite as a source.                                                *)
EXTENDS QualitySuite

CONSTANTS Null,          \* a field that is there but holds no finite number
          Absent,        \* a field that the row lacks
          OpenDays,      \* the sessions of the exchange calendar
          Asset,         \* the symbol the caller asks for
          Answers        \* what the vendors may answer: captures

Adapter == {"akshare", "yfinance"}
Columns == Field \cup {"volume"}
Cell == Value \cup {Null, Absent}
Row == [session : Day \cup {Null, Absent}, open : Cell, high : Cell, low : Cell,
        close : Cell, volume : Cell]
Capture == [provider : Adapter, symbol : STRING, schema : Label, adjust : {"raw", "qfq", "other"},
            rows : Seq(Row)]

ASSUME AnswerAssumption == /\ Null \notin Int \cup {NaN} /\ Absent \notin Int \cup {NaN, Null}
                           /\ \A c \in Answers : c \in Capture
ASSUME NameAssumption == Adapter \subseteq Provider /\ {"daily", "c1", "c2", "v1", "n1"} \subseteq Label

VARIABLE captured      \* the capture of each adapter

fetchVars == <<vars, captured>>

-----------------------------------------------------------------------------
(* Normalization *)

CaptureSchema == [v \in Adapter |-> "daily"]

\* _validate_capture: the adapter's own captures, for the symbol asked for.
Belongs(v, c) == /\ c.provider = v
                 /\ c.schema = CaptureSchema[v]
                 /\ c.symbol = Asset
                 /\ v = "akshare" => c.adjust # "other"

Inside(r, from, to) == from <= r.session /\ r.session <= to
Selected(c, from, to) == RowsWithin(c.rows, from, to)

\* The contract of a NormalizedBar.
IsBar(r) == /\ \A f \in Columns : r[f] \notin {Null, Absent, NaN}
            /\ \A f \in Field : r[f] > 0
            /\ OHLCOrdered(r)
            /\ r.volume >= 0

\* akshare looks for missing columns in every row.  yfinance renames its
\* columns first, and what is missing becomes None.
HasColumns(v, r) == v = "akshare" => \A f \in Columns : r[f] # Absent

\* Fault: only neighbours are compared.
NeighboursDiffer(rows) == \A k \in DOMAIN rows : k > 1 => rows[k - 1].session # rows[k].session

SessionsDiffer(rows) == \A j, k \in DOMAIN rows : rows[j].session = rows[k].session => j = k

\* Whether normalize_daily raises nothing.  akshare answers with its whole
\* history, of which it takes what is asked for; yfinance was asked for a
\* range and must answer within it, with a row at least.
Accepts(v, c, from, to) ==
    /\ from <= to
    /\ Belongs(v, c)
    /\ \A k \in DOMAIN c.rows : HasColumns(v, c.rows[k]) /\ c.rows[k].session \in Day
    /\ SessionsDiffer(c.rows)
    /\ v = "yfinance" => c.rows # <<>> /\ \A k \in DOMAIN c.rows : Inside(c.rows[k], from, to)
    /\ \A k \in DOMAIN c.rows :
          Inside(c.rows[k], from, to) => c.rows[k].session \in OpenDays /\ IsBar(c.rows[k])

\* Fault: the rows stay in the order of the response.
NormalizeUnsorted(c, from, to) == Selected(c, from, to)

\* sorted(): by session, and rows of one session as they came.
InOrder(rows) ==
    LET place == CHOOSE p \in [DOMAIN rows -> DOMAIN rows] :
                    \A j, k \in DOMAIN rows : j < k =>
                        \/ rows[p[j]].session < rows[p[k]].session
                        \/ rows[p[j]].session = rows[p[k]].session /\ p[j] < p[k]
    IN  [k \in DOMAIN rows |-> rows[place[k]]]
Normalize(c, from, to) == InOrder(Selected(c, from, to))

SourceOf(c, from, to) ==
    [provider |-> c.provider, request |-> "daily",
     capture |-> IF c.provider = "akshare" THEN "c1" ELSE "c2",
     schema |-> "v1", normalizer |-> "n1", bars |-> Normalize(c, from, to)]
-----------------------------------------------------------------------------
(* CrossSourceValidator *)

\* _index raises for a repeated session, compare for two empty histories.
Comparable(l, r) == /\ l.bars # <<>> \/ r.bars # <<>>
                    /\ SessionsDiffer(l.bars) /\ SessionsDiffer(r.bars)

\* Fault: only the sessions that both have.
SharedSessions(l, r) == Sessions(l) \cap Sessions(r)

ComparedSessions(l, r) == Sessions(l) \cup Sessions(r)

WithinBps(x, y, bps) == Abs(x - y) * 10000 <= bps * x

SessionStatus(l, r, d, policy) ==
    LET x == StableBar(l, d).close
        y == StableBar(r, d).close
    IN  CASE d \notin Sessions(l) \cap Sessions(r) -> "missing"
          [] d \in Sessions(l) \cap Sessions(r) /\ WithinBps(x, y, policy.passBps) -> "pass"
          [] d \in Sessions(l) \cap Sessions(r) /\ ~WithinBps(x, y, policy.passBps)
                /\ WithinBps(x, y, policy.warnBps) -> "warning"
          [] OTHER -> "fail"

Compare(l, r, policy) ==
    LET checks == [d \in ComparedSessions(l, r) |-> SessionStatus(l, r, d, policy)]
        found == {checks[d] : d \in DOMAIN checks}
    IN  [checks |-> checks,
         overall |-> IF found \cap {"fail", "missing"} # {} THEN "fail"
                     ELSE IF "warning" \in found THEN "warning" ELSE "pass"]
-----------------------------------------------------------------------------
(* The caller *)

\* The caller starts with a question and no data.
FetchInit == /\ Init
             /\ q.sources = <<>> /\ q.revisions = {}
             /\ captured = [v \in Adapter |-> None]

\* capture_daily: one request, whose answer is kept as it is.  A number that
\* is not finite cannot be kept (RawCapture).
CaptureDaily(c) ==
    /\ captured[c.provider] = None
    /\ \A k \in DOMAIN c.rows, f \in Columns : c.rows[k][f] # NaN
    /\ captured' = [captured EXCEPT ![c.provider] = c]
    /\ UNCHANGED vars

\* normalize_daily of an adapter, on a capture of its own or another's.
NormalizeDaily(v, w, from, to) ==
    /\ captured[w] # None
    /\ Accepts(v, captured[w], from, to)
    /\ AddSource(SourceOf(captured[w], from, to))
    /\ UNCHANGED captured

FetchNext == \/ \E c \in Answers : CaptureDaily(c)
             \/ \E v, w \in Adapter : NormalizeDaily(v, w, q.from, q.to)
             \/ \E v, w \in Adapter : NormalizeDaily(v, w, 0, MaxDay)
-----------------------------------------------------------------------------
(* Properties. *)

\* Findings about the shape of a source's own rows.
RowCodes == {"duplicate_session", "invalid_ohlc", "negative_volume", "non_finite_field",
             "non_monotonic_sessions", "non_positive_price"}

\* What the adapters normalize the suite can always report on (a repeated
\* finding makes evaluate() raise), and finds nothing wrong with row by row:
\* the two layers draw the line of a well-formed history in the same place.
NormalizedIsReported ==
    Admissible(q) =>
        /\ HasUniqueFindings(q)
        /\ \A f \in AllFindings(CheckResults(q)) : f.code \notin RowCodes

\* The rows can come in any order, each once.
Orders(c) ==
    {p \in [DOMAIN c.rows -> DOMAIN c.rows] :
        /\ \A k \in DOMAIN c.rows : \E j \in DOMAIN c.rows : p[j] = k
        /\ \A j, k \in DOMAIN c.rows : p[j] = p[k] => j = k}
Reordered(c, p) == [c EXCEPT !.rows = [k \in DOMAIN @ |-> @[p[k]]]]

\* Whatever the order of the answer, it is accepted alike and has the same bars.
SameBars(v, c, d) ==
    /\ Accepts(v, d, 0, MaxDay) <=> Accepts(v, c, 0, MaxDay)
    /\ Accepts(v, c, 0, MaxDay) => Normalize(d, 0, MaxDay) = Normalize(c, 0, MaxDay)
OrderIsImmaterial(v, c) ==
    \A p \in Orders(c) : SameBars(v, c, Reordered(c, p))

\* A part of what is accepted is accepted, and has the bars of the whole.
PartsAgree(v, c) ==
    Accepts(v, c, 0, MaxDay) =>
        \A a, b \in Day :
            a <= b => /\ Accepts(v, c, a, b)
                      /\ Normalize(c, a, b) = TrimSource(SourceOf(c, 0, MaxDay), a, b).bars

\* The bars do not depend on the order in which the vendor answers, and a part
\* of a range that akshare normalizes has the same bars as the whole.
NormalizationIsCanonical ==
    /\ \A v \in Adapter : captured[v] # None => OrderIsImmaterial(v, captured[v])
    /\ captured["akshare"] # None => PartsAgree("akshare", captured["akshare"])

\* The sessions of the findings between the two sources of a pair.
Between(p, found) ==
    {f.from : f \in {g \in found : g.by = {Evidence(q.sources[p[1]]), Evidence(q.sources[p[2]])}}}
CloseFindings(p, code) ==
    Between(p, {f \in Findings(CheckResults(q).cross_source_ohlc) :
                    f.field = "close" /\ f.code = code})

\* The close comparison measures against the primary and the suite against the
\* mean of the two; they agree up to that: the same sessions are missing, what
\* passes whichever is primary has no finding, what fails whichever is primary
\* is a conflict, and a conflict fails for one choice of the primary.
ComparisonsAgree ==
    q.adjustment = "raw" /\ Reported(q) =>
        \A p \in {x \in Pairs(q.sources) : Comparable(q.sources[x[1]], q.sources[x[2]])} :
            LET l == Compare(q.sources[p[1]], q.sources[p[2]], q.policy).checks
                r == Compare(q.sources[p[2]], q.sources[p[1]], q.policy).checks
                conflicts == CloseFindings(p, "cross_source_field_conflict")
                warnings == CloseFindings(p, "cross_source_field_warning")
            IN  /\ Between(p, Findings(CheckResults(q).cross_source_overlap))
                      = {d \in DOMAIN l : l[d] = "missing"}
                /\ \A d \in DOMAIN l :
                      /\ l[d] = "pass" /\ r[d] = "pass" => d \notin conflicts \cup warnings
                      /\ l[d] = "fail" /\ r[d] = "fail" => d \in conflicts
                /\ \A d \in conflicts : "fail" \in {l[d], r[d]}
=============================================================================
