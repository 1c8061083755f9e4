--------------------------- MODULE MCQualitySuite ---------------------------
(* The worlds of QualityWorlds for TLC: one provider with every sequence of  *)
(* few kinds of rows on three days, the life of a report over up to two      *)
(* providers, and captures that the two adapters normalize.                  *)
EXTENDS QualityWorlds

MCProvider == {"akshare", "yfinance", "YFinance"}
MCAuthority == [p \in MCProvider |->
                   IF p = "YFinance" THEN "yfinance" ELSE p]

MCLabel == {"daily", "n1", "v0", "v1", "c1", "c2", "c3"}

Fields(o, h, l, c, v) == [open |-> o, high |-> h, low |-> l, close |-> c, volume |-> v]
Flat(x) == Fields(x, x, x, x, 1)

\* Rows without their session, in the order of their printed fields:
\* 1010 and 1000 differ by about 100 bps.
Kinds == <<Fields(0, 1000, 0, 1000, 1), Flat(1000), Fields(1000, 1000, 1000, 1000, -1),
           Fields(1000, 1000, 1010, 1000, 1), Flat(1010),
           Fields(NaN, 1000, 1000, 1000, 1)>>
Plain(b) == Fields(b.open, b.high, b.low, b.close, b.volume)
MCTextRank(b) == CHOOSE k \in DOMAIN Kinds : Kinds[k] = Plain(b)
RowOn(d, x) == [session |-> d, open |-> x.open, high |-> x.high, low |-> x.low,
                close |-> x.close, volume |-> x.volume]

Good == {RowOn(d, Flat(1000)) : d \in 1 .. 3}
MCRowBars == Good \cup {RowOn(2, Kinds[k]) : k \in {1, 3, 4, 6}}

Rules(n, blocks) == [schemas |-> {"v1"}, minSources |-> n, passBps |-> 10, warnBps |-> 50,
                      revisionBlocks |-> blocks]
Ask(from, to, adjustment, expected, policy) ==
    [from |-> from, to |-> to, adjustment |-> adjustment, expected |-> expected,
     policy |-> policy, sources |-> <<>>, revisions |-> {}]
From(provider, capture, schema, bars) ==
    [provider |-> provider, request |-> "daily", capture |-> capture, schema |-> schema,
     normalizer |-> "n1", bars |-> bars]

Ranges == {<<1, 2>>, <<2, 2>>, <<1, 3>>, <<3, 3>>, <<2, 1>>}
Calendars == {{1, 2, 3}, {1, 2}, {1, 3}}

\* One provider, every sequence of rows, an accepted and a foreign schema:
\* every range (one is inverted) of the full calendar, the widest of the others.
MCRowQueries == {Ask(r[1], r[2], "raw", {1, 2, 3}, Rules(1, FALSE)) : r \in Ranges}
              \cup {Ask(1, 3, "raw", e, Rules(1, FALSE)) : e \in Calendars}
MCRowSources == {From("akshare", "c1", x, <<>>) : x \in {"v1", "v0"}}

\* Two providers that agree or conflict, schemas, spellings, adjustment,
\* revisions; reports.
MCLifeQueries == {Ask(1, 2, "raw", {1, 2}, Rules(1, TRUE)),
                Ask(2, 2, "raw", {1, 2}, [Rules(2, FALSE) EXCEPT !.warnBps = 200]),
                Ask(1, 2, "total_return", {1, 2}, Rules(1, TRUE))}
MCLifeBars == {RowOn(2, Flat(1010)), RowOn(1, Flat(1000))}
MCLifeSources == {From("akshare", "c1", "v1", <<RowOn(2, Flat(1000))>>),
                From("yfinance", "c2", "v0", <<>>),
                From("YFinance", "c3", "v1", <<RowOn(1, Flat(1000))>>)}

\* Two adapters: three kinds of prices, within 10, 50 and 55 bps of each
\* other, cells without a number, a day the exchange is closed.
MCOpenDays == {1, 2, 4}
Cells(c) == Fields(IF c \in Int THEN c ELSE 1000, 1000, IF c \in Int THEN c ELSE 1000, c, 1)
AkshareRows == {RowOn(1, Cells(1000)), RowOn(1, Cells(995)), RowOn(2, Cells(999)),
                RowOn(2, Cells(Absent)), RowOn(3, Cells(1000))}
YFinanceRows == {RowOn(1, Cells(1000)), RowOn(2, Cells(994)), RowOn(2, Cells(Absent)),
                 RowOn(1, [Cells(1000) EXCEPT !.low = 1001]),
                 RowOn(2, Cells(NaN)), [RowOn(1, Cells(Null)) EXCEPT !.session = Null]}
UpTo(n, S) == UNION {[1 .. k -> S] : k \in 0 .. n}
CaptureOf(v, symbol, schema, adjust, rows) ==
    [provider |-> v, symbol |-> symbol, schema |-> schema, adjust |-> adjust, rows |-> rows]
MCAnswers == {CaptureOf("akshare", "QQQ", "daily", "raw", x) : x \in UpTo(3, AkshareRows)}
             \cup {CaptureOf("yfinance", "QQQ", "daily", "raw", x) : x \in UpTo(2, YFinanceRows)}
             \cup {CaptureOf("akshare", y[1], y[2], y[3], <<RowOn(2, Cells(999))>>) :
                      y \in {<<"DIA", "daily", "raw">>, <<"QQQ", "v0", "raw">>,
                             <<"QQQ", "daily", "qfq">>, <<"QQQ", "daily", "other">>}}
MCQueries == {Ask(1, 2, "raw", {1, 2}, Rules(2, FALSE)), Ask(1, 2, "raw", {1, 3}, Rules(1, FALSE))}
=============================================================================
