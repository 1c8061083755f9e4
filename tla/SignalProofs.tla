---------------------------- MODULE SignalProofs ----------------------------
(***************************************************************************)
(* Periods derived from a growing history hide no gap, and are final once  *)
(* they are complete.  Every strategy decides in time; those on daily bars *)
(* use nothing from the future, never repaint, and give the targets that   *)
(* their rules define over the bars; those on periods give the targets     *)
(* that the daily bars below the periods ask for.  For any calendar,       *)
(* prices, delays, windows and cutoff.                                     *)
(***************************************************************************)
EXTENDS SignalWorlds, SequenceTheorems, WellFoundedInduction, TLAPS

\* A set of numbers that is not empty has a least one.
LEMMA LeastNumber ==
    ASSUME NEW T, T \subseteq Nat, T # {}
    PROVE  \E x \in T : \A y \in T : x <= y
<1> DEFINE R == OpToRel(<, Nat)
<1>1. PICK x \in T : \A y \in T : ~ (<<y, x>> \in R)
  <2>1. IsWellFoundedOn(R, Nat)
    BY NatLessThanWellFounded
  <2> HIDE DEF R
  <2>2. QED
    BY <2>1, WFMin
<1>2. \A y \in T : x <= y
  <2>1. SUFFICES ASSUME NEW y \in T, y < x PROVE FALSE
    OBVIOUS
  <2>2. <<y, x>> \in R
    BY <2>1 DEF OpToRel
  <2>3. QED
    BY <1>1, <2>1, <2>2
<1>3. QED
  BY <1>2

-----------------------------------------------------------------------------
(* Grouping *)

\* f groups the first n sessions.
GroupsUpTo(n, f) ==
    f = [m \in 0 .. n |-> IF m = 0 THEN <<>> ELSE Joined(f[m - 1], PeriodOf[m])]

\* There is such a function for every n: the least n without one has one.
LEMMA GroupsExist == ASSUME NEW n \in Nat PROVE \E f : GroupsUpTo(n, f)
<1> DEFINE S == {m \in Nat : ~ \E f : GroupsUpTo(m, f)}
<1>1. SUFFICES ASSUME S # {} PROVE FALSE
  OBVIOUS
<1>2. PICK m \in S : \A k \in S : m <= k
  <2> S \subseteq Nat
    OBVIOUS
  <2> HIDE DEF S
  <2> QED
    BY <1>1, LeastNumber
<1>3. CASE m = 0
  <2> DEFINE f == [k \in 0 .. 0 |-> <<>>]
  <2>1. GroupsUpTo(0, f)
    BY DEF GroupsUpTo
  <2>2. QED
    BY <1>2, <1>3, <2>1
<1>4. CASE m # 0
  <2>1. m - 1 \in Nat /\ m - 1 \notin S
    BY <1>2, <1>4
  <2>2. PICK f : GroupsUpTo(m - 1, f)
    BY <2>1
  <2> DEFINE h == [k \in 0 .. m |-> IF k = 0 THEN <<>> ELSE Joined(f[k - 1], PeriodOf[k])]
  <2>3. ASSUME NEW k \in 1 .. m PROVE h[k - 1] = f[k - 1]
    <3>1. k - 1 \in 0 .. m - 1 /\ k - 1 \in 0 .. m
      BY <2>1
    <3>2. QED
      BY <2>2, <3>1 DEF GroupsUpTo
  <2>4. GroupsUpTo(m, h)
    <3> DEFINE g == [k \in 0 .. m |-> IF k = 0 THEN <<>> ELSE Joined(h[k - 1], PeriodOf[k])]
    <3>1. \A k \in 0 .. m : h[k] = g[k]
      <4> SUFFICES ASSUME NEW k \in 0 .. m PROVE h[k] = g[k]
        OBVIOUS
      <4>1. CASE k = 0
        BY <4>1
      <4>2. CASE k # 0
        <5>1. k \in 1 .. m
          BY <4>2
        <5>2. h[k - 1] = f[k - 1]
          BY <2>3, <5>1
        <5> HIDE DEF h
        <5>3. g[k] = Joined(h[k - 1], PeriodOf[k])
          BY <4>2
        <5>4. h[k] = Joined(f[k - 1], PeriodOf[k])
          BY <4>2 DEF h
        <5>5. QED
          BY <5>2, <5>3, <5>4
      <4>3. QED
        BY <4>1, <4>2
    <3>2. h = g
      BY <3>1
    <3> HIDE DEF h
    <3>3. QED
      BY <3>2 DEF GroupsUpTo
  <2> HIDE DEF h
  <2>5. QED
    BY <1>2, <2>4
<1>5. QED
  BY <1>3, <1>4

\* The loop of _group_sessions.
LEMMA GroupsStep ==
    /\ Groups[0] = <<>>
    /\ \A n \in 1 .. Len(PeriodOf) : Groups[n] = Joined(Groups[n - 1], PeriodOf[n])
<1>1. Len(PeriodOf) \in Nat
  BY PeriodsAssumption
<1>2. PICK f : GroupsUpTo(Len(PeriodOf), f)
  BY <1>1, GroupsExist
<1>3. GroupsUpTo(Len(PeriodOf), Groups)
  BY <1>2 DEF GroupsUpTo, Groups
<1>4. QED
  BY <1>1, <1>3 DEF GroupsUpTo

\* The sequence s has the periods of the first n sessions, each once, in order.
Grouped(s, n) ==
    /\ s \in Seq(Nat)
    /\ \A i \in 1 .. n : \E k \in 1 .. Len(s) : s[k] = PeriodOf[i]
    /\ \A k \in 1 .. Len(s) : \E i \in 1 .. n : s[k] = PeriodOf[i]
    /\ \A k, l \in 1 .. Len(s) : k < l => s[k] < s[l]
    /\ n > 0 => Len(s) > 0 /\ s[Len(s)] = PeriodOf[n]

\* A session of the period that was grouped last.
LEMMA GroupedJoining ==
    ASSUME NEW n \in 1 .. Len(PeriodOf), NEW s, Grouped(s, n - 1),
           s # <<>>, Last(s) = PeriodOf[n]
    PROVE  Grouped(s, n)
<1>1. Len(PeriodOf) \in Nat /\ n \in Nat /\ s \in Seq(Nat) /\ Len(s) \in Nat /\ Len(s) > 0
  BY PeriodsAssumption DEF Grouped
<1>2. s[Len(s)] = PeriodOf[n]
  BY DEF Last
<1>3. ASSUME NEW i \in 1 .. n PROVE \E k \in 1 .. Len(s) : s[k] = PeriodOf[i]
  <2>1. CASE i = n
    BY <1>1, <1>2, <2>1
  <2>2. CASE i # n
    BY <1>1, <2>2 DEF Grouped
  <2>3. QED
    BY <2>1, <2>2
<1>4. ASSUME NEW k \in 1 .. Len(s) PROVE \E i \in 1 .. n : s[k] = PeriodOf[i]
  BY <1>1 DEF Grouped
<1>5. \A k, l \in 1 .. Len(s) : k < l => s[k] < s[l]
  BY DEF Grouped
<1>6. QED
  BY <1>1, <1>2, <1>3, <1>4, <1>5 DEF Grouped

\* A session of another period, which is a later one.
LEMMA GroupedOpening ==
    ASSUME NEW n \in 1 .. Len(PeriodOf), NEW s, Grouped(s, n - 1),
           s = <<>> \/ Last(s) # PeriodOf[n]
    PROVE  Grouped(Append(s, PeriodOf[n]), n)
<1> DEFINE t == Append(s, PeriodOf[n])
<1>1. /\ Len(PeriodOf) \in Nat /\ n \in Nat /\ PeriodOf[n] \in Nat
      /\ s \in Seq(Nat) /\ Len(s) \in Nat
  BY PeriodsAssumption DEF Grouped
<1>2. /\ t \in Seq(Nat) /\ Len(t) = Len(s) + 1
      /\ \A k \in 1 .. Len(s) : t[k] = s[k]
      /\ t[Len(s) + 1] = PeriodOf[n]
  BY <1>1
<1>3. ASSUME NEW k \in 1 .. Len(s) PROVE s[k] < PeriodOf[n]
  <2>1. s # <<>> /\ Len(s) \in 1 .. Len(s) /\ s[Len(s)] # PeriodOf[n]
    BY <1>1 DEF Last
  <2>2. s[k] <= s[Len(s)] /\ s[k] \in Nat /\ s[Len(s)] \in Nat
    <3>1. s[k] \in Nat /\ s[Len(s)] \in Nat
      BY <1>1, <2>1, ElementOfSeq
    <3>2. k < Len(s) => s[k] < s[Len(s)]
      BY <2>1 DEF Grouped
    <3>3. k < Len(s) \/ k = Len(s)
      BY <1>1
    <3>4. QED
      BY <3>1, <3>2, <3>3
  <2>3. PICK i \in 1 .. n - 1 : s[Len(s)] = PeriodOf[i]
    BY <2>1 DEF Grouped
  <2>4. i \in DOMAIN PeriodOf /\ n \in DOMAIN PeriodOf /\ i <= n
    BY <1>1, PeriodsAssumption
  <2>5. s[Len(s)] <= PeriodOf[n]
    BY <2>3, <2>4, PeriodsAssumption
  <2>6. PeriodOf[n] \in Nat /\ s[Len(s)] # PeriodOf[n]
    BY <1>1, <2>1
  <2>7. QED
    BY <2>2, <2>5, <2>6
<1>4. ASSUME NEW i \in 1 .. n PROVE \E k \in 1 .. Len(t) : t[k] = PeriodOf[i]
  <2> HIDE DEF t
  <2>1. CASE i = n
    BY <1>1, <1>2, <2>1, SMTT(30)
  <2>2. CASE i # n
    <3>1. PICK k \in 1 .. Len(s) : s[k] = PeriodOf[i]
      BY <1>1, <2>2 DEF Grouped
    <3>2. QED
      BY <1>1, <1>2, <3>1
  <2>3. QED
    BY <2>1, <2>2
<1> HIDE DEF t
<1>5. ASSUME NEW k \in 1 .. Len(t) PROVE \E i \in 1 .. n : t[k] = PeriodOf[i]
  <2>1. CASE k \in 1 .. Len(s)
    <3>1. PICK i \in 1 .. n - 1 : s[k] = PeriodOf[i]
      BY <2>1 DEF Grouped
    <3>2. i \in 1 .. n /\ t[k] = PeriodOf[i]
      BY <1>1, <1>2, <2>1, <3>1, SMTT(30)
    <3>3. QED
      BY <3>2
  <2>2. CASE k = Len(s) + 1
    <3>1. t[k] = PeriodOf[n] /\ n \in 1 .. n
      BY <1>1, <1>2, <2>2
    <3>2. QED
      BY <3>1
  <2>3. k \in 1 .. Len(s) \/ k = Len(s) + 1
    BY <1>1, <1>2
  <2>4. QED
    BY <2>1, <2>2, <2>3
<1>6. ASSUME NEW k \in 1 .. Len(t), NEW l \in 1 .. Len(t), k < l PROVE t[k] < t[l]
  <2>1. k \in 1 .. Len(s) /\ t[k] = s[k]
    <3>1. Len(s) \in Nat /\ Len(t) <= Len(s) + 1 /\ k \in Nat /\ l \in Nat /\ l <= Len(t)
      BY <1>1, <1>2
    <3>2. k \in 1 .. Len(s)
      BY <1>6, <3>1
    <3>3. QED
      BY <1>2, <3>2
  <2>2. CASE l \in 1 .. Len(s)
    BY <1>1, <1>2, <1>6, <2>1, <2>2 DEF Grouped
  <2>3. CASE l = Len(s) + 1
    BY <1>2, <1>3, <2>1, <2>3
  <2>4. QED
    BY <1>1, <1>2, <2>2, <2>3
<1>7. QED
  <2>1. Grouped(t, n)
    BY <1>1, <1>2, <1>4, <1>5, <1>6 DEF Grouped
  <2>2. QED
    BY <2>1 DEF t

\* The groups of the first n sessions are their periods.
LEMMA GroupsAreGrouped == ASSUME NEW n \in 0 .. Len(PeriodOf) PROVE Grouped(Groups[n], n)
<1> DEFINE S == {m \in Nat : m <= Len(PeriodOf) /\ ~Grouped(Groups[m], m)}
<1>1. Len(PeriodOf) \in Nat
  BY PeriodsAssumption
<1>2. SUFFICES ASSUME S # {} PROVE FALSE
  BY <1>1
<1>3. PICK m \in S : \A k \in S : m <= k
  <2> S \subseteq Nat
    OBVIOUS
  <2> HIDE DEF S
  <2> QED
    BY <1>2, LeastNumber
<1>4. CASE m = 0
  <2>1. Grouped(<<>>, 0)
    BY DEF Grouped
  <2>2. QED
    BY <1>3, <1>4, <2>1, GroupsStep
<1>5. CASE m # 0
  <2>1. m \in 1 .. Len(PeriodOf) /\ m - 1 \in Nat /\ m - 1 \notin S
    BY <1>1, <1>3, <1>5
  <2>2. Grouped(Groups[m - 1], m - 1)
    BY <1>1, <2>1
  <2>3. Groups[m] = Joined(Groups[m - 1], PeriodOf[m])
    BY <2>1, GroupsStep
  <2>4. Grouped(Groups[m], m)
    BY <2>1, <2>2, <2>3, GroupedJoining, GroupedOpening DEF Joined
  <2>5. QED
    BY <1>3, <2>4
<1>6. QED
  BY <1>4, <1>5

\* A further session changes none of the groups before.
LEMMA GroupsGrow ==
    ASSUME NEW m \in 0 .. Len(PeriodOf), m + 1 \in 0 .. Len(PeriodOf)
    PROVE  \A k \in DOMAIN Groups[m] :
              k \in DOMAIN Groups[m + 1] /\ Groups[m + 1][k] = Groups[m][k]
<1>1. Len(PeriodOf) \in Nat /\ m + 1 \in 1 .. Len(PeriodOf) /\ m + 1 - 1 = m
  BY PeriodsAssumption
<1>2. /\ Groups[m] \in Seq(Nat) /\ PeriodOf[m + 1] \in Nat
      /\ Groups[m + 1] = Joined(Groups[m], PeriodOf[m + 1])
  <2>1. Groups[m + 1] = Joined(Groups[m + 1 - 1], PeriodOf[m + 1])
    BY <1>1, GroupsStep
  <2>2. Grouped(Groups[m], m)
    BY GroupsAreGrouped
  <2>3. QED
    BY <1>1, <2>1, <2>2, PeriodsAssumption DEF Grouped
<1>3. ASSUME NEW s \in Seq(Nat), NEW p \in Nat, NEW k \in DOMAIN s
      PROVE  k \in DOMAIN Joined(s, p) /\ Joined(s, p)[k] = s[k]
  BY <1>3 DEF Joined
<1>4. QED
  BY <1>2, <1>3

-----------------------------------------------------------------------------
(* Derivation *)

LEMMA EarliestIsLeast ==
    ASSUME NEW S, S \subseteq Nat, S # {}
    PROVE  Earliest(S) \in S /\ \A i \in S : Earliest(S) <= i
<1>1. \E t \in S : \A u \in S : t <= u
  BY LeastNumber
<1>2. QED
  BY <1>1 DEF Earliest

LEMMA LatestIsGreatest ==
    ASSUME NEW n \in Nat, NEW S, S \subseteq 1 .. n, S # {}
    PROVE  Latest(S) \in S /\ \A i \in S : i <= Latest(S)
<1> DEFINE T == {n - i : i \in S}
<1>1. T \subseteq Nat /\ T # {}
  <2>1. \A i \in S : n - i \in Nat
    OBVIOUS
  <2>2. QED
    BY <2>1
<1>2. PICK x \in T : \A y \in T : x <= y
  <2> HIDE DEF T
  <2> QED
    BY <1>1, LeastNumber
<1>3. PICK t \in S : x = n - t
  BY <1>2
<1>4. \A i \in S : i <= t
  <2>1. TAKE i \in S
  <2>2. n - i \in T /\ i \in Nat /\ t \in Nat
    OBVIOUS
  <2>3. n - t <= n - i
    BY <1>2, <1>3, <2>2
  <2>4. QED
    BY <2>2, <2>3
<1>5. QED
  BY <1>4 DEF Latest

\* What derivation returns when it returns: a bar for each group.
LEMMA DeriveReturns ==
    ASSUME NEW bs, NEW n, NEW c, ~Derive(bs, n, c).raised
    PROVE  /\ bs # <<>> /\ ~(Len(bs) > n) /\ ElapsedUnseen(bs, n, c) = {}
           /\ Derive(bs, n, c).bars =
                 [k \in DOMAIN Groups[Len(bs)] |-> PeriodBar(bs, Groups[Len(bs)][k], n, c)]
  BY DEF Derive

\* The sessions of a period before that of session m have come by then.
LEMMA EarlierPeriodsHaveCome ==
    ASSUME NEW n \in DOMAIN PeriodOf, NEW m \in 1 .. n, NEW p, p < PeriodOf[m], p \in Nat
    PROVE  SessionsOf(p, n) \subseteq 1 .. m
<1>1. SUFFICES ASSUME NEW i \in 1 .. n, PeriodOf[i] = p, i > m PROVE FALSE
  BY PeriodsAssumption DEF SessionsOf
<1>2. i \in DOMAIN PeriodOf /\ m \in DOMAIN PeriodOf /\ m <= i
  BY <1>1, PeriodsAssumption
<1>3. PeriodOf[m] <= p /\ PeriodOf[m] \in Nat
  BY <1>1, <1>2, PeriodsAssumption
<1>4. QED
  BY <1>3

\* The bars ps, derived from bs of sessions up to n, at c, hide no gap.
Tells(bs, n, c, ps) ==
    LET missing == {i \in 1 .. n : i \notin DOMAIN bs /\ session_close_at(i) <= c}
        last == Len(ps)
    IN  /\ \A k \in 1 .. last - 1 : Completeness(ps[k]) = "complete"
        /\ missing \subseteq ps[last].expected
        /\ missing # {} <=> Completeness(ps[last]) = "incomplete_missing_data"

\* Facts of any derivation that returns.
LEMMA DeriveTells ==
    ASSUME NEW bs, Len(bs) \in Nat, DOMAIN bs = 1 .. Len(bs), bs = <<>> <=> Len(bs) = 0,
           NEW n \in DOMAIN PeriodOf, NEW c \in Nat, ~Derive(bs, n, c).raised
    PROVE  Tells(bs, n, c, Derive(bs, n, c).bars)
<1> DEFINE N == Len(bs)
           G == Groups[N]
           ps == Derive(bs, n, c).bars
           missing == {i \in 1 .. n : i \notin DOMAIN bs /\ session_close_at(i) <= c}
           last == Len(ps)
<1>1. /\ Len(PeriodOf) \in Nat /\ n \in 1 .. Len(PeriodOf)
      /\ N \in Nat /\ N \in 1 .. n /\ N \in 0 .. Len(PeriodOf)
      /\ n \in 0 .. Len(PeriodOf)
  <2>1. Len(PeriodOf) \in Nat /\ DOMAIN PeriodOf = 1 .. Len(PeriodOf)
    BY PeriodsAssumption
  <2>2. bs # <<>> /\ ~(Len(bs) > n)
    BY DeriveReturns
  <2>3. QED
    BY <2>1, <2>2
<1>2. Grouped(G, N) /\ Grouped(Groups[n], n)
  BY <1>1, GroupsAreGrouped
<1>3. /\ G \in Seq(Nat) /\ Len(G) \in Nat /\ DOMAIN G = 1 .. Len(G)
      /\ Len(G) > 0 /\ G[Len(G)] = PeriodOf[N]
  <2> HIDE DEF G, N
  <2>1. QED
    BY <1>1, <1>2 DEF Grouped
<1>4. ps = [k \in 1 .. Len(G) |-> PeriodBar(bs, G[k], n, c)] /\ last = Len(G)
  <2>1. ps = [k \in DOMAIN G |-> PeriodBar(bs, G[k], n, c)]
    BY DeriveReturns
  <2> HIDE DEF ps, G
  <2>2. ps = [k \in 1 .. Len(G) |-> PeriodBar(bs, G[k], n, c)]
    BY <1>3, <2>1
  <2>3. Len(ps) = Len(G)
    BY <1>3, <2>2
  <2>4. QED
    BY <2>2, <2>3
<1> HIDE DEF G, N, ps, last
<1>5. \A p : /\ PeriodBar(bs, p, n, c).expected = SessionsOf(p, n)
             /\ PeriodBar(bs, p, n, c).constituents = SessionsOf(p, n) \cap (1 .. N)
             /\ SessionsOf(p, n) \cap (1 .. N) # SessionsOf(p, n) =>
                   PeriodBar(bs, p, n, c).cutoff_at = c
  BY DEF PeriodBar, N
<1>6. ASSUME NEW k \in 1 .. last - 1 PROVE Completeness(ps[k]) = "complete"
  <2>1. k \in 1 .. Len(G) /\ Len(G) \in 1 .. Len(G) /\ k < Len(G)
    BY <1>3, <1>4
  <2>2. G[k] < PeriodOf[N] /\ G[k] \in Nat
    BY <1>2, <1>3, <2>1, ElementOfSeq DEF Grouped
  <2>3. SessionsOf(G[k], n) \subseteq 1 .. N
    BY <1>1, <2>2, EarlierPeriodsHaveCome
  <2>4. ps[k] = PeriodBar(bs, G[k], n, c)
    BY <1>4, <2>1
  <2>5. ps[k].constituents = ps[k].expected
    BY <1>5, <2>3, <2>4
  <2>6. QED
    BY <2>5 DEF Completeness
<1> DEFINE p == PeriodOf[N]
           unseen == SessionsOf(p, n) \ (1 .. N)
<1>7. /\ ps[last] = PeriodBar(bs, p, n, c)
      /\ ps[last].expected = SessionsOf(p, n)
      /\ ps[last].constituents = SessionsOf(p, n) \cap (1 .. N)
      /\ unseen # {} => ps[last].cutoff_at = c
      /\ ps[last].constituents = ps[last].expected <=> unseen = {}
      /\ ps[last].expected \ ps[last].constituents = unseen
  <2>1. ps[last] = PeriodBar(bs, p, n, c)
    BY <1>3, <1>4
  <2> DEFINE b == ps[last]
  <2>2. /\ b.expected = SessionsOf(p, n)
        /\ b.constituents = SessionsOf(p, n) \cap (1 .. N)
        /\ SessionsOf(p, n) \cap (1 .. N) # SessionsOf(p, n) => b.cutoff_at = c
    BY <1>5, <2>1
  <2> HIDE DEF b, p
  <2>3. /\ unseen # {} => b.cutoff_at = c
        /\ b.constituents = b.expected <=> unseen = {}
        /\ b.expected \ b.constituents = unseen
    BY <2>2
  <2>4. QED
    BY <2>1, <2>2, <2>3 DEF b
<1>8. ASSUME NEW i \in missing PROVE i \in unseen
  <2>1. i \in 1 .. n /\ i \notin 1 .. N /\ session_close_at(i) <= c /\ i > N
    BY <1>1 DEF N
  <2>2. i \in DOMAIN PeriodOf /\ PeriodOf[i] \in Nat /\ i \in SessionsOf(PeriodOf[i], n)
    BY <1>1, <2>1, PeriodsAssumption DEF SessionsOf
  <2>3. SessionsOf(PeriodOf[i], n) \cap (1 .. N) # {}
    <3>1. SUFFICES ASSUME SessionsOf(PeriodOf[i], n) \cap DOMAIN bs = {} PROVE FALSE
      BY DEF N
    <3>2. PeriodOf[i] \in Range(Groups[n])
      <4>1. PICK k \in 1 .. Len(Groups[n]) : Groups[n][k] = PeriodOf[i]
        BY <1>2, <2>1 DEF Grouped
      <4>2. k \in DOMAIN Groups[n]
        BY <1>2 DEF Grouped
      <4>3. QED
        BY <4>1, <4>2 DEF Range
    <3>3. ~(c >= session_close_at(Earliest(SessionsOf(PeriodOf[i], n))))
      BY <3>1, <3>2, DeriveReturns DEF ElapsedUnseen
    <3>4. /\ Earliest(SessionsOf(PeriodOf[i], n)) \in Nat
          /\ Earliest(SessionsOf(PeriodOf[i], n)) <= i
      <4>1. SessionsOf(PeriodOf[i], n) \subseteq Nat
        BY <1>1 DEF SessionsOf
      <4>2. QED
        BY <2>2, <4>1, EarliestIsLeast
    <3>5. QED
      BY <2>1, <3>3, <3>4 DEF session_close_at
  <2>4. PICK j \in 1 .. N : PeriodOf[j] = PeriodOf[i]
    BY <2>3 DEF SessionsOf
  <2>5. j \in DOMAIN PeriodOf /\ N \in DOMAIN PeriodOf /\ j <= N /\ N <= i
    BY <1>1, <2>1, PeriodsAssumption
  <2>6. /\ PeriodOf[j] <= PeriodOf[N] /\ PeriodOf[N] <= PeriodOf[i]
        /\ PeriodOf[N] \in Nat
    BY <2>2, <2>5, PeriodsAssumption
  <2>7. PeriodOf[i] = p
    BY <2>2, <2>4, <2>6
  <2>8. QED
    BY <2>1, <2>2, <2>7
<1>9. unseen \subseteq Nat
  BY <1>1 DEF SessionsOf
<1>10. missing \subseteq ps[last].expected
  BY <1>7, <1>8
<1>11. ASSUME missing # {} PROVE Completeness(ps[last]) = "incomplete_missing_data"
  <2>1. PICK i \in missing : TRUE
    BY <1>11
  <2>2. i \in unseen /\ session_close_at(i) <= c /\ i \in Nat
    BY <1>8, <1>9
  <2>3. Earliest(unseen) \in Nat /\ Earliest(unseen) <= i
    BY <1>9, <2>2, EarliestIsLeast
  <2>4. ~(c < session_close_at(Earliest(unseen)))
    BY <2>2, <2>3 DEF session_close_at
  <2>5. ps[last].constituents # ps[last].expected /\ ps[last].cutoff_at = c
    BY <1>7, <2>2
  <2>6. QED
    BY <1>7, <2>4, <2>5 DEF Completeness
<1>12. ASSUME Completeness(ps[last]) = "incomplete_missing_data" PROVE missing # {}
  <2>1. ps[last].constituents # ps[last].expected
    BY <1>12 DEF Completeness
  <2>2. unseen # {} /\ ps[last].cutoff_at = c
    BY <1>7, <2>1
  <2>3. ~(c < session_close_at(Earliest(unseen)))
    BY <1>7, <1>12, <2>1, <2>2 DEF Completeness
  <2>4. Earliest(unseen) \in unseen /\ Earliest(unseen) \in Nat
    BY <1>9, <2>2, EarliestIsLeast
  <2>5. session_close_at(Earliest(unseen)) <= c
    BY <2>3, <2>4 DEF session_close_at
  <2>6. Earliest(unseen) \in 1 .. n /\ Earliest(unseen) \notin DOMAIN bs
    BY <2>4 DEF SessionsOf, N
  <2>7. QED
    BY <2>5, <2>6
<1>13. QED
  BY <1>6, <1>10, <1>11, <1>12 DEF ps, last, Tells

-----------------------------------------------------------------------------
(* The record *)

Bar == {BarOf(i, day[a], d[a]) : i \in Nat, day \in Days, a \in Asset, d \in Delays}

Typed == /\ bars \in [Asset -> Seq(Bar)]
         /\ cutoff \in Nat
         /\ scheduled \in Schedules

LEMMA TypedHolds == Spec => []Typed
<1>1. Init => Typed
  BY DEF Init, Typed, session_open_at
<1>2. Typed /\ [Next]_vars => Typed'
  <2>1. SUFFICES ASSUME Typed, [Next]_vars PROVE Typed'
    OBVIOUS
  <2>2. CASE UNCHANGED vars
    BY <2>1, <2>2 DEF vars, Typed
  <2>3. CASE Wait
    BY <2>1, <2>3 DEF Wait, Typed
  <2>4. ASSUME NEW day \in Days, NEW delays \in Delays, RecordDay(day, delays)
        PROVE  Typed'
    <3> DEFINE i == Len(bars["QQQ"]) + 1
    <3>1. i \in Nat
      BY <2>1 DEF Typed, Asset
    <3>2. \A a \in Asset : Append(bars[a], BarOf(i, day[a], delays[a])) \in Seq(Bar)
      <4>1. TAKE a \in Asset
      <4>2. BarOf(i, day[a], delays[a]) \in Bar
        BY <3>1 DEF Bar
      <4>3. bars[a] \in Seq(Bar)
        BY <2>1 DEF Typed
      <4>4. QED
        BY <4>2, <4>3
    <3>3. bars' = [a \in Asset |-> Append(bars[a], BarOf(i, day[a], delays[a]))]
      BY <2>4 DEF RecordDay
    <3> HIDE DEF i
    <3>4. bars' \in [Asset -> Seq(Bar)]
      BY <3>2, <3>3
    <3>5. QED
      BY <2>1, <2>4, <3>4 DEF RecordDay, Typed
  <2>5. QED
    BY <2>1, <2>2, <2>3, <2>4 DEF Next
<1>3. QED
  BY <1>1, <1>2, PTL DEF Spec

\* Derivation hides no gap, for any calendar, history and cutoff.
THEOREM GapsTheorem == Spec => []GapsAreTold
<1>1. Typed => GapsAreTold
  <2>1. SUFFICES ASSUME Typed, NEW a \in Asset, ~Derived(a).raised
        PROVE  Tells(bars[a], scheduled, cutoff, Derived(a).bars)
    BY DEF GapsAreTold, Tells
  <2>2. /\ Len(bars[a]) \in Nat /\ DOMAIN bars[a] = 1 .. Len(bars[a])
        /\ bars[a] = <<>> <=> Len(bars[a]) = 0
    BY <2>1 DEF Typed
  <2>3. scheduled \in DOMAIN PeriodOf /\ cutoff \in Nat
    BY <2>1, PeriodSignalsAssumption DEF Typed
  <2>4. QED
    BY <2>1, <2>2, <2>3, DeriveTells DEF Derived
<1>2. QED
  BY <1>1, TypedHolds, PTL

\* What a period bar holds depends on the bars it is made of, and on the cutoff
\* only while sessions are missing.
LEMMA CompleteBarKept ==
    ASSUME NEW bs, NEW cs, NEW p, NEW n \in Nat, NEW c, NEW d, SessionsOf(p, n) # {},
           Completeness(PeriodBar(bs, p, n, c)) = "complete",
           \A i \in DOMAIN bs : i \in DOMAIN cs /\ cs[i] = bs[i]
    PROVE  PeriodBar(cs, p, n, d) = PeriodBar(bs, p, n, c)
<1> DEFINE S == SessionsOf(p, n)
<1>1. S \cap DOMAIN bs = S
  BY DEF Completeness, PeriodBar
<1>2. S \subseteq DOMAIN bs /\ S \cap DOMAIN cs = S
  BY <1>1
<1>3. \A i \in S : cs[i] = bs[i]
  BY <1>2
<1>4. Earliest(S) \in S /\ Latest(S) \in S
  <2>1. S \subseteq 1 .. n /\ S \subseteq Nat
    BY DEF SessionsOf
  <2>2. QED
    BY <2>1, EarliestIsLeast, LatestIsGreatest
<1>5. \A x, e : S \cap DOMAIN x = S =>
         PeriodBar(x, p, n, e) =
            [period |-> p, expected |-> S, constituents |-> S,
             available_at |-> Available(x, S), cutoff_at |-> Available(x, S),
             kind |-> [open |-> x[Earliest(S)].kind.open,
                       high |-> Latest({x[i].kind.high : i \in S}),
                       low |-> Earliest({x[i].kind.low : i \in S}),
                       close |-> x[Latest(S)].kind.close,
                       volume |-> Total([i \in S |-> x[i].kind.volume])]]
  BY DEF PeriodBar
<1> HIDE DEF S
<1>6. Available(cs, S) = Available(bs, S)
  <2>1. {cs[j].available_at : j \in S} = {bs[j].available_at : j \in S}
    BY <1>3
  <2>2. QED
    BY <2>1 DEF Available
<1>7. {cs[i].kind.high : i \in S} = {bs[i].kind.high : i \in S}
  BY <1>3
<1>8. {cs[i].kind.low : i \in S} = {bs[i].kind.low : i \in S}
  BY <1>3
<1>9. [i \in S |-> cs[i].kind.volume] = [i \in S |-> bs[i].kind.volume]
  BY <1>3
<1>10. cs[Earliest(S)] = bs[Earliest(S)] /\ cs[Latest(S)] = bs[Latest(S)]
  BY <1>3, <1>4
<1> DEFINE full(x) == [period |-> p, expected |-> S, constituents |-> S,
                       available_at |-> Available(x, S), cutoff_at |-> Available(x, S),
                       kind |-> [open |-> x[Earliest(S)].kind.open,
                                 high |-> Latest({x[i].kind.high : i \in S}),
                                 low |-> Earliest({x[i].kind.low : i \in S}),
                                 close |-> x[Latest(S)].kind.close,
                                 volume |-> Total([i \in S |-> x[i].kind.volume])]]
<1>11. full(cs) = full(bs)
  BY <1>6, <1>7, <1>8, <1>9, <1>10
<1>12. PeriodBar(cs, p, n, d) = full(cs)
  BY <1>2, <1>5
<1>13. PeriodBar(bs, p, n, c) = full(bs)
  BY <1>1, <1>5
<1>14. QED
  BY <1>11, <1>12, <1>13

\* A step keeps the bars that were recorded, and adds one at most.
LEMMA HistoriesGrow ==
    ASSUME Typed, [Next]_vars, NEW a \in Asset
    PROVE  /\ Len(bars[a]) \in Nat /\ DOMAIN bars[a] = 1 .. Len(bars[a])
           /\ scheduled' = scheduled
           /\ Len(bars'[a]) \in {Len(bars[a]), Len(bars[a]) + 1}
           /\ \A i \in DOMAIN bars[a] : i \in DOMAIN bars'[a] /\ bars'[a][i] = bars[a][i]
<1>1. bars[a] \in Seq(Bar)
  BY DEF Typed
<1>2. CASE UNCHANGED <<bars, scheduled>>
  BY <1>1, <1>2
<1>3. ASSUME NEW day \in Days, NEW delays \in Delays, RecordDay(day, delays)
      PROVE  /\ scheduled' = scheduled
             /\ \E b : bars'[a] = Append(bars[a], b)
  BY <1>3 DEF RecordDay
<1>4. ASSUME NEW s \in Seq(Bar), NEW b
      PROVE  /\ Len(Append(s, b)) = Len(s) + 1
             /\ \A i \in DOMAIN s : i \in DOMAIN Append(s, b) /\ Append(s, b)[i] = s[i]
  OBVIOUS
<1>5. CASE \E day \in Days, delays \in Delays : RecordDay(day, delays)
  BY <1>1, <1>3, <1>4, <1>5
<1>6. QED
  BY <1>2, <1>5 DEF Next, Wait, vars

\* A complete period bar is the same in every later derivation, for any
\* calendar, histories and cutoffs.
THEOREM FinalTheorem == Spec => CompleteIsFinal
<1>1. ASSUME Typed, [Next]_vars, NEW a \in Asset PROVE KeepsComplete(a)
  <2> DEFINE n == scheduled
             m == Len(bars[a])
             l == Len(bars'[a])
             before == Derive(bars[a], n, cutoff)
             after == Derive(bars'[a], n, cutoff')
  <2>1. SUFFICES ASSUME ~after.raised, NEW k \in DOMAIN before.bars,
                        Completeness(before.bars[k]) = "complete"
                 PROVE  k \in DOMAIN after.bars /\ after.bars[k] = before.bars[k]
    <3>1. Derived(a) = before /\ Derived(a)' = after
      BY <1>1, HistoriesGrow DEF Derived
    <3>2. QED
      BY <3>1 DEF KeepsComplete
  <2>2. ~before.raised
    BY <2>1 DEF Derive
  <2>3. /\ n \in 1 .. Len(PeriodOf) /\ Len(PeriodOf) \in Nat
        /\ m \in Nat /\ m <= n /\ l <= n /\ l \in {m, m + 1}
        /\ m \in 0 .. Len(PeriodOf) /\ l \in 0 .. Len(PeriodOf)
    <3>1. n \in DOMAIN PeriodOf /\ Len(PeriodOf) \in Nat /\ DOMAIN PeriodOf = 1 .. Len(PeriodOf)
      BY <1>1, PeriodsAssumption, PeriodSignalsAssumption DEF Typed
    <3>2. m \in Nat /\ l \in {m, m + 1}
      BY <1>1, HistoriesGrow
    <3>3. ~(m > n) /\ ~(l > n)
      BY <2>1, <2>2, DeriveReturns
    <3> HIDE DEF l, m, n
    <3>4. QED
      BY <3>1, <3>2, <3>3
  <2>4. /\ before.bars = [j \in DOMAIN Groups[m] |-> PeriodBar(bars[a], Groups[m][j], n, cutoff)]
        /\ after.bars = [j \in DOMAIN Groups[l] |-> PeriodBar(bars'[a], Groups[l][j], n, cutoff')]
    BY <2>1, <2>2, DeriveReturns
  <2> HIDE DEF before, after, l, m, n
  <2>5. k \in DOMAIN Groups[m] /\ k \in DOMAIN Groups[l] /\ Groups[l][k] = Groups[m][k]
    BY <2>1, <2>3, <2>4, GroupsGrow
  <2>6. SessionsOf(Groups[m][k], n) # {}
    <3>1. Grouped(Groups[m], m)
      BY <2>3, GroupsAreGrouped
    <3>2. PICK i \in 1 .. m : Groups[m][k] = PeriodOf[i]
      <4>1. k \in 1 .. Len(Groups[m])
        BY <2>5, <3>1 DEF Grouped
      <4>2. QED
        BY <3>1, <4>1 DEF Grouped
    <3>3. i \in SessionsOf(Groups[m][k], n)
      BY <2>3, <3>2 DEF SessionsOf
    <3>4. QED
      BY <3>3
  <2>7. PeriodBar(bars'[a], Groups[m][k], n, cutoff') = PeriodBar(bars[a], Groups[m][k], n, cutoff)
    <3>1. \A i \in DOMAIN bars[a] : i \in DOMAIN bars'[a] /\ bars'[a][i] = bars[a][i]
      BY <1>1, HistoriesGrow
    <3>2. Completeness(PeriodBar(bars[a], Groups[m][k], n, cutoff)) = "complete"
      BY <2>1, <2>4, <2>5
    <3> DEFINE bs == bars[a]
               cs == bars'[a]
               p == Groups[m][k]
    <3>3. /\ n \in Nat /\ SessionsOf(p, n) # {}
          /\ Completeness(PeriodBar(bs, p, n, cutoff)) = "complete"
          /\ \A i \in DOMAIN bs : i \in DOMAIN cs /\ cs[i] = bs[i]
      BY <2>3, <2>6, <3>1, <3>2
    <3> HIDE DEF bs, cs, p
    <3>4. PeriodBar(cs, p, n, cutoff') = PeriodBar(bs, p, n, cutoff)
      BY <3>3, CompleteBarKept
    <3>5. QED
      BY <3>4 DEF bs, cs, p
  <2>8. QED
    BY <2>4, <2>5, <2>7
<1>2. Typed /\ [Next]_vars => [\A a \in Asset : KeepsComplete(a)]_vars
  BY <1>1
<1>3. QED
  BY <1>2, TypedHolds, PTL DEF Spec, CompleteIsFinal

-----------------------------------------------------------------------------
(* The validators *)

\* Some element of a finite set of numbers has the greatest value.
LEMMA SomeGreatest ==
    ASSUME NEW n \in Nat, NEW S, S \subseteq 1 .. n, S # {}, NEW f, \A i \in S : f[i] \in Nat
    PROVE  \E t \in S : \A u \in S : f[u] <= f[t]
<1> DEFINE Has(m) == \A R \in SUBSET (1 .. m) : R # {} /\ R \subseteq S =>
                        \E t \in R : \A u \in R : f[u] <= f[t]
           B == {m \in Nat : ~Has(m)}
<1>1. SUFFICES ASSUME B # {} PROVE FALSE
  OBVIOUS
<1>2. PICK m \in B : \A k \in B : m <= k
  <2> B \subseteq Nat
    OBVIOUS
  <2> HIDE DEF B
  <2> QED
    BY <1>1, LeastNumber
<1>3. PICK R \in SUBSET (1 .. m) : R # {} /\ R \subseteq S /\ ~\E t \in R : \A u \in R : f[u] <= f[t]
  BY <1>2
<1>4. m \in Nat /\ m # 0
  <2>1. m \in Nat
    BY <1>2
  <2>2. 1 .. 0 = {}
    OBVIOUS
  <2>3. QED
    BY <1>3, <2>1, <2>2
<1>5. Has(m - 1)
  <2>1. m - 1 \in Nat /\ m - 1 \notin B
    <3> HIDE DEF B
    <3> QED
      BY <1>2, <1>4
  <2> HIDE DEF Has
  <2>2. QED
    BY <2>1
<1>6. R \ {m} \in SUBSET (1 .. m - 1)
  BY <1>2
<1>7. CASE R \ {m} = {}
  <2>1. \A u \in R : u = m
    BY <1>7
  <2>2. PICK t \in R : TRUE
    BY <1>3
  <2>3. \A u \in R : f[u] <= f[t]
    BY <1>3, <2>1
  <2>4. QED
    BY <1>3, <2>3
<1>8. CASE R \ {m} # {}
  <2>1. PICK t \in R \ {m} : \A u \in R \ {m} : f[u] <= f[t]
    BY <1>3, <1>5, <1>6, <1>8
  <2>2. CASE m \in R /\ f[t] < f[m]
    <3>1. ASSUME NEW u \in R PROVE f[u] <= f[m]
      <4>1. f[u] \in Nat /\ f[m] \in Nat /\ f[t] \in Nat
        BY <1>3, <2>2
      <4>2. u = m \/ f[u] <= f[t]
        BY <2>1
      <4>3. QED
        BY <2>2, <4>1, <4>2
    <3>2. QED
      BY <1>3, <2>2, <3>1
  <2>3. CASE ~(m \in R /\ f[t] < f[m])
    <3>1. \A u \in R : f[u] <= f[t]
      BY <1>3, <2>1, <2>3
    <3>2. QED
      BY <1>3, <3>1
  <2>4. QED
    BY <2>2, <2>3
<1>9. QED
  BY <1>7, <1>8

\* The greatest and the least of values, and the last of the bars.
LEMMA LatestOf ==
    ASSUME NEW n \in Nat, NEW S, S \subseteq 1 .. n, S # {}, NEW f, \A i \in S : f[i] \in Nat
    PROVE  /\ Latest({f[i] : i \in S}) \in {f[i] : i \in S}
           /\ \A u \in S : f[u] <= Latest({f[i] : i \in S})
<1> DEFINE A == {f[i] : i \in S}
<1>1. PICK t \in S : \A u \in S : f[u] <= f[t]
  BY SomeGreatest
<1>2. f[t] \in A /\ \A u \in A : u <= f[t]
  BY <1>1
<1> HIDE DEF A
<1>3. Latest(A) \in A /\ \A u \in A : u <= Latest(A)
  BY <1>2 DEF Latest
<1>4. QED
  BY <1>3 DEF A

LEMMA EarliestOf ==
    ASSUME NEW S, S # {}, NEW f, \A i \in S : f[i] \in Nat
    PROVE  \A u \in S : Earliest({f[i] : i \in S}) <= f[u]
<1> DEFINE A == {f[i] : i \in S}
<1>1. A \subseteq Nat /\ A # {}
  OBVIOUS
<1>2. \A u \in A : Earliest(A) <= u
  <2> HIDE DEF A
  <2> QED
    BY <1>1, EarliestIsLeast
<1>3. QED
  BY <1>2

LEMMA AvailableOf ==
    ASSUME NEW n \in Nat, NEW S, S \subseteq 1 .. n, S # {}, NEW bs,
           \A i \in S : bs[i].available_at \in Nat
    PROVE  /\ Available(bs, S) \in Nat
           /\ \E i \in S : Available(bs, S) = bs[i].available_at
<1> DEFINE f == [i \in S |-> bs[i].available_at]
<1>1. \A i \in S : f[i] \in Nat
  OBVIOUS
<1>2. {f[i] : i \in S} = {bs[i].available_at : i \in S}
  OBVIOUS
<1> HIDE DEF f
<1>3. Latest({f[i] : i \in S}) \in {f[i] : i \in S}
  BY <1>1, LatestOf
<1>4. Available(bs, S) \in {bs[i].available_at : i \in S}
  BY <1>2, <1>3 DEF Available
<1>5. QED
  BY <1>4

\* What a bar holds is in order.
InOrder(k) == /\ k.low <= k.open /\ k.open <= k.high
              /\ k.low <= k.close /\ k.close <= k.high
Numbers(k) == k.open \in Nat /\ k.high \in Nat /\ k.low \in Nat /\ k.close \in Nat
WellFormed(b) == Numbers(b.kind) /\ InOrder(b.kind) /\ b.available_at \in Nat

\* A derived bar passes the validator of DerivedPeriodBar.
Valid(b) == InOrder(b.kind) /\ b.available_at \in Nat /\ b.available_at <= b.cutoff_at

LEMMA PeriodBarValid ==
    ASSUME NEW n \in Nat, NEW bs, NEW p, NEW c \in Nat,
           \A i \in DOMAIN bs : WellFormed(bs[i]) /\ bs[i].available_at <= c,
           SessionsOf(p, n) \cap DOMAIN bs # {}
    PROVE  Valid(PeriodBar(bs, p, n, c)) /\ Latest(PeriodBar(bs, p, n, c).expected) \in Nat
<1> DEFINE S == SessionsOf(p, n) \cap DOMAIN bs
           b == PeriodBar(bs, p, n, c)
           first == Earliest(S)
           final == Latest(S)
           highs == [i \in S |-> bs[i].kind.high]
           lows == [i \in S |-> bs[i].kind.low]
<1>1. /\ S \subseteq 1 .. n /\ S # {} /\ S \subseteq Nat
      /\ SessionsOf(p, n) \subseteq 1 .. n /\ SessionsOf(p, n) # {}
  BY DEF SessionsOf
<1>2. \A i \in S : WellFormed(bs[i]) /\ bs[i].available_at <= c
  OBVIOUS
<1>3. /\ b.kind.open = bs[first].kind.open /\ b.kind.close = bs[final].kind.close
      /\ b.kind.high = Latest({bs[i].kind["high"] : i \in S})
      /\ b.kind.low = Earliest({bs[i].kind["low"] : i \in S})
      /\ b.expected = SessionsOf(p, n) /\ b.available_at = Available(bs, S)
      /\ b.cutoff_at \in {Available(bs, S), c}
  BY DEF PeriodBar
<1> HIDE DEF S, b
<1>4. first \in S /\ final \in S
  BY <1>1, EarliestIsLeast, LatestIsGreatest
<1>5. /\ Available(bs, S) \in Nat /\ Available(bs, S) <= c
  <2>1. \A i \in S : bs[i].available_at \in Nat
    BY <1>2 DEF WellFormed
  <2>2. PICK i \in S : Available(bs, S) = bs[i].available_at
    BY <1>1, <2>1, AvailableOf
  <2>3. QED
    BY <1>2, <2>1, <2>2
<1>6. b.kind.high \in Nat /\ \A i \in S : bs[i].kind.high <= b.kind.high
  <2>1. \A i \in S : highs[i] \in Nat
    BY <1>2 DEF WellFormed, Numbers
  <2>2. {highs[i] : i \in S} = {bs[i].kind["high"] : i \in S}
    OBVIOUS
  <2>3. \A i \in S : highs[i] = bs[i].kind.high
    OBVIOUS
  <2> HIDE DEF highs
  <2>4. /\ Latest({highs[i] : i \in S}) \in {highs[i] : i \in S}
        /\ \A u \in S : highs[u] <= Latest({highs[i] : i \in S})
    BY <1>1, <2>1, LatestOf
  <2>5. QED
    BY <1>3, <2>1, <2>2, <2>3, <2>4
<1>7. b.kind.low \in Nat /\ \A i \in S : b.kind.low <= bs[i].kind.low
  <2>1. \A i \in S : lows[i] \in Nat
    BY <1>2 DEF WellFormed, Numbers
  <2>2. {lows[i] : i \in S} = {bs[i].kind["low"] : i \in S}
    OBVIOUS
  <2>3. \A i \in S : lows[i] = bs[i].kind.low
    OBVIOUS
  <2> HIDE DEF lows
  <2>4. \A u \in S : Earliest({lows[i] : i \in S}) <= lows[u]
    BY <1>1, <2>1, EarliestOf
  <2>5. {lows[i] : i \in S} \subseteq Nat /\ {lows[i] : i \in S} # {}
    BY <1>1, <2>1
  <2>6. Earliest({lows[i] : i \in S}) \in Nat
    BY <2>5, EarliestIsLeast
  <2>7. QED
    BY <1>3, <2>2, <2>3, <2>4, <2>6
<1>8. InOrder(b.kind)
  <2>1. ASSUME NEW i \in S
        PROVE  /\ b.kind.low <= bs[i].kind.open /\ bs[i].kind.open <= b.kind.high
               /\ b.kind.low <= bs[i].kind.close /\ bs[i].kind.close <= b.kind.high
    <3>1. Numbers(bs[i].kind) /\ InOrder(bs[i].kind)
      BY <1>2 DEF WellFormed
    <3>2. bs[i].kind.high <= b.kind.high /\ b.kind.low <= bs[i].kind.low
      BY <1>6, <1>7
    <3>3. QED
      BY <1>6, <1>7, <3>1, <3>2 DEF Numbers, InOrder
  <2>2. QED
    BY <1>3, <1>4, <2>1 DEF InOrder
<1>9. b.available_at \in Nat /\ b.available_at <= b.cutoff_at
  BY <1>3, <1>5
<1>10. Latest(b.expected) \in Nat
  BY <1>1, <1>3, LatestIsGreatest
<1>11. QED
  BY <1>8, <1>9, <1>10 DEF b, Valid

\* So do all bars that are derived.
LEMMA DeriveValid ==
    ASSUME NEW bs, Len(bs) \in Nat, DOMAIN bs = 1 .. Len(bs), bs = <<>> <=> Len(bs) = 0,
           \A i \in DOMAIN bs : WellFormed(bs[i]),
           NEW n \in DOMAIN PeriodOf, NEW c \in Nat
    PROVE  /\ Derive(bs, n, c).bars \in Seq(Range(Derive(bs, n, c).bars))
           /\ \A k \in DOMAIN Derive(bs, n, c).bars :
                 /\ Valid(Derive(bs, n, c).bars[k])
                 /\ Latest(Derive(bs, n, c).bars[k].expected) \in Nat
<1> DEFINE ds == Derive(bs, n, c).bars
           G == Groups[Len(bs)]
<1>1. CASE Derive(bs, n, c).raised
  <2>1. ds = <<>>
    BY <1>1 DEF Derive
  <2>2. DOMAIN ds = {} /\ ds \in Seq(Range(ds))
    BY <2>1
  <2>3. QED
    BY <2>2
<1>2. CASE ~Derive(bs, n, c).raised
  <2>1. /\ Len(bs) \in 1 .. n /\ Len(bs) \in 0 .. Len(PeriodOf) /\ n \in Nat
        /\ Len(PeriodOf) \in Nat
    <3>1. bs # <<>> /\ ~(Len(bs) > n)
      BY <1>2, DeriveReturns
    <3>2. n \in 1 .. Len(PeriodOf) /\ Len(PeriodOf) \in Nat
      BY PeriodsAssumption
    <3>3. QED
      BY <3>1, <3>2
  <2>2. \A i \in DOMAIN bs : WellFormed(bs[i]) /\ bs[i].available_at <= c
    BY <1>2 DEF Derive, WellFormed
  <2>3. Grouped(G, Len(bs))
    BY <2>1, GroupsAreGrouped
  <2>4. ds = [k \in DOMAIN G |-> PeriodBar(bs, G[k], n, c)]
    BY <1>2, DeriveReturns
  <2> HIDE DEF ds, G
  <2>5. Len(G) \in Nat /\ DOMAIN G = 1 .. Len(G)
    BY <2>3 DEF Grouped
  <2>6. ASSUME NEW k \in DOMAIN G
        PROVE  Valid(PeriodBar(bs, G[k], n, c)) /\ Latest(PeriodBar(bs, G[k], n, c).expected) \in Nat
    <3>1. PICK i \in 1 .. Len(bs) : G[k] = PeriodOf[i]
      BY <2>3, <2>5 DEF Grouped
    <3>2. i \in SessionsOf(G[k], n) \cap DOMAIN bs
      BY <2>1, <3>1 DEF SessionsOf
    <3>3. SessionsOf(G[k], n) \cap DOMAIN bs # {}
      BY <3>2
    <3>4. QED
      BY <2>1, <2>2, <3>3, PeriodBarValid
  <2>7. DOMAIN ds = 1 .. Len(G) /\ ds \in Seq(Range(ds))
    <3>1. DOMAIN ds = 1 .. Len(G)
      BY <2>4, <2>5
    <3>2. ds = [k \in 1 .. Len(G) |-> ds[k]]
      BY <2>4, <2>5
    <3>3. \A k \in 1 .. Len(G) : ds[k] \in Range(ds)
      BY <3>1 DEF Range
    <3>4. ds \in [1 .. Len(G) -> Range(ds)]
      BY <3>2, <3>3
    <3>5. QED
      BY <2>5, <3>1, <3>4
  <2>8. QED
    BY <2>4, <2>5, <2>6, <2>7 DEF ds
<1>3. Derive(bs, n, c).raised \in BOOLEAN
  BY DEF Derive
<1>4. QED
  BY <1>1, <1>2, <1>3

-----------------------------------------------------------------------------
(* S3 and S4 *)

\* f is what PeriodTargets has returned up to bar n.
PeriodStep(before, ps, k, eligible, window, long) ==
    IF ExecutionSession(ps[k]) > eligible THEN Raised
    ELSE Emit(before, Available(ps, k - window + 1 .. k),
              session_open_at(ExecutionSession(ps[k])), k \in long)
Periods(ps, eligible, start, window, long, n, f) ==
    f = [i \in start .. n |-> IF i = start THEN Returned(<<>>)
                              ELSE PeriodStep(f[i - 1], ps, i, eligible, window, long)]

\* There is such a function for every n.
LEMMA PeriodsExist ==
    ASSUME NEW ps, NEW eligible, NEW start, NEW window, NEW long, NEW n \in Nat, start \in Nat, start <= n
    PROVE  \E f : Periods(ps, eligible, start, window, long, n, f)
<1> DEFINE S == {m \in Nat : start <= m /\ ~ \E f : Periods(ps, eligible, start, window, long, m, f)}
<1>1. SUFFICES ASSUME S # {} PROVE FALSE
  OBVIOUS
<1>2. PICK m \in S : \A k \in S : m <= k
  <2> S \subseteq Nat
    OBVIOUS
  <2> HIDE DEF S
  <2> QED
    BY <1>1, LeastNumber
<1>3. CASE m = start
  <2> DEFINE f == [i \in start .. m |-> Returned(<<>>)]
  <2>1. Periods(ps, eligible, start, window, long, m, f)
    BY <1>3 DEF Periods
  <2>2. QED
    BY <1>2, <1>3, <2>1
<1>4. CASE m # start
  <2>1. m - 1 \in Nat /\ start <= m - 1 /\ m - 1 \notin S
    BY <1>2, <1>4
  <2>2. PICK f : Periods(ps, eligible, start, window, long, m - 1, f)
    BY <2>1
  <2> DEFINE step(g, i) == PeriodStep(g[i - 1], ps, i, eligible, window, long)
             h == [i \in start .. m |-> IF i = start THEN Returned(<<>>) ELSE step(f, i)]
  <2>3. ASSUME NEW i \in start .. m, i # start PROVE step(h, i) = step(f, i)
    <3>1. i - 1 \in start .. m - 1 /\ i - 1 \in start .. m /\ i \in Int /\ m \in Nat
      BY <2>1, <2>3
    <3>2. f[i - 1] = IF i - 1 = start THEN Returned(<<>>) ELSE step(f, i - 1)
      <4> HIDE DEF step
      <4>1. f = [j \in start .. m - 1 |-> IF j = start THEN Returned(<<>>) ELSE step(f, j)]
        BY <2>2 DEF Periods, step
      <4>2. QED
        BY <3>1, <4>1
    <3>3. h[i - 1] = f[i - 1]
      <4> HIDE DEF step
      <4>1. QED
        BY <3>1, <3>2
    <3> HIDE DEF h
    <3>4. QED
      BY <3>3
  <2>4. h = [i \in start .. m |-> IF i = start THEN Returned(<<>>) ELSE step(h, i)]
    <3> HIDE DEF step
    <3> DEFINE g == [i \in start .. m |-> IF i = start THEN Returned(<<>>) ELSE step(h, i)]
    <3>1. ASSUME NEW i \in start .. m PROVE h[i] = g[i]
      <4>1. CASE i = start
        BY <4>1
      <4>2. CASE i # start
        <5>1. h[i] = step(f, i)
          BY <4>2
        <5>2. g[i] = step(h, i)
          <6> HIDE DEF h
          <6> QED
            BY <4>2
        <5>3. QED
          BY <2>3, <4>2, <5>1, <5>2
      <4>3. QED
        BY <4>1, <4>2
    <3>2. h = g
      BY <3>1
    <3> HIDE DEF h
    <3>3. QED
      BY <3>2
  <2> HIDE DEF h
  <2>5. Periods(ps, eligible, start, window, long, m, h)
    BY <2>4 DEF Periods
  <2>6. QED
    BY <1>2, <2>5
<1>5. QED
  BY <1>3, <1>4

\* Targets that were decided before they take effect.
InTime == {TargetPosition(d, e, l) : d \in Nat, e \in Nat, l \in BOOLEAN}
             \cap [decision_at : Nat, effective_at : Nat, weight : {0, 1}]
Prompt == {t \in InTime : t.decision_at < t.effective_at}

LEMMA EmitPrompt ==
    ASSUME NEW r, r.targets \in Seq(Prompt), NEW d \in Nat, NEW e \in Nat, NEW l \in BOOLEAN
    PROVE  Emit(r, d, e, l).targets \in Seq(Prompt)
<1>1. CASE r.raised \/ d >= e
  BY <1>1 DEF Emit, Raised
<1>2. CASE ~(r.raised \/ d >= e)
  <2>1. TargetPosition(d, e, l) \in Prompt
    <3>1. TargetPosition(d, e, l) \in InTime
      BY DEF InTime, TargetPosition
    <3>2. TargetPosition(d, e, l).decision_at < TargetPosition(d, e, l).effective_at
      BY <1>2 DEF TargetPosition
    <3>3. QED
      BY <3>1, <3>2 DEF Prompt
  <2>2. Emit(r, d, e, l).targets = Append(r.targets, TargetPosition(d, e, l))
    BY <1>2 DEF Emit, Returned
  <2>3. QED
    BY <2>1, <2>2, AppendProperties
<1>3. QED
  BY <1>1, <1>2

LEMMA PeriodTargetsPrompt ==
    ASSUME NEW ps, Len(ps) \in Nat,
           \A k \in 1 .. Len(ps) : Valid(ps[k]) /\ Latest(ps[k].expected) \in Nat,
           NEW eligible, NEW window \in Nat \ {0}, NEW long
    PROVE  PeriodTargets(ps, eligible, window, long).targets \in Seq(Prompt)
<1> DEFINE start == window - 1
           N == Len(ps)
           f == CHOOSE f : Periods(ps, eligible, start, window, long, N, f)
<1>1. start \in Nat /\ N \in Nat /\ start + 1 = window
  OBVIOUS
<1>2. CASE ~(AllComplete(ps) /\ Consecutive(ps) /\ MatchesSchedule(ps, eligible))
  BY <1>2 DEF PeriodTargets, Raised
<1>3. CASE AllComplete(ps) /\ Consecutive(ps) /\ MatchesSchedule(ps, eligible) /\ Len(ps) < window
  BY <1>3 DEF PeriodTargets, Returned
<1>4. CASE AllComplete(ps) /\ Consecutive(ps) /\ MatchesSchedule(ps, eligible) /\ ~(Len(ps) < window)
  <2>1. PeriodTargets(ps, eligible, window, long) = f[N]
    BY <1>4 DEF PeriodTargets, Periods, PeriodStep
  <2> HIDE DEF start, N
  <2>2. start <= N
    BY <1>1, <1>4 DEF N
  <2>3. Periods(ps, eligible, start, window, long, N, f)
    BY <1>1, <2>2, PeriodsExist
  <2> HIDE DEF f
  <2> DEFINE S == {k \in Nat : start <= k /\ k <= N /\ f[k].targets \notin Seq(Prompt)}
  <2>4. SUFFICES ASSUME S # {} PROVE FALSE
    BY <1>1, <2>1, <2>2
  <2>5. PICK k \in S : \A j \in S : k <= j
    <3> S \subseteq Nat
      OBVIOUS
    <3> HIDE DEF S
    <3> QED
      BY <2>4, LeastNumber
  <2>6. CASE k = start
    <3>1. f[k] = Returned(<<>>)
      BY <1>1, <2>2, <2>3, <2>6 DEF Periods
    <3>2. f[k].targets \in Seq(Prompt)
      BY <3>1 DEF Returned
    <3>3. QED
      BY <2>5, <3>2
  <2>7. CASE k # start
    <3>1. k - 1 \in Nat /\ start <= k - 1 /\ k - 1 <= N /\ k - 1 \notin S /\ k \in start .. N
          /\ k \in 1 .. N /\ k >= window
      BY <1>1, <2>5, <2>7
    <3>2. f[k - 1].targets \in Seq(Prompt)
      BY <2>5, <3>1
    <3>3. f[k] = PeriodStep(f[k - 1], ps, k, eligible, window, long)
      BY <2>3, <2>7, <3>1 DEF Periods
    <3>4. Available(ps, k - window + 1 .. k) \in Nat
      <4>1. k - window + 1 .. k \subseteq 1 .. N /\ k \in k - window + 1 .. k
        BY <1>1, <3>1
      <4>2. \A i \in k - window + 1 .. k : ps[i].available_at \in Nat
        BY <4>1 DEF N, Valid
      <4>3. QED
        BY <1>1, <4>1, <4>2, AvailableOf
    <3>5. session_open_at(ExecutionSession(ps[k])) \in Nat
      BY <3>1 DEF session_open_at, ExecutionSession, N
    <3>6. f[k].targets \in Seq(Prompt)
      <4>1. CASE ExecutionSession(ps[k]) > eligible
        BY <3>3, <4>1 DEF PeriodStep, Raised
      <4>2. CASE ~(ExecutionSession(ps[k]) > eligible)
        <5>1. f[k] = Emit(f[k - 1], Available(ps, k - window + 1 .. k),
                          session_open_at(ExecutionSession(ps[k])), k \in long)
          BY <3>3, <4>2 DEF PeriodStep
        <5>2. (k \in long) \in BOOLEAN
          OBVIOUS
        <5>3. QED
          BY <3>2, <3>4, <3>5, <5>1, <5>2, EmitPrompt
      <4>3. QED
        BY <4>1, <4>2
    <3>7. QED
      BY <2>5, <3>6
  <2>8. QED
    BY <2>6, <2>7
<1>5. QED
  BY <1>2, <1>3, <1>4

\* What is offered consists of bars that were derived.
LEMMA OffersDerived ==
    ASSUME NEW a, NEW V, Derived(a).bars \in Seq(V), NEW ps \in Offers(a)
    PROVE  ps \in Seq(V)
<1> DEFINE ds == Derived(a).bars
<1>1. Len(ds) \in Nat /\ DOMAIN ds = 1 .. Len(ds)
  OBVIOUS
<1>2. ASSUME NEW m \in DOMAIN ds, NEW n \in DOMAIN ds PROVE SubSeq(ds, m, n) \in Seq(V)
  <2> HIDE DEF ds
  <2>1. m \in 1 .. Len(ds) /\ n \in 1 .. Len(ds) /\ ds \in Seq(V)
    BY <1>1, <1>2 DEF ds
  <2>2. CASE n < m
    <3>1. SubSeq(ds, m, n) = <<>>
      BY <2>1, <2>2, SubSeqEmpty
    <3>2. QED
      BY <3>1
  <2>3. CASE ~(n < m)
    <3>1. m \in 1 .. Len(ds) + 1 /\ n \in m - 1 .. Len(ds)
      BY <1>1, <2>1, <2>3
    <3>2. QED
      BY <2>1, <3>1, SubSeqProperties
  <2>4. QED
    BY <2>2, <2>3
<1>3. ASSUME NEW k \in DOMAIN ds PROVE RemoveAt(ds, k) \in Seq(V)
  <2> HIDE DEF ds
  <2>1. ds \in Seq(V) /\ k \in 1 .. Len(ds)
    BY <1>1, <1>3 DEF ds
  <2>2. SubSeq(ds, 1, k - 1) \in Seq(V)
    <3>1. 1 \in 1 .. Len(ds) + 1 /\ k - 1 \in 1 - 1 .. Len(ds)
      BY <1>1, <2>1
    <3>2. QED
      BY <2>1, <3>1, SubSeqProperties
  <2>3. SubSeq(ds, k + 1, Len(ds)) \in Seq(V)
    <3>1. k + 1 \in 1 .. Len(ds) + 1 /\ Len(ds) \in k + 1 - 1 .. Len(ds)
      BY <1>1, <2>1
    <3>2. QED
      BY <2>1, <3>1, SubSeqProperties
  <2>4. QED
    BY <2>2, <2>3, ConcatProperties DEF RemoveAt
<1>4. CASE \E m, n \in DOMAIN ds : ps = SubSeq(ds, m, n)
  BY <1>2, <1>4
<1>5. CASE \E k \in DOMAIN ds : ps = RemoveAt(ds, k)
  BY <1>3, <1>5
<1>6. \/ \E m, n \in DOMAIN ds : ps = SubSeq(ds, m, n)
      \/ \E k \in DOMAIN ds : ps = RemoveAt(ds, k)
  BY DEF Offers
<1>7. QED
  BY <1>4, <1>5, <1>6

\* Both assets have a bar for each session so far.
Recorded ==
    /\ Len(bars["QQQ"]) = Len(bars["DIA"])
    /\ \A a \in Asset : \A i \in DOMAIN bars[a] :
          \E day \in Days, d \in Delays : bars[a][i] = BarOf(i, day[a], d[a])

LEMMA RecordedHolds == Spec => [](Typed /\ Recorded)
<1>1. Init => Recorded
  BY DEF Init, Recorded, Asset
<1>2. Typed /\ Recorded /\ [Next]_vars => Recorded'
  <2> SUFFICES ASSUME Typed, Recorded, [Next]_vars PROVE Recorded'
    OBVIOUS
  <2>1. CASE UNCHANGED bars
    BY <2>1 DEF Recorded
  <2>2. ASSUME NEW day \in Days, NEW delays \in Delays, RecordDay(day, delays)
        PROVE  Recorded'
    <3> DEFINE i == Len(bars["QQQ"]) + 1
    <3>1. \A a \in Asset : /\ bars[a] \in Seq(Bar) /\ Len(bars[a]) \in Nat
                           /\ DOMAIN bars[a] = 1 .. Len(bars[a])
                           /\ Len(bars[a]) + 1 = i
      BY DEF Typed, Recorded, Asset
    <3>2. \A a \in Asset : BarOf(i, day[a], delays[a]) \in Bar
      <4>1. i \in Nat
        BY <3>1 DEF Asset
      <4>2. QED
        BY <4>1 DEF Bar
    <3>3. \A a \in Asset : bars'[a] = Append(bars[a], BarOf(i, day[a], delays[a]))
      BY <2>2 DEF RecordDay
    <3> HIDE DEF i
    <3>4. ASSUME NEW a \in Asset
          PROVE  /\ Len(bars'[a]) = i /\ DOMAIN bars'[a] = 1 .. i
                 /\ \A j \in 1 .. Len(bars[a]) : bars'[a][j] = bars[a][j]
                 /\ bars'[a][i] = BarOf(i, day[a], delays[a])
      BY <3>1, <3>2, <3>3, AppendProperties
    <3>5. ASSUME NEW a \in Asset, NEW j \in DOMAIN bars'[a]
          PROVE  \E w \in Days, d \in Delays : bars'[a][j] = BarOf(j, w[a], d[a])
      <4>1. CASE j = i
        BY <3>4, <4>1
      <4>2. CASE j # i
        <5>1. j \in 1 .. Len(bars[a])
          BY <3>1, <3>4, <3>5, <4>2
        <5>2. QED
          BY <3>1, <3>4, <5>1 DEF Recorded
      <4>3. QED
        BY <4>1, <4>2
    <3>6. QED
      BY <3>4, <3>5 DEF Recorded, Asset
  <2>3. QED
    BY <2>1, <2>2 DEF Next, Wait, vars
<1>3. QED
  BY <1>1, <1>2, TypedHolds, PTL DEF Spec

\* Derived bars and the targets of S3 and S4 pass their validators.
LEMMA ValidatorsPass == Spec => []PeriodsOK
<1>1. Typed /\ Recorded => PeriodsOK
  <2> SUFFICES ASSUME Typed, Recorded PROVE PeriodsOK
    OBVIOUS
  <2>1. ASSUME NEW a \in Asset
        PROVE  /\ Derived(a).bars \in Seq(Range(Derived(a).bars))
               /\ \A k \in DOMAIN Derived(a).bars :
                     /\ Valid(Derived(a).bars[k])
                     /\ Latest(Derived(a).bars[k].expected) \in Nat
    <3>1. /\ bars[a] \in Seq(Bar) /\ Len(bars[a]) \in Nat
          /\ DOMAIN bars[a] = 1 .. Len(bars[a])
          /\ bars[a] = <<>> <=> Len(bars[a]) = 0
      BY DEF Typed
    <3>2. \A i \in DOMAIN bars[a] : WellFormed(bars[a][i])
      <4>1. TAKE i \in DOMAIN bars[a]
      <4>2. PICK day \in Days, d \in Delays : bars[a][i] = BarOf(i, day[a], d[a])
        BY DEF Recorded
      <4>3. bars[a][i].kind = day[a] /\ bars[a][i].available_at = 4 * i + 2 + d[a]
        BY <4>2 DEF BarOf, session_close_at
      <4>4. i \in Nat /\ d[a] \in Nat
        BY <3>1, PeriodSignalsAssumption
      <4>5. Numbers(day[a]) /\ InOrder(day[a])
        BY PeriodSignalsAssumption DEF Numbers, InOrder
      <4>6. QED
        BY <4>3, <4>4, <4>5 DEF WellFormed
    <3>3. scheduled \in DOMAIN PeriodOf /\ cutoff \in Nat
      BY PeriodSignalsAssumption DEF Typed
    <3>4. QED
      BY <3>1, <3>2, <3>3, DeriveValid DEF Derived
  <2>2. ASSUME NEW ps \in Offers("QQQ"), NEW eligible \in Eligible,
               NEW result \in {S3Targets(ps, eligible), S4Targets(ps, eligible)},
               NEW n \in DOMAIN result.targets
        PROVE  result.targets[n].decision_at < result.targets[n].effective_at
    <3> DEFINE V == Range(Derived("QQQ").bars)
    <3>1. Derived("QQQ").bars \in Seq(V)
      BY <2>1 DEF Asset
    <3>2. \A b \in V : Valid(b) /\ Latest(b.expected) \in Nat
      BY <2>1 DEF Asset, Range
    <3> HIDE DEF V
    <3>3. ps \in Seq(V)
      BY <3>1, OffersDerived
    <3>4. Len(ps) \in Nat /\ \A k \in 1 .. Len(ps) : ps[k] \in V
      BY <3>3
    <3>5. \A k \in 1 .. Len(ps) : Valid(ps[k]) /\ Latest(ps[k].expected) \in Nat
      BY <3>2, <3>4
    <3>6. S3_SLOW_WINDOW \in Nat \ {0} /\ S4_MONTHLY_SMA_WINDOW \in Nat \ {0}
      BY PeriodSignalsAssumption
    <3>7. S3Targets(ps, eligible).targets \in Seq(Prompt)
      BY <3>4, <3>5, <3>6, PeriodTargetsPrompt DEF S3Targets
    <3>8. S4Targets(ps, eligible).targets \in Seq(Prompt)
      BY <3>4, <3>5, <3>6, PeriodTargetsPrompt DEF S4Targets
    <3>9. result.targets[n] \in Prompt
      BY <3>7, <3>8, <2>2
    <3>10. QED
      BY <3>9 DEF Prompt
  <2>3. QED
    BY <2>1, <2>2 DEF PeriodsOK, Typed, Recorded, Valid, InOrder
<1>2. QED
  BY <1>1, RecordedHolds, PTL

-----------------------------------------------------------------------------
(* DailySignals *)

-----------------------------------------------------------------------------
(* Recursions *)

\* f is the rolling sums of v over w values, up to n.
Rolls(v, w, n, f) ==
    f = [i \in 0 .. n |-> IF i = 0 THEN 0
                          ELSE f[i - 1] + v[i] - (IF i > w THEN v[i - w] ELSE 0)]

\* There is such a function for every n: the least n without one has one.
LEMMA RollsExist ==
    ASSUME NEW v, NEW w, NEW n \in Nat, 0 \in Nat, 0 <= n
    PROVE  \E f : Rolls(v, w, n, f)
<1> DEFINE S == {m \in Nat : 0 <= m /\ ~ \E f : Rolls(v, w, m, f)}
<1>1. SUFFICES ASSUME S # {} PROVE FALSE
  OBVIOUS
<1>2. PICK m \in S : \A k \in S : m <= k
  <2> S \subseteq Nat
    OBVIOUS
  <2> HIDE DEF S
  <2> QED
    BY <1>1, LeastNumber
<1>3. CASE m = 0
  <2> DEFINE f == [i \in 0 .. m |-> 0]
  <2>1. Rolls(v, w, m, f)
    BY <1>3 DEF Rolls
  <2>2. QED
    BY <1>2, <1>3, <2>1
<1>4. CASE m # 0
  <2>1. m - 1 \in Nat /\ 0 <= m - 1 /\ m - 1 \notin S
    BY <1>2, <1>4
  <2>2. PICK f : Rolls(v, w, m - 1, f)
    BY <2>1
  <2> DEFINE step(g, i) == g[i - 1] + v[i] - (IF i > w THEN v[i - w] ELSE 0)
             h == [i \in 0 .. m |-> IF i = 0 THEN 0 ELSE step(f, i)]
  <2>3. ASSUME NEW i \in 0 .. m, i # 0 PROVE step(h, i) = step(f, i)
    <3>1. i - 1 \in 0 .. m - 1 /\ i - 1 \in 0 .. m /\ i \in Int /\ m \in Nat
      BY <2>1, <2>3
    <3>2. f[i - 1] = IF i - 1 = 0 THEN 0 ELSE step(f, i - 1)
      <4> HIDE DEF step
      <4>1. f = [j \in 0 .. m - 1 |-> IF j = 0 THEN 0 ELSE step(f, j)]
        BY <2>2 DEF Rolls, step
      <4>2. QED
        BY <3>1, <4>1
    <3>3. h[i - 1] = f[i - 1]
      <4> HIDE DEF step
      <4>1. QED
        BY <3>1, <3>2
    <3> HIDE DEF h
    <3>4. QED
      BY <3>3
  <2>4. h = [i \in 0 .. m |-> IF i = 0 THEN 0 ELSE step(h, i)]
    <3> HIDE DEF step
    <3> DEFINE g == [i \in 0 .. m |-> IF i = 0 THEN 0 ELSE step(h, i)]
    <3>1. ASSUME NEW i \in 0 .. m PROVE h[i] = g[i]
      <4>1. CASE i = 0
        BY <4>1
      <4>2. CASE i # 0
        <5>1. h[i] = step(f, i)
          BY <4>2
        <5>2. g[i] = step(h, i)
          <6> HIDE DEF h
          <6> QED
            BY <4>2
        <5>3. QED
          BY <2>3, <4>2, <5>1, <5>2
      <4>3. QED
        BY <4>1, <4>2
    <3>2. h = g
      BY <3>1
    <3> HIDE DEF h
    <3>3. QED
      BY <3>2
  <2> HIDE DEF h
  <2>5. Rolls(v, w, m, h)
    BY <2>4 DEF Rolls
  <2>6. QED
    BY <1>2, <2>5
<1>5. QED
  BY <1>3, <1>4

\* It depends on the values up to its index.
SameRolls(v, u, w, m) ==
    \A p : \A i \in 0 + 1 .. m : p + v[i] - (IF i > w THEN v[i - w] ELSE 0)
                               = p + u[i] - (IF i > w THEN u[i - w] ELSE 0)

LEMMA RollsAgree ==
    ASSUME NEW v, NEW u, NEW w, NEW m \in Nat, NEW n1 \in Nat, NEW n2 \in Nat,
           0 \in Nat, m <= n1, m <= n2, NEW f, NEW h,
           Rolls(v, w, n1, f), Rolls(u, w, n2, h), SameRolls(v, u, w, m)
    PROVE  \A i \in 0 .. m : f[i] = h[i]
<1> DEFINE S == {i \in Nat : 0 <= i /\ i <= m /\ f[i] # h[i]}
<1>1. SUFFICES ASSUME S # {} PROVE FALSE
  OBVIOUS
<1>2. PICK k \in S : \A i \in S : k <= i
  <2> S \subseteq Nat
    OBVIOUS
  <2> HIDE DEF S
  <2> QED
    BY <1>1, LeastNumber
<1>3. k \in 0 .. n1 /\ k \in 0 .. n2
  BY <1>2
<1>4. CASE k = 0
  BY <1>2, <1>3, <1>4 DEF Rolls
<1>5. CASE k # 0
  <2>1. k - 1 \in Nat /\ 0 <= k - 1 /\ k - 1 <= m /\ k - 1 \notin S /\ k \in 0 + 1 .. m
    BY <1>2, <1>5
  <2>2. f[k - 1] = h[k - 1]
    BY <2>1
  <2>3. f[k] = f[k - 1] + v[k] - (IF k > w THEN v[k - w] ELSE 0)
    BY <1>3, <1>5 DEF Rolls
  <2>4. h[k] = h[k - 1] + u[k] - (IF k > w THEN u[k - w] ELSE 0)
    BY <1>3, <1>5 DEF Rolls
  <2>5. f[k] = h[k]
    BY <2>1, <2>2, <2>3, <2>4 DEF SameRolls
  <2>6. QED
    BY <1>2, <2>5
<1>6. QED
  BY <1>4, <1>5

LEMMA RollingSumRolls ==
    ASSUME NEW v, NEW w, Len(v) \in Nat PROVE Rolls(v, w, Len(v), Daily!RollingSum(v, w))
<1>1. PICK f : Rolls(v, w, Len(v), f)
  <2>1. 0 \in Nat /\ 0 <= Len(v)
    OBVIOUS
  <2>2. QED
    BY <2>1, RollsExist
<1>2. QED
  BY <1>1 DEF Rolls, Daily!RollingSum

\* f is Wilder's averages up to n.
Wilders(closes, period, n, f) ==
    f = [i \in 1 .. n |-> IF i = 1 THEN [gain |-> 0, loss |-> 0]
                          ELSE Daily!WilderStep(f[i - 1], closes, i, period)]

\* As for rolling sums.
LEMMA WildersExist ==
    ASSUME NEW closes, NEW period, NEW n \in Nat, 1 \in Nat, 1 <= n
    PROVE  \E f : Wilders(closes, period, n, f)
<1> DEFINE S == {m \in Nat : 1 <= m /\ ~ \E f : Wilders(closes, period, m, f)}
<1>1. SUFFICES ASSUME S # {} PROVE FALSE
  OBVIOUS
<1>2. PICK m \in S : \A k \in S : m <= k
  <2> S \subseteq Nat
    OBVIOUS
  <2> HIDE DEF S
  <2> QED
    BY <1>1, LeastNumber
<1>3. CASE m = 1
  <2> DEFINE f == [i \in 1 .. m |-> [gain |-> 0, loss |-> 0]]
  <2>1. Wilders(closes, period, m, f)
    BY <1>3 DEF Wilders
  <2>2. QED
    BY <1>2, <1>3, <2>1
<1>4. CASE m # 1
  <2>1. m - 1 \in Nat /\ 1 <= m - 1 /\ m - 1 \notin S
    BY <1>2, <1>4
  <2>2. PICK f : Wilders(closes, period, m - 1, f)
    BY <2>1
  <2> DEFINE step(g, i) == Daily!WilderStep(g[i - 1], closes, i, period)
             h == [i \in 1 .. m |-> IF i = 1 THEN [gain |-> 0, loss |-> 0] ELSE step(f, i)]
  <2>3. ASSUME NEW i \in 1 .. m, i # 1 PROVE step(h, i) = step(f, i)
    <3>1. i - 1 \in 1 .. m - 1 /\ i - 1 \in 1 .. m /\ i \in Int /\ m \in Nat
      BY <2>1, <2>3
    <3>2. f[i - 1] = IF i - 1 = 1 THEN [gain |-> 0, loss |-> 0] ELSE step(f, i - 1)
      <4> HIDE DEF step
      <4>1. f = [j \in 1 .. m - 1 |-> IF j = 1 THEN [gain |-> 0, loss |-> 0] ELSE step(f, j)]
        BY <2>2 DEF Wilders, step
      <4>2. QED
        BY <3>1, <4>1
    <3>3. h[i - 1] = f[i - 1]
      <4> HIDE DEF step
      <4>1. QED
        BY <3>1, <3>2
    <3> HIDE DEF h
    <3>4. QED
      BY <3>3
  <2>4. h = [i \in 1 .. m |-> IF i = 1 THEN [gain |-> 0, loss |-> 0] ELSE step(h, i)]
    <3> HIDE DEF step
    <3> DEFINE g == [i \in 1 .. m |-> IF i = 1 THEN [gain |-> 0, loss |-> 0] ELSE step(h, i)]
    <3>1. ASSUME NEW i \in 1 .. m PROVE h[i] = g[i]
      <4>1. CASE i = 1
        BY <4>1
      <4>2. CASE i # 1
        <5>1. h[i] = step(f, i)
          BY <4>2
        <5>2. g[i] = step(h, i)
          <6> HIDE DEF h
          <6> QED
            BY <4>2
        <5>3. QED
          BY <2>3, <4>2, <5>1, <5>2
      <4>3. QED
        BY <4>1, <4>2
    <3>2. h = g
      BY <3>1
    <3> HIDE DEF h
    <3>3. QED
      BY <3>2
  <2> HIDE DEF h
  <2>5. Wilders(closes, period, m, h)
    BY <2>4 DEF Wilders
  <2>6. QED
    BY <1>2, <2>5
<1>5. QED
  BY <1>3, <1>4

\* As for rolling sums.
SameWilders(c1, c2, period, m) ==
    \A p : \A i \in 1 + 1 .. m : Daily!WilderStep(p, c1, i, period)
                               = Daily!WilderStep(p, c2, i, period)

LEMMA WildersAgree ==
    ASSUME NEW c1, NEW c2, NEW period, NEW m \in Nat, NEW n1 \in Nat, NEW n2 \in Nat,
           1 \in Nat, m <= n1, m <= n2, NEW f, NEW h,
           Wilders(c1, period, n1, f), Wilders(c2, period, n2, h), SameWilders(c1, c2, period, m)
    PROVE  \A i \in 1 .. m : f[i] = h[i]
<1> DEFINE S == {i \in Nat : 1 <= i /\ i <= m /\ f[i] # h[i]}
<1>1. SUFFICES ASSUME S # {} PROVE FALSE
  OBVIOUS
<1>2. PICK k \in S : \A i \in S : k <= i
  <2> S \subseteq Nat
    OBVIOUS
  <2> HIDE DEF S
  <2> QED
    BY <1>1, LeastNumber
<1>3. k \in 1 .. n1 /\ k \in 1 .. n2
  BY <1>2
<1>4. CASE k = 1
  BY <1>2, <1>3, <1>4 DEF Wilders
<1>5. CASE k # 1
  <2>1. k - 1 \in Nat /\ 1 <= k - 1 /\ k - 1 <= m /\ k - 1 \notin S /\ k \in 1 + 1 .. m
    BY <1>2, <1>5
  <2>2. f[k - 1] = h[k - 1]
    BY <2>1
  <2>3. f[k] = Daily!WilderStep(f[k - 1], c1, k, period)
    BY <1>3, <1>5 DEF Wilders
  <2>4. h[k] = Daily!WilderStep(h[k - 1], c2, k, period)
    BY <1>3, <1>5 DEF Wilders
  <2>5. f[k] = h[k]
    BY <2>1, <2>2, <2>3, <2>4 DEF SameWilders
  <2>6. QED
    BY <1>2, <2>5
<1>6. QED
  BY <1>4, <1>5

LEMMA WilderAveragesWilder ==
    ASSUME NEW closes, NEW period, Len(closes) \in Nat, 1 <= Len(closes)
    PROVE  Wilders(closes, period, Len(closes), Daily!WilderAverages(closes, period))
<1>1. PICK f : Wilders(closes, period, Len(closes), f)
  BY WildersExist
<1>2. QED
  BY <1>1 DEF Wilders, Daily!WilderAverages

\* f is the rounds of S1 and S2 after bar start, up to n.
Before == [is_long |-> FALSE, state_available_at |-> 0, result |-> Daily!Returned(<<>>)]
Rounds(bs, start, e, x, d, n, f) ==
    f = [i \in start .. n |-> IF i = start THEN Before
                              ELSE Daily!NextRound(f[i - 1], bs, i, e, x, d)]

\* As for rolling sums.
LEMMA RoundsExist ==
    ASSUME NEW bs, NEW start, NEW e, NEW x, NEW d, NEW n \in Nat, start \in Nat, start <= n
    PROVE  \E f : Rounds(bs, start, e, x, d, n, f)
<1> DEFINE S == {m \in Nat : start <= m /\ ~ \E f : Rounds(bs, start, e, x, d, m, f)}
<1>1. SUFFICES ASSUME S # {} PROVE FALSE
  OBVIOUS
<1>2. PICK m \in S : \A k \in S : m <= k
  <2> S \subseteq Nat
    OBVIOUS
  <2> HIDE DEF S
  <2> QED
    BY <1>1, LeastNumber
<1>3. CASE m = start
  <2> DEFINE f == [i \in start .. m |-> Before]
  <2>1. Rounds(bs, start, e, x, d, m, f)
    BY <1>3 DEF Rounds
  <2>2. QED
    BY <1>2, <1>3, <2>1
<1>4. CASE m # start
  <2>1. m - 1 \in Nat /\ start <= m - 1 /\ m - 1 \notin S
    BY <1>2, <1>4
  <2>2. PICK f : Rounds(bs, start, e, x, d, m - 1, f)
    BY <2>1
  <2> DEFINE step(g, i) == Daily!NextRound(g[i - 1], bs, i, e, x, d)
             h == [i \in start .. m |-> IF i = start THEN Before ELSE step(f, i)]
  <2>3. ASSUME NEW i \in start .. m, i # start PROVE step(h, i) = step(f, i)
    <3>1. i - 1 \in start .. m - 1 /\ i - 1 \in start .. m /\ i \in Int /\ m \in Nat
      BY <2>1, <2>3
    <3>2. f[i - 1] = IF i - 1 = start THEN Before ELSE step(f, i - 1)
      <4> HIDE DEF step
      <4>1. f = [j \in start .. m - 1 |-> IF j = start THEN Before ELSE step(f, j)]
        BY <2>2 DEF Rounds, step
      <4>2. QED
        BY <3>1, <4>1
    <3>3. h[i - 1] = f[i - 1]
      <4> HIDE DEF step
      <4>1. QED
        BY <3>1, <3>2
    <3> HIDE DEF h
    <3>4. QED
      BY <3>3
  <2>4. h = [i \in start .. m |-> IF i = start THEN Before ELSE step(h, i)]
    <3> HIDE DEF step
    <3> DEFINE g == [i \in start .. m |-> IF i = start THEN Before ELSE step(h, i)]
    <3>1. ASSUME NEW i \in start .. m PROVE h[i] = g[i]
      <4>1. CASE i = start
        BY <4>1
      <4>2. CASE i # start
        <5>1. h[i] = step(f, i)
          BY <4>2
        <5>2. g[i] = step(h, i)
          <6> HIDE DEF h
          <6> QED
            BY <4>2
        <5>3. QED
          BY <2>3, <4>2, <5>1, <5>2
      <4>3. QED
        BY <4>1, <4>2
    <3>2. h = g
      BY <3>1
    <3> HIDE DEF h
    <3>3. QED
      BY <3>2
  <2> HIDE DEF h
  <2>5. Rounds(bs, start, e, x, d, m, h)
    BY <2>4 DEF Rounds
  <2>6. QED
    BY <1>2, <2>5
<1>5. QED
  BY <1>3, <1>4

\* As for rolling sums.
SameRounds(start, bs, e, x, d, cs, e2, x2, d2, m) ==
    \A p : \A i \in start + 1 .. m : Daily!NextRound(p, bs, i, e, x, d)
                               = Daily!NextRound(p, cs, i, e2, x2, d2)

LEMMA RoundsAgree ==
    ASSUME NEW start, NEW bs, NEW e, NEW x, NEW d, NEW cs, NEW e2, NEW x2, NEW d2, NEW m \in Nat, NEW n1 \in Nat, NEW n2 \in Nat,
           start \in Nat, m <= n1, m <= n2, NEW f, NEW h,
           Rounds(bs, start, e, x, d, n1, f), Rounds(cs, start, e2, x2, d2, n2, h), SameRounds(start, bs, e, x, d, cs, e2, x2, d2, m)
    PROVE  \A i \in start .. m : f[i] = h[i]
<1> DEFINE S == {i \in Nat : start <= i /\ i <= m /\ f[i] # h[i]}
<1>1. SUFFICES ASSUME S # {} PROVE FALSE
  OBVIOUS
<1>2. PICK k \in S : \A i \in S : k <= i
  <2> S \subseteq Nat
    OBVIOUS
  <2> HIDE DEF S
  <2> QED
    BY <1>1, LeastNumber
<1>3. k \in start .. n1 /\ k \in start .. n2
  BY <1>2
<1>4. CASE k = start
  BY <1>2, <1>3, <1>4 DEF Rounds
<1>5. CASE k # start
  <2>1. k - 1 \in Nat /\ start <= k - 1 /\ k - 1 <= m /\ k - 1 \notin S /\ k \in start + 1 .. m
    BY <1>2, <1>5
  <2>2. f[k - 1] = h[k - 1]
    BY <2>1
  <2>3. f[k] = Daily!NextRound(f[k - 1], bs, k, e, x, d)
    BY <1>3, <1>5 DEF Rounds
  <2>4. h[k] = Daily!NextRound(h[k - 1], cs, k, e2, x2, d2)
    BY <1>3, <1>5 DEF Rounds
  <2>5. f[k] = h[k]
    BY <2>1, <2>2, <2>3, <2>4 DEF SameRounds
  <2>6. QED
    BY <1>2, <2>5
<1>6. QED
  BY <1>4, <1>5

LEMMA LoopRounds ==
    ASSUME NEW bs, NEW first, NEW e, NEW x, NEW d, Len(bs) \in Nat, first - 1 \in Nat,
           first \in Int, first <= Len(bs)
    PROVE  \E f : /\ Rounds(bs, first - 1, e, x, d, Len(bs), f)
                  /\ Daily!Loop(bs, first, e, x, d) = f[Len(bs)].result
<1> DEFINE f == CHOOSE f : Rounds(bs, first - 1, e, x, d, Len(bs), f)
<1>1. first - 1 <= Len(bs) /\ ~(Len(bs) < first)
  OBVIOUS
<1>2. Rounds(bs, first - 1, e, x, d, Len(bs), f)
  BY <1>1, RoundsExist
<1>3. Daily!Loop(bs, first, e, x, d) = f[Len(bs)].result
  BY <1>1 DEF Daily!Loop, Rounds, Before
<1>4. QED
  BY <1>2, <1>3

\* f is what price_above_sma_targets has returned up to bar n.
SmaStep(before, bs, i) ==
    Daily!Emit(before, Daily!Available(bs, i - Window + 1 .. i), Daily!session_open_at(i + 1),
               Daily!Closes(bs)[i] * Window > Daily!RollingSum(Daily!Closes(bs), Window)[i])
Smas(bs, start, n, f) ==
    f = [i \in start .. n |-> IF i = start THEN Daily!Returned(<<>>)
                              ELSE SmaStep(f[i - 1], bs, i)]

\* As for rolling sums.
LEMMA SmasExist ==
    ASSUME NEW bs, NEW start, NEW n \in Nat, start \in Nat, start <= n
    PROVE  \E f : Smas(bs, start, n, f)
<1> DEFINE S == {m \in Nat : start <= m /\ ~ \E f : Smas(bs, start, m, f)}
<1>1. SUFFICES ASSUME S # {} PROVE FALSE
  OBVIOUS
<1>2. PICK m \in S : \A k \in S : m <= k
  <2> S \subseteq Nat
    OBVIOUS
  <2> HIDE DEF S
  <2> QED
    BY <1>1, LeastNumber
<1>3. CASE m = start
  <2> DEFINE f == [i \in start .. m |-> Daily!Returned(<<>>)]
  <2>1. Smas(bs, start, m, f)
    BY <1>3 DEF Smas
  <2>2. QED
    BY <1>2, <1>3, <2>1
<1>4. CASE m # start
  <2>1. m - 1 \in Nat /\ start <= m - 1 /\ m - 1 \notin S
    BY <1>2, <1>4
  <2>2. PICK f : Smas(bs, start, m - 1, f)
    BY <2>1
  <2> DEFINE step(g, i) == SmaStep(g[i - 1], bs, i)
             h == [i \in start .. m |-> IF i = start THEN Daily!Returned(<<>>) ELSE step(f, i)]
  <2>3. ASSUME NEW i \in start .. m, i # start PROVE step(h, i) = step(f, i)
    <3>1. i - 1 \in start .. m - 1 /\ i - 1 \in start .. m /\ i \in Int /\ m \in Nat
      BY <2>1, <2>3
    <3>2. f[i - 1] = IF i - 1 = start THEN Daily!Returned(<<>>) ELSE step(f, i - 1)
      <4> HIDE DEF step
      <4>1. f = [j \in start .. m - 1 |-> IF j = start THEN Daily!Returned(<<>>) ELSE step(f, j)]
        BY <2>2 DEF Smas, step
      <4>2. QED
        BY <3>1, <4>1
    <3>3. h[i - 1] = f[i - 1]
      <4> HIDE DEF step
      <4>1. QED
        BY <3>1, <3>2
    <3> HIDE DEF h
    <3>4. QED
      BY <3>3
  <2>4. h = [i \in start .. m |-> IF i = start THEN Daily!Returned(<<>>) ELSE step(h, i)]
    <3> HIDE DEF step
    <3> DEFINE g == [i \in start .. m |-> IF i = start THEN Daily!Returned(<<>>) ELSE step(h, i)]
    <3>1. ASSUME NEW i \in start .. m PROVE h[i] = g[i]
      <4>1. CASE i = start
        BY <4>1
      <4>2. CASE i # start
        <5>1. h[i] = step(f, i)
          BY <4>2
        <5>2. g[i] = step(h, i)
          <6> HIDE DEF h
          <6> QED
            BY <4>2
        <5>3. QED
          BY <2>3, <4>2, <5>1, <5>2
      <4>3. QED
        BY <4>1, <4>2
    <3>2. h = g
      BY <3>1
    <3> HIDE DEF h
    <3>3. QED
      BY <3>2
  <2> HIDE DEF h
  <2>5. Smas(bs, start, m, h)
    BY <2>4 DEF Smas
  <2>6. QED
    BY <1>2, <2>5
<1>5. QED
  BY <1>3, <1>4

\* As for rolling sums.
SameSmas(start, bs, cs, m) ==
    \A p : \A i \in start + 1 .. m : SmaStep(p, bs, i)
                               = SmaStep(p, cs, i)

LEMMA SmasAgree ==
    ASSUME NEW start, NEW bs, NEW cs, NEW m \in Nat, NEW n1 \in Nat, NEW n2 \in Nat,
           start \in Nat, m <= n1, m <= n2, NEW f, NEW h,
           Smas(bs, start, n1, f), Smas(cs, start, n2, h), SameSmas(start, bs, cs, m)
    PROVE  \A i \in start .. m : f[i] = h[i]
<1> DEFINE S == {i \in Nat : start <= i /\ i <= m /\ f[i] # h[i]}
<1>1. SUFFICES ASSUME S # {} PROVE FALSE
  OBVIOUS
<1>2. PICK k \in S : \A i \in S : k <= i
  <2> S \subseteq Nat
    OBVIOUS
  <2> HIDE DEF S
  <2> QED
    BY <1>1, LeastNumber
<1>3. k \in start .. n1 /\ k \in start .. n2
  BY <1>2
<1>4. CASE k = start
  BY <1>2, <1>3, <1>4 DEF Smas
<1>5. CASE k # start
  <2>1. k - 1 \in Nat /\ start <= k - 1 /\ k - 1 <= m /\ k - 1 \notin S /\ k \in start + 1 .. m
    BY <1>2, <1>5
  <2>2. f[k - 1] = h[k - 1]
    BY <2>1
  <2>3. f[k] = SmaStep(f[k - 1], bs, k)
    BY <1>3, <1>5 DEF Smas
  <2>4. h[k] = SmaStep(h[k - 1], cs, k)
    BY <1>3, <1>5 DEF Smas
  <2>5. f[k] = h[k]
    BY <2>1, <2>2, <2>3, <2>4 DEF SameSmas
  <2>6. QED
    BY <1>2, <2>5
<1>6. QED
  BY <1>4, <1>5

LEMMA SmaTargetsEmit ==
    ASSUME NEW bs, Len(bs) \in Nat, Window \in Nat, Window >= 1, Len(bs) > Window
    PROVE  \E f : /\ Smas(bs, Window - 1, Len(bs), f)
                  /\ Daily!SmaTargets(bs) = f[Len(bs) - 1]
<1> DEFINE f == CHOOSE f : Smas(bs, Window - 1, Len(bs), f)
<1>1. Window - 1 <= Len(bs) /\ Window - 1 \in Nat /\ ~(Len(bs) < 2 \/ Len(bs) <= Window)
  OBVIOUS
<1>2. Smas(bs, Window - 1, Len(bs), f)
  BY <1>1, SmasExist
<1>3. Daily!SmaTargets(bs) = f[Len(bs) - 1]
  BY <1>1 DEF Daily!SmaTargets, Smas, SmaStep
<1>4. QED
  BY <1>2, <1>3

-----------------------------------------------------------------------------
(* What the loops return *)

\* r[i] is what has been returned up to bar i, where the target of bar i was
\* decided at D[i] and is long as L[i] says.
Emits(r, start, n, D, L) ==
    /\ r[start] = Daily!Returned(<<>>)
    /\ \A i \in start + 1 .. n :
          r[i] = Daily!Emit(r[i - 1], D[i], Daily!session_open_at(i + 1), L[i])

\* A target for each bar, each decided in time.
Emitted(r, start, i, D, L) ==
    ~r[i].raised =>
        /\ \A k \in start .. i : ~r[k].raised
        /\ r[i].targets =
              [n \in 1 .. i - start |->
                 Daily!TargetPosition(D[start + n], Daily!session_open_at(start + n + 1),
                                      L[start + n])]
        /\ \A k \in start + 1 .. i : ~(D[k] >= Daily!session_open_at(k + 1))

LEMMA EmitKeeps ==
    ASSUME NEW r, NEW decided, NEW effective, NEW long,
           ~Daily!Emit(r, decided, effective, long).raised
    PROVE  /\ ~r.raised /\ ~(decided >= effective)
           /\ Daily!Emit(r, decided, effective, long).targets
                 = Append(r.targets, Daily!TargetPosition(decided, effective, long))
  BY DEF Daily!Emit, Daily!Raised, Daily!Returned

LEMMA EmitShape ==
    ASSUME NEW r, NEW decided, NEW effective, NEW long
    PROVE  /\ Daily!Emit(r, decided, effective, long).raised \in BOOLEAN
           /\ Daily!Emit(r, decided, effective, long).raised =>
                 Daily!Emit(r, decided, effective, long).targets = <<>>
  BY DEF Daily!Emit, Daily!Raised, Daily!Returned

LEMMA AppendNext ==
    ASSUME NEW m \in Nat, NEW F, F = [n \in 1 .. m + 1 |-> F[n]]
    PROVE  Append([n \in 1 .. m |-> F[n]], F[m + 1]) = F
<1> DEFINE V == {F[n] : n \in 1 .. m + 1}
           s == [n \in 1 .. m |-> F[n]]
<1>1. s \in Seq(V) /\ F[m + 1] \in V /\ Len(s) = m
  <2>1. \A n \in 1 .. m + 1 : F[n] \in V
    OBVIOUS
  <2> HIDE DEF V
  <2>2. (\A n \in 1 .. m : F[n] \in V) /\ F[m + 1] \in V
    BY <2>1
  <2>3. s \in [1 .. m -> V]
    BY <2>2
  <2>4. Len(s) = m
    OBVIOUS
  <2> HIDE DEF s
  <2>5. s \in Seq(V)
    BY <2>3
  <2>6. QED
    BY <2>2, <2>4, <2>5
<1>2. /\ Append(s, F[m + 1]) \in Seq(V) /\ Len(Append(s, F[m + 1])) = m + 1
      /\ \A n \in 1 .. m : Append(s, F[m + 1])[n] = s[n]
      /\ Append(s, F[m + 1])[m + 1] = F[m + 1]
  <2> HIDE DEF V, s
  <2> QED
    BY <1>1, AppendProperties
<1> DEFINE t == Append(s, F[m + 1])
<1>3. t = [n \in 1 .. m + 1 |-> t[n]]
  <2> HIDE DEF t, V, s
  <2> QED
    BY <1>2 DEF t
<1>4. \A n \in 1 .. m + 1 : t[n] = F[n]
  <2>1. \A n \in 1 .. m : s[n] = F[n]
    OBVIOUS
  <2> HIDE DEF s
  <2>2. \A n \in 1 .. m + 1 : n \in 1 .. m \/ n = m + 1
    OBVIOUS
  <2>3. QED
    BY <1>2, <2>1, <2>2
<1> HIDE DEF t
<1>5. t = F
  BY <1>3, <1>4
<1>6. QED
  BY <1>5 DEF t

LEMMA EmittedUpTo ==
    ASSUME NEW r, NEW start \in Nat, NEW n \in Nat, NEW D, NEW L, Emits(r, start, n, D, L)
    PROVE  \A i \in start .. n : Emitted(r, start, i, D, L)
<1> DEFINE S == {i \in Nat : start <= i /\ i <= n /\ ~Emitted(r, start, i, D, L)}
<1>1. SUFFICES ASSUME S # {} PROVE FALSE
  OBVIOUS
<1>2. PICK i \in S : \A k \in S : i <= k
  <2> S \subseteq Nat
    OBVIOUS
  <2> HIDE DEF S
  <2> QED
    BY <1>1, LeastNumber
<1> DEFINE T(k) == Daily!TargetPosition(D[start + k], Daily!session_open_at(start + k + 1),
                                        L[start + k])
<1>3. CASE i = start
  <2>1. r[i].targets = <<>> /\ ~r[i].raised
    BY <1>3 DEF Emits, Daily!Returned
  <2>2. r[i].targets = [k \in 1 .. i - start |-> T(k)]
    <3>1. 1 .. i - start = {}
      BY <1>3
    <3> HIDE DEF T
    <3>2. QED
      BY <2>1, <3>1
  <2>3. Emitted(r, start, i, D, L)
    BY <1>3, <2>1, <2>2 DEF Emitted
  <2>4. QED
    BY <1>2, <2>3
<1>4. CASE i # start
  <2>1. i - 1 \in Nat /\ start <= i - 1 /\ i - 1 \notin S /\ i \in start + 1 .. n
    BY <1>2, <1>4
  <2>2. Emitted(r, start, i - 1, D, L)
    BY <1>2, <2>1
  <2>3. r[i] = Daily!Emit(r[i - 1], D[i], Daily!session_open_at(i + 1), L[i])
    BY <2>1 DEF Emits
  <2>4. SUFFICES ASSUME ~r[i].raised PROVE Emitted(r, start, i, D, L)
    BY <1>2 DEF Emitted
  <2>5. /\ ~r[i - 1].raised /\ ~(D[i] >= Daily!session_open_at(i + 1))
        /\ r[i].targets = Append(r[i - 1].targets,
                                 Daily!TargetPosition(D[i], Daily!session_open_at(i + 1), L[i]))
    <3>1. ~Daily!Emit(r[i - 1], D[i], Daily!session_open_at(i + 1), L[i]).raised
      BY <2>3, <2>4
    <3> DEFINE T0 == Daily!TargetPosition(D[i], Daily!session_open_at(i + 1), L[i])
               e == Daily!Emit(r[i - 1], D[i], Daily!session_open_at(i + 1), L[i])
    <3>2. /\ ~r[i - 1].raised /\ ~(D[i] >= Daily!session_open_at(i + 1))
          /\ e.targets = Append(r[i - 1].targets, T0)
      BY ONLY <3>1, EmitKeeps
    <3>3. r[i] = e
      BY <2>3
    <3> HIDE DEF e, T0
    <3>4. r[i].targets = Append(r[i - 1].targets, T0)
      BY <3>2, <3>3
    <3>5. QED
      BY <3>2, <3>4 DEF T0
  <2>6. \A k \in start .. i : ~r[k].raised
    <3>1. TAKE k \in start .. i
    <3>2. k = i \/ k \in start .. i - 1
      BY <2>1
    <3>3. QED
      BY <2>2, <2>4, <2>5, <3>2 DEF Emitted
  <2>7. \A k \in start + 1 .. i : ~(D[k] >= Daily!session_open_at(k + 1))
    <3>1. TAKE k \in start + 1 .. i
    <3>2. k = i \/ k \in start + 1 .. i - 1
      BY <2>1
    <3>3. QED
      BY <2>2, <2>5, <3>2 DEF Emitted
  <2>8. r[i].targets = [k \in 1 .. i - start |-> T(k)]
    <3> DEFINE m == i - start - 1
               F == [k \in 1 .. m + 1 |-> T(k)]
    <3>1. m \in Nat /\ m + 1 = i - start /\ start + (m + 1) = i /\ i - 1 - start = m
          /\ start + (m + 1) + 1 = i + 1
      BY <2>1
    <3>2. r[i - 1].targets = [k \in 1 .. m |-> T(k)]
      BY <2>2, <2>5, <3>1 DEF Emitted
    <3>3. T(m + 1) = Daily!TargetPosition(D[i], Daily!session_open_at(i + 1), L[i])
      BY <3>1
    <3> HIDE DEF T, m
    <3>4. r[i - 1].targets = [k \in 1 .. m |-> F[k]] /\ F[m + 1] = T(m + 1)
      BY <3>1, <3>2
    <3>5. Append([k \in 1 .. m |-> F[k]], F[m + 1]) = F
      BY <3>1, AppendNext
    <3>6. QED
      BY <2>5, <3>1, <3>3, <3>4, <3>5
  <2>9. QED
    BY <2>4, <2>6, <2>7, <2>8 DEF Emitted
<1>5. QED
  BY <1>3, <1>4

-----------------------------------------------------------------------------
(* Histories *)

DailyBar == [kind : Kinds, available_at : Nat]

\* Two histories that hold the same up to bar m.
SameUpTo(bs, cs, m) ==
    /\ bs \in Seq(DailyBar) /\ cs \in Seq(DailyBar)
    /\ m \in Nat /\ m <= Len(bs) /\ m <= Len(cs)
    /\ \A i \in 1 .. m : bs[i] = cs[i]

LEMMA HistoryFacts ==
    ASSUME NEW bs \in Seq(DailyBar)
    PROVE  /\ Len(bs) \in Nat /\ DOMAIN bs = 1 .. Len(bs)
           /\ \A i \in 1 .. Len(bs) : /\ bs[i] \in DailyBar
                                      /\ bs[i].kind \in Kinds /\ bs[i].available_at \in Nat
<1>1. Len(bs) \in Nat /\ DOMAIN bs = 1 .. Len(bs) /\ \A i \in 1 .. Len(bs) : bs[i] \in DailyBar
  OBVIOUS
<1>2. QED
  BY <1>1 DEF DailyBar

\* Some bar of a window is the last one to be available.
LEMMA LastAvailable ==
    ASSUME NEW bs \in Seq(DailyBar), NEW S, S \subseteq 1 .. Len(bs), S # {}
    PROVE  \E t \in S : \A u \in S : bs[u].available_at <= bs[t].available_at
<1> DEFINE Has(m) == \A R \in SUBSET (1 .. m) : R # {} /\ R \subseteq 1 .. Len(bs) =>
                        \E t \in R : \A u \in R : bs[u].available_at <= bs[t].available_at
           B == {m \in Nat : ~Has(m)}
<1>1. /\ Len(bs) \in Nat
      /\ \A i \in 1 .. Len(bs) : bs[i].available_at \in Nat
  BY HistoryFacts
<1>2. SUFFICES ASSUME B # {} PROVE FALSE
  BY <1>1
<1>3. PICK m \in B : \A k \in B : m <= k
  <2> B \subseteq Nat
    OBVIOUS
  <2> HIDE DEF B
  <2> QED
    BY <1>2, LeastNumber
<1>4. PICK R \in SUBSET (1 .. m) : /\ R # {} /\ R \subseteq 1 .. Len(bs)
                                   /\ ~\E t \in R : \A u \in R :
                                          bs[u].available_at <= bs[t].available_at
  BY <1>3
<1>5. m \in Nat /\ m # 0
  <2>1. m \in Nat
    BY <1>3
  <2>2. 1 .. 0 = {}
    OBVIOUS
  <2>3. QED
    BY <1>4, <2>1, <2>2
<1>6. Has(m - 1)
  <2>1. m - 1 \in Nat /\ m - 1 \notin B
    <3> HIDE DEF B
    <3> QED
      BY <1>3, <1>5
  <2> HIDE DEF Has
  <2>2. QED
    BY <2>1
<1>7. R \ {m} \in SUBSET (1 .. m - 1)
  BY <1>3
<1>8. CASE R \ {m} = {}
  <2>1. \A u \in R : u = m
    BY <1>8
  <2>2. PICK t \in R : TRUE
    BY <1>4
  <2>3. \A u \in R : bs[u].available_at <= bs[t].available_at
    BY <1>1, <1>4, <2>1
  <2>4. QED
    BY <1>4, <2>3
<1>9. CASE R \ {m} # {}
  <2>1. PICK t \in R \ {m} : \A u \in R \ {m} : bs[u].available_at <= bs[t].available_at
    BY <1>4, <1>6, <1>7, <1>9
  <2>2. CASE m \in R /\ bs[t].available_at < bs[m].available_at
    <3>1. ASSUME NEW u \in R PROVE bs[u].available_at <= bs[m].available_at
      <4>1. /\ bs[u].available_at \in Nat /\ bs[m].available_at \in Nat
            /\ bs[t].available_at \in Nat
        BY <1>1, <1>4, <2>2
      <4>2. u = m \/ bs[u].available_at <= bs[t].available_at
        BY <2>1
      <4>3. QED
        BY <2>2, <4>1, <4>2
    <3>2. QED
      BY <1>4, <2>2, <3>1
  <2>3. CASE ~(m \in R /\ bs[t].available_at < bs[m].available_at)
    <3>1. \A u \in R : bs[u].available_at <= bs[t].available_at
      BY <1>1, <1>4, <2>1, <2>3
    <3>2. QED
      BY <1>4, <3>1
  <2>4. QED
    BY <2>2, <2>3
<1>10. QED
  BY <1>8, <1>9

\* A decision waits for every bar it depends on.
LEMMA AvailableCovers ==
    ASSUME NEW bs \in Seq(DailyBar), NEW S, S \subseteq 1 .. Len(bs), S # {}
    PROVE  /\ Daily!Available(bs, S) \in Nat
           /\ \A u \in S : bs[u].available_at <= Daily!Available(bs, S)
<1> DEFINE A == {bs[u].available_at : u \in S}
<1>1. \E t \in A : \A u \in A : u <= t
  <2>1. PICK t \in S : \A u \in S : bs[u].available_at <= bs[t].available_at
    BY LastAvailable
  <2>2. bs[t].available_at \in A /\ \A u \in A : u <= bs[t].available_at
    BY <2>1
  <2>3. QED
    BY <2>2
<1>2. A \subseteq Nat
  BY HistoryFacts
<1>3. Daily!Available(bs, S) \in A /\ \A u \in A : u <= Daily!Available(bs, S)
  BY <1>1 DEF Daily!Available, Daily!Latest
<1>4. QED
  BY <1>2, <1>3

LEMMA LatestOfTwo ==
    ASSUME NEW a \in Nat, NEW b \in Nat
    PROVE  Daily!Latest({a, b}) \in Nat /\ a <= Daily!Latest({a, b}) /\ b <= Daily!Latest({a, b})
<1>1. \E t \in {a, b} : \A u \in {a, b} : u <= t
  OBVIOUS
<1>2. QED
  BY <1>1 DEF Daily!Latest

\* A window that holds the same is available at the same time.
LEMMA SameAvailable ==
    ASSUME NEW bs, NEW cs, NEW S, \A u \in S : bs[u].available_at = cs[u].available_at
    PROVE  Daily!Available(bs, S) = Daily!Available(cs, S)
<1>1. {bs[u].available_at : u \in S} = {cs[u].available_at : u \in S}
  OBVIOUS
<1>2. QED
  BY <1>1 DEF Daily!Available

LEMMA SameFeatures ==
    ASSUME NEW bs, NEW cs, NEW m, SameUpTo(bs, cs, m), NEW w \in Nat
    PROVE  /\ \A i \in 1 .. m : /\ Daily!Closes(bs)[i] = Daily!Closes(cs)[i]
                                /\ Daily!Highs(bs)[i] = Daily!Highs(cs)[i]
                                /\ Daily!Lows(bs)[i] = Daily!Lows(cs)[i]
           /\ \A i \in 0 .. m : Daily!RollingSum(Daily!Closes(bs), w)[i]
                                   = Daily!RollingSum(Daily!Closes(cs), w)[i]
           /\ \A i \in 1 .. m : Daily!WilderAverages(Daily!Closes(bs), w)[i]
                                   = Daily!WilderAverages(Daily!Closes(cs), w)[i]
<1> DEFINE v == Daily!Closes(bs)
           u == Daily!Closes(cs)
<1>1. /\ Len(bs) \in Nat /\ DOMAIN bs = 1 .. Len(bs)
      /\ Len(cs) \in Nat /\ DOMAIN cs = 1 .. Len(cs)
      /\ m \in Nat /\ m <= Len(bs) /\ m <= Len(cs) /\ 0 \in Nat
  BY HistoryFacts DEF SameUpTo
<1>2. \A i \in 1 .. m : i \in DOMAIN bs /\ i \in DOMAIN cs /\ bs[i] = cs[i]
  BY <1>1 DEF SameUpTo
<1>3. \A i \in 1 .. m : v[i] = u[i]
  BY <1>2 DEF Daily!Closes
<1>4. \A i \in 1 .. m : /\ Daily!Highs(bs)[i] = Daily!Highs(cs)[i]
                        /\ Daily!Lows(bs)[i] = Daily!Lows(cs)[i]
  BY <1>2 DEF Daily!Highs, Daily!Lows
<1>5. Len(v) = Len(bs) /\ Len(u) = Len(cs)
  BY <1>1 DEF Daily!Closes
<1> HIDE DEF v, u
<1>6. \A i \in 0 .. m : Daily!RollingSum(v, w)[i] = Daily!RollingSum(u, w)[i]
  <2>1. /\ Rolls(v, w, Len(v), Daily!RollingSum(v, w))
        /\ Rolls(u, w, Len(u), Daily!RollingSum(u, w))
    BY <1>1, <1>5, RollingSumRolls
  <2>2. SameRolls(v, u, w, m)
    <3>1. ASSUME NEW i \in 0 + 1 .. m PROVE v[i] = u[i] /\ (i > w => v[i - w] = u[i - w])
      BY <1>1, <1>3
    <3>2. QED
      BY <3>1 DEF SameRolls
  <2>3. /\ Len(v) \in Nat /\ Len(u) \in Nat /\ m <= Len(v) /\ m <= Len(u)
        /\ m \in Nat /\ 0 \in Nat
    BY <1>1, <1>5
  <2>4. QED
    BY <2>1, <2>2, <2>3, RollsAgree
<1>7. \A i \in 1 .. m : Daily!WilderAverages(v, w)[i] = Daily!WilderAverages(u, w)[i]
  <2>1. SUFFICES ASSUME 1 <= m
                 PROVE \A i \in 1 .. m : Daily!WilderAverages(v, w)[i] = Daily!WilderAverages(u, w)[i]
    BY <1>1
  <2>2. /\ Wilders(v, w, Len(v), Daily!WilderAverages(v, w))
        /\ Wilders(u, w, Len(u), Daily!WilderAverages(u, w))
    BY <1>1, <1>5, <2>1, WilderAveragesWilder
  <2>3. SameWilders(v, u, w, m)
    <3>1. ASSUME NEW i \in 1 + 1 .. m PROVE v[i] = u[i] /\ v[i - 1] = u[i - 1]
      BY <1>1, <1>3
    <3>2. \A i \in 1 + 1 .. m : /\ Daily!Gain(v, i) = Daily!Gain(u, i)
                                /\ Daily!Loss(v, i) = Daily!Loss(u, i)
      BY <3>1 DEF Daily!Gain, Daily!Loss
    <3>3. QED
      BY <3>2 DEF SameWilders, Daily!WilderStep
  <2>4. /\ Len(v) \in Nat /\ Len(u) \in Nat /\ m <= Len(v) /\ m <= Len(u)
        /\ m \in Nat /\ 1 \in Nat
    BY <1>1, <1>5
  <2>5. QED
    BY <2>2, <2>3, <2>4, WildersAgree
<1>8. QED
  BY <1>3, <1>4, <1>6, <1>7 DEF v, u

-----------------------------------------------------------------------------
(* S1 and S2 *)

Loops == {"s1", "s2"}
First(s) == IF s = "s1" THEN S1_SMA_WINDOW ELSE S2_ENTRY_WINDOW + 1
Turns(s, bs) == First(s) .. Len(bs)

Entries(s, bs) ==
    IF s = "s1" THEN Daily!S1Entries(bs, Turns(s, bs))
    ELSE {i \in Turns(s, bs) :
             bs[i].kind.close > Daily!PriorMax(Daily!Highs(bs), i, S2_ENTRY_WINDOW)}
Exits(s, bs) ==
    IF s = "s1" THEN Daily!S1Exits(bs, Turns(s, bs))
    ELSE {i \in Turns(s, bs) :
             bs[i].kind.close < Daily!PriorMin(Daily!Lows(bs), i, S2_EXIT_WINDOW)}
Depends(s, bs) ==
    IF s = "s1" THEN [i \in Turns(s, bs) |-> 1 .. i]
    ELSE [i \in Turns(s, bs) |-> i - S2_ENTRY_WINDOW .. i]

\* f is the rounds of a strategy over a history.
RoundsOf(s, bs, f) ==
    Rounds(bs, First(s) - 1, Entries(s, bs), Exits(s, bs), Depends(s, bs), Len(bs), f)

LEMMA FirstFacts ==
    ASSUME Daily!SignalsAssumption, NEW s \in Loops
    PROVE  First(s) \in Nat /\ First(s) >= 1 /\ First(s) - 1 \in Nat
  BY DEF Daily!SignalsAssumption, Loops, First

LEMMA CallOfLoop ==
    ASSUME NEW s \in Loops, NEW bs
    PROVE  Daily!Call(s, bs)
              = Daily!Loop(bs, First(s), Entries(s, bs), Exits(s, bs), Depends(s, bs))
<1>1. CASE s = "s1"
  BY <1>1 DEF Daily!Call, Daily!S1Targets, First, Entries, Exits, Depends, Turns
<1>2. CASE s = "s2"
  BY <1>2 DEF Daily!Call, Daily!S2Targets, First, Entries, Exits, Depends, Turns
<1>3. QED
  BY <1>1, <1>2 DEF Loops

LEMMA CallReturns ==
    ASSUME Daily!SignalsAssumption, NEW s \in Loops, NEW bs \in Seq(DailyBar)
    PROVE  /\ Len(bs) < First(s) => Daily!Call(s, bs) = Daily!Returned(<<>>)
           /\ Len(bs) >= First(s) =>
                 \E f : RoundsOf(s, bs, f) /\ Daily!Call(s, bs) = f[Len(bs)].result
<1>1. Len(bs) \in Nat
  BY HistoryFacts
<1>2. ASSUME Len(bs) < First(s) PROVE Daily!Call(s, bs) = Daily!Returned(<<>>)
  BY <1>2, CallOfLoop DEF Daily!Loop
<1>3. ASSUME Len(bs) >= First(s)
      PROVE  \E f : RoundsOf(s, bs, f) /\ Daily!Call(s, bs) = f[Len(bs)].result
  BY <1>1, <1>3, FirstFacts, CallOfLoop, LoopRounds DEF RoundsOf
<1>4. QED
  BY <1>2, <1>3

\* The bars a round depends on have come, and rounds depend on all bars so far.
LEMMA DependFacts ==
    ASSUME Daily!SignalsAssumption, NEW s \in Loops, NEW bs \in Seq(DailyBar),
           NEW i \in Turns(s, bs)
    PROVE  /\ Depends(s, bs)[i] \subseteq 1 .. i /\ i \in Depends(s, bs)[i]
           /\ i \in 1 .. Len(bs)
           /\ \A q \in 1 .. First(s) : q \in Depends(s, bs)[First(s)]
<1>1. /\ Len(bs) \in Nat /\ First(s) \in Nat /\ First(s) >= 1 /\ i \in Nat
      /\ i >= First(s) /\ i <= Len(bs) /\ First(s) \in Turns(s, bs)
  BY HistoryFacts, FirstFacts DEF Turns
<1>2. CASE s = "s1"
  BY <1>1, <1>2 DEF Depends
<1>3. CASE s = "s2"
  <2>1. S2_ENTRY_WINDOW \in Nat /\ First(s) = S2_ENTRY_WINDOW + 1
    BY <1>3 DEF Daily!SignalsAssumption, First
  <2>2. \A j \in Turns(s, bs) : Depends(s, bs)[j] = j - S2_ENTRY_WINDOW .. j
    BY <1>3 DEF Depends
  <2>3. QED
    BY <1>1, <2>1, <2>2
<1>4. QED
  BY <1>2, <1>3 DEF Loops

\* As long as two histories are the same, so are the rounds over them.
LEMMA SameRoundsOf ==
    ASSUME Daily!SignalsAssumption, NEW s \in Loops, NEW bs, NEW cs, NEW m,
           SameUpTo(bs, cs, m), NEW f, NEW h, RoundsOf(s, bs, f), RoundsOf(s, cs, h)
    PROVE  \A i \in First(s) - 1 .. m : f[i] = h[i]
<1> DEFINE start == First(s) - 1
<1>1. /\ Len(bs) \in Nat /\ Len(cs) \in Nat /\ m \in Nat /\ m <= Len(bs) /\ m <= Len(cs)
      /\ First(s) \in Nat /\ First(s) >= 1 /\ start \in Nat /\ start + 1 = First(s)
      /\ bs \in Seq(DailyBar) /\ cs \in Seq(DailyBar)
  BY HistoryFacts, FirstFacts DEF SameUpTo
<1>2. ASSUME NEW i \in First(s) .. m
      PROVE  /\ i \in Entries(s, bs) <=> i \in Entries(s, cs)
             /\ i \in Exits(s, bs) <=> i \in Exits(s, cs)
             /\ Daily!Available(bs, Depends(s, bs)[i]) = Daily!Available(cs, Depends(s, cs)[i])
  <2>1. i \in Turns(s, bs) /\ i \in Turns(s, cs) /\ i \in 1 .. m /\ i \in 0 .. m
    BY <1>1 DEF Turns
  <2>2. bs[i] = cs[i]
    BY <2>1 DEF SameUpTo
  <2>3. Daily!Available(bs, Depends(s, bs)[i]) = Daily!Available(cs, Depends(s, cs)[i])
    <3>1. Depends(s, bs)[i] = Depends(s, cs)[i]
      BY <2>1 DEF Depends
    <3>2. Depends(s, bs)[i] \subseteq 1 .. i
      BY <1>1, <2>1, DependFacts
    <3>3. \A u \in Depends(s, bs)[i] : bs[u].available_at = cs[u].available_at
      BY <1>1, <2>1, <3>2 DEF SameUpTo
    <3>4. QED
      BY <3>1, <3>3, SameAvailable
  <2>4. CASE s = "s1"
    <3>1. S1_SMA_WINDOW \in Nat /\ S1_RSI_PERIOD \in Nat
      BY DEF Daily!SignalsAssumption
    <3>2. Daily!RollingSum(Daily!Closes(bs), S1_SMA_WINDOW)[i]
             = Daily!RollingSum(Daily!Closes(cs), S1_SMA_WINDOW)[i]
      BY <2>1, <3>1, SameFeatures
    <3>3. Daily!WilderAverages(Daily!Closes(bs), S1_RSI_PERIOD)[i]
             = Daily!WilderAverages(Daily!Closes(cs), S1_RSI_PERIOD)[i]
      BY <2>1, <3>1, SameFeatures
    <3>4. i \in Entries(s, bs) <=> i \in Entries(s, cs)
      BY <2>1, <2>2, <2>4, <3>2, <3>3 DEF Entries, Daily!S1Entries
    <3>5. i \in Exits(s, bs) <=> i \in Exits(s, cs)
      BY <2>1, <2>4, <3>3 DEF Exits, Daily!S1Exits
    <3>6. QED
      BY <2>3, <3>4, <3>5
  <2>5. CASE s = "s2"
    <3>1. /\ S2_ENTRY_WINDOW \in Nat /\ S2_EXIT_WINDOW \in Nat
          /\ S2_EXIT_WINDOW <= S2_ENTRY_WINDOW /\ i > S2_ENTRY_WINDOW
      BY <1>1, <2>5 DEF Daily!SignalsAssumption, First
    <3>2. /\ \A j \in i - S2_ENTRY_WINDOW .. i - 1 : j \in 1 .. m
          /\ \A j \in i - S2_EXIT_WINDOW .. i - 1 : j \in 1 .. m
      BY <1>1, <2>1, <3>1
    <3>3. /\ \A j \in 1 .. m : Daily!Highs(bs)[j] = Daily!Highs(cs)[j]
          /\ \A j \in 1 .. m : Daily!Lows(bs)[j] = Daily!Lows(cs)[j]
      BY <3>1, SameFeatures
    <3>4. Daily!PriorMax(Daily!Highs(bs), i, S2_ENTRY_WINDOW)
             = Daily!PriorMax(Daily!Highs(cs), i, S2_ENTRY_WINDOW)
      <4>1. {Daily!Highs(bs)[j] : j \in i - S2_ENTRY_WINDOW .. i - 1}
               = {Daily!Highs(cs)[j] : j \in i - S2_ENTRY_WINDOW .. i - 1}
        BY <3>2, <3>3
      <4>2. QED
        BY <4>1 DEF Daily!PriorMax
    <3>5. Daily!PriorMin(Daily!Lows(bs), i, S2_EXIT_WINDOW)
             = Daily!PriorMin(Daily!Lows(cs), i, S2_EXIT_WINDOW)
      <4>1. {Daily!Lows(bs)[j] : j \in i - S2_EXIT_WINDOW .. i - 1}
               = {Daily!Lows(cs)[j] : j \in i - S2_EXIT_WINDOW .. i - 1}
        BY <3>2, <3>3
      <4>2. QED
        BY <4>1 DEF Daily!PriorMin
    <3>6. i \in Entries(s, bs) <=> i \in Entries(s, cs)
      BY <2>1, <2>2, <2>5, <3>4 DEF Entries
    <3>7. i \in Exits(s, bs) <=> i \in Exits(s, cs)
      BY <2>1, <2>2, <2>5, <3>5 DEF Exits
    <3>8. QED
      BY <2>3, <3>6, <3>7
  <2>6. QED
    BY <2>4, <2>5 DEF Loops
<1>3. SameRounds(start, bs, Entries(s, bs), Exits(s, bs), Depends(s, bs),
                 cs, Entries(s, cs), Exits(s, cs), Depends(s, cs), m)
  <2>1. ASSUME NEW p, NEW i \in start + 1 .. m
        PROVE  Daily!NextRound(p, bs, i, Entries(s, bs), Exits(s, bs), Depends(s, bs))
                 = Daily!NextRound(p, cs, i, Entries(s, cs), Exits(s, cs), Depends(s, cs))
    <3>1. i \in First(s) .. m
      BY <1>1
    <3>2. /\ (i \in Entries(s, bs)) = (i \in Entries(s, cs))
          /\ (i \notin Exits(s, bs)) = (i \notin Exits(s, cs))
          /\ Daily!Available(bs, Depends(s, bs)[i]) = Daily!Available(cs, Depends(s, cs)[i])
      BY <1>2, <3>1
    <3>3. QED
      BY <3>2 DEF Daily!NextRound
  <2>2. QED
    BY <2>1 DEF SameRounds
<1>4. QED
  BY <1>1, <1>3, RoundsAgree DEF RoundsOf

\* What the loop has returned after each bar.
LEMMA RoundsTargets ==
    ASSUME Daily!SignalsAssumption, NEW s \in Loops, NEW bs \in Seq(DailyBar),
           NEW f, RoundsOf(s, bs, f), NEW i \in First(s) .. Len(bs)
    PROVE  /\ f[i].result.raised \in BOOLEAN
           /\ f[i].result.raised => f[i].result.targets = <<>>
           /\ ~f[i].result.raised =>
                /\ \A k \in First(s) .. i : /\ ~f[k].result.raised
                                            /\ ~(f[k].state_available_at >= Daily!session_open_at(k + 1))
                /\ f[i].result.targets =
                      [n \in 1 .. i - (First(s) - 1) |->
                         Daily!TargetPosition(f[First(s) - 1 + n].state_available_at,
                                              Daily!session_open_at(First(s) - 1 + n + 1),
                                              f[First(s) - 1 + n].is_long)]
<1> DEFINE start == First(s) - 1
           N == Len(bs)
           R == [k \in start .. N |-> f[k].result]
           D == [k \in start .. N |-> f[k].state_available_at]
           L == [k \in start .. N |-> f[k].is_long]
<1>1. /\ N \in Nat /\ start \in Nat /\ First(s) \in Nat /\ start + 1 = First(s)
      /\ start <= N /\ i \in start + 1 .. N /\ i \in start .. N /\ i \in Nat
  BY HistoryFacts, FirstFacts
<1> HIDE DEF N
<1>2. f[start] = Before
  BY <1>1 DEF RoundsOf, Rounds, N
<1>3. ASSUME NEW k \in start + 1 .. N
      PROVE  f[k].result = Daily!Emit(f[k - 1].result, f[k].state_available_at,
                                      Daily!session_open_at(k + 1), f[k].is_long)
  <2>1. k \in start .. N /\ k # start
    BY <1>1
  <2>2. f[k] = Daily!NextRound(f[k - 1], bs, k, Entries(s, bs), Exits(s, bs), Depends(s, bs))
    BY <2>1 DEF RoundsOf, Rounds, N
  <2>3. QED
    BY <2>2 DEF Daily!NextRound
<1> HIDE DEF start
<1>4. Emits(R, start, N, D, L)
  <2>1. R[start] = Daily!Returned(<<>>)
    BY <1>1, <1>2 DEF Before
  <2>2. ASSUME NEW k \in start + 1 .. N
        PROVE  R[k] = Daily!Emit(R[k - 1], D[k], Daily!session_open_at(k + 1), L[k])
    <3>1. k \in start .. N /\ k - 1 \in start .. N
      BY <1>1
    <3>2. QED
      BY <1>3, <3>1
  <2> HIDE DEF R, D, L
  <2>3. QED
    BY <2>1, <2>2 DEF Emits
<1>5. Emitted(R, start, i, D, L)
  <2> HIDE DEF R, D, L
  <2>1. QED
    BY <1>1, <1>4, EmittedUpTo
<1>6. /\ f[i].result.raised \in BOOLEAN
      /\ f[i].result.raised => f[i].result.targets = <<>>
  <2>1. f[i].result = Daily!Emit(f[i - 1].result, f[i].state_available_at,
                                 Daily!session_open_at(i + 1), f[i].is_long)
    BY <1>1, <1>3
  <2>2. QED
    BY <2>1, EmitShape
<1>7. ASSUME ~f[i].result.raised, NEW k \in First(s) .. i
      PROVE  ~f[k].result.raised /\ ~(f[k].state_available_at >= Daily!session_open_at(k + 1))
  <2>1. k \in start .. i /\ k \in start + 1 .. i /\ k \in start .. N
    BY <1>1
  <2>2. ~R[i].raised
    BY <1>1, <1>7
  <2>3. R[k] = f[k].result /\ D[k] = f[k].state_available_at
    BY <2>1
  <2> HIDE DEF R, D, L
  <2>4. QED
    BY <1>5, <2>1, <2>2, <2>3 DEF Emitted
<1>8. ASSUME ~f[i].result.raised
      PROVE  f[i].result.targets =
                [n \in 1 .. i - start |->
                   Daily!TargetPosition(f[start + n].state_available_at,
                                        Daily!session_open_at(start + n + 1),
                                        f[start + n].is_long)]
  <2>1. R[i] = f[i].result
    BY <1>1
  <2>2. \A n \in 1 .. i - start : /\ D[start + n] = f[start + n].state_available_at
                                  /\ L[start + n] = f[start + n].is_long
    <3>1. TAKE n \in 1 .. i - start
    <3>2. start + n \in start .. N
      BY <1>1
    <3>3. QED
      BY <3>2
  <2> HIDE DEF R, D, L
  <2>3. R[i].targets =
           [n \in 1 .. i - start |->
              Daily!TargetPosition(D[start + n], Daily!session_open_at(start + n + 1),
                                   L[start + n])]
    BY <1>5, <1>8, <2>1 DEF Emitted
  <2>4. QED
    BY <2>1, <2>2, <2>3
<1>9. QED
  BY <1>6, <1>7, <1>8 DEF start

\* A decision waits for every bar so far.
LEMMA RoundsKnow ==
    ASSUME Daily!SignalsAssumption, NEW s \in Loops, NEW bs \in Seq(DailyBar),
           NEW f, RoundsOf(s, bs, f)
    PROVE  \A i \in First(s) .. Len(bs) :
              /\ f[i].state_available_at \in Nat
              /\ \A q \in 1 .. i : bs[q].available_at <= f[i].state_available_at
<1> DEFINE N == Len(bs)
           Knows(i) == /\ f[i].state_available_at \in Nat
                       /\ \A q \in 1 .. i : bs[q].available_at <= f[i].state_available_at
           S == {i \in Nat : First(s) <= i /\ i <= N /\ ~Knows(i)}
<1>1. /\ N \in Nat /\ First(s) \in Nat /\ First(s) >= 1
      /\ \A q \in 1 .. N : bs[q].available_at \in Nat
  BY HistoryFacts, FirstFacts
<1>2. SUFFICES ASSUME S # {} PROVE FALSE
  <2> HIDE DEF Knows
  <2>1. \A i \in First(s) .. Len(bs) : Knows(i)
    BY <1>1, <1>2
  <2>2. QED
    BY <2>1 DEF Knows
<1>3. PICK i \in S : \A k \in S : i <= k
  <2> S \subseteq Nat
    OBVIOUS
  <2> HIDE DEF S
  <2> QED
    BY <1>2, LeastNumber
<1>4. i \in Nat /\ First(s) <= i /\ i <= N /\ ~Knows(i) /\ i \in Turns(s, bs)
  BY <1>1, <1>3 DEF Turns
<1>5. f[i].state_available_at
         = Daily!Latest({f[i - 1].state_available_at,
                         Daily!Available(bs, Depends(s, bs)[i])})
  <2>1. i \in First(s) - 1 .. N /\ i # First(s) - 1
    BY <1>1, <1>4
  <2>2. f[i] = Daily!NextRound(f[i - 1], bs, i, Entries(s, bs), Exits(s, bs), Depends(s, bs))
    BY <2>1 DEF RoundsOf, Rounds
  <2>3. QED
    BY <2>2 DEF Daily!NextRound
<1>6. /\ Daily!Available(bs, Depends(s, bs)[i]) \in Nat
      /\ \A q \in Depends(s, bs)[i] :
            bs[q].available_at <= Daily!Available(bs, Depends(s, bs)[i])
      /\ i \in Depends(s, bs)[i]
  <2>1. /\ Depends(s, bs)[i] \subseteq 1 .. i /\ i \in Depends(s, bs)[i]
    BY <1>4, DependFacts
  <2>2. Depends(s, bs)[i] \subseteq 1 .. Len(bs) /\ Depends(s, bs)[i] # {}
    BY <1>1, <1>4, <2>1
  <2>3. QED
    BY <2>1, <2>2, AvailableCovers
<1>7. CASE i = First(s)
  <2>1. f[i - 1] = Before
    <3>1. i - 1 = First(s) - 1 /\ i - 1 \in First(s) - 1 .. N
      BY <1>1, <1>4, <1>7
    <3>2. QED
      BY <3>1 DEF RoundsOf, Rounds
  <2>2. f[i - 1].state_available_at \in Nat
    BY <2>1 DEF Before
  <2>3. /\ f[i].state_available_at \in Nat
        /\ Daily!Available(bs, Depends(s, bs)[i]) <= f[i].state_available_at
    BY <1>5, <1>6, <2>2, LatestOfTwo
  <2>4. ASSUME NEW q \in 1 .. i PROVE bs[q].available_at <= f[i].state_available_at
    <3>1. q \in Depends(s, bs)[i]
      BY <1>4, <1>7, DependFacts
    <3>2. bs[q].available_at \in Nat
      BY <1>1, <1>4
    <3>3. bs[q].available_at <= Daily!Available(bs, Depends(s, bs)[i])
      BY <1>6, <3>1
    <3>4. QED
      BY <1>6, <2>3, <3>2, <3>3
  <2>5. QED
    BY <1>4, <2>3, <2>4
<1>8. CASE i # First(s)
  <2>1. i - 1 \in Nat /\ First(s) <= i - 1 /\ i - 1 <= N /\ i - 1 \notin S
    <3> HIDE DEF Knows
    <3> QED
      BY <1>1, <1>3, <1>4, <1>8
  <2>2. Knows(i - 1)
    <3> HIDE DEF Knows
    <3> QED
      BY <2>1
  <2>3. /\ f[i].state_available_at \in Nat
        /\ f[i - 1].state_available_at <= f[i].state_available_at
        /\ Daily!Available(bs, Depends(s, bs)[i]) <= f[i].state_available_at
    BY <1>5, <1>6, <2>2, LatestOfTwo
  <2>4. ASSUME NEW q \in 1 .. i PROVE bs[q].available_at <= f[i].state_available_at
    <3>1. bs[q].available_at \in Nat
      BY <1>1, <1>4
    <3>2. CASE q = i
      BY <1>6, <2>3, <3>1, <3>2
    <3>3. CASE q # i
      <4>1. q \in 1 .. i - 1
        BY <1>4, <3>3
      <4>2. bs[q].available_at <= f[i - 1].state_available_at
        BY <2>2, <4>1
      <4>3. QED
        BY <2>2, <2>3, <3>1, <4>2
    <3>4. QED
      BY <3>2, <3>3
  <2>5. QED
    BY <1>4, <2>3, <2>4
<1>9. QED
  BY <1>7, <1>8

-----------------------------------------------------------------------------
(* The average strategy *)

SmaDecided(bs, i) == Daily!Available(bs, i - Window + 1 .. i)
SmaLong(bs, i) ==
    Daily!Closes(bs)[i] * Window > Daily!RollingSum(Daily!Closes(bs), Window)[i]
SmaTarget(bs, i) ==
    Daily!TargetPosition(SmaDecided(bs, i), Daily!session_open_at(i + 1), SmaLong(bs, i))

\* What price_above_sma_targets has returned after each bar.
LEMMA SmasTargets ==
    ASSUME Daily!SignalsAssumption, NEW bs \in Seq(DailyBar),
           NEW f, Smas(bs, Window - 1, Len(bs), f), NEW i \in Window .. Len(bs)
    PROVE  /\ f[i].raised \in BOOLEAN
           /\ f[i].raised => f[i].targets = <<>>
           /\ ~f[i].raised =>
                /\ \A k \in Window .. i : /\ ~f[k].raised
                                          /\ ~(SmaDecided(bs, k) >= Daily!session_open_at(k + 1))
                /\ f[i].targets = [n \in 1 .. i - (Window - 1) |-> SmaTarget(bs, Window - 1 + n)]
<1> DEFINE start == Window - 1
           N == Len(bs)
           D == [k \in start .. N |-> SmaDecided(bs, k)]
           L == [k \in start .. N |-> SmaLong(bs, k)]
<1>1. /\ N \in Nat /\ start \in Nat /\ Window \in Nat /\ start + 1 = Window
      /\ start <= N /\ i \in start + 1 .. N /\ i \in start .. N /\ i \in Nat
  BY HistoryFacts DEF Daily!SignalsAssumption
<1> HIDE DEF N
<1>2. f[start] = Daily!Returned(<<>>)
  BY <1>1 DEF Smas, N
<1>3. ASSUME NEW k \in start + 1 .. N
      PROVE  f[k] = Daily!Emit(f[k - 1], SmaDecided(bs, k),
                               Daily!session_open_at(k + 1), SmaLong(bs, k))
  <2>1. k \in start .. N /\ k # start
    BY <1>1
  <2>2. f[k] = SmaStep(f[k - 1], bs, k)
    BY <2>1 DEF Smas, N
  <2>3. QED
    BY <2>2 DEF SmaStep, SmaDecided, SmaLong
<1> HIDE DEF start
<1>4. Emits(f, start, N, D, L)
  <2>1. ASSUME NEW k \in start + 1 .. N
        PROVE  f[k] = Daily!Emit(f[k - 1], D[k], Daily!session_open_at(k + 1), L[k])
    <3>1. k \in start .. N
      BY <1>1
    <3>2. D[k] = SmaDecided(bs, k) /\ L[k] = SmaLong(bs, k)
      BY <3>1
    <3>3. QED
      BY <1>3, <3>2
  <2> HIDE DEF D, L
  <2>2. QED
    BY <1>2, <2>1 DEF Emits
<1>5. Emitted(f, start, i, D, L)
  <2> HIDE DEF D, L
  <2>1. QED
    BY <1>1, <1>4, EmittedUpTo
<1>6. f[i].raised \in BOOLEAN /\ (f[i].raised => f[i].targets = <<>>)
  <2>1. f[i] = Daily!Emit(f[i - 1], SmaDecided(bs, i),
                          Daily!session_open_at(i + 1), SmaLong(bs, i))
    BY <1>1, <1>3
  <2>2. QED
    BY <2>1, EmitShape
<1>7. ASSUME ~f[i].raised, NEW k \in Window .. i
      PROVE  ~f[k].raised /\ ~(SmaDecided(bs, k) >= Daily!session_open_at(k + 1))
  <2>1. k \in start .. i /\ k \in start + 1 .. i /\ k \in start .. N
    BY <1>1
  <2>2. D[k] = SmaDecided(bs, k)
    BY <2>1
  <2> HIDE DEF D, L
  <2>3. QED
    BY <1>5, <1>7, <2>1, <2>2 DEF Emitted
<1>8. ASSUME ~f[i].raised
      PROVE  f[i].targets = [n \in 1 .. i - start |-> SmaTarget(bs, start + n)]
  <2>1. \A n \in 1 .. i - start :
           SmaTarget(bs, start + n) = Daily!TargetPosition(
               D[start + n], Daily!session_open_at(start + n + 1), L[start + n])
    <3>1. TAKE n \in 1 .. i - start
    <3>2. start + n \in start .. N
      BY <1>1
    <3>3. D[start + n] = SmaDecided(bs, start + n) /\ L[start + n] = SmaLong(bs, start + n)
      BY <3>2
    <3> HIDE DEF D, L
    <3>4. QED
      BY <3>3 DEF SmaTarget
  <2> HIDE DEF D, L
  <2>2. f[i].targets =
           [n \in 1 .. i - start |->
              Daily!TargetPosition(D[start + n], Daily!session_open_at(start + n + 1),
                                   L[start + n])]
    BY <1>5, <1>8 DEF Emitted
  <2>3. QED
    BY <2>1, <2>2
<1>9. QED
  BY <1>6, <1>7, <1>8 DEF start

\* As long as two histories are the same, so is what is returned.
LEMMA SameSmasOf ==
    ASSUME Daily!SignalsAssumption, NEW bs, NEW cs, NEW m, SameUpTo(bs, cs, m),
           NEW f, NEW h, Smas(bs, Window - 1, Len(bs), f), Smas(cs, Window - 1, Len(cs), h)
    PROVE  /\ \A i \in Window - 1 .. m : f[i] = h[i]
           /\ \A i \in Window .. m : SmaTarget(bs, i) = SmaTarget(cs, i)
<1> DEFINE start == Window - 1
<1>1. /\ Len(bs) \in Nat /\ Len(cs) \in Nat /\ m \in Nat /\ m <= Len(bs) /\ m <= Len(cs)
      /\ Window \in Nat /\ start \in Nat /\ start + 1 = Window
  BY HistoryFacts DEF SameUpTo, Daily!SignalsAssumption
<1> HIDE DEF start
<1>2. ASSUME NEW i \in Window .. m
      PROVE  SmaDecided(bs, i) = SmaDecided(cs, i) /\ SmaLong(bs, i) = SmaLong(cs, i)
  <2>1. i \in 1 .. m /\ i \in 0 .. m /\ \A u \in i - Window + 1 .. i : u \in 1 .. m
    BY <1>1, HistoryFacts DEF Daily!SignalsAssumption
  <2>2. SmaDecided(bs, i) = SmaDecided(cs, i)
    <3>1. \A u \in i - Window + 1 .. i : bs[u].available_at = cs[u].available_at
      BY <2>1 DEF SameUpTo
    <3>2. QED
      BY <3>1, SameAvailable DEF SmaDecided
  <2>3. Daily!Closes(bs)[i] = Daily!Closes(cs)[i]
    BY <1>1, <2>1, SameFeatures
  <2>4. Daily!RollingSum(Daily!Closes(bs), Window)[i] = Daily!RollingSum(Daily!Closes(cs), Window)[i]
    BY <1>1, <2>1, SameFeatures
  <2>5. QED
    BY <2>2, <2>3, <2>4 DEF SmaLong
<1>3. SameSmas(start, bs, cs, m)
  <2>1. ASSUME NEW p, NEW i \in start + 1 .. m PROVE SmaStep(p, bs, i) = SmaStep(p, cs, i)
    <3>1. SmaDecided(bs, i) = SmaDecided(cs, i) /\ SmaLong(bs, i) = SmaLong(cs, i)
      BY <1>1, <1>2
    <3>2. QED
      BY <3>1 DEF SmaStep, SmaDecided, SmaLong
  <2>2. QED
    BY <2>1 DEF SameSmas
<1>4. \A i \in start .. m : f[i] = h[i]
  <2>1. Smas(bs, start, Len(bs), f) /\ Smas(cs, start, Len(cs), h)
    BY DEF start
  <2>2. QED
    BY <1>1, <1>3, <2>1, SmasAgree
<1>5. \A i \in Window .. m : SmaTarget(bs, i) = SmaTarget(cs, i)
  BY <1>2 DEF SmaTarget
<1>6. QED
  BY <1>4, <1>5 DEF start

\* Values that differ at j at most.
Differ(v, u, j, n) ==
    \A i \in 1 .. n : v[i] \in Int /\ u[i] \in Int /\ (i # j => u[i] = v[i])

\* A rolling sum changes with a value as long as the value is in its window.
LEMMA RollShift ==
    ASSUME NEW n \in Nat, NEW w \in Nat, w >= 1, NEW v, NEW u, NEW j \in 1 .. n,
           Differ(v, u, j, n),
           NEW f, NEW h, Rolls(v, w, n, f), Rolls(u, w, n, h)
    PROVE  \A i \in 0 .. n :
              /\ f[i] \in Int
              /\ h[i] = f[i] + (IF j <= i /\ i < j + w THEN u[j] - v[j] ELSE 0)
<1> USE DEF Differ
<1> DEFINE P(i) == /\ f[i] \in Int
                   /\ h[i] = f[i] + (IF j <= i /\ i < j + w THEN u[j] - v[j] ELSE 0)
           S == {i \in Nat : i <= n /\ ~P(i)}
<1>1. SUFFICES ASSUME S # {} PROVE FALSE
  <2> HIDE DEF P
  <2>1. \A i \in 0 .. n : P(i)
    BY <1>1
  <2>2. QED
    BY <2>1 DEF P
<1>2. PICK i \in S : \A k \in S : i <= k
  <2> S \subseteq Nat
    OBVIOUS
  <2> HIDE DEF S
  <2> QED
    BY <1>1, LeastNumber
<1>3. i \in Nat /\ i <= n /\ ~P(i) /\ j \in Nat /\ j >= 1 /\ j <= n
  BY <1>2
<1>4. CASE i = 0
  <2>1. f[0] = 0 /\ h[0] = 0
    BY DEF Rolls
  <2>2. P(i)
    BY <1>3, <1>4, <2>1
  <2>3. QED
    BY <1>3, <2>2
<1>5. CASE i # 0
  <2>1. P(i - 1)
    <3> HIDE DEF P
    <3>1. i - 1 \in Nat /\ i - 1 <= n /\ i - 1 \notin S
      BY <1>2, <1>3, <1>5
    <3>2. QED
      BY <3>1
  <2>2. i \in 0 .. n /\ i \in 1 .. n
    BY <1>3, <1>5
  <2> DEFINE out(x) == IF i > w THEN x[i - w] ELSE 0
             hit(k) == IF j <= k /\ k < j + w THEN u[j] - v[j] ELSE 0
  <2>3. f[i] = f[i - 1] + v[i] - out(v) /\ h[i] = h[i - 1] + u[i] - out(u)
    BY <1>5, <2>2 DEF Rolls
  <2>4. v[i] \in Int /\ u[i] \in Int /\ v[j] \in Int /\ u[j] \in Int
    BY <2>2
  <2>5. out(v) \in Int /\ out(u) \in Int
    <3>1. i > w => i - w \in 1 .. n
      BY <1>3
    <3>2. QED
      BY <3>1
  <2>6. f[i - 1] \in Int /\ h[i - 1] = f[i - 1] + hit(i - 1)
    BY <2>1
  <2>7. hit(i - 1) + (u[i] - v[i]) - (out(u) - out(v)) = hit(i)
    <3>1. CASE i = j
      <4>1. out(u) = out(v)
        <5>1. i > w => i - w \in 1 .. n /\ i - w # j
          BY <1>3, <3>1
        <5>2. QED
          BY <5>1
      <4>2. hit(i - 1) = 0 /\ hit(i) = u[i] - v[i]
        BY <1>3, <3>1
      <4> HIDE DEF hit, out
      <4>3. QED
        BY <2>4, <2>5, <4>1, <4>2
    <3>2. CASE i = j + w
      <4>1. i > w /\ i - w = j /\ u[i] = v[i]
        BY <1>3, <2>2, <3>2
      <4>2. out(u) = u[j] /\ out(v) = v[j]
        BY <4>1
      <4>3. hit(i - 1) = u[j] - v[j] /\ hit(i) = 0
        BY <1>3, <3>2
      <4> HIDE DEF hit, out
      <4>4. QED
        BY <2>4, <2>5, <4>1, <4>2, <4>3
    <3>3. CASE i # j /\ i # j + w
      <4>1. u[i] = v[i]
        BY <2>2, <3>3
      <4>2. out(u) = out(v)
        <5>1. i > w => i - w \in 1 .. n /\ i - w # j
          BY <1>3, <3>3
        <5>2. QED
          BY <5>1
      <4>3. hit(i - 1) = hit(i) /\ hit(i) \in Int
        BY <1>3, <2>4, <3>3
      <4> HIDE DEF hit, out
      <4>4. QED
        BY <2>4, <2>5, <4>1, <4>2, <4>3
    <3>4. QED
      BY <3>1, <3>2, <3>3
  <2>8. hit(i) \in Int /\ hit(i - 1) \in Int
    BY <2>4
  <2>9. f[i] \in Int /\ h[i] = f[i] + hit(i)
    <3> HIDE DEF hit, out
    <3>1. QED
      BY <2>3, <2>4, <2>5, <2>6, <2>7, <2>8
  <2>10. QED
    BY <1>3, <2>9
<1>6. QED
  BY <1>4, <1>5

-----------------------------------------------------------------------------
(* What a strategy returns *)

\* The bars of the first and of the last target, and how many there are.
Begin(s) == IF s = "sma" THEN Window ELSE First(s)
End(s, bs) == IF s = "sma" THEN Len(bs) - 1 ELSE Len(bs)
Count(s, bs) == IF End(s, bs) < Begin(s) THEN 0 ELSE End(s, bs) - Begin(s) + 1

RoundAt(s, bs, i) == (CHOOSE f : RoundsOf(s, bs, f))[i]
Decided(s, bs, i) ==
    IF s = "sma" THEN SmaDecided(bs, i) ELSE RoundAt(s, bs, i).state_available_at
Target(s, bs, i) ==
    IF s = "sma" THEN SmaTarget(bs, i)
    ELSE Daily!TargetPosition(RoundAt(s, bs, i).state_available_at,
                              Daily!session_open_at(i + 1), RoundAt(s, bs, i).is_long)

LEMMA BeginFacts ==
    ASSUME Daily!SignalsAssumption, NEW s \in Daily!Strategies, NEW bs \in Seq(DailyBar)
    PROVE  /\ Begin(s) \in Nat /\ Begin(s) >= 1 /\ End(s, bs) \in Int /\ End(s, bs) <= Len(bs)
           /\ Count(s, bs) \in Nat /\ Len(bs) \in Nat
           /\ s # "sma" => s \in Loops
           /\ \A n \in 1 .. Count(s, bs) :
                 /\ Begin(s) - 1 + n \in Begin(s) .. End(s, bs)
                 /\ Begin(s) - 1 + n \in 1 .. Len(bs)
<1>1. s # "sma" => s \in Loops
  BY DEF Daily!Strategies, Loops
<1>2. Window \in Nat /\ Window >= 1
  BY DEF Daily!SignalsAssumption
<1>3. Len(bs) \in Nat
  BY HistoryFacts
<1>4. Begin(s) \in Nat /\ Begin(s) >= 1
  BY <1>1, <1>2, FirstFacts DEF Begin
<1>5. End(s, bs) \in Int /\ End(s, bs) <= Len(bs)
  BY <1>3 DEF End
<1>6. Count(s, bs) \in Nat
  BY <1>4, <1>5 DEF Count
<1>7. ASSUME NEW n \in 1 .. Count(s, bs)
      PROVE  /\ Begin(s) - 1 + n \in Begin(s) .. End(s, bs)
             /\ Begin(s) - 1 + n \in 1 .. Len(bs)
  <2>1. n \in Nat /\ n >= 1 /\ n <= End(s, bs) - Begin(s) + 1
    BY <1>4, <1>5 DEF Count
  <2>2. QED
    BY <1>3, <1>4, <1>5, <2>1
<1>8. QED
  BY <1>1, <1>3, <1>4, <1>5, <1>6, <1>7

LEMMA RoundAtRounds ==
    ASSUME Daily!SignalsAssumption, NEW s \in Loops, NEW bs \in Seq(DailyBar),
           Len(bs) >= First(s)
    PROVE  /\ RoundsOf(s, bs, CHOOSE f : RoundsOf(s, bs, f))
           /\ Daily!Call(s, bs) = RoundAt(s, bs, Len(bs)).result
<1>1. PICK f : RoundsOf(s, bs, f) /\ Daily!Call(s, bs) = f[Len(bs)].result
  BY CallReturns
<1>2. RoundsOf(s, bs, CHOOSE g : RoundsOf(s, bs, g))
  BY <1>1
<1>3. f[Len(bs)] = (CHOOSE g : RoundsOf(s, bs, g))[Len(bs)]
  <2>1. Len(bs) \in Nat /\ SameUpTo(bs, bs, Len(bs)) /\ Len(bs) \in First(s) - 1 .. Len(bs)
    BY HistoryFacts, FirstFacts DEF SameUpTo
  <2>2. QED
    BY <1>1, <1>2, <2>1, SameRoundsOf
<1>4. QED
  BY <1>1, <1>2, <1>3 DEF RoundAt

\* A strategy raises, or it returns a target for every bar from the first with
\* all features, each decided before it takes effect.
LEMMA StrategyReturns ==
    ASSUME Daily!SignalsAssumption, NEW s \in Daily!Strategies, NEW bs \in Seq(DailyBar)
    PROVE  /\ Daily!Call(s, bs).raised \in BOOLEAN
           /\ Daily!Call(s, bs).raised =>
                 Daily!Call(s, bs).targets = <<>> /\ Begin(s) <= End(s, bs)
           /\ ~Daily!Call(s, bs).raised =>
                 /\ Daily!Call(s, bs).targets =
                       [n \in 1 .. Count(s, bs) |-> Target(s, bs, Begin(s) - 1 + n)]
                 /\ \A i \in Begin(s) .. End(s, bs) :
                       ~(Decided(s, bs, i) >= Daily!session_open_at(i + 1))
<1>1. /\ Begin(s) \in Nat /\ Begin(s) >= 1 /\ End(s, bs) \in Int /\ End(s, bs) <= Len(bs)
      /\ Len(bs) \in Nat /\ (s # "sma" => s \in Loops)
  BY BeginFacts
<1>2. CASE End(s, bs) < Begin(s)
  <2>1. Daily!Call(s, bs) = Daily!Returned(<<>>)
    <3>1. CASE s = "sma"
      <4>1. Len(bs) - 1 < Window
        BY <1>2, <3>1 DEF End, Begin
      <4>2. Len(bs) <= Window
        BY <1>1, <3>1, <4>1 DEF Begin
      <4>3. QED
        BY <3>1, <4>2 DEF Daily!Call, Daily!SmaTargets
    <3>2. CASE s # "sma"
      BY <1>1, <1>2, <3>2, CallReturns DEF End, Begin
    <3>3. QED
      BY <3>1, <3>2
  <2>2. 1 .. Count(s, bs) = {} /\ Begin(s) .. End(s, bs) = {}
    BY <1>1, <1>2 DEF Count
  <2>3. <<>> = [n \in 1 .. Count(s, bs) |-> Target(s, bs, Begin(s) - 1 + n)]
    BY <2>2
  <2>4. Daily!Call(s, bs).raised = FALSE /\ Daily!Call(s, bs).targets = <<>>
    BY <2>1 DEF Daily!Returned
  <2>5. QED
    BY <2>2, <2>3, <2>4
<1>3. CASE ~(End(s, bs) < Begin(s))
  <2>1. Begin(s) <= End(s, bs) /\ Count(s, bs) = End(s, bs) - (Begin(s) - 1)
    BY <1>1, <1>3 DEF Count
  <2>2. CASE s = "sma"
    <3>1. /\ Begin(s) = Window /\ End(s, bs) = Len(bs) - 1 /\ Len(bs) > Window
          /\ Window \in Nat /\ Window >= 1
      BY <1>1, <1>3, <2>2 DEF Begin, End
    <3>2. PICK f : /\ Smas(bs, Window - 1, Len(bs), f)
                   /\ Daily!SmaTargets(bs) = f[Len(bs) - 1]
      BY <1>1, <3>1, SmaTargetsEmit
    <3>3. Daily!Call(s, bs) = f[End(s, bs)]
      BY <2>2, <3>1, <3>2 DEF Daily!Call
    <3>4. End(s, bs) \in Window .. Len(bs)
      BY <1>1, <3>1
    <3>5. /\ f[End(s, bs)].raised \in BOOLEAN
          /\ f[End(s, bs)].raised => f[End(s, bs)].targets = <<>>
          /\ ~f[End(s, bs)].raised =>
                /\ \A k \in Window .. End(s, bs) :
                      ~(SmaDecided(bs, k) >= Daily!session_open_at(k + 1))
                /\ f[End(s, bs)].targets =
                      [n \in 1 .. End(s, bs) - (Window - 1) |-> SmaTarget(bs, Window - 1 + n)]
      BY <3>2, <3>4, SmasTargets
    <3>6. QED
      BY <2>1, <2>2, <3>1, <3>3, <3>5 DEF Target, Decided
  <2>3. CASE s # "sma"
    <3> DEFINE f == CHOOSE f : RoundsOf(s, bs, f)
               N == End(s, bs)
    <3>1. s \in Loops /\ Begin(s) = First(s) /\ N = Len(bs) /\ Len(bs) >= First(s)
      BY <1>1, <2>1, <2>3 DEF Begin, End
    <3>2. RoundsOf(s, bs, f) /\ Daily!Call(s, bs) = f[N].result
      BY <3>1, RoundAtRounds DEF RoundAt
    <3>3. N \in First(s) .. Len(bs)
      BY <1>1, <2>1, <3>1
    <3>4. \A i : RoundAt(s, bs, i) = f[i]
      BY DEF RoundAt
    <3> HIDE DEF f, N
    <3>5. /\ f[N].result.raised \in BOOLEAN
          /\ f[N].result.raised => f[N].result.targets = <<>>
          /\ ~f[N].result.raised =>
                /\ \A k \in First(s) .. N :
                      ~(f[k].state_available_at >= Daily!session_open_at(k + 1))
                /\ f[N].result.targets =
                      [n \in 1 .. N - (First(s) - 1) |->
                         Daily!TargetPosition(f[First(s) - 1 + n].state_available_at,
                                              Daily!session_open_at(First(s) - 1 + n + 1),
                                              f[First(s) - 1 + n].is_long)]
      BY <3>1, <3>2, <3>3, RoundsTargets
    <3>6. /\ \A i : Decided(s, bs, i) = f[i].state_available_at
          /\ \A i : Target(s, bs, i) = Daily!TargetPosition(f[i].state_available_at,
                                          Daily!session_open_at(i + 1), f[i].is_long)
      BY <2>3, <3>4 DEF Decided, Target
    <3>7. ~f[N].result.raised =>
             f[N].result.targets = [n \in 1 .. N - (First(s) - 1) |-> Target(s, bs, First(s) - 1 + n)]
      BY <3>5, <3>6
    <3>8. ~f[N].result.raised =>
             \A i \in First(s) .. N : ~(Decided(s, bs, i) >= Daily!session_open_at(i + 1))
      BY <3>5, <3>6
    <3>9. N = End(s, bs)
      BY DEF N
    <3>10. QED
      BY <2>1, <3>1, <3>2, <3>5, <3>7, <3>8, <3>9
  <2>4. QED
    BY <2>2, <2>3
<1>4. QED
  BY <1>2, <1>3

\* As long as two histories are the same, so are the targets.
LEMMA SameTargets ==
    ASSUME Daily!SignalsAssumption, NEW s \in Daily!Strategies, NEW bs, NEW cs, NEW m,
           SameUpTo(bs, cs, m), NEW i \in Begin(s) .. m
    PROVE  Target(s, bs, i) = Target(s, cs, i)
<1>1. /\ bs \in Seq(DailyBar) /\ cs \in Seq(DailyBar) /\ Len(bs) \in Nat /\ Len(cs) \in Nat
      /\ m \in Nat /\ m <= Len(bs) /\ m <= Len(cs)
  BY HistoryFacts DEF SameUpTo
<1>2. Begin(s) \in Nat /\ Begin(s) >= 1 /\ (s # "sma" => s \in Loops)
  BY <1>1, BeginFacts
<1>3. CASE s = "sma"
  <2>1. /\ Window \in Nat /\ Window >= 1 /\ Window <= m /\ i \in Window .. m
        /\ Window - 1 \in Nat /\ Window - 1 <= Len(bs) /\ Window - 1 <= Len(cs)
    BY <1>1, <1>2, <1>3 DEF Begin
  <2>2. (\E f : Smas(bs, Window - 1, Len(bs), f)) /\ (\E f : Smas(cs, Window - 1, Len(cs), f))
    BY <1>1, <2>1, SmasExist
  <2>3. PICK f, h : Smas(bs, Window - 1, Len(bs), f) /\ Smas(cs, Window - 1, Len(cs), h)
    BY <2>2
  <2>4. QED
    BY <1>3, <2>1, <2>3, SameSmasOf DEF Target
<1>4. CASE s # "sma"
  <2>1. s \in Loops /\ Begin(s) = First(s)
    BY <1>2, <1>4 DEF Begin
  <2>2. Len(bs) >= First(s) /\ Len(cs) >= First(s) /\ i \in First(s) - 1 .. m
    BY <1>1, <1>2, <2>1
  <2>3. /\ RoundsOf(s, bs, CHOOSE f : RoundsOf(s, bs, f))
        /\ RoundsOf(s, cs, CHOOSE f : RoundsOf(s, cs, f))
    BY <1>1, <2>1, <2>2, RoundAtRounds
  <2>4. RoundAt(s, bs, i) = RoundAt(s, cs, i)
    BY <2>1, <2>2, <2>3, SameRoundsOf DEF RoundAt
  <2>5. QED
    BY <1>4, <2>4 DEF Target
<1>5. QED
  BY <1>3, <1>4

\* A history that was refused stays refused.
LEMMA RaisedStays ==
    ASSUME Daily!SignalsAssumption, NEW s \in Daily!Strategies, NEW bs, NEW cs,
           SameUpTo(bs, cs, Len(bs)), Daily!Call(s, bs).raised
    PROVE  Daily!Call(s, cs).raised
<1>1. /\ bs \in Seq(DailyBar) /\ cs \in Seq(DailyBar) /\ Len(bs) \in Nat /\ Len(cs) \in Nat
      /\ Len(bs) <= Len(cs)
  BY HistoryFacts DEF SameUpTo
<1>2. /\ Begin(s) \in Nat /\ Begin(s) >= 1 /\ (s # "sma" => s \in Loops)
      /\ Begin(s) <= End(s, bs) /\ End(s, bs) \in Int
      /\ Daily!Call(s, cs).raised \in BOOLEAN
  BY <1>1, BeginFacts, StrategyReturns
<1>3. SUFFICES ASSUME ~Daily!Call(s, cs).raised PROVE FALSE
  BY <1>2
<1>4. CASE s = "sma"
  <2>1. /\ Window \in Nat /\ Window >= 1 /\ Len(bs) > Window /\ Len(cs) > Window
        /\ Window <= Len(bs) - 1
    BY <1>1, <1>2, <1>4 DEF Begin, End
  <2>2. PICK f : Smas(bs, Window - 1, Len(bs), f) /\ Daily!SmaTargets(bs) = f[Len(bs) - 1]
    BY <1>1, <2>1, SmaTargetsEmit
  <2>3. PICK h : Smas(cs, Window - 1, Len(cs), h) /\ Daily!SmaTargets(cs) = h[Len(cs) - 1]
    BY <1>1, <2>1, SmaTargetsEmit
  <2>4. f[Len(bs) - 1] = h[Len(bs) - 1]
    <3>1. Len(bs) - 1 \in Window - 1 .. Len(bs)
      BY <1>1, <2>1
    <3>2. QED
      BY <2>2, <2>3, <3>1, SameSmasOf
  <2>5. h[Len(bs) - 1].raised /\ ~h[Len(cs) - 1].raised
    BY <1>3, <1>4, <2>2, <2>3, <2>4 DEF Daily!Call
  <2>6. Len(cs) - 1 \in Window .. Len(cs) /\ Len(bs) - 1 \in Window .. Len(cs) - 1
    BY <1>1, <2>1
  <2>7. ~h[Len(bs) - 1].raised
    BY <1>1, <2>3, <2>5, <2>6, SmasTargets
  <2>8. QED
    BY <2>5, <2>7
<1>5. CASE s # "sma"
  <2>1. s \in Loops /\ Len(bs) >= First(s) /\ First(s) \in Nat
    BY <1>1, <1>2, <1>5 DEF Begin, End
  <2>2. Len(cs) >= First(s)
    BY <1>1, <2>1
  <2>3. PICK f : RoundsOf(s, bs, f) /\ Daily!Call(s, bs) = f[Len(bs)].result
    BY <1>1, <2>1, CallReturns
  <2>4. PICK h : RoundsOf(s, cs, h) /\ Daily!Call(s, cs) = h[Len(cs)].result
    BY <1>1, <2>1, <2>2, CallReturns
  <2>5. f[Len(bs)] = h[Len(bs)]
    <3>1. Len(bs) \in First(s) - 1 .. Len(bs)
      BY <1>1, <2>1
    <3>2. QED
      BY <2>1, <2>3, <2>4, <3>1, SameRoundsOf
  <2>6. h[Len(bs)].result.raised /\ ~h[Len(cs)].result.raised
    BY <1>3, <2>3, <2>4, <2>5
  <2>7. Len(cs) \in First(s) .. Len(cs) /\ Len(bs) \in First(s) .. Len(cs)
    BY <1>1, <2>1, <2>2
  <2>8. ~h[Len(bs)].result.raised
    BY <1>1, <2>1, <2>4, <2>6, <2>7, RoundsTargets
  <2>9. QED
    BY <2>6, <2>8
<1>6. QED
  BY <1>4, <1>5

-----------------------------------------------------------------------------
(* What holds of the targets *)

\* What is returned after has what was returned before, and maybe more.
Keeps(before, after) ==
    /\ before.raised => after.raised
    /\ ~after.raised =>
         /\ Len(before.targets) <= Len(after.targets)
         /\ \A n \in DOMAIN before.targets : before.targets[n] = after.targets[n]

\* One more session keeps the targets before it.
LEMMA AppendKeeps ==
    ASSUME Daily!SignalsAssumption, NEW s \in Daily!Strategies,
           NEW bs \in Seq(DailyBar), NEW b \in DailyBar, NEW cs, cs = Append(bs, b)
    PROVE  Keeps(Daily!Call(s, bs), Daily!Call(s, cs))
<1>1. /\ cs \in Seq(DailyBar) /\ Len(bs) \in Nat /\ Len(cs) = Len(bs) + 1
      /\ \A i \in 1 .. Len(bs) : cs[i] = bs[i]
  BY HistoryFacts, AppendProperties
<1>2. SameUpTo(bs, cs, Len(bs))
  BY <1>1 DEF SameUpTo
<1>3. Daily!Call(s, bs).raised => Daily!Call(s, cs).raised
  BY <1>2, RaisedStays
<1>4. ASSUME ~Daily!Call(s, cs).raised
      PROVE  /\ Len(Daily!Call(s, bs).targets) <= Len(Daily!Call(s, cs).targets)
             /\ \A n \in DOMAIN Daily!Call(s, bs).targets :
                   Daily!Call(s, bs).targets[n] = Daily!Call(s, cs).targets[n]
  <2> DEFINE before == Daily!Call(s, bs).targets
             after == Daily!Call(s, cs).targets
  <2>1. /\ before = [n \in 1 .. Count(s, bs) |-> Target(s, bs, Begin(s) - 1 + n)]
        /\ after = [n \in 1 .. Count(s, cs) |-> Target(s, cs, Begin(s) - 1 + n)]
    BY <1>1, <1>3, <1>4, StrategyReturns
  <2>2. Count(s, bs) \in Nat /\ Count(s, cs) \in Nat /\ Count(s, bs) <= Count(s, cs)
    <3>1. /\ Count(s, bs) \in Nat /\ Count(s, cs) \in Nat /\ Begin(s) \in Nat
          /\ End(s, bs) \in Int /\ End(s, cs) \in Int
      BY <1>1, BeginFacts
    <3>2. End(s, bs) <= End(s, cs)
      BY <1>1 DEF End
    <3>3. QED
      BY <3>1, <3>2 DEF Count
  <2>3. ASSUME NEW n \in 1 .. Count(s, bs)
        PROVE  Target(s, bs, Begin(s) - 1 + n) = Target(s, cs, Begin(s) - 1 + n)
    <3>1. Begin(s) - 1 + n \in Begin(s) .. Len(bs)
      BY BeginFacts
    <3>2. QED
      BY <1>2, <3>1, SameTargets
  <2> HIDE DEF before, after
  <2>4. Len(before) = Count(s, bs) /\ Len(after) = Count(s, cs)
    BY <2>1, <2>2
  <2>5. DOMAIN before = 1 .. Count(s, bs)
    BY <2>1
  <2>6. ASSUME NEW n \in 1 .. Count(s, bs) PROVE before[n] = after[n]
    <3>1. n \in 1 .. Count(s, cs)
      BY <2>2
    <3>2. QED
      BY <2>1, <2>3, <3>1
  <2>7. QED
    BY <2>2, <2>4, <2>5, <2>6 DEF before, after
<1>5. QED
  BY <1>3, <1>4 DEF Keeps

\* A history in which bar j held something else, available at the same time.
Changed(bs, j, k) == [bs EXCEPT ![j].kind = k]
ChangesOnly(bs, cs, j) ==
    /\ cs \in Seq(DailyBar) /\ Len(cs) = Len(bs) /\ DOMAIN cs = 1 .. Len(bs)
    /\ \A q \in 1 .. Len(bs) : q # j => cs[q] = bs[q]
    /\ \A q \in 1 .. Len(bs) : cs[q].available_at = bs[q].available_at

LEMMA ChangedKind ==
    ASSUME NEW bs \in Seq(DailyBar), NEW j \in 1 .. Len(bs), NEW k \in Kinds,
           NEW cs, cs = Changed(bs, j, k)
    PROVE  ChangesOnly(bs, cs, j)
<1>1. /\ Len(bs) \in Nat /\ DOMAIN bs = 1 .. Len(bs)
      /\ \A q \in 1 .. Len(bs) : bs[q] \in DailyBar /\ bs[q].available_at \in Nat
  BY HistoryFacts
<1>2. \A q \in 1 .. Len(bs) : cs[q] = IF q = j THEN [bs[j] EXCEPT !.kind = k] ELSE bs[q]
  BY <1>1 DEF Changed
<1>3. [bs[j] EXCEPT !.kind = k] = [kind |-> k, available_at |-> bs[j].available_at]
  BY <1>1 DEF DailyBar
<1>4. [bs[j] EXCEPT !.kind = k] \in DailyBar
  BY <1>1, <1>3 DEF DailyBar
<1>5. \A q \in 1 .. Len(bs) : cs[q] \in DailyBar
  BY <1>1, <1>2, <1>4
<1>6. DOMAIN cs = 1 .. Len(bs) /\ cs = [q \in 1 .. Len(bs) |-> cs[q]]
  BY <1>1 DEF Changed
<1>7. cs \in [1 .. Len(bs) -> DailyBar]
  BY <1>5, <1>6
<1>8. cs \in Seq(DailyBar) /\ Len(cs) = Len(bs)
  BY <1>1, <1>7
<1>9. QED
  BY <1>2, <1>3, <1>6, <1>8 DEF ChangesOnly

\* A strategy decides at a time of day.
LEMMA DecidedNumber ==
    ASSUME Daily!SignalsAssumption, NEW s \in Daily!Strategies, NEW bs \in Seq(DailyBar),
           NEW i \in Begin(s) .. Len(bs)
    PROVE  Decided(s, bs, i) \in Nat
<1>1. /\ Begin(s) \in Nat /\ Begin(s) >= 1 /\ Len(bs) \in Nat
      /\ (s # "sma" => s \in Loops)
  BY BeginFacts
<1>2. CASE s = "sma"
  <2>1. Window \in Nat /\ Window >= 1 /\ i \in Window .. Len(bs)
    BY <1>1, <1>2 DEF Begin
  <2>2. i \in i - Window + 1 .. i /\ i - Window + 1 .. i \subseteq 1 .. Len(bs)
    BY <1>1, <2>1
  <2>3. Daily!Available(bs, i - Window + 1 .. i) \in Nat
    BY <2>2, AvailableCovers
  <2>4. QED
    BY <1>2, <2>3 DEF Decided, SmaDecided
<1>3. CASE s # "sma"
  <2>1. /\ s \in Loops /\ i \in First(s) .. Len(bs) /\ Len(bs) >= First(s)
    BY <1>1, <1>3 DEF Begin
  <2>2. QED
    BY <1>3, <2>1, RoundAtRounds, RoundsKnow DEF Decided, RoundAt
<1>4. QED
  BY <1>2, <1>3

\* What a bar holds matters to the targets that wait for it, and to no others.
LEMMA TargetIgnores ==
    ASSUME Daily!SignalsAssumption, NEW s \in Daily!Strategies,
           NEW bs \in Seq(DailyBar), NEW j \in 1 .. Len(bs), NEW k \in Kinds,
           NEW cs, cs = Changed(bs, j, k),
           NEW i \in Begin(s) .. Len(bs), Decided(s, bs, i) < bs[j].available_at
    PROVE  Target(s, cs, i) = Target(s, bs, i)
<1>1. /\ Len(bs) \in Nat /\ DOMAIN bs = 1 .. Len(bs)
      /\ \A q \in 1 .. Len(bs) : /\ bs[q] \in DailyBar /\ bs[q].kind \in Kinds
                                 /\ bs[q].available_at \in Nat
      /\ Begin(s) \in Nat /\ Begin(s) >= 1 /\ i \in 1 .. Len(bs)
      /\ (s # "sma" => s \in Loops)
  <2>1. /\ Len(bs) \in Nat /\ DOMAIN bs = 1 .. Len(bs)
        /\ \A q \in 1 .. Len(bs) : /\ bs[q] \in DailyBar /\ bs[q].kind \in Kinds
                                   /\ bs[q].available_at \in Nat
    BY HistoryFacts
  <2>2. Begin(s) \in Nat /\ Begin(s) >= 1 /\ (s # "sma" => s \in Loops)
    BY BeginFacts
  <2>3. i \in 1 .. Len(bs)
    BY <2>1, <2>2
  <2>4. QED
    BY <2>1, <2>2, <2>3
<1>2. /\ cs \in Seq(DailyBar) /\ Len(cs) = Len(bs) /\ DOMAIN cs = 1 .. Len(bs)
      /\ \A q \in 1 .. Len(bs) : q # j => cs[q] = bs[q]
      /\ \A q \in 1 .. Len(bs) : cs[q].available_at = bs[q].available_at
  <2>1. ChangesOnly(bs, cs, j)
    BY ChangedKind, Zenon
  <2>2. QED
    BY <2>1 DEF ChangesOnly
<1>3. CASE s # "sma"
  <2> DEFINE f == CHOOSE f : RoundsOf(s, bs, f)
  <2>1. /\ s \in Loops /\ Begin(s) = First(s) /\ i \in First(s) .. Len(bs)
        /\ Len(bs) >= First(s)
    BY <1>1, <1>3 DEF Begin
  <2>2. RoundsOf(s, bs, f) /\ Decided(s, bs, i) = f[i].state_available_at
    BY <1>3, <2>1, RoundAtRounds DEF Decided, RoundAt
  <2> HIDE DEF f
  <2>3. /\ f[i].state_available_at \in Nat
        /\ \A q \in 1 .. i : bs[q].available_at <= f[i].state_available_at
    BY <2>1, <2>2, RoundsKnow
  <2>4. j \notin 1 .. i
    BY <1>1, <2>2, <2>3
  <2>5. SameUpTo(bs, cs, i)
    BY <1>1, <1>2, <2>4 DEF SameUpTo
  <2>6. i \in Begin(s) .. i
    BY <1>1
  <2>7. QED
    BY <2>5, <2>6, SameTargets
<1>4. CASE s = "sma"
  <2> DEFINE S == i - Window + 1 .. i
             v == Daily!Closes(bs)
             u == Daily!Closes(cs)
  <2>1. /\ Window \in Nat /\ Window >= 1 /\ i \in Nat /\ i >= Window
        /\ S \subseteq 1 .. Len(bs) /\ i \in S /\ S # {}
    <3>1. Window \in Nat /\ Window >= 1 /\ i \in Window .. Len(bs)
      BY <1>1, <1>4 DEF Begin
    <3>2. i \in Nat /\ i >= Window /\ i <= Len(bs)
      BY <1>1, <3>1
    <3>3. \A q \in S : q \in 1 .. Len(bs)
      BY <1>1, <3>1, <3>2
    <3>4. i \in S
      BY <3>1, <3>2
    <3>5. QED
      BY <3>1, <3>2, <3>3, <3>4
  <2>2. /\ SmaDecided(bs, i) \in Nat
        /\ \A q \in S : bs[q].available_at <= SmaDecided(bs, i)
    BY <2>1, AvailableCovers DEF SmaDecided
  <2>3. j \notin S
    BY <1>1, <1>4, <2>2 DEF Decided
  <2>4. SmaDecided(cs, i) = SmaDecided(bs, i)
    <3>1. \A q \in i - Window + 1 .. i : cs[q].available_at = bs[q].available_at
      BY <1>2, <2>1
    <3>2. QED
      BY <3>1, SameAvailable DEF SmaDecided
  <2>5. /\ Len(v) = Len(bs) /\ Len(u) = Len(bs)
        /\ \A q \in 1 .. Len(bs) : v[q] = bs[q].kind.close /\ u[q] = cs[q].kind.close
    BY <1>1, <1>2 DEF Daily!Closes
  <2> HIDE DEF v, u
  <2>6. \A q \in 1 .. Len(bs) : v[q] \in Int /\ u[q] \in Int
    <3>1. \A c \in Kinds : c.close \in Int
      BY DEF Daily!SignalsAssumption
    <3>2. \A q \in 1 .. Len(bs) : bs[q].kind \in Kinds /\ cs[q].kind \in Kinds
      BY <1>1, <1>2, HistoryFacts
    <3>3. QED
      BY <2>5, <3>1, <3>2
  <2>7. \A q \in 1 .. Len(bs) : q # j => u[q] = v[q]
    BY <1>2, <2>5
  <2>8. /\ Rolls(v, Window, Len(bs), Daily!RollingSum(v, Window))
        /\ Rolls(u, Window, Len(bs), Daily!RollingSum(u, Window))
    BY <1>1, <2>5, RollingSumRolls
  <2>9. Daily!RollingSum(u, Window)[i] = Daily!RollingSum(v, Window)[i]
    <3>1. \A q \in 0 .. Len(bs) :
             /\ Daily!RollingSum(v, Window)[q] \in Int
             /\ Daily!RollingSum(u, Window)[q]
                   = Daily!RollingSum(v, Window)[q]
                       + (IF j <= q /\ q < j + Window THEN u[j] - v[j] ELSE 0)
      <4> DEFINE N == Len(bs)
                 f == Daily!RollingSum(v, Window)
                 h == Daily!RollingSum(u, Window)
      <4>1. N \in Nat /\ j \in 1 .. N /\ Window \in Nat /\ Window >= 1
        BY <1>1, <2>1
      <4>2. /\ \A q \in 1 .. N : v[q] \in Int /\ u[q] \in Int
            /\ \A q \in 1 .. N : q # j => u[q] = v[q]
            /\ Rolls(v, Window, N, f) /\ Rolls(u, Window, N, h)
        BY <2>6, <2>7, <2>8
      <4>5. Differ(v, u, j, N)
        BY <4>2 DEF Differ
      <4> HIDE DEF N, f, h
      <4>3. \A q \in 0 .. N :
               /\ f[q] \in Int
               /\ h[q] = f[q] + (IF j <= q /\ q < j + Window THEN u[j] - v[j] ELSE 0)
        BY <4>1, <4>2, <4>5, RollShift
      <4>4. QED
        BY <4>3 DEF N, f, h
    <3>2. ~(j <= i /\ i < j + Window) /\ i \in 0 .. Len(bs)
      BY <1>1, <2>1, <2>3
    <3>3. QED
      BY <3>1, <3>2
  <2>10. u[i] = v[i]
    <3>1. i # j
      BY <2>1, <2>3
    <3>2. QED
      BY <1>1, <2>7, <3>1
  <2>11. SmaLong(cs, i) = SmaLong(bs, i)
    BY <2>9, <2>10 DEF SmaLong, v, u
  <2>12. QED
    BY <1>4, <2>4, <2>11 DEF Target, SmaTarget
<1>5. QED
  BY <1>3, <1>4

\* The history is a bar per session.
History ==
    /\ history \in Seq(DailyBar) /\ Len(history) <= DailyMaxBars
    /\ \A i \in 1 .. Len(history) :
          \E k \in Kinds, delay \in DailyDelays : history[i] = Daily!BarOf(i, k, delay)

LEMMA HistoryGrows ==
    ASSUME Daily!SignalsAssumption, History, Daily!Next
    PROVE  /\ History'
           /\ \E b \in DailyBar : history' = Append(history, b)
<1>1. PICK k \in Kinds, delay \in DailyDelays : Daily!CloseSession(k, delay)
  BY DEF Daily!Next
<1> DEFINE N == Len(history)
           b == Daily!BarOf(N + 1, k, delay)
<1>2. /\ history \in Seq(DailyBar) /\ N \in Nat /\ N < DailyMaxBars /\ DailyMaxBars \in Nat
      /\ history' = Append(history, b)
  BY <1>1, HistoryFacts DEF History, Daily!CloseSession, Daily!SignalsAssumption
<1>3. b \in DailyBar
  <2>1. delay \in Nat
    BY DEF Daily!SignalsAssumption
  <2>2. 4 * (N + 1) + 2 + delay \in Nat
    BY <1>2, <2>1
  <2>3. QED
    BY <2>2 DEF Daily!BarOf, Daily!session_close_at, DailyBar
<1>4. /\ history' \in Seq(DailyBar) /\ Len(history') = N + 1
      /\ \A i \in 1 .. N : history'[i] = history[i]
      /\ history'[N + 1] = b
  <2> HIDE DEF b, N
  <2>1. QED
    BY <1>2, <1>3, AppendProperties DEF N
<1>5. ASSUME NEW i \in 1 .. Len(history')
      PROVE  \E l \in Kinds, d \in DailyDelays : history'[i] = Daily!BarOf(i, l, d)
  <2>1. CASE i = N + 1
    BY <1>4, <2>1
  <2>2. CASE i # N + 1
    <3>1. i \in 1 .. N
      BY <1>2, <1>4, <2>2
    <3>2. QED
      BY <1>4, <3>1 DEF History
  <2>3. QED
    BY <2>1, <2>2
<1>6. History'
  BY <1>2, <1>4, <1>5 DEF History
<1>7. QED
  BY <1>2, <1>3, <1>6

LEMMA HistoryHolds ==
    ASSUME Daily!SignalsAssumption PROVE Daily!Spec => []History
<1>1. Daily!Init => History
  <2>1. SUFFICES ASSUME Daily!Init PROVE History
    OBVIOUS
  <2>2. history = <<>>
    BY <2>1 DEF Daily!Init
  <2>3. history \in Seq(DailyBar) /\ Len(history) = 0 /\ 1 .. Len(history) = {}
    BY <2>2
  <2>4. QED
    BY <2>3 DEF History, Daily!SignalsAssumption
<1>2. History /\ [Daily!Next]_history => History'
  <2>1. CASE Daily!Next
    BY <2>1, HistoryGrows
  <2>2. CASE UNCHANGED history
    BY <2>2 DEF History
  <2>3. QED
    BY <2>1, <2>2
<1>3. QED
  BY <1>1, <1>2, PTL DEF Daily!Spec

\* What the strategies returned is well-formed and was decided before it takes
\* effect (the loops of trend.py, rsi_pullback.py and donchian.py).
THEOREM DecidedInTime ==
    ASSUME Daily!SignalsAssumption PROVE Daily!Spec => []Daily!DailyOK
<1>1. History => Daily!DailyOK
  <2>1. SUFFICES ASSUME History PROVE Daily!DailyOK
    OBVIOUS
  <2>2. /\ history \in Seq(DailyBar) /\ DOMAIN history = 1 .. Len(history)
        /\ Len(history) \in Nat
    BY <2>1, HistoryFacts DEF History
  <2>3. ASSUME NEW s \in Daily!Strategies
        PROVE  /\ Daily!Call(s, history).raised \in BOOLEAN
               /\ \A n \in DOMAIN Daily!Call(s, history).targets :
                     /\ Daily!Call(s, history).targets[n].weight \in {0, 1}
                     /\ Daily!Call(s, history).targets[n].decision_at
                           < Daily!Call(s, history).targets[n].effective_at
    <3> DEFINE r == Daily!Call(s, history)
    <3>1. r.raised \in BOOLEAN
      BY <2>2, StrategyReturns
    <3>2. CASE r.raised
      <4>1. r.targets = <<>>
        BY <2>2, <3>2, StrategyReturns
      <4>2. DOMAIN r.targets = {}
        BY <4>1
      <4> HIDE DEF r
      <4>3. QED
        BY <3>1, <4>2 DEF r
    <3>3. CASE ~r.raised
      <4>1. /\ r.targets = [n \in 1 .. Count(s, history) |-> Target(s, history, Begin(s) - 1 + n)]
            /\ \A i \in Begin(s) .. End(s, history) :
                  ~(Decided(s, history, i) >= Daily!session_open_at(i + 1))
        BY <2>2, <3>3, StrategyReturns
      <4> HIDE DEF r
      <4>2. ASSUME NEW n \in 1 .. Count(s, history)
            PROVE  /\ r.targets[n].weight \in {0, 1}
                   /\ r.targets[n].decision_at < r.targets[n].effective_at
        <5> DEFINE i == Begin(s) - 1 + n
        <5>1. i \in Begin(s) .. End(s, history) /\ i \in 1 .. Len(history)
              /\ Begin(s) \in Nat /\ Begin(s) >= 1
          BY <2>2, BeginFacts
        <5> HIDE DEF i
        <5>2. r.targets[n] = Target(s, history, i)
          BY <4>1 DEF i
        <5>3. /\ Target(s, history, i).weight \in {0, 1}
              /\ Target(s, history, i).decision_at = Decided(s, history, i)
              /\ Target(s, history, i).effective_at = Daily!session_open_at(i + 1)
          <6>1. CASE s = "sma"
            BY <6>1 DEF Target, SmaTarget, Decided, Daily!TargetPosition
          <6>2. CASE s # "sma"
            BY <6>2 DEF Target, Decided, Daily!TargetPosition
          <6>3. QED
            BY <6>1, <6>2
        <5>4. Decided(s, history, i) \in Nat
          BY <2>2, <5>1, DecidedNumber
        <5>5. Daily!session_open_at(i + 1) \in Nat
          BY <2>2, <5>1 DEF Daily!session_open_at
        <5>6. QED
          BY <4>1, <5>1, <5>2, <5>3, <5>4, <5>5
      <4>3. DOMAIN r.targets = 1 .. Count(s, history)
        BY <4>1
      <4>4. QED
        BY <3>1, <4>2, <4>3 DEF r
    <3>4. QED
      BY <3>1, <3>2, <3>3
  <2>4. QED
    BY <2>1, <2>2, <2>3 DEF Daily!DailyOK, History
<1>2. QED
  BY <1>1, HistoryHolds, PTL

\* Whatever a bar holds that was not yet available when a target was decided,
\* the target is the same (the state_available_at of rsi_pullback.py and
\* donchian.py, the window of trend.py).
THEOREM NothingFromTheFuture ==
    ASSUME Daily!SignalsAssumption PROVE Daily!Spec => []Daily!TargetsAreCausal
<1>1. History => Daily!TargetsAreCausal
  <2>1. SUFFICES ASSUME History, NEW s \in Daily!Strategies, NEW j \in DOMAIN history,
                        NEW k \in Kinds, NEW cs, cs = Changed(history, j, k),
                        ~Daily!Call(s, history).raised, ~Daily!Call(s, cs).raised,
                        NEW n \in DOMAIN Daily!Call(s, history).targets,
                        Daily!Call(s, history).targets[n].decision_at
                           < history[j].available_at
                 PROVE  Daily!Call(s, cs).targets[n] = Daily!Call(s, history).targets[n]
    BY DEF Daily!TargetsAreCausal, Changed
  <2>2. /\ history \in Seq(DailyBar) /\ DOMAIN history = 1 .. Len(history)
        /\ Len(history) \in Nat
    BY <2>1, HistoryFacts DEF History
  <2>3. cs \in Seq(DailyBar) /\ Len(cs) = Len(history)
    BY <2>1, <2>2, ChangedKind DEF ChangesOnly
  <2>4. /\ Daily!Call(s, history).targets
              = [m \in 1 .. Count(s, history) |-> Target(s, history, Begin(s) - 1 + m)]
        /\ Daily!Call(s, cs).targets
              = [m \in 1 .. Count(s, cs) |-> Target(s, cs, Begin(s) - 1 + m)]
        /\ Count(s, cs) = Count(s, history)
    BY <2>1, <2>2, <2>3, StrategyReturns DEF Count, End
  <2> DEFINE i == Begin(s) - 1 + n
  <2>5. n \in 1 .. Count(s, history) /\ i \in Begin(s) .. Len(history)
    <3>1. n \in 1 .. Count(s, history)
      BY <2>1, <2>4
    <3>2. QED
      BY <2>2, <3>1, BeginFacts
  <2> HIDE DEF i
  <2>6. /\ Daily!Call(s, history).targets[n] = Target(s, history, i)
        /\ Daily!Call(s, cs).targets[n] = Target(s, cs, i)
    BY <2>4, <2>5 DEF i
  <2>7. Decided(s, history, i) = Target(s, history, i).decision_at
    <3>1. CASE s = "sma"
      BY <3>1 DEF Target, SmaTarget, Decided, Daily!TargetPosition
    <3>2. CASE s # "sma"
      BY <3>2 DEF Target, Decided, Daily!TargetPosition
    <3>3. QED
      BY <3>1, <3>2
  <2>8. Decided(s, history, i) < history[j].available_at
    BY <2>1, <2>6, <2>7
  <2>9. QED
    BY <2>1, <2>2, <2>5, <2>6, <2>8, TargetIgnores
<1>2. QED
  BY <1>1, HistoryHolds, PTL

\* A further session adds targets and changes none, so that a backtest holds
\* what was decided live (the loops of the three strategies).
THEOREM NoRepaint ==
    ASSUME Daily!SignalsAssumption PROVE Daily!Spec => Daily!NeverRepaints
<1>1. History /\ [Daily!Next]_history => [Daily!TargetsStay]_history
  <2> SUFFICES ASSUME History, [Daily!Next]_history PROVE [Daily!TargetsStay]_history
    OBVIOUS
  <2>1. CASE Daily!Next
    <3>1. PICK b \in DailyBar : history' = Append(history, b)
      BY <2>1, HistoryGrows
    <3>2. history \in Seq(DailyBar)
      BY DEF History
    <3>3. ASSUME NEW s \in Daily!Strategies
          PROVE  Keeps(Daily!Call(s, history), Daily!Call(s, history'))
      BY <3>1, <3>2, AppendKeeps
    <3>4. Daily!TargetsStay
      BY <3>3 DEF Daily!TargetsStay, Keeps
    <3>5. QED
      BY <3>4
  <2>2. CASE UNCHANGED history
    BY <2>2
  <2>3. QED
    BY <2>1, <2>2
<1>2. QED
  BY <1>1, HistoryHolds, PTL DEF Daily!Spec, Daily!NeverRepaints

-----------------------------------------------------------------------------
(* Both worlds *)

\* In either world the other does as it may: nothing.
LEMMA WorldsApart == WorldsSpec => Spec /\ Daily!Spec
<1>1. WorldsInit => Init /\ Daily!Init
  BY DEF WorldsInit
<1>2. [WorldsNext]_<<vars, world, history>> => [Next]_vars /\ [Daily!Next]_history
  BY DEF WorldsNext
<1>3. QED
  BY <1>1, <1>2, PTL DEF WorldsSpec, Spec, Daily!Spec

\* Every target was decided before it takes effect, a bar is well-formed, and
\* no target on daily bars uses what was unknown when it was decided (all
\* strategies; the validators of TargetPosition and DerivedPeriodBar).
THEOREM CausalTheorem == WorldsSpec => []TargetsAreCausal
<1>1. Spec => []PeriodsOK
  BY ValidatorsPass
<1>2. Daily!Spec => []Daily!DailyOK
  BY DailyAssumption, DecidedInTime
<1>3. Daily!Spec => []Daily!TargetsAreCausal
  BY DailyAssumption, NothingFromTheFuture
<1>4. QED
  BY <1>1, <1>2, <1>3, WorldsApart, PTL DEF TargetsAreCausal

\* A further session adds targets and changes none, so that a backtest holds
\* what was decided live (the loops of the three strategies on daily bars).
THEOREM NoRepaintTheorem == WorldsSpec => NeverRepaints
<1>1. Daily!Spec => Daily!NeverRepaints
  BY DailyAssumption, NoRepaint
<1>2. QED
  BY <1>1, WorldsApart, PTL DEF NeverRepaints

-----------------------------------------------------------------------------
(* Sums and powers *)

\* From a first value, each value gives the next.
Iterates(start, end, B, H, f) ==
    f[start] = B /\ \A j \in start + 1 .. end : f[j] = H[<<j, f[j - 1]>>]

LEMMA IterationExists ==
    ASSUME NEW start \in Int, NEW n \in Nat, NEW T, NEW B \in T, NEW H \in [Int \X T -> T]
    PROVE  \E f \in [start .. start + n -> T] : Iterates(start, start + n, B, H, f)
<1> USE DEF Iterates
<1> DEFINE To(m, f) == /\ f \in [start .. start + m -> T]
                       /\ f[start] = B
                       /\ \A j \in start + 1 .. start + m : f[j] = H[<<j, f[j - 1]>>]
           S == {m \in Nat : ~ \E f : To(m, f)}
<1>1. SUFFICES ASSUME S # {} PROVE FALSE
  <2>1. \E f : To(n, f)
    <3> HIDE DEF To
    <3> QED
      BY <1>1
  <2>2. QED
    BY <2>1
<1>2. PICK m \in S : \A k \in S : m <= k
  <2> S \subseteq Nat
    OBVIOUS
  <2> HIDE DEF S
  <2> QED
    BY <1>1, LeastNumber
<1>3. CASE m = 0
  <2> DEFINE f == [j \in start .. start + 0 |-> B]
  <2>1. start .. start + 0 = {start} /\ start + 1 .. start + 0 = {}
    OBVIOUS
  <2>2. To(0, f)
    BY <2>1
  <2>3. QED
    BY <1>2, <1>3, <2>2
<1>4. CASE m # 0
  <2>1. m - 1 \in Nat /\ m - 1 \notin S /\ start + (m - 1) = (start + m) - 1 /\ start + m \in Int
    <3>1. m \in Nat
      BY <1>2
    <3> HIDE DEF S
    <3> QED
      BY <1>2, <1>4, <3>1
  <2>2. PICK f : To(m - 1, f)
    BY <2>1
  <2> DEFINE z == start + m
             h == [j \in start .. z |-> IF j = z THEN H[<<z, f[z - 1]>>] ELSE f[j]]
  <2>3. z \in Int /\ z - 1 \in start .. z - 1 /\ f \in [start .. z - 1 -> T] /\ start < z
    BY <1>2, <1>4, <2>1, <2>2
  <2>4. H[<<z, f[z - 1]>>] \in T
    BY <2>3
  <2>5. \A j \in start .. z : j # z => j \in start .. z - 1
    BY <2>3
  <2>6. h \in [start .. z -> T]
    BY <2>3, <2>4, <2>5
  <2>7. h[start] = B
    BY <2>2, <2>3
  <2>8. ASSUME NEW j \in start + 1 .. z PROVE h[j] = H[<<j, h[j - 1]>>]
    <3>1. j \in start .. z /\ j - 1 \in start .. z /\ j - 1 # z /\ j - 1 \in start .. z - 1
      BY <2>3
    <3>2. h[j - 1] = f[j - 1]
      BY <3>1
    <3>3. h[j] = H[<<j, f[j - 1]>>]
      <4>1. CASE j = z
        BY <3>1, <4>1
      <4>2. CASE j # z
        <5>1. j \in start + 1 .. start + (m - 1)
          BY <1>2, <2>1, <4>2
        <5>2. f[j] = H[<<j, f[j - 1]>>]
          BY <2>2, <5>1
        <5>3. QED
          BY <3>1, <4>2, <5>2
      <4>3. QED
        BY <4>1, <4>2
    <3> HIDE DEF h
    <3>4. QED
      BY <3>2, <3>3
  <2>9. To(m, h)
    <3> HIDE DEF h
    <3> QED
      BY <2>6, <2>7, <2>8
  <2> HIDE DEF h
  <2>10. QED
    BY <1>2, <2>9
<1>5. QED
  BY <1>3, <1>4

\* s is the sums of v, from a up to each of a - 1 .. b.
Sums(v, a, b, s) ==
    s = [j \in a - 1 .. b |-> IF j < a THEN 0 ELSE s[j - 1] + v[j]]

LEMMA SumsExist ==
    ASSUME NEW a \in Int, NEW b \in Int, a - 1 <= b, NEW v, \A j \in a .. b : v[j] \in Int
    PROVE  \E s \in [a - 1 .. b -> Int] : Sums(v, a, b, s)
<1> DEFINE n == b - (a - 1)
           H == [p \in Int \X Int |-> IF p[1] \in a .. b THEN p[2] + v[p[1]] ELSE 0]
           start == a - 1
           none == 0
<1>1. start \in Int /\ n \in Nat /\ start + n = b /\ start + 1 = a /\ none \in Int
  OBVIOUS
<1>2. H \in [Int \X Int -> Int]
  OBVIOUS
<1>3. \A j \in a .. b, x \in Int : H[<<j, x>>] = x + v[j]
  OBVIOUS
<1> HIDE DEF H, n, start, none
<1>4. PICK s \in [start .. start + n -> Int] : Iterates(start, start + n, none, H, s)
  BY <1>1, <1>2, IterationExists, ZenonT(30)
<1> USE DEF start, none, Iterates
<1>5. s \in [a - 1 .. b -> Int]
  BY <1>1
<1>6. ASSUME NEW j \in a .. b PROVE s[j] = s[j - 1] + v[j]
  <2>1. j - 1 \in a - 1 .. b
    OBVIOUS
  <2>2. s[j - 1] \in Int
    BY <1>5, <2>1
  <2>3. s[j] = H[<<j, s[j - 1]>>]
    BY <1>1, <1>4
  <2>4. QED
    BY <1>3, <2>2, <2>3
<1>7. ASSUME NEW j \in a - 1 .. b PROVE s[j] = IF j < a THEN 0 ELSE s[j - 1] + v[j]
  <2>1. CASE j < a
    <3>1. j = a - 1
      BY <2>1
    <3>2. QED
      BY <1>4, <2>1, <3>1
  <2>2. CASE ~(j < a)
    BY <1>6, <2>2
  <2>3. QED
    BY <2>1, <2>2
<1>8. QED
  BY <1>5, <1>7 DEF Sums

\* The sum is empty, or it is one of fewer terms and the last.
LEMMA SumsAgree ==
    ASSUME NEW a \in Int, NEW b \in Int, NEW c \in Int, a - 1 <= b, b <= c, NEW v, NEW u,
           \A j \in a .. b : v[j] = u[j],
           NEW s, NEW t, Sums(v, a, b, s), Sums(u, a, c, t)
    PROVE  \A j \in a - 1 .. b : s[j] = t[j]
<1> DEFINE S == {k \in Nat : a - 1 + k <= b /\ s[a - 1 + k] # t[a - 1 + k]}
<1>1. SUFFICES ASSUME S # {} PROVE FALSE
  <2>1. SUFFICES ASSUME NEW j \in a - 1 .. b PROVE s[j] = t[j]
    OBVIOUS
  <2> DEFINE k == j - (a - 1)
  <2>2. k \in Nat /\ a - 1 + k = j /\ j <= b
    OBVIOUS
  <2> HIDE DEF k
  <2>3. QED
    BY <1>1, <2>2
<1>2. PICK k \in S : \A l \in S : k <= l
  <2> S \subseteq Nat
    OBVIOUS
  <2> HIDE DEF S
  <2> QED
    BY <1>1, LeastNumber
<1> DEFINE j == a - 1 + k
<1>3. j \in a - 1 .. b /\ j \in a - 1 .. c
  BY <1>2
<1>4. s[j] = (IF j < a THEN 0 ELSE s[j - 1] + v[j]) /\ t[j] = (IF j < a THEN 0 ELSE t[j - 1] + u[j])
  BY <1>3 DEF Sums
<1>5. k # 0
  <2>1. k = 0 => j < a
    OBVIOUS
  <2>2. QED
    BY <1>2, <1>4, <2>1
<1>6. k - 1 \in Nat /\ k - 1 \notin S /\ a - 1 + (k - 1) = j - 1 /\ j - 1 <= b /\ j \in a .. b
  BY <1>2, <1>3, <1>5
<1>7. s[j - 1] = t[j - 1]
  BY <1>6
<1>8. QED
  BY <1>2, <1>4, <1>6, <1>7

LEMMA SumIs ==
    ASSUME NEW a \in Int, NEW b \in Int, a - 1 <= b, NEW v, \A j \in a .. b : v[j] \in Int
    PROVE  \E s \in [a - 1 .. b -> Int] : Sums(v, a, b, s) /\ SumOver(v, a, b) = s[b]
<1> DEFINE s == CHOOSE s : Sums(v, a, b, s)
<1>1. PICK t \in [a - 1 .. b -> Int] : Sums(v, a, b, t)
  BY SumsExist
<1>2. Sums(v, a, b, s)
  BY <1>1
<1>3. SumOver(v, a, b) = s[b]
  BY DEF SumOver, Sums
<1> HIDE DEF s
<1>4. \A j \in a - 1 .. b : s[j] = t[j]
  BY <1>1, <1>2, SumsAgree
<1>5. b \in a - 1 .. b
  OBVIOUS
<1>6. QED
  BY <1>1, <1>3, <1>4, <1>5

LEMMA SumSteps ==
    ASSUME NEW a \in Int, NEW b \in Int, a - 1 <= b, NEW v, \A j \in a .. b : v[j] \in Int
    PROVE  /\ SumOver(v, a, b) \in Int
           /\ b = a - 1 => SumOver(v, a, b) = 0
           /\ b >= a => SumOver(v, a, b) = SumOver(v, a, b - 1) + v[b]
<1>1. PICK s \in [a - 1 .. b -> Int] : Sums(v, a, b, s) /\ SumOver(v, a, b) = s[b]
  BY SumIs
<1>2. b \in a - 1 .. b
  OBVIOUS
<1>3. s[b] = IF b < a THEN 0 ELSE s[b - 1] + v[b]
  BY <1>1, <1>2 DEF Sums
<1>4. ASSUME b >= a PROVE SumOver(v, a, b) = SumOver(v, a, b - 1) + v[b]
  <2>1. b - 1 \in Int /\ a - 1 <= b - 1 /\ b - 1 <= b /\ \A j \in a .. b - 1 : v[j] \in Int
    BY <1>4
  <2>2. PICK t \in [a - 1 .. b - 1 -> Int] :
           Sums(v, a, b - 1, t) /\ SumOver(v, a, b - 1) = t[b - 1]
    BY <2>1, SumIs
  <2>3. t[b - 1] = s[b - 1]
    <3>1. b - 1 \in a - 1 .. b - 1
      BY <2>1
    <3>2. QED
      BY <1>1, <2>1, <2>2, <3>1, SumsAgree, SMTT(30)
  <2>4. QED
    BY <1>1, <1>3, <1>4, <2>2, <2>3
<1>5. QED
  BY <1>1, <1>2, <1>3, <1>4

\* Where the terms are related, so are the sums.
LEMMA SumScales ==
    ASSUME NEW a \in Int, NEW b \in Int, a - 1 <= b, NEW v, NEW u, NEW c \in Int,
           \A j \in a .. b : v[j] \in Int /\ u[j] = v[j] * c
    PROVE  SumOver(u, a, b) = SumOver(v, a, b) * c
<1> DEFINE S == {k \in Nat : a - 1 + k <= b /\ SumOver(u, a, a - 1 + k) # SumOver(v, a, a - 1 + k) * c}
<1>1. SUFFICES ASSUME S # {} PROVE FALSE
  <2> DEFINE k == b - (a - 1)
  <2>1. k \in Nat /\ a - 1 + k = b
    OBVIOUS
  <2>2. k \notin S
    <3> HIDE DEF S
    <3> QED
      BY <1>1
  <2> HIDE DEF k
  <2>3. QED
    BY <2>1, <2>2
<1>2. PICK k \in S : \A l \in S : k <= l
  <2> S \subseteq Nat
    OBVIOUS
  <2> HIDE DEF S
  <2> QED
    BY <1>1, LeastNumber
<1> DEFINE j == a - 1 + k
<1>3. /\ j \in Int /\ a - 1 <= j /\ j <= b
      /\ \A i \in a .. j : v[i] \in Int /\ u[i] \in Int /\ u[i] = v[i] * c
  BY <1>2
<1>4. CASE k = 0
  <2>1. j = a - 1
    BY <1>4
  <2>2. SumOver(u, a, j) = 0 /\ SumOver(v, a, j) = 0
    BY <1>3, <2>1, SumSteps
  <2>3. QED
    BY <1>2, <2>2
<1>5. CASE k # 0
  <2>1. k - 1 \in Nat /\ k - 1 \notin S /\ a - 1 + (k - 1) = j - 1 /\ j >= a /\ j - 1 <= b /\ j \in a .. j
    BY <1>2, <1>3, <1>5
  <2>2. SumOver(u, a, j - 1) = SumOver(v, a, j - 1) * c
    BY <2>1
  <2>3. SumOver(u, a, j) = SumOver(u, a, j - 1) + u[j] /\ SumOver(v, a, j) = SumOver(v, a, j - 1) + v[j]
    BY <1>3, <2>1, SumSteps
  <2>4. SumOver(v, a, j - 1) \in Int
    <3>1. j - 1 \in Int /\ a - 1 <= j - 1 /\ \A i \in a .. j - 1 : v[i] \in Int
      BY <1>3, <2>1
    <3>2. QED
      BY <3>1, SumSteps
  <2>5. \A x, y \in Int : x * c + y * c = (x + y) * c
    OBVIOUS
  <2>6. QED
    BY <1>2, <1>3, <2>1, <2>2, <2>3, <2>4, <2>5
<1>6. QED
  BY <1>4, <1>5

LEMMA SumSame ==
    ASSUME NEW a \in Int, NEW b \in Int, a - 1 <= b, NEW v, NEW u,
           \A j \in a .. b : v[j] \in Int /\ u[j] = v[j]
    PROVE  SumOver(u, a, b) = SumOver(v, a, b)
<1>1. \A j \in a .. b : v[j] \in Int /\ u[j] = v[j] * 1
  OBVIOUS
<1>2. SumOver(u, a, b) = SumOver(v, a, b) * 1
  BY <1>1, SumScales
<1>3. QED
  BY <1>2, SumSteps

\* A sum is its first term and the others.
LEMMA SumFirst ==
    ASSUME NEW a \in Int, NEW b \in Int, a <= b, NEW v, \A j \in a .. b : v[j] \in Int
    PROVE  SumOver(v, a, b) = v[a] + SumOver(v, a + 1, b)
<1> DEFINE S == {k \in Nat : a + k <= b /\ SumOver(v, a, a + k) # v[a] + SumOver(v, a + 1, a + k)}
<1>1. SUFFICES ASSUME S # {} PROVE FALSE
  <2> DEFINE k == b - a
  <2>1. k \in Nat /\ a + k = b
    OBVIOUS
  <2>2. k \notin S
    <3> HIDE DEF S
    <3> QED
      BY <1>1
  <2> HIDE DEF k
  <2>3. QED
    BY <2>1, <2>2
<1>2. PICK k \in S : \A l \in S : k <= l
  <2> S \subseteq Nat
    OBVIOUS
  <2> HIDE DEF S
  <2> QED
    BY <1>1, LeastNumber
<1> DEFINE j == a + k
<1>3. /\ j \in Int /\ a <= j /\ j <= b /\ a + 1 \in Int /\ (a + 1) - 1 = a
      /\ \A i \in a .. j : v[i] \in Int
      /\ \A i \in a + 1 .. j : v[i] \in Int
  BY <1>2
<1>4. SumOver(v, a, j) = SumOver(v, a, j - 1) + v[j]
  BY <1>3, SumSteps
<1>5. CASE k = 0
  <2>1. j = a /\ a - 1 \in Int /\ a .. a - 1 = {}
    BY <1>5
  <2>2. SumOver(v, a, a - 1) = 0
    BY <2>1, SumSteps
  <2>3. SumOver(v, a + 1, j) = 0
    BY <1>3, <2>1, SumSteps
  <2>4. v[a] \in Int
    BY <1>3
  <2>5. QED
    BY <1>2, <1>4, <2>1, <2>2, <2>3, <2>4
<1>6. CASE k # 0
  <2>1. k - 1 \in Nat /\ k - 1 \notin S /\ a + (k - 1) = j - 1 /\ j >= a + 1 /\ j - 1 <= b
    BY <1>2, <1>3, <1>6
  <2>2. SumOver(v, a, j - 1) = v[a] + SumOver(v, a + 1, j - 1)
    BY <2>1
  <2>3. SumOver(v, a + 1, j) = SumOver(v, a + 1, j - 1) + v[j]
    BY <1>3, <2>1, SumSteps
  <2>4. SumOver(v, a + 1, j - 1) \in Int
    <3>1. j - 1 \in Int /\ (a + 1) - 1 <= j - 1 /\ \A i \in a + 1 .. j - 1 : v[i] \in Int
      BY <1>3, <2>1
    <3>2. QED
      BY <1>3, <3>1, SumSteps
  <2>5. v[a] \in Int /\ v[j] \in Int
    BY <1>3
  <2>6. QED
    BY <1>2, <1>4, <2>2, <2>3, <2>4, <2>5
<1>7. QED
  BY <1>5, <1>6

\* A rolling sum is the sum of its window, of those there are at first.
LEMMA RolledIsSum ==
    ASSUME NEW v, NEW w \in Nat, w >= 1, NEW n \in Nat, \A j \in 1 .. n : v[j] \in Int,
           NEW f, Rolls(v, w, n, f)
    PROVE  \A i \in 0 .. n : f[i] = SumOver(v, IF i < w THEN 1 ELSE i - w + 1, i)
<1> DEFINE from(i) == IF i < w THEN 1 ELSE i - w + 1
           S == {i \in Nat : i <= n /\ f[i] # SumOver(v, from(i), i)}
<1>1. SUFFICES ASSUME S # {} PROVE FALSE
  <2> HIDE DEF from
  <2>1. \A i \in 0 .. n : f[i] = SumOver(v, from(i), i)
    BY <1>1
  <2>2. QED
    BY <2>1 DEF from
<1>2. PICK i \in S : \A l \in S : i <= l
  <2> S \subseteq Nat
    OBVIOUS
  <2> HIDE DEF S
  <2> QED
    BY <1>1, LeastNumber
<1>3. i \in 0 .. n /\ i \in Nat
  BY <1>2
<1>4. f[i] = IF i = 0 THEN 0 ELSE f[i - 1] + v[i] - (IF i > w THEN v[i - w] ELSE 0)
  BY <1>3 DEF Rolls
<1>5. CASE i = 0
  <2>1. from(i) = 1 /\ 1 .. 0 = {} /\ 1 - 1 <= 0
    BY <1>5
  <2>2. SumOver(v, 1, 0) = 0
    BY <2>1, SumSteps
  <2>3. QED
    BY <1>2, <1>4, <1>5, <2>1, <2>2
<1>6. CASE i # 0
  <2>1. i - 1 \in Nat /\ i - 1 \notin S /\ i - 1 <= n
    BY <1>2, <1>6
  <2>2. f[i - 1] = SumOver(v, from(i - 1), i - 1)
    BY <2>1
  <2> DEFINE a == from(i - 1)
  <2>3. a \in Int /\ a <= i /\ a >= 1 /\ a - 1 <= i /\ \A j \in a .. i : v[j] \in Int
    BY <1>3, <1>6
  <2>4. SumOver(v, a, i) = SumOver(v, a, i - 1) + v[i] /\ SumOver(v, a, i) \in Int
    <3> HIDE DEF a
    <3> QED
      BY <1>3, <2>3, SumSteps
  <2>5. CASE i > w
    <3>1. a = i - w /\ from(i) = a + 1
      BY <1>3, <2>5
    <3>2. SumOver(v, a, i) = v[a] + SumOver(v, a + 1, i)
      <4> HIDE DEF a
      <4> QED
        BY <1>3, <2>3, SumFirst
    <3>3. SumOver(v, a + 1, i) \in Int /\ v[a] \in Int /\ v[i] \in Int /\ SumOver(v, a, i - 1) \in Int
      <4> HIDE DEF a
      <4>1. a + 1 \in Int /\ (a + 1) - 1 <= i /\ \A j \in a + 1 .. i : v[j] \in Int
        BY <1>3, <2>3
      <4>2. i - 1 \in Int /\ a - 1 <= i - 1 /\ \A j \in a .. i - 1 : v[j] \in Int
        BY <1>3, <2>3
      <4>3. QED
        BY <1>3, <2>3, <4>1, <4>2, SumSteps
    <3> HIDE DEF a, from
    <3>4. f[i] = SumOver(v, a + 1, i)
      BY <1>4, <1>6, <2>2, <2>4, <2>5, <3>1, <3>2, <3>3 DEF a
    <3>5. QED
      BY <1>2, <3>1, <3>4
  <2>6. CASE ~(i > w)
    <3>1. a = 1 /\ from(i) = 1
      BY <1>3, <1>6, <2>6
    <3>2. v[i] \in Int /\ SumOver(v, 1, i - 1) \in Int
      <4>1. i - 1 \in Int /\ 1 - 1 <= i - 1 /\ \A j \in 1 .. i - 1 : v[j] \in Int
        BY <1>3, <1>6
      <4>2. QED
        BY <1>3, <1>6, <4>1, SumSteps
    <3> HIDE DEF a, from
    <3>3. f[i] = SumOver(v, 1, i)
      BY <1>4, <1>6, <2>2, <2>4, <2>6, <3>1, <3>2 DEF a
    <3>4. QED
      BY <1>2, <3>1, <3>3
  <2>7. QED
    BY <2>5, <2>6
<1>7. QED
  BY <1>5, <1>6

\* The powers of a number.
LEMMA PowerSteps ==
    ASSUME NEW b \in Nat, NEW n \in Nat
    PROVE  /\ Power(b, n) \in Nat
           /\ Power(b, 0) = 1
           /\ Power(b, n + 1) = Power(b, n) * b
<1> DEFINE Is(k, f) == f = [j \in 0 .. k |-> IF j = 0 THEN 1 ELSE f[j - 1] * b]
           H == [p \in Int \X Nat |-> p[2] * b]
           start == 0
           one == 1
<1>1. H \in [Int \X Nat -> Nat] /\ one \in Nat /\ start \in Int
  OBVIOUS
<1>2. \A j \in Int, x \in Nat : H[<<j, x>>] = x * b
  OBVIOUS
<1> HIDE DEF H
<1>3. ASSUME NEW k \in Nat PROVE \E f \in [0 .. k -> Nat] : Is(k, f)
  <2> HIDE DEF start, one
  <2>1. PICK f \in [start .. start + k -> Nat] : Iterates(start, start + k, one, H, f)
    BY <1>1, IterationExists, ZenonT(30)
  <2> USE DEF start, one, Iterates
  <2>2. 0 + k = k /\ 0 + 1 = 1 /\ f \in [0 .. k -> Nat]
    BY <2>1
  <2>3. ASSUME NEW j \in 0 .. k PROVE f[j] = IF j = 0 THEN 1 ELSE f[j - 1] * b
    <3>1. CASE j = 0
      BY <2>1, <3>1
    <3>2. CASE j # 0
      <4>1. j - 1 \in 0 .. k /\ j \in 1 .. k /\ j \in Int
        BY <3>2
      <4>2. f[j - 1] \in Nat
        BY <2>2, <4>1
      <4>3. f[j] = H[<<j, f[j - 1]>>]
        BY <2>1, <2>2, <4>1
      <4>4. QED
        BY <1>2, <3>2, <4>1, <4>2, <4>3
    <3>3. QED
      BY <3>1, <3>2
  <2>4. QED
    BY <2>2, <2>3
<1>4. ASSUME NEW k \in Nat, NEW l \in Nat, k <= l, NEW f, NEW g, Is(k, f), Is(l, g)
      PROVE  f[k] = g[k]
  <2> DEFINE S == {j \in Nat : j <= k /\ f[j] # g[j]}
  <2>1. SUFFICES ASSUME S # {} PROVE FALSE
    OBVIOUS
  <2>2. PICK j \in S : \A i \in S : j <= i
    <3> S \subseteq Nat
      OBVIOUS
    <3> HIDE DEF S
    <3> QED
      BY <2>1, LeastNumber
  <2>3. j \in 0 .. k /\ j \in 0 .. l
    BY <1>4, <2>2
  <2>4. f[j] = (IF j = 0 THEN 1 ELSE f[j - 1] * b) /\ g[j] = (IF j = 0 THEN 1 ELSE g[j - 1] * b)
    BY <1>4, <2>3
  <2>5. j # 0
    BY <2>2, <2>4
  <2>6. j - 1 \in Nat /\ j - 1 <= k /\ j - 1 \notin S
    BY <2>2, <2>5
  <2>7. QED
    BY <2>2, <2>4, <2>5, <2>6
<1>5. ASSUME NEW k \in Nat PROVE \E f \in [0 .. k -> Nat] : Is(k, f) /\ Power(b, k) = f[k]
  <2> DEFINE f == CHOOSE f : Is(k, f)
  <2>1. PICK g \in [0 .. k -> Nat] : Is(k, g)
    BY <1>3
  <2>2. Is(k, f)
    BY <2>1
  <2>3. Power(b, k) = f[k]
    BY DEF Power
  <2> HIDE DEF f, Is
  <2>4. f[k] = g[k]
    BY <1>4, <2>1, <2>2
  <2>5. QED
    BY <2>1, <2>3, <2>4
<1>6. PICK f \in [0 .. n -> Nat] : Is(n, f) /\ Power(b, n) = f[n]
  BY <1>5
<1>7. PICK g \in [0 .. n + 1 -> Nat] : Is(n + 1, g) /\ Power(b, n + 1) = g[n + 1]
  <2>1. n + 1 \in Nat
    OBVIOUS
  <2> HIDE DEF Is
  <2>2. QED
    BY <1>5, <2>1
<1>8. Power(b, 0) = 1
  <2>1. PICK e \in [0 .. 0 -> Nat] : Is(0, e) /\ Power(b, 0) = e[0]
    BY <1>5
  <2>2. e[0] = 1
    BY <2>1
  <2>3. QED
    BY <2>1, <2>2
<1>9. f[n] = g[n]
  <2>1. n + 1 \in Nat /\ n <= n + 1
    OBVIOUS
  <2> HIDE DEF Is
  <2>2. QED
    BY <1>4, <1>6, <1>7, <2>1
<1>10. g[n + 1] = g[n] * b
  <2>1. n + 1 \in 0 .. n + 1 /\ n + 1 # 0 /\ (n + 1) - 1 = n
    OBVIOUS
  <2>2. QED
    BY <1>7, <2>1
<1>11. QED
  BY <1>6, <1>7, <1>8, <1>9, <1>10

-----------------------------------------------------------------------------
(* The definitions of the strategies *)

LEMMA SameOperators ==
    /\ \A v, a, b : Daily!SumOver(v, a, b) = SumOver(v, a, b)
    /\ \A b, n : Daily!Power(b, n) = Power(b, n)
  BY DEF Daily!SumOver, SumOver, Daily!Power, Power

LEMMA Prices ==
    ASSUME Daily!SignalsAssumption, History
    PROVE  /\ Len(history) \in Nat
           /\ \A i \in 1 .. Len(history) :
                 /\ Daily!Closes(history)[i] = history[i].kind.close
                 /\ Daily!Highs(history)[i] = history[i].kind.high
                 /\ Daily!Lows(history)[i] = history[i].kind.low
                 /\ history[i].kind.close \in Nat /\ history[i].kind.close > 0
                 /\ history[i].kind.high \in Nat /\ history[i].kind.low \in Nat
                 /\ history[i].kind.low <= history[i].kind.high
<1>1. /\ Len(history) \in Nat /\ DOMAIN history = 1 .. Len(history)
      /\ \A i \in 1 .. Len(history) : history[i].kind \in Kinds
  BY HistoryFacts DEF History
<1>2. ASSUME NEW k \in Kinds
      PROVE  /\ k.close \in Nat /\ k.close > 0 /\ k.high \in Nat /\ k.low \in Nat
             /\ k.low <= k.high
  BY DEF Daily!SignalsAssumption
<1>3. ASSUME NEW i \in 1 .. Len(history)
      PROVE  /\ Daily!Closes(history)[i] = history[i].kind.close
             /\ Daily!Highs(history)[i] = history[i].kind.high
             /\ Daily!Lows(history)[i] = history[i].kind.low
  BY <1>1 DEF Daily!Closes, Daily!Highs, Daily!Lows
<1>4. QED
  BY <1>1, <1>2, <1>3

\* The rolling sum of the last w closes.
LEMMA RollingIsSum ==
    ASSUME Daily!SignalsAssumption, History, NEW w \in Nat, w >= 1,
           NEW i \in w .. Len(history)
    PROVE  Daily!RollingSum(Daily!Closes(history), w)[i]
              = Daily!SumOver(Daily!Closes(history), i - w + 1, i)
<1> DEFINE v == Daily!Closes(history)
           N == Len(history)
<1>1. N \in Nat /\ \A j \in 1 .. N : v[j] \in Int
  BY Prices
<1>2. Len(v) = N
  <2>1. v = [j \in 1 .. N |-> history[j].kind.close]
    BY HistoryFacts DEF Daily!Closes, History
  <2> HIDE DEF v
  <2>2. QED
    BY <1>1, <2>1
<1>3. i \in 0 .. N /\ ~(i < w)
  BY <1>1
<1> HIDE DEF v, N
<1>4. Rolls(v, w, N, Daily!RollingSum(v, w))
  BY <1>1, <1>2, RollingSumRolls
<1>5. Daily!RollingSum(v, w)[i] = SumOver(v, i - w + 1, i)
  BY <1>1, <1>3, <1>4, RolledIsSum
<1>6. QED
  BY <1>5, SameOperators DEF v

LEMMA AboveMeanMatches ==
    ASSUME Daily!SignalsAssumption, History, NEW w \in Nat, w >= 1,
           NEW i \in w .. Len(history)
    PROVE  Daily!AboveMean(i, w) <=>
              Daily!Closes(history)[i] * w > Daily!RollingSum(Daily!Closes(history), w)[i]
<1>1. i \in 1 .. Len(history)
  BY Prices
<1>2. Daily!Closes(history)[i] = history[i].kind.close
  BY <1>1, Prices
<1>3. QED
  BY <1>2, RollingIsSum DEF Daily!AboveMean

\* What the averages of changes that are seeded with their sum come to: A[i]
\* is as WilderStep computes it.
Averages(change, A, n) ==
    LET p == S1_RSI_PERIOD
    IN  /\ A[1] = 0
        /\ \A i \in 2 .. n :
              A[i] = A[i - 1] * (IF i <= p + 1 THEN 1 ELSE p - 1)
                       + change[i] * (IF i <= p + 1 THEN 1 ELSE Daily!Power(p, i - p - 1))

\* As long as they are seeded they are sums.
LEMMA SeedIsSum ==
    ASSUME S1_RSI_PERIOD \in Nat, S1_RSI_PERIOD >= 1, NEW n \in Nat, S1_RSI_PERIOD + 1 <= n,
           NEW change, \A j \in 2 .. n : change[j] \in Nat, NEW A, Averages(change, A, n)
    PROVE  \A i \in 1 .. S1_RSI_PERIOD + 1 : A[i] = SumOver(change, 2, i) /\ A[i] \in Nat
<1> DEFINE p == S1_RSI_PERIOD
           Is(i) == A[i] = SumOver(change, 2, i) /\ A[i] \in Nat
           S == {i \in Nat : 1 <= i /\ i <= p + 1 /\ ~Is(i)}
<1>1. SUFFICES ASSUME S # {} PROVE FALSE
  <2> HIDE DEF Is
  <2>1. \A i \in 1 .. p + 1 : Is(i)
    BY <1>1
  <2>2. QED
    BY <2>1 DEF Is
<1>2. PICK i \in S : \A l \in S : i <= l
  <2> S \subseteq Nat
    OBVIOUS
  <2> HIDE DEF S
  <2> QED
    BY <1>1, LeastNumber
<1>3. i \in Nat /\ 1 <= i /\ i <= p + 1 /\ i <= n /\ ~Is(i)
  BY <1>2
<1>4. CASE i = 1
  <2>1. 2 .. 1 = {} /\ 2 - 1 <= 1
    OBVIOUS
  <2>2. SumOver(change, 2, 1) = 0
    BY <2>1, SumSteps
  <2>3. A[1] = 0
    BY DEF Averages
  <2>4. QED
    BY <1>3, <1>4, <2>2, <2>3
<1>5. CASE i # 1
  <2>1. i - 1 \in Nat /\ 1 <= i - 1 /\ i - 1 <= p + 1 /\ i \in 2 .. n
    BY <1>3, <1>5
  <2>2. Is(i - 1)
    <3>1. i - 1 \notin S
      <4> HIDE DEF S
      <4> QED
        BY <1>2, <1>3
    <3> HIDE DEF Is
    <3>2. QED
      BY <2>1, <3>1
  <2>3. A[i] = A[i - 1] * 1 + change[i] * 1
    <3>1. i <= S1_RSI_PERIOD + 1
      BY <1>3
    <3>2. QED
      BY <2>1, <3>1 DEF Averages
  <2>4. SumOver(change, 2, i) = SumOver(change, 2, i - 1) + change[i]
    <3>1. 2 - 1 <= i /\ i >= 2 /\ \A j \in 2 .. i : change[j] \in Int
      BY <1>3, <2>1
    <3>2. QED
      BY <1>3, <3>1, SumSteps
  <2>5. change[i] \in Nat
    BY <2>1
  <2>6. QED
    BY <1>3, <2>2, <2>3, <2>4, <2>5
<1>6. QED
  BY <1>4, <1>5

\* The weight of change j in the average at i.
Weight(j, i) ==
    LET p == S1_RSI_PERIOD
    IN  IF j <= p + 1 THEN Daily!Power(p - 1, i - p - 1)
        ELSE Daily!Power(p, j - p - 1) * Daily!Power(p - 1, i - j)

LEMMA Weights ==
    ASSUME S1_RSI_PERIOD \in Nat, S1_RSI_PERIOD >= 1, NEW i \in Nat, i > S1_RSI_PERIOD
    PROVE  /\ \A j \in 2 .. i : Weight(j, i) \in Nat
           /\ \A j \in 2 .. i : Weight(j, i + 1) = Weight(j, i) * (S1_RSI_PERIOD - 1)
           /\ Weight(i + 1, i + 1) = Daily!Power(S1_RSI_PERIOD, i - S1_RSI_PERIOD)
           /\ i = S1_RSI_PERIOD + 1 => \A j \in 2 .. i : Weight(j, i) = 1
<1> DEFINE p == S1_RSI_PERIOD
<1>1. p \in Nat /\ p - 1 \in Nat /\ i - p - 1 \in Nat /\ (i - p - 1) + 1 = (i + 1) - p - 1
  OBVIOUS
<1>2. \A b, n \in Nat : /\ Daily!Power(b, n) \in Nat /\ Daily!Power(b, 0) = 1
                        /\ Daily!Power(b, n + 1) = Daily!Power(b, n) * b
  BY PowerSteps, SameOperators
<1>3. ASSUME NEW j \in 2 .. i
      PROVE  Weight(j, i) \in Nat /\ Weight(j, i + 1) = Weight(j, i) * (p - 1)
  <2>1. CASE j <= p + 1
    <3>1. Weight(j, i) = Daily!Power(p - 1, i - p - 1)
      BY <2>1 DEF Weight
    <3>2. Weight(j, i + 1) = Daily!Power(p - 1, (i + 1) - p - 1)
      BY <2>1 DEF Weight
    <3>3. QED
      BY <1>1, <1>2, <3>1, <3>2
  <2>2. CASE ~(j <= p + 1)
    <3>1. j - p - 1 \in Nat /\ i - j \in Nat /\ (i - j) + 1 = (i + 1) - j
      BY <1>1, <2>2
    <3>2. Weight(j, i) = Daily!Power(p, j - p - 1) * Daily!Power(p - 1, i - j)
      BY <2>2 DEF Weight
    <3>3. Weight(j, i + 1) = Daily!Power(p, j - p - 1) * Daily!Power(p - 1, (i + 1) - j)
      BY <2>2 DEF Weight
    <3>4. Daily!Power(p - 1, (i + 1) - j) = Daily!Power(p - 1, i - j) * (p - 1)
      BY <1>1, <1>2, <3>1
    <3>5. Daily!Power(p, j - p - 1) \in Nat /\ Daily!Power(p - 1, i - j) \in Nat
      BY <1>1, <1>2, <3>1
    <3>6. \A x, y, z \in Nat : x * (y * z) = (x * y) * z /\ x * y \in Nat
      OBVIOUS
    <3>7. QED
      BY <1>1, <3>2, <3>3, <3>4, <3>5, <3>6
  <2>3. QED
    BY <2>1, <2>2
<1>4. Weight(i + 1, i + 1) = Daily!Power(p, i - p)
  <2>1. ~(i + 1 <= p + 1) /\ (i + 1) - p - 1 = i - p /\ (i + 1) - (i + 1) = 0 /\ i - p \in Nat
    BY <1>1
  <2>2. Weight(i + 1, i + 1) = Daily!Power(p, (i + 1) - p - 1) * Daily!Power(p - 1, (i + 1) - (i + 1))
    BY <2>1 DEF Weight
  <2>3. Daily!Power(p, i - p) \in Nat /\ Daily!Power(p - 1, 0) = 1
    BY <1>1, <1>2, <2>1
  <2>4. QED
    BY <2>1, <2>2, <2>3
<1>5. ASSUME i = p + 1, NEW j \in 2 .. i PROVE Weight(j, i) = 1
  <2>1. j <= p + 1 /\ i - p - 1 = 0
    BY <1>1, <1>5
  <2>2. Weight(j, i) = Daily!Power(p - 1, i - p - 1)
    BY <2>1 DEF Weight
  <2>3. QED
    BY <1>1, <1>2, <2>1, <2>2
<1>6. QED
  BY <1>3, <1>4, <1>5

\* After that they are the weighted sums of all changes.
LEMMA AverageIsSmoothed ==
    ASSUME S1_RSI_PERIOD \in Nat, S1_RSI_PERIOD >= 1, NEW n \in Nat,
           NEW change, \A j \in 2 .. n : change[j] \in Nat, NEW A, Averages(change, A, n)
    PROVE  \A i \in S1_RSI_PERIOD + 1 .. n : A[i] = Daily!Smoothed(change, i) /\ A[i] \in Nat
<1> DEFINE p == S1_RSI_PERIOD
           T(i) == [j \in 2 .. i |-> change[j] * Weight(j, i)]
           Is(i) == A[i] = Daily!Smoothed(change, i) /\ A[i] \in Nat
           S == {i \in Nat : p + 1 <= i /\ i <= n /\ ~Is(i)}
<1>1. SUFFICES ASSUME S # {} PROVE FALSE
  <2> HIDE DEF Is
  <2>1. \A i \in p + 1 .. n : Is(i)
    BY <1>1
  <2>2. QED
    BY <2>1 DEF Is
<1>2. PICK i \in S : \A l \in S : i <= l
  <2> S \subseteq Nat
    OBVIOUS
  <2> HIDE DEF S
  <2> QED
    BY <1>1, LeastNumber
<1>3. i \in Nat /\ p + 1 <= i /\ i <= n /\ ~Is(i)
  BY <1>2
<1>4. ASSUME NEW k \in Nat PROVE Daily!Smoothed(change, k) = SumOver(T(k), 2, k)
  BY SameOperators DEF Daily!Smoothed, Weight
<1>5. \A x, y \in Nat : x * y \in Nat
  OBVIOUS
<1>6. ASSUME NEW k \in Nat, p < k, k <= n, NEW j \in 2 .. k
      PROVE  T(k)[j] = change[j] * Weight(j, k) /\ T(k)[j] \in Nat
  <2>1. T(k)[j] = change[j] * Weight(j, k)
    OBVIOUS
  <2>2. Weight(j, k) \in Nat
    BY <1>6, Weights
  <2>3. change[j] \in Nat
    BY <1>6
  <2> HIDE DEF T
  <2>4. QED
    BY <1>5, <2>1, <2>2, <2>3
<1> HIDE DEF T
<1>7. CASE i = p + 1
  <2>1. A[i] = SumOver(change, 2, i) /\ A[i] \in Nat
    BY <1>3, <1>7, SeedIsSum
  <2>2. \A j \in 2 .. i : change[j] \in Int /\ T(i)[j] = change[j]
    <3>1. TAKE j \in 2 .. i
    <3>2. Weight(j, i) = 1
      BY <1>3, <1>7, Weights
    <3>3. change[j] \in Nat
      BY <1>3
    <3>4. QED
      BY <1>3, <1>6, <3>2, <3>3
  <2>3. SumOver(T(i), 2, i) = SumOver(change, 2, i)
    <3>1. 2 - 1 <= i
      BY <1>3
    <3>2. QED
      BY <1>3, <2>2, <3>1, SumSame
  <2>4. QED
    BY <1>3, <1>4, <2>1, <2>3
<1>8. CASE i # p + 1
  <2> DEFINE k == i - 1
  <2>1. k \in Nat /\ k > p /\ k >= p + 1 /\ k < n /\ k + 1 = i /\ i \in 2 .. n /\ k >= 2 - 1 /\ p - 1 \in Nat
    BY <1>3, <1>8
  <2>2. Is(k)
    <3>1. k \notin S
      <4> HIDE DEF S
      <4> QED
        BY <1>2, <2>1
    <3> HIDE DEF Is
    <3>2. QED
      BY <2>1, <3>1
  <2>3. A[i] = A[k] * (p - 1) + change[i] * Daily!Power(p, k - p)
    <3>1. ~(i <= p + 1) /\ i - p - 1 = k - p
      BY <1>3, <1>8
    <3>2. QED
      BY <2>1, <3>1 DEF Averages
  <2>4. \A j \in 2 .. k : T(k)[j] \in Int /\ T(i)[j] = T(k)[j] * (p - 1)
    <3>1. TAKE j \in 2 .. k
    <3>2. j \in 2 .. i /\ p < i
      BY <2>1
    <3>3. Weight(j, k + 1) = Weight(j, k) * (p - 1) /\ Weight(j, k) \in Nat
      BY <2>1, Weights
    <3>4. T(k)[j] = change[j] * Weight(j, k) /\ T(k)[j] \in Nat
      BY <1>6, <2>1
    <3>5. T(i)[j] = change[j] * Weight(j, i)
      BY <1>3, <1>6, <3>2
    <3>6. change[j] \in Nat
      BY <2>1
    <3>7. \A x, y, z \in Nat : x * (y * z) = (x * y) * z
      OBVIOUS
    <3> HIDE DEF k
    <3>8. QED
      BY <2>1, <3>3, <3>4, <3>5, <3>6, <3>7
  <2>5. T(i)[i] = change[i] * Daily!Power(p, k - p)
    <3>1. Weight(k + 1, k + 1) = Daily!Power(p, k - p)
      BY <2>1, Weights
    <3>2. i \in 2 .. i /\ p < i
      BY <2>1
    <3>3. T(i)[i] = change[i] * Weight(i, i)
      BY <1>3, <1>6, <3>2
    <3>4. QED
      BY <2>1, <3>1, <3>3
  <2>6. SumOver(T(i), 2, i) = SumOver(T(i), 2, i - 1) + T(i)[i]
    <3>1. \A j \in 2 .. i : T(i)[j] \in Int
      BY <1>3, <1>6, <2>1
    <3>2. 2 - 1 <= i /\ i >= 2
      BY <2>1
    <3>3. QED
      BY <1>3, <3>1, <3>2, SumSteps
  <2>7. SumOver(T(i), 2, k) = SumOver(T(k), 2, k) * (p - 1)
    <3> HIDE DEF k
    <3>1. QED
      BY <2>1, <2>4, SumScales
  <2>8. A[k] = SumOver(T(k), 2, k) /\ A[k] \in Nat
    BY <1>4, <2>1, <2>2
  <2>9. A[i] = Daily!Smoothed(change, i)
    BY <1>3, <1>4, <2>3, <2>5, <2>6, <2>7, <2>8
  <2>10. A[i] \in Nat
    <3>1. T(i)[i] \in Nat
      BY <1>3, <1>6, <2>1
    <3>2. \A x, y, z \in Nat : x * y + z \in Nat
      OBVIOUS
    <3> HIDE DEF k
    <3>3. QED
      BY <2>1, <2>3, <2>5, <2>8, <3>1, <3>2
  <2>11. QED
    BY <1>3, <2>9, <2>10
<1>9. QED
  BY <1>7, <1>8

\* The averages of wilder_rsi are the smoothed gains and losses.
LEMMA WilderIsSmoothed ==
    ASSUME Daily!SignalsAssumption, History, NEW i \in S1_RSI_PERIOD + 1 .. Len(history)
    PROVE  LET a == Daily!WilderAverages(Daily!Closes(history), S1_RSI_PERIOD)[i]
           IN  /\ a.gain = Daily!Smoothed(Daily!Gains, i) /\ a.gain \in Nat
               /\ a.loss = Daily!Smoothed(Daily!Losses, i) /\ a.loss \in Nat
<1> DEFINE c == Daily!Closes(history)
           p == S1_RSI_PERIOD
           N == Len(history)
           f == Daily!WilderAverages(c, p)
           g == [j \in 1 .. N |-> f[j].gain]
           l == [j \in 1 .. N |-> f[j].loss]
<1>1. N \in Nat /\ p \in Nat /\ p >= 1 /\ N >= 1 /\ i \in 1 .. N
  BY Prices DEF Daily!SignalsAssumption
<1>2. Len(c) = N
  <2>1. c = [j \in 1 .. N |-> history[j].kind.close]
    BY HistoryFacts DEF Daily!Closes, History
  <2> HIDE DEF c, N
  <2>2. QED
    BY <1>1, <2>1
<1>3. \A j \in 1 .. N : c[j] \in Nat
  BY Prices
<1>4. ASSUME NEW j \in 2 .. N
      PROVE  /\ Daily!Gains[j] = Daily!Gain(c, j) /\ Daily!Gains[j] \in Nat
             /\ Daily!Losses[j] = Daily!Loss(c, j) /\ Daily!Losses[j] \in Nat
  <2>1. Daily!Gains[j] = Daily!Gain(c, j) /\ Daily!Losses[j] = Daily!Loss(c, j)
    BY DEF Daily!Gains, Daily!Losses
  <2>2. c[j] \in Nat /\ c[j - 1] \in Nat
    BY <1>1, <1>3
  <2> HIDE DEF c
  <2>3. Daily!Gain(c, j) \in Nat /\ Daily!Loss(c, j) \in Nat
    BY <2>2 DEF Daily!Gain, Daily!Loss
  <2>4. QED
    BY <2>1, <2>3
<1> HIDE DEF c, f, p, N
<1>5. Wilders(c, p, N, f)
  BY <1>1, <1>2, WilderAveragesWilder DEF f
<1>6. f[1].gain = 0 /\ f[1].loss = 0
  <2>1. f[1] = [gain |-> 0, loss |-> 0]
    BY <1>1, <1>5 DEF Wilders
  <2>2. QED
    BY <2>1
<1>7. ASSUME NEW j \in 2 .. N
      PROVE  /\ f[j].gain = f[j - 1].gain * (IF j <= p + 1 THEN 1 ELSE p - 1)
                   + Daily!Gains[j] * (IF j <= p + 1 THEN 1 ELSE Daily!Power(p, j - p - 1))
             /\ f[j].loss = f[j - 1].loss * (IF j <= p + 1 THEN 1 ELSE p - 1)
                   + Daily!Losses[j] * (IF j <= p + 1 THEN 1 ELSE Daily!Power(p, j - p - 1))
  <2>1. j \in 1 .. N /\ j # 1
    BY <1>1
  <2>2. f[j] = Daily!WilderStep(f[j - 1], c, j, p)
    BY <1>5, <2>1 DEF Wilders
  <2>3. QED
    BY <1>4, <2>2 DEF Daily!WilderStep
<1>8. \A j \in 1 .. N : g[j] = f[j].gain /\ l[j] = f[j].loss
  OBVIOUS
<1>9. \A j \in 2 .. N : j \in 1 .. N /\ j - 1 \in 1 .. N
  BY <1>1
<1> HIDE DEF g, l
<1>10. Averages(Daily!Gains, g, N)
  BY <1>1, <1>6, <1>7, <1>8, <1>9 DEF Averages, p
<1>11. Averages(Daily!Losses, l, N)
  BY <1>1, <1>6, <1>7, <1>8, <1>9 DEF Averages, p
<1>12. i \in S1_RSI_PERIOD + 1 .. N /\ S1_RSI_PERIOD \in Nat /\ S1_RSI_PERIOD >= 1
  BY <1>1 DEF p, N
<1>13. g[i] = Daily!Smoothed(Daily!Gains, i) /\ g[i] \in Nat
  BY <1>1, <1>4, <1>10, <1>12, AverageIsSmoothed
<1>14. l[i] = Daily!Smoothed(Daily!Losses, i) /\ l[i] \in Nat
  BY <1>1, <1>4, <1>11, <1>12, AverageIsSmoothed
<1>15. QED
  BY <1>1, <1>8, <1>13, <1>14 DEF f, c, p

\* The strength compares with a level as its averages do.
LEMMA RsiCompares ==
    ASSUME NEW a, a.gain \in Nat, a.loss \in Nat, NEW level \in Nat
    PROVE  LET r == Daily!RsiValue(a)
               g == a.gain
               l == a.loss
           IN  /\ r.n < level * r.d <=> IF g + l = 0 THEN 50 < level ELSE 100 * g < level * (g + l)
               /\ r.n > level * r.d <=> IF g + l = 0 THEN 50 > level ELSE 100 * g > level * (g + l)
<1> DEFINE g == a.gain
           l == a.loss
<1>1. CASE g = 0 /\ l = 0
  <2>1. Daily!RsiValue(a) = [n |-> 50, d |-> 1]
    BY <1>1 DEF Daily!RsiValue
  <2>2. QED
    BY <1>1, <2>1
<1>2. CASE g > 0 /\ l = 0
  <2>1. Daily!RsiValue(a) = [n |-> 100, d |-> 1]
    BY <1>2 DEF Daily!RsiValue
  <2>2. \A x, y \in Nat : y > 0 => (100 * y < x * y <=> 100 < x)
                                 /\ (100 * y > x * y <=> 100 > x)
    OBVIOUS
  <2>3. g + l = g /\ g # 0 /\ g \in Nat
    BY <1>2
  <2>4. Daily!RsiValue(a).n = 100 /\ level * Daily!RsiValue(a).d = level
    BY <2>1
  <2> HIDE DEF g, l
  <2>5. QED
    BY <1>2, <2>2, <2>3, <2>4 DEF g, l
<1>3. CASE l # 0
  <2>1. Daily!RsiValue(a) = [n |-> 100 * g, d |-> g + l]
    BY <1>3 DEF Daily!RsiValue
  <2>2. Daily!RsiValue(a).n = 100 * g /\ Daily!RsiValue(a).d = g + l /\ g + l # 0
    BY <1>3, <2>1
  <2>3. QED
    BY <2>2
<1>4. QED
  BY <1>1, <1>2, <1>3

LEMMA RsiMatches ==
    ASSUME Daily!SignalsAssumption, History, NEW i \in S1_RSI_PERIOD + 1 .. Len(history),
           NEW level \in Nat
    PROVE  LET r == Daily!RsiValue(Daily!WilderAverages(Daily!Closes(history), S1_RSI_PERIOD)[i])
           IN  /\ r.n < level * r.d <=> Daily!RsiBelow(i, level)
               /\ r.n > level * r.d <=> Daily!RsiAbove(i, level)
<1> DEFINE a == Daily!WilderAverages(Daily!Closes(history), S1_RSI_PERIOD)[i]
<1>1. /\ a.gain = Daily!Smoothed(Daily!Gains, i) /\ a.gain \in Nat
      /\ a.loss = Daily!Smoothed(Daily!Losses, i) /\ a.loss \in Nat
  BY WilderIsSmoothed
<1>2. /\ Daily!RsiBelow(i, level) <=> IF a.gain + a.loss = 0 THEN 50 < level
                                      ELSE 100 * a.gain < level * (a.gain + a.loss)
      /\ Daily!RsiAbove(i, level) <=> IF a.gain + a.loss = 0 THEN 50 > level
                                      ELSE 100 * a.gain > level * (a.gain + a.loss)
  BY <1>1 DEF Daily!RsiBelow, Daily!RsiAbove
<1> HIDE DEF a
<1>3. QED
  BY <1>1, <1>2, RsiCompares DEF a

\* The entries and the exits of a strategy, as it defines them.
Entry(s, i) == IF s = "s1" THEN Daily!S1Entry(i) ELSE Daily!S2Entry(i)
Exit(s, i) == IF s = "s1" THEN Daily!S1Exit(i) ELSE Daily!S2Exit(i)

LEMMA S1Turns ==
    ASSUME Daily!SignalsAssumption, History, NEW i \in Turns("s1", history)
    PROVE  /\ i \in Daily!S1Entries(history, Turns("s1", history)) <=> Daily!S1Entry(i)
           /\ i \in Daily!S1Exits(history, Turns("s1", history)) <=> Daily!S1Exit(i)
<1> DEFINE r == Daily!RsiValue(Daily!WilderAverages(Daily!Closes(history), S1_RSI_PERIOD)[i])
<1>1. /\ S1_RSI_PERIOD \in Nat /\ S1_SMA_WINDOW \in Nat /\ S1_SMA_WINDOW >= 1
      /\ S1_RSI_PERIOD < S1_SMA_WINDOW /\ S1_ENTRY_RSI \in Nat /\ S1_EXIT_RSI \in Nat
      /\ Len(history) \in Nat
  BY Prices DEF Daily!SignalsAssumption
<1>2. /\ i \in S1_SMA_WINDOW .. Len(history) /\ i \in S1_RSI_PERIOD + 1 .. Len(history)
      /\ i \in 1 .. Len(history)
  BY <1>1 DEF Turns, First
<1>3. /\ r.n < S1_ENTRY_RSI * r.d <=> Daily!RsiBelow(i, S1_ENTRY_RSI)
      /\ r.n > S1_EXIT_RSI * r.d <=> Daily!RsiAbove(i, S1_EXIT_RSI)
  BY <1>1, <1>2, RsiMatches
<1>4. history[i].kind.close * S1_SMA_WINDOW
         > Daily!RollingSum(Daily!Closes(history), S1_SMA_WINDOW)[i]
            <=> Daily!AboveMean(i, S1_SMA_WINDOW)
  <2>1. Daily!Closes(history)[i] = history[i].kind.close
    BY <1>2, Prices
  <2>2. QED
    BY <1>1, <1>2, <2>1, AboveMeanMatches
<1>5. i \in Daily!S1Entries(history, Turns("s1", history))
         <=> /\ r.n < S1_ENTRY_RSI * r.d
             /\ history[i].kind.close * S1_SMA_WINDOW
                   > Daily!RollingSum(Daily!Closes(history), S1_SMA_WINDOW)[i]
  BY DEF Daily!S1Entries
<1>6. i \in Daily!S1Exits(history, Turns("s1", history)) <=> r.n > S1_EXIT_RSI * r.d
  BY DEF Daily!S1Exits
<1> HIDE DEF r
<1>7. QED
  BY <1>3, <1>4, <1>5, <1>6 DEF Daily!S1Entry, Daily!S1Exit

\* A value against the highest and the lowest of others.
LEMMA AgainstAll ==
    ASSUME NEW n \in Nat, NEW a \in Nat, NEW b \in Nat, 1 <= a, a <= b, b <= n,
           NEW v, \A j \in 1 .. n : v[j] \in Nat, NEW x \in Nat
    PROVE  /\ x > Daily!Latest({v[j] : j \in a .. b}) <=> \A j \in a .. b : x > v[j]
           /\ x < Daily!Earliest({v[j] : j \in a .. b}) <=> \A j \in a .. b : x < v[j]
<1> DEFINE S == a .. b
           V == {v[j] : j \in S}
<1>1. S \subseteq 1 .. n /\ S # {} /\ \A j \in S : v[j] \in Nat
  OBVIOUS
<1> HIDE DEF S
<1>2. Latest(V) \in V /\ \A u \in S : v[u] <= Latest(V)
  <2>1. PICK t \in S : \A u \in S : v[u] <= v[t]
    BY <1>1, SomeGreatest
  <2>2. v[t] \in V /\ \A y \in V : y <= v[t]
    BY <2>1
  <2>3. \A u \in S : v[u] \in V
    OBVIOUS
  <2> HIDE DEF V
  <2>4. QED
    BY <2>2, <2>3 DEF Latest
<1>3. \A u \in S : Earliest(V) <= v[u]
  BY <1>1, EarliestOf
<1>4. Earliest(V) \in V
  <2>1. V \subseteq Nat /\ V # {}
    BY <1>1
  <2> HIDE DEF V
  <2>2. PICK t \in V : \A u \in V : t <= u
    BY <2>1, LeastNumber
  <2>3. QED
    BY <2>2 DEF Earliest
<1>5. Daily!Latest(V) = Latest(V) /\ Daily!Earliest(V) = Earliest(V)
  BY DEF Daily!Latest, Daily!Earliest, Latest, Earliest
<1>6. x > Latest(V) <=> \A j \in S : x > v[j]
  <2>1. PICK t \in S : Latest(V) = v[t]
    BY <1>2
  <2>2. QED
    BY <1>1, <1>2, <2>1
<1>7. x < Earliest(V) <=> \A j \in S : x < v[j]
  <2>1. PICK t \in S : Earliest(V) = v[t]
    BY <1>4
  <2>2. QED
    BY <1>1, <1>3, <2>1
<1>8. QED
  BY <1>5, <1>6, <1>7 DEF S

LEMMA S2Turns ==
    ASSUME Daily!SignalsAssumption, History, NEW i \in Turns("s2", history)
    PROVE  /\ i \in Entries("s2", history) <=> Daily!S2Entry(i)
           /\ i \in Exits("s2", history) <=> Daily!S2Exit(i)
<1> DEFINE N == Len(history)
           h == Daily!Highs(history)
           l == Daily!Lows(history)
           x == history[i].kind.close
<1>1. /\ S2_ENTRY_WINDOW \in Nat /\ S2_EXIT_WINDOW \in Nat /\ S2_EXIT_WINDOW >= 1
      /\ S2_EXIT_WINDOW <= S2_ENTRY_WINDOW /\ N \in Nat
  BY Prices DEF Daily!SignalsAssumption
<1>2. i \in S2_ENTRY_WINDOW + 1 .. N
  BY DEF Turns, First
<1>3. /\ i \in 1 .. N /\ i - 1 \in Nat /\ i - S2_ENTRY_WINDOW \in Nat /\ i - S2_EXIT_WINDOW \in Nat
      /\ 1 <= i - S2_ENTRY_WINDOW /\ i - S2_ENTRY_WINDOW <= i - 1 /\ i - 1 <= N
      /\ 1 <= i - S2_EXIT_WINDOW /\ i - S2_EXIT_WINDOW <= i - 1
  BY <1>1, <1>2
<1>4. /\ \A j \in 1 .. N : h[j] = history[j].kind.high /\ h[j] \in Nat
      /\ \A j \in 1 .. N : l[j] = history[j].kind.low /\ l[j] \in Nat
      /\ x \in Nat
  BY <1>3, Prices
<1>5. i \in Entries("s2", history) <=> x > Daily!PriorMax(h, i, S2_ENTRY_WINDOW)
  BY DEF Entries
<1>6. i \in Exits("s2", history) <=> x < Daily!PriorMin(l, i, S2_EXIT_WINDOW)
  BY DEF Exits
<1>7. Daily!S2Entry(i) <=> \A j \in i - S2_ENTRY_WINDOW .. i - 1 : x > h[j]
  <2>1. \A j \in i - S2_ENTRY_WINDOW .. i - 1 : h[j] = history[j].kind.high
    BY <1>1, <1>3, <1>4
  <2>2. QED
    BY <2>1 DEF Daily!S2Entry
<1>8. Daily!S2Exit(i) <=> \A j \in i - S2_EXIT_WINDOW .. i - 1 : x < l[j]
  <2>1. \A j \in i - S2_EXIT_WINDOW .. i - 1 : l[j] = history[j].kind.low
    BY <1>1, <1>3, <1>4
  <2>2. QED
    BY <2>1 DEF Daily!S2Exit
<1> HIDE DEF h, l, x, N
<1>9. x > Daily!PriorMax(h, i, S2_ENTRY_WINDOW)
         <=> \A j \in i - S2_ENTRY_WINDOW .. i - 1 : x > h[j]
  <2> DEFINE a == i - S2_ENTRY_WINDOW
             b == i - 1
  <2>1. a \in Nat /\ b \in Nat /\ 1 <= a /\ a <= b /\ b <= N /\ N \in Nat
    BY <1>1, <1>3
  <2>2. \A j \in 1 .. N : h[j] \in Nat
    BY <1>4
  <2> HIDE DEF a, b
  <2>3. x > Daily!Latest({h[j] : j \in a .. b}) <=> \A j \in a .. b : x > h[j]
    BY <1>4, <2>1, <2>2, AgainstAll
  <2>4. QED
    BY <2>3 DEF Daily!PriorMax, a, b
<1>10. x < Daily!PriorMin(l, i, S2_EXIT_WINDOW)
         <=> \A j \in i - S2_EXIT_WINDOW .. i - 1 : x < l[j]
  <2> DEFINE a == i - S2_EXIT_WINDOW
             b == i - 1
  <2>1. a \in Nat /\ b \in Nat /\ 1 <= a /\ a <= b /\ b <= N /\ N \in Nat
    BY <1>1, <1>3
  <2>2. \A j \in 1 .. N : l[j] \in Nat
    BY <1>4
  <2> HIDE DEF a, b
  <2>3. x < Daily!Earliest({l[j] : j \in a .. b}) <=> \A j \in a .. b : x < l[j]
    BY <1>4, <2>1, <2>2, AgainstAll
  <2>4. QED
    BY <2>3 DEF Daily!PriorMin, a, b
<1>11. QED
  BY <1>5, <1>6, <1>7, <1>8, <1>9, <1>10

\* The sets of the loop are those of the definitions, and no bar is both an
\* entry and an exit.
LEMMA TurnsMatch ==
    ASSUME Daily!SignalsAssumption, History, NEW s \in Loops, NEW i \in Turns(s, history)
    PROVE  /\ i \in Entries(s, history) <=> Entry(s, i)
           /\ i \in Exits(s, history) <=> Exit(s, i)
           /\ ~(Entry(s, i) /\ Exit(s, i))
<1>1. CASE s = "s1"
  <2>1. /\ i \in Entries(s, history) <=> Entry(s, i)
        /\ i \in Exits(s, history) <=> Exit(s, i)
    BY <1>1, S1Turns DEF Entries, Exits, Entry, Exit
  <2>2. ~(Daily!S1Entry(i) /\ Daily!S1Exit(i))
    <3> DEFINE g == Daily!Smoothed(Daily!Gains, i)
               l == Daily!Smoothed(Daily!Losses, i)
    <3>1. i \in S1_RSI_PERIOD + 1 .. Len(history)
      BY <1>1, Prices DEF Turns, First, Daily!SignalsAssumption
    <3>2. g \in Nat /\ l \in Nat
      BY <3>1, WilderIsSmoothed
    <3>3. S1_ENTRY_RSI \in Nat /\ S1_EXIT_RSI \in Nat /\ S1_ENTRY_RSI <= S1_EXIT_RSI
      BY DEF Daily!SignalsAssumption
    <3>4. SUFFICES ASSUME Daily!RsiBelow(i, S1_ENTRY_RSI), Daily!RsiAbove(i, S1_EXIT_RSI)
                   PROVE  FALSE
      BY DEF Daily!S1Entry, Daily!S1Exit
    <3>5. /\ IF g + l = 0 THEN 50 < S1_ENTRY_RSI ELSE 100 * g < S1_ENTRY_RSI * (g + l)
          /\ IF g + l = 0 THEN 50 > S1_EXIT_RSI ELSE 100 * g > S1_EXIT_RSI * (g + l)
      BY <3>4 DEF Daily!RsiBelow, Daily!RsiAbove
    <3> HIDE DEF g, l
    <3>6. \A x, y, z \in Nat : x <= y => x * z <= y * z
      OBVIOUS
    <3>7. S1_ENTRY_RSI * (g + l) <= S1_EXIT_RSI * (g + l)
      BY <3>2, <3>3, <3>6
    <3>8. \A x, y \in Nat : x * y \in Nat
      OBVIOUS
    <3>9. S1_ENTRY_RSI * (g + l) \in Nat /\ S1_EXIT_RSI * (g + l) \in Nat /\ 100 * g \in Nat
      BY <3>2, <3>3, <3>8
    <3>10. QED
      BY <3>3, <3>5, <3>7, <3>9
  <2>3. QED
    BY <1>1, <2>1, <2>2 DEF Entry, Exit
<1>2. CASE s = "s2"
  <2>1. /\ i \in Entries(s, history) <=> Entry(s, i)
        /\ i \in Exits(s, history) <=> Exit(s, i)
    BY <1>2, S2Turns DEF Entry, Exit
  <2>2. ~(Daily!S2Entry(i) /\ Daily!S2Exit(i))
    <3>1. /\ i \in S2_ENTRY_WINDOW + 1 .. Len(history) /\ Len(history) \in Nat
          /\ S2_ENTRY_WINDOW \in Nat /\ S2_EXIT_WINDOW \in Nat
          /\ S2_EXIT_WINDOW >= 1 /\ S2_ENTRY_WINDOW >= 1
      BY <1>2, Prices DEF Turns, First, Daily!SignalsAssumption
    <3>2. /\ i - 1 \in i - S2_ENTRY_WINDOW .. i - 1 /\ i - 1 \in i - S2_EXIT_WINDOW .. i - 1
          /\ i \in 1 .. Len(history) /\ i - 1 \in 1 .. Len(history)
      BY <3>1
    <3>3. /\ history[i - 1].kind.low <= history[i - 1].kind.high
          /\ history[i - 1].kind.low \in Nat /\ history[i - 1].kind.high \in Nat
          /\ history[i].kind.close \in Nat
      BY <3>2, Prices
    <3>4. SUFFICES ASSUME Daily!S2Entry(i), Daily!S2Exit(i) PROVE FALSE
      OBVIOUS
    <3>5. history[i].kind.close > history[i - 1].kind.high
      BY <3>2, <3>4 DEF Daily!S2Entry
    <3>6. history[i].kind.close < history[i - 1].kind.low
      BY <3>2, <3>4 DEF Daily!S2Exit
    <3>7. QED
      BY <3>3, <3>5, <3>6
  <2>3. QED
    BY <1>2, <2>1, <2>2 DEF Entry, Exit
<1>3. QED
  BY <1>1, <1>2 DEF Loops

\* The position is on from an entry until the first exit after it.
Held(s, i) ==
    \E j \in First(s) .. i : Entry(s, j) /\ \A m \in j + 1 .. i : ~Exit(s, m)

\* It stays on without an exit, and turns on at an entry.
LEMMA HeldSteps ==
    ASSUME NEW s, First(s) \in Nat, NEW i \in Nat, i >= First(s), ~(Entry(s, i) /\ Exit(s, i))
    PROVE  Held(s, i) <=> IF i > First(s) /\ Held(s, i - 1) THEN ~Exit(s, i) ELSE Entry(s, i)
<1>1. i \in i .. i /\ i \in First(s) .. i /\ i + 1 .. i = {}
  OBVIOUS
<1>2. Entry(s, i) => Held(s, i)
  BY <1>1 DEF Held
<1>3. ASSUME i > First(s), Held(s, i - 1), ~Exit(s, i) PROVE Held(s, i)
  <2>1. PICK j \in First(s) .. i - 1 : Entry(s, j) /\ \A m \in j + 1 .. i - 1 : ~Exit(s, m)
    BY <1>3 DEF Held
  <2>2. \A m \in j + 1 .. i : m = i \/ m \in j + 1 .. i - 1
    OBVIOUS
  <2>3. j \in First(s) .. i
    OBVIOUS
  <2>4. QED
    BY <1>3, <2>1, <2>2, <2>3 DEF Held
<1>4. ASSUME Held(s, i), ~Entry(s, i) PROVE i > First(s) /\ Held(s, i - 1) /\ ~Exit(s, i)
  <2>1. PICK j \in First(s) .. i : Entry(s, j) /\ \A m \in j + 1 .. i : ~Exit(s, m)
    BY <1>4 DEF Held
  <2>2. j # i /\ j \in First(s) .. i - 1 /\ i \in j + 1 .. i
    BY <1>4, <2>1
  <2>3. \A m \in j + 1 .. i - 1 : ~Exit(s, m)
    BY <2>1
  <2>4. QED
    BY <2>1, <2>2, <2>3 DEF Held
<1>5. QED
  BY <1>2, <1>3, <1>4

\* The state the loop carries from bar to bar.
LEMMA LongIsHeld ==
    ASSUME Daily!SignalsAssumption, History, NEW s \in Loops, NEW f, RoundsOf(s, history, f)
    PROVE  \A i \in Turns(s, history) : f[i].is_long <=> Held(s, i)
<1> DEFINE S == {i \in Nat : i \in Turns(s, history) /\ ~(f[i].is_long <=> Held(s, i))}
<1>1. /\ Len(history) \in Nat /\ First(s) \in Nat /\ First(s) >= 1
      /\ \A i \in Turns(s, history) : i \in Nat
  BY Prices, FirstFacts DEF Turns
<1>2. SUFFICES ASSUME S # {} PROVE FALSE
  BY <1>1
<1>3. PICK i \in S : \A l \in S : i <= l
  <2> S \subseteq Nat
    OBVIOUS
  <2> HIDE DEF S
  <2> QED
    BY <1>2, LeastNumber
<1>4. /\ i \in Turns(s, history) /\ i \in Nat /\ i >= First(s) /\ i <= Len(history)
      /\ ~(f[i].is_long <=> Held(s, i))
  BY <1>3 DEF Turns
<1>5. /\ i \in Entries(s, history) <=> Entry(s, i)
      /\ i \in Exits(s, history) <=> Exit(s, i)
      /\ ~(Entry(s, i) /\ Exit(s, i))
  BY <1>4, TurnsMatch
<1>6. f[i] = Daily!NextRound(f[i - 1], history, i, Entries(s, history), Exits(s, history),
                             Depends(s, history))
  <2>1. i \in First(s) - 1 .. Len(history) /\ i # First(s) - 1
    BY <1>1, <1>4
  <2>2. QED
    BY <2>1 DEF RoundsOf, Rounds
<1>7. f[i].is_long = (IF f[i - 1].is_long THEN i \notin Exits(s, history)
                      ELSE i \in Entries(s, history))
  BY <1>6 DEF Daily!NextRound
<1>8. Held(s, i) <=> IF i > First(s) /\ Held(s, i - 1) THEN ~Exit(s, i) ELSE Entry(s, i)
  BY <1>1, <1>4, <1>5, HeldSteps
<1>9. CASE i = First(s)
  <2>1. f[i - 1] = Before
    <3>1. i - 1 \in First(s) - 1 .. Len(history) /\ i - 1 = First(s) - 1
      BY <1>1, <1>4, <1>9
    <3>2. QED
      BY <3>1 DEF RoundsOf, Rounds
  <2>2. ~f[i - 1].is_long
    BY <2>1 DEF Before
  <2>3. ~(i > First(s))
    BY <1>1, <1>9
  <2>4. QED
    BY <1>4, <1>5, <1>7, <1>8, <2>2, <2>3
<1>10. CASE i # First(s)
  <2>1. i > First(s) /\ i - 1 \in Nat /\ i - 1 \in Turns(s, history)
    BY <1>1, <1>4, <1>10 DEF Turns
  <2>2. i - 1 \notin S
    <3> HIDE DEF S
    <3> QED
      BY <1>3, <1>4
  <2>3. f[i - 1].is_long <=> Held(s, i - 1)
    BY <2>1, <2>2
  <2>4. QED
    BY <1>4, <1>5, <1>7, <1>8, <2>1, <2>3
<1>11. QED
  BY <1>9, <1>10

\* The targets are those of the definitions of SMA, S1 and S2: the mean of the
\* window, Wilder's weighted averages, the channels, and the position held from
\* an entry to the next exit (features/*, trend.py, rsi_pullback.py,
\* donchian.py).
THEOREM DefinitionTheorem == WorldsSpec => []TargetsMatchDefinition
<1>1. ASSUME History PROVE Daily!TargetsMatchDefinition
  <2> DEFINE bs == history
  <2>1. bs \in Seq(DailyBar) /\ Len(bs) \in Nat
    BY <1>1, Prices, DailyAssumption DEF History
  <2>2. ASSUME NEW s \in Daily!Strategies, ~Daily!Call(s, bs).raised
        PROVE  /\ DOMAIN Daily!Call(s, bs).targets = 1 .. Count(s, bs)
               /\ \A n \in 1 .. Count(s, bs) :
                     /\ Begin(s) + n - 1 \in Begin(s) .. End(s, bs)
                     /\ Daily!Call(s, bs).targets[n] = Target(s, bs, Begin(s) + n - 1)
    <3>1. Daily!Call(s, bs).targets = [n \in 1 .. Count(s, bs) |-> Target(s, bs, Begin(s) - 1 + n)]
      BY <2>1, <2>2, DailyAssumption, StrategyReturns
    <3>2. /\ Begin(s) \in Nat /\ Count(s, bs) \in Nat
          /\ \A n \in 1 .. Count(s, bs) : Begin(s) - 1 + n \in Begin(s) .. End(s, bs)
      BY <2>1, DailyAssumption, BeginFacts
    <3>3. \A n \in 1 .. Count(s, bs) : Begin(s) - 1 + n = Begin(s) + n - 1
      BY <3>2
    <3> HIDE DEF bs
    <3>4. QED
      BY <3>1, <3>2, <3>3
  <2>3. ASSUME NEW s \in Daily!Strategies, NEW i \in Begin(s) .. End(s, bs)
        PROVE  /\ Target(s, bs, i).effective_at = Daily!session_open_at(i + 1)
               /\ Target(s, bs, i).weight = 1
                     <=> IF s = "sma" THEN Daily!AboveMean(i, Window) ELSE Held(s, i)
    <3>1. /\ Begin(s) \in Nat /\ End(s, bs) \in Int /\ End(s, bs) <= Len(bs) /\ Begin(s) >= 1
          /\ (s # "sma" => s \in Loops) /\ i \in Begin(s) .. Len(bs)
      BY <2>1, DailyAssumption, BeginFacts
    <3>2. \A d, e, l : /\ Daily!TargetPosition(d, e, l).effective_at = e
                       /\ Daily!TargetPosition(d, e, l).weight = 1 <=> l
      BY DEF Daily!TargetPosition
    <3>3. CASE s = "sma"
      <4>1. i \in Window .. Len(history) /\ Window \in Nat /\ Window >= 1
        BY <3>1, <3>3, DailyAssumption DEF Begin, Daily!SignalsAssumption
      <4>2. SmaLong(bs, i) <=> Daily!AboveMean(i, Window)
        BY <1>1, <4>1, DailyAssumption, AboveMeanMatches DEF SmaLong
      <4>3. QED
        BY <3>2, <3>3, <4>2 DEF Target, SmaTarget
    <3>4. CASE s # "sma"
      <4>1. s \in Loops /\ i \in Turns(s, bs) /\ Len(bs) >= First(s)
        BY <2>1, <3>1, <3>4 DEF Begin, Turns
      <4>2. RoundsOf(s, bs, CHOOSE f : RoundsOf(s, bs, f))
        BY <2>1, <4>1, DailyAssumption, RoundAtRounds
      <4>3. RoundAt(s, bs, i).is_long <=> Held(s, i)
        BY <1>1, <4>1, <4>2, DailyAssumption, LongIsHeld DEF RoundAt
      <4>4. QED
        BY <3>2, <3>4, <4>3 DEF Target
    <3>5. QED
      BY <3>3, <3>4
  <2>4. ASSUME NEW n \in Nat, NEW s \in Daily!Strategies
        PROVE  Daily!session_open_at((Begin(s) + n - 1) + 1) = Daily!session_open_at(Begin(s) + n)
    <3>1. Begin(s) \in Nat
      BY <2>1, DailyAssumption, BeginFacts
    <3>2. (Begin(s) + n - 1) + 1 = Begin(s) + n
      BY <3>1
    <3>3. QED
      BY <3>2
  <2>5. ASSUME NEW s \in Daily!Strategies, ~Daily!Call(s, bs).raised
        PROVE  /\ DOMAIN Daily!Call(s, bs).targets = 1 .. Count(s, bs)
               /\ \A n \in DOMAIN Daily!Call(s, bs).targets :
                     /\ Daily!Call(s, bs).targets[n].effective_at = Daily!session_open_at(Begin(s) + n)
                     /\ Daily!Call(s, bs).targets[n].weight = 1
                           <=> IF s = "sma" THEN Daily!AboveMean(Begin(s) + n - 1, Window)
                               ELSE Held(s, Begin(s) + n - 1)
    <3>1. /\ DOMAIN Daily!Call(s, bs).targets = 1 .. Count(s, bs)
          /\ \A n \in 1 .. Count(s, bs) :
                /\ Begin(s) + n - 1 \in Begin(s) .. End(s, bs)
                /\ Daily!Call(s, bs).targets[n] = Target(s, bs, Begin(s) + n - 1)
      BY <2>2, <2>5
    <3>2. \A n \in 1 .. Count(s, bs) : n \in Nat
      OBVIOUS
    <3>3. ASSUME NEW n \in 1 .. Count(s, bs)
          PROVE  /\ Daily!Call(s, bs).targets[n].effective_at = Daily!session_open_at(Begin(s) + n)
                 /\ Daily!Call(s, bs).targets[n].weight = 1
                       <=> IF s = "sma" THEN Daily!AboveMean(Begin(s) + n - 1, Window)
                           ELSE Held(s, Begin(s) + n - 1)
      <4> DEFINE i == Begin(s) + n - 1
      <4>1. i \in Begin(s) .. End(s, bs) /\ Daily!Call(s, bs).targets[n] = Target(s, bs, i)
        BY <3>1
      <4>2. Daily!session_open_at(i + 1) = Daily!session_open_at(Begin(s) + n)
        BY <2>4, <3>2
      <4> HIDE DEF i, bs
      <4>3. /\ Target(s, bs, i).effective_at = Daily!session_open_at(i + 1)
            /\ Target(s, bs, i).weight = 1
                     <=> IF s = "sma" THEN Daily!AboveMean(i, Window) ELSE Held(s, i)
        BY <2>3, <4>1
      <4>4. QED
        BY <4>1, <4>2, <4>3 DEF i
    <3> HIDE DEF bs
    <3>4. QED
      BY <3>1, <3>3
  <2>6. \A s \in Daily!Strategies :
           /\ Begin(s) = CASE s = "sma" -> Window
                           [] s = "s1" -> S1_SMA_WINDOW
                           [] s = "s2" -> S2_ENTRY_WINDOW + 1
           /\ s = "s1" => \A i : Held(s, i) <=> Daily!HeldSince(First(s), i, Daily!S1Entry, Daily!S1Exit)
           /\ s = "s2" => \A i : Held(s, i) <=> Daily!HeldSince(First(s), i, Daily!S2Entry, Daily!S2Exit)
    BY DEF Daily!Strategies, Begin, First, Held, Daily!HeldSince, Entry, Exit
  <2>7. SUFFICES ASSUME NEW s \in Daily!Strategies
                 PROVE  LET result == Daily!Call(s, bs)
                            first == CASE s = "sma" -> Window
                                       [] s = "s1" -> S1_SMA_WINDOW
                                       [] s = "s2" -> S2_ENTRY_WINDOW + 1
                            last == IF s = "sma" THEN Len(bs) - 1 ELSE Len(bs)
                            long(i) == CASE s = "sma" -> Daily!AboveMean(i, Window)
                                         [] s = "s1" -> Daily!HeldSince(first, i, Daily!S1Entry, Daily!S1Exit)
                                         [] s = "s2" -> Daily!HeldSince(first, i, Daily!S2Entry, Daily!S2Exit)
                        IN  ~result.raised =>
                              /\ DOMAIN result.targets = 1 .. (IF last < first THEN 0 ELSE last - first + 1)
                              /\ \A n \in DOMAIN result.targets :
                                    /\ result.targets[n].effective_at = Daily!session_open_at(first + n)
                                    /\ result.targets[n].weight = 1 <=> long(first + n - 1)
    BY DEF Daily!TargetsMatchDefinition
  <2>8. CASE s = "sma"
    BY <2>5, <2>6, <2>8 DEF Count, End, Begin
  <2>9. CASE s = "s1"
    <3>1. /\ Begin(s) = S1_SMA_WINDOW /\ First(s) = S1_SMA_WINDOW
          /\ Count(s, bs) = IF Len(bs) < S1_SMA_WINDOW THEN 0 ELSE Len(bs) - S1_SMA_WINDOW + 1
          /\ s # "sma"
      BY <2>9 DEF Count, End, Begin, First
    <3>2. \A i : Held(s, i) <=> Daily!HeldSince(S1_SMA_WINDOW, i, Daily!S1Entry, Daily!S1Exit)
      BY <2>6, <2>9, <3>1
    <3>3. QED
      BY <2>5, <2>9, <3>1, <3>2
  <2>10. CASE s = "s2"
    <3>1. /\ Begin(s) = S2_ENTRY_WINDOW + 1 /\ First(s) = S2_ENTRY_WINDOW + 1
          /\ Count(s, bs) = IF Len(bs) < S2_ENTRY_WINDOW + 1 THEN 0
                            ELSE Len(bs) - (S2_ENTRY_WINDOW + 1) + 1
          /\ s # "sma"
      BY <2>10 DEF Count, End, Begin, First
    <3>2. \A i : Held(s, i) <=> Daily!HeldSince(S2_ENTRY_WINDOW + 1, i, Daily!S2Entry, Daily!S2Exit)
      BY <2>6, <2>10, <3>1
    <3>3. QED
      BY <2>5, <2>10, <3>1, <3>2
  <2>11. QED
    BY <2>8, <2>9, <2>10 DEF Daily!Strategies
<1>2. Daily!Spec => []Daily!TargetsMatchDefinition
  BY <1>1, DailyAssumption, HistoryHolds, PTL
<1>3. QED
  BY <1>2, WorldsApart, PTL DEF TargetsMatchDefinition

-----------------------------------------------------------------------------
(* What period bars hold *)

LEMMA AvailableIsLatest ==
    ASSUME NEW n \in Nat, NEW S, S \subseteq 1 .. n, S # {}, NEW bs,
           \A i \in S : bs[i].available_at \in Nat
    PROVE  Available(bs, S) \in Nat /\ \A i \in S : bs[i].available_at <= Available(bs, S)
<1> DEFINE f == [i \in S |-> bs[i].available_at]
           A == {bs[i].available_at : i \in S}
<1>1. \A i \in S : f[i] = bs[i].available_at /\ f[i] \in Nat
  OBVIOUS
<1> HIDE DEF f
<1>2. PICK t \in S : \A u \in S : f[u] <= f[t]
  BY <1>1, SomeGreatest
<1>3. f[t] \in A /\ \A y \in A : y <= f[t]
  BY <1>1, <1>2
<1>4. \A i \in S : bs[i].available_at \in A
  OBVIOUS
<1>5. A \subseteq Nat
  OBVIOUS
<1> HIDE DEF A
<1>6. Latest(A) \in A /\ \A y \in A : y <= Latest(A)
  BY <1>3 DEF Latest
<1>7. Available(bs, S) = Latest(A)
  BY DEF Available, A
<1>8. QED
  BY <1>4, <1>5, <1>6, <1>7

\* The bar b of a period holds the close of its last session, is as late as
\* every one of them, and if it is complete they are those that are expected.
Whole(bs, n, b) ==
    /\ b.period \in Nat /\ b.expected = SessionsOf(b.period, n) /\ b.expected # {}
    /\ b.kind.close \in Nat /\ b.available_at \in Nat
    /\ Completeness(b) = "complete" =>
         /\ b.expected \subseteq DOMAIN bs
         /\ b.kind.close = bs[Latest(b.expected)].kind.close
         /\ \A i \in b.expected : bs[i].available_at \in Nat /\ bs[i].available_at <= b.available_at

LEMMA PeriodBarWhole ==
    ASSUME NEW n \in Nat, NEW bs, NEW p \in Nat, NEW c,
           \A i \in DOMAIN bs : WellFormed(bs[i]),
           SessionsOf(p, n) \cap DOMAIN bs # {}
    PROVE  Whole(bs, n, PeriodBar(bs, p, n, c))
<1> DEFINE S == SessionsOf(p, n) \cap DOMAIN bs
           b == PeriodBar(bs, p, n, c)
<1>1. S \subseteq 1 .. n /\ S # {} /\ SessionsOf(p, n) # {} /\ S \subseteq DOMAIN bs
  BY DEF SessionsOf
<1>2. /\ b.period = p /\ b.expected = SessionsOf(p, n) /\ b.constituents = S
      /\ b.available_at = Available(bs, S) /\ b.kind.close = bs[Latest(S)].kind.close
  BY DEF PeriodBar
<1>3. Completeness(b) = "complete" => b.constituents = b.expected
  BY DEF Completeness
<1>4. b.constituents = b.expected => S = SessionsOf(p, n)
  BY <1>2
<1> HIDE DEF S, b
<1>5. Latest(S) \in S
  BY <1>1, LatestIsGreatest
<1>6. \A i \in S : bs[i].available_at \in Nat /\ bs[i].kind.close \in Nat
  BY <1>1 DEF WellFormed, Numbers
<1>7. Available(bs, S) \in Nat /\ \A i \in S : bs[i].available_at <= Available(bs, S)
  BY <1>1, <1>6, AvailableIsLatest
<1>8. QED
  BY <1>1, <1>2, <1>3, <1>4, <1>5, <1>6, <1>7 DEF Whole, b

LEMMA DeriveWhole ==
    ASSUME NEW bs, Len(bs) \in Nat, DOMAIN bs = 1 .. Len(bs),
           \A i \in DOMAIN bs : WellFormed(bs[i]),
           NEW n \in DOMAIN PeriodOf, NEW c
    PROVE  \A k \in DOMAIN Derive(bs, n, c).bars : Whole(bs, n, Derive(bs, n, c).bars[k])
<1> DEFINE ds == Derive(bs, n, c).bars
           G == Groups[Len(bs)]
<1>1. CASE Derive(bs, n, c).raised
  <2>1. ds = <<>>
    BY <1>1 DEF Derive
  <2>2. DOMAIN ds = {}
    BY <2>1
  <2>3. QED
    BY <2>2
<1>2. CASE ~Derive(bs, n, c).raised
  <2>1. /\ Len(bs) \in 0 .. n /\ Len(bs) \in 0 .. Len(PeriodOf) /\ n \in Nat
        /\ Len(PeriodOf) \in Nat
    <3>1. ~(Len(bs) > n)
      BY <1>2, DeriveReturns
    <3>2. n \in 1 .. Len(PeriodOf) /\ Len(PeriodOf) \in Nat
      BY PeriodsAssumption
    <3>3. QED
      BY <3>1, <3>2
  <2>2. Grouped(G, Len(bs))
    BY <2>1, GroupsAreGrouped
  <2>3. ds = [k \in DOMAIN G |-> PeriodBar(bs, G[k], n, c)]
    BY <1>2, DeriveReturns
  <2> HIDE DEF ds, G
  <2>4. Len(G) \in Nat /\ DOMAIN G = 1 .. Len(G) /\ \A k \in 1 .. Len(G) : G[k] \in Nat
    <3>1. G \in Seq(Nat)
      BY <2>2 DEF Grouped
    <3>2. QED
      BY <3>1
  <2>5. ASSUME NEW k \in DOMAIN G PROVE Whole(bs, n, PeriodBar(bs, G[k], n, c))
    <3>1. PICK i \in 1 .. Len(bs) : G[k] = PeriodOf[i]
      BY <2>2, <2>4 DEF Grouped
    <3>2. i \in SessionsOf(G[k], n) \cap DOMAIN bs
      BY <2>1, <3>1 DEF SessionsOf
    <3>3. SessionsOf(G[k], n) \cap DOMAIN bs # {} /\ G[k] \in Nat
      BY <2>4, <3>2
    <3>4. QED
      BY <2>1, <3>3, PeriodBarWhole
  <2>6. QED
    BY <2>3, <2>5 DEF ds
<1>3. Derive(bs, n, c).raised \in BOOLEAN
  BY DEF Derive
<1>4. QED
  BY <1>1, <1>2, <1>3

LEMMA RecordFacts ==
    ASSUME Typed, Recorded, NEW a \in Asset
    PROVE  /\ bars[a] \in Seq(Bar) /\ Len(bars[a]) \in Nat
           /\ DOMAIN bars[a] = 1 .. Len(bars[a])
           /\ bars[a] = <<>> <=> Len(bars[a]) = 0
           /\ \A i \in DOMAIN bars[a] : WellFormed(bars[a][i])
           /\ scheduled \in DOMAIN PeriodOf /\ cutoff \in Nat
<1>1. /\ bars[a] \in Seq(Bar) /\ Len(bars[a]) \in Nat
      /\ DOMAIN bars[a] = 1 .. Len(bars[a])
      /\ bars[a] = <<>> <=> Len(bars[a]) = 0
  BY DEF Typed
<1>2. \A i \in DOMAIN bars[a] : WellFormed(bars[a][i])
  <2>1. TAKE i \in DOMAIN bars[a]
  <2>2. PICK day \in Days, d \in Delays : bars[a][i] = BarOf(i, day[a], d[a])
    BY DEF Recorded
  <2>3. bars[a][i].kind = day[a] /\ bars[a][i].available_at = 4 * i + 2 + d[a]
    BY <2>2 DEF BarOf, session_close_at
  <2>4. i \in Nat /\ d[a] \in Nat
    BY <1>1, PeriodSignalsAssumption
  <2>5. Numbers(day[a]) /\ InOrder(day[a])
    BY PeriodSignalsAssumption DEF Numbers, InOrder
  <2>6. QED
    BY <2>3, <2>4, <2>5 DEF WellFormed
<1>3. scheduled \in DOMAIN PeriodOf /\ cutoff \in Nat
  BY PeriodSignalsAssumption DEF Typed
<1>4. QED
  BY <1>1, <1>2, <1>3

\* So do the bars that are offered.
LEMMA OffersWhole ==
    ASSUME Typed, Recorded, NEW a \in Asset, NEW ps \in Offers(a)
    PROVE  Len(ps) \in Nat /\ DOMAIN ps = 1 .. Len(ps)
           /\ \A k \in 1 .. Len(ps) : Whole(bars[a], scheduled, ps[k])
<1> DEFINE ds == Derived(a).bars
           V == Range(ds)
<1>1. ds \in Seq(V)
  BY RecordFacts, DeriveValid DEF Derived
<1>2. \A k \in DOMAIN ds : Whole(bars[a], scheduled, ds[k])
  BY RecordFacts, DeriveWhole DEF Derived
<1>3. \A b \in V : Whole(bars[a], scheduled, b)
  BY <1>2 DEF Range
<1> HIDE DEF ds, V
<1>4. ps \in Seq(V)
  BY <1>1, OffersDerived DEF ds
<1>5. QED
  BY <1>3, <1>4

\* Consecutive periods are as far apart as they stand.
LEMMA PeriodsApart ==
    ASSUME NEW ps, Len(ps) \in Nat, Consecutive(ps),
           \A k \in 1 .. Len(ps) : ps[k].period \in Nat,
           NEW k \in 1 .. Len(ps), NEW d \in Nat, d < k
    PROVE  ps[k - d].period = ps[k].period - d
<1> DEFINE S == {e \in Nat : e < k /\ ps[k - e].period # ps[k].period - e}
<1>1. SUFFICES ASSUME S # {} PROVE FALSE
  <2>1. d \notin S
    <3> HIDE DEF S
    <3> QED
      BY <1>1
  <2>2. QED
    BY <2>1
<1>2. PICK e \in S : \A x \in S : e <= x
  <2> S \subseteq Nat
    OBVIOUS
  <2> HIDE DEF S
  <2> QED
    BY <1>1, LeastNumber
<1>3. e \in Nat /\ e < k /\ ps[k - e].period # ps[k].period - e /\ ps[k].period \in Nat /\ k \in Nat
  BY <1>2
<1>4. e # 0
  BY <1>3
<1>5. e - 1 \in Nat /\ e - 1 < k
  BY <1>3, <1>4
<1>6. e - 1 \notin S
  <2> HIDE DEF S
  <2> QED
    BY <1>2, <1>3, <1>5
<1>7. ps[k - (e - 1)].period = ps[k].period - (e - 1)
  BY <1>5, <1>6
<1>8. k - (e - 1) \in 2 .. Len(ps) /\ (k - (e - 1)) - 1 = k - e /\ k - e \in 1 .. Len(ps)
  BY <1>3, <1>4
<1>9. ps[k - (e - 1)].period = ps[k - e].period + 1 /\ ps[k - e].period \in Nat
  BY <1>8 DEF Consecutive
<1>10. ps[k - e].period = ps[k].period - e
  <2> DEFINE x == ps[k - (e - 1)].period
             y == ps[k - e].period
             z == ps[k].period
  <2>1. x = y + 1 /\ y \in Nat /\ z \in Nat /\ x = z - (e - 1)
    BY <1>3, <1>7, <1>9
  <2> HIDE DEF x, y, z
  <2>2. y = z - e
    BY <1>3, <2>1
  <2>3. QED
    BY <2>2 DEF y, z
<1>11. QED
  BY <1>3, <1>10

\* A complete, consecutive series of an asset that is offered, whose expected
\* sessions are those of the first n: its closes are those of the daily bars,
\* and a window of it has the sessions of its periods.
Series(a, ps, n) ==
    /\ Len(ps) \in Nat /\ Consecutive(ps) /\ a \in Asset
    /\ n \in DOMAIN PeriodOf
    /\ \A k \in 1 .. Len(ps) :
          /\ ps[k].period \in Nat /\ ps[k].expected = SessionsOf(ps[k].period, n)
          /\ ps[k].expected # {} /\ ps[k].expected \subseteq DOMAIN bars[a]
          /\ ps[k].kind.close \in Nat /\ ps[k].available_at \in Nat
          /\ ps[k].kind.close = CloseOf(a, ps[k].period, n)
          /\ \A i \in ps[k].expected : /\ bars[a][i].available_at \in Nat
                                       /\ bars[a][i].available_at <= ps[k].available_at

LEMMA SeriesOffered ==
    ASSUME Typed, Recorded, NEW a \in Asset, NEW ps \in Offers(a), NEW n \in DOMAIN PeriodOf,
           AllComplete(ps), Consecutive(ps),
           n = scheduled \/ MatchesSchedule(ps, n)
    PROVE  Series(a, ps, n)
<1>1. /\ Len(ps) \in Nat /\ DOMAIN ps = 1 .. Len(ps)
      /\ \A k \in 1 .. Len(ps) : Whole(bars[a], scheduled, ps[k])
  BY OffersWhole
<1>2. ASSUME NEW k \in 1 .. Len(ps)
      PROVE  /\ Completeness(ps[k]) = "complete"
             /\ ps[k].expected = SessionsOf(ps[k].period, n)
  <2>1. Whole(bars[a], scheduled, ps[k])
    BY <1>1
  <2>2. QED
    BY <1>1, <2>1 DEF AllComplete, MatchesSchedule, Whole
<1>3. ASSUME NEW k \in 1 .. Len(ps)
      PROVE  /\ ps[k].period \in Nat /\ ps[k].expected = SessionsOf(ps[k].period, n)
             /\ ps[k].expected # {} /\ ps[k].expected \subseteq DOMAIN bars[a]
             /\ ps[k].kind.close \in Nat /\ ps[k].available_at \in Nat
             /\ ps[k].kind.close = CloseOf(a, ps[k].period, n)
             /\ \A i \in ps[k].expected : /\ bars[a][i].available_at \in Nat
                                       /\ bars[a][i].available_at <= ps[k].available_at
  <2>1. Whole(bars[a], scheduled, ps[k]) /\ Completeness(ps[k]) = "complete"
    BY <1>1, <1>2
  <2>2. ps[k].kind.close = bars[a][Latest(ps[k].expected)].kind.close
    BY <2>1 DEF Whole
  <2>3. QED
    BY <1>2, <2>1, <2>2 DEF Whole, CloseOf
<1>4. QED
  BY <1>1, <1>3 DEF Series

\* The decision that waits for a window of the series is informed.
LEMMA WindowInformed ==
    ASSUME NEW a, NEW ps, NEW n, Series(a, ps, n), NEW k \in 1 .. Len(ps), NEW w \in Nat,
           w >= 1, w <= k, NEW decided \in Nat, Available(ps, k - w + 1 .. k) <= decided
    PROVE  Informed(a, ps[k].period, w, n, decided)
<1> DEFINE p == ps[k].period
<1>1. /\ Len(ps) \in Nat /\ k \in Nat /\ p \in Nat /\ n \in Nat /\ n \in DOMAIN PeriodOf
      /\ \A i \in 1 .. n : PeriodOf[i] \in Nat
  BY PeriodsAssumption DEF Series
<1>2. SUFFICES ASSUME NEW i \in 1 .. n, PeriodOf[i] \in p - w + 1 .. p
               PROVE  i \in DOMAIN bars[a] /\ bars[a][i].available_at <= decided
  BY DEF Informed
<1> DEFINE d == p - PeriodOf[i]
           j == k - d
<1>3. d \in Nat /\ d < w /\ d < k /\ j \in k - w + 1 .. k /\ j \in 1 .. Len(ps)
  <2> HIDE DEF p
  <2>1. PeriodOf[i] \in Nat /\ p - w + 1 <= PeriodOf[i] /\ PeriodOf[i] <= p
    BY <1>1, <1>2
  <2>2. d \in Nat /\ d < w
    BY <1>1, <2>1
  <2> HIDE DEF d
  <2>3. QED
    BY <1>1, <2>2
<1>4. ps[j].period = p - d
  BY <1>1, <1>3, PeriodsApart DEF Series
<1>5. ps[j].period = PeriodOf[i]
  BY <1>1, <1>2, <1>4, SMTT(30)
<1>6. i \in SessionsOf(ps[j].period, n)
  BY <1>5 DEF SessionsOf
<1> HIDE DEF j, d
<1>7. i \in ps[j].expected /\ ps[j].expected \subseteq DOMAIN bars[a]
      /\ bars[a][i].available_at \in Nat /\ bars[a][i].available_at <= ps[j].available_at
  BY <1>3, <1>6 DEF Series
<1>8. ps[j].available_at <= Available(ps, k - w + 1 .. k) /\ Available(ps, k - w + 1 .. k) \in Nat
  <2> DEFINE S == k - w + 1 .. k
  <2>1. S \subseteq 1 .. Len(ps) /\ j \in S
    BY <1>1, <1>3
  <2>2. \A x \in S : ps[x].available_at \in Nat
    BY <2>1 DEF Series
  <2> HIDE DEF S
  <2>3. Available(ps, S) \in Nat /\ \A x \in S : ps[x].available_at <= Available(ps, S)
    <3>1. S # {}
      BY <2>1
    <3>2. QED
      BY <1>1, <2>1, <2>2, <3>1, AvailableIsLatest
  <2>4. QED
    BY <2>1, <2>3 DEF S
<1>9. bars[a][i].available_at <= decided
  <2>1. ps[j].available_at \in Nat
    BY <1>3 DEF Series
  <2>2. ps[j].available_at <= decided
    BY <1>8, <2>1
  <2>3. QED
    BY <1>7, <2>1, <2>2
<1>10. QED
  BY <1>7, <1>9

\* The sums of two windows of the same values are the same.
Shifted(v, u, a, b, c) == \A j \in a .. b : v[j] \in Int /\ u[j + c] = v[j]

LEMMA SumShifts ==
    ASSUME NEW a \in Int, NEW b \in Int, a - 1 <= b, NEW c \in Int, NEW v, NEW u,
           Shifted(v, u, a, b, c)
    PROVE  SumOver(u, a + c, b + c) = SumOver(v, a, b)
<1> USE DEF Shifted
<1> DEFINE S == {k \in Nat : /\ a - 1 + k <= b
                             /\ SumOver(u, a + c, a - 1 + k + c) # SumOver(v, a, a - 1 + k)}
<1>1. SUFFICES ASSUME S # {} PROVE FALSE
  <2> DEFINE k == b - (a - 1)
  <2>1. k \in Nat /\ a - 1 + k = b /\ a - 1 + k + c = b + c
    OBVIOUS
  <2>2. k \notin S
    <3> HIDE DEF S
    <3> QED
      BY <1>1
  <2> HIDE DEF k
  <2>3. QED
    BY <2>1, <2>2
<1>2. PICK k \in S : \A l \in S : k <= l
  <2> S \subseteq Nat
    OBVIOUS
  <2> HIDE DEF S
  <2> QED
    BY <1>1, LeastNumber
<1> DEFINE j == a - 1 + k
<1>3. /\ j \in Int /\ a - 1 <= j /\ j <= b /\ k \in Nat
      /\ \A i \in a .. j : v[i] \in Int /\ u[i + c] = v[i]
      /\ SumOver(u, a + c, j + c) # SumOver(v, a, j)
  BY <1>2
<1>4. \A i \in a + c .. j + c : u[i] \in Int
  <2>1. TAKE i \in a + c .. j + c
  <2>2. i - c \in a .. j /\ (i - c) + c = i
    BY <1>3
  <2>3. QED
    BY <1>3, <2>2
<1>5. a + c \in Int /\ j + c \in Int /\ (a + c) - 1 <= j + c
  BY <1>3
<1>6. CASE k = 0
  <2>1. j = a - 1 /\ j + c = (a + c) - 1
    BY <1>6
  <2>2. SumOver(u, a + c, j + c) = 0
    BY <1>4, <1>5, <2>1, SumSteps
  <2>3. SumOver(v, a, j) = 0
    BY <1>3, <2>1, SumSteps
  <2>4. QED
    BY <1>3, <2>2, <2>3
<1>7. CASE k # 0
  <2>1. k - 1 \in Nat /\ a - 1 + (k - 1) = j - 1 /\ (j - 1) + c = (j + c) - 1 /\ j >= a
        /\ j + c >= a + c /\ j - 1 <= b /\ j \in a .. j
    BY <1>3, <1>7
  <2>2. k - 1 \notin S
    <3> HIDE DEF S
    <3> QED
      BY <1>2, <1>3, <2>1
  <2>3. SumOver(u, a + c, (j + c) - 1) = SumOver(v, a, j - 1)
    BY <2>1, <2>2
  <2>4. SumOver(u, a + c, j + c) = SumOver(u, a + c, (j + c) - 1) + u[j + c]
    BY <1>4, <1>5, <2>1, SumSteps
  <2>5. SumOver(v, a, j) = SumOver(v, a, j - 1) + v[j]
    BY <1>3, <2>1, SumSteps
  <2>6. u[j + c] = v[j]
    BY <1>3, <2>1
  <2>7. QED
    BY <1>3, <2>3, <2>4, <2>5, <2>6
<1>8. QED
  BY <1>6, <1>7

\* A rolling sum over a series sums the closes of whole periods.
LEMMA SeriesSum ==
    ASSUME NEW a, NEW ps, NEW n, Series(a, ps, n), DOMAIN ps = 1 .. Len(ps),
           NEW k \in 1 .. Len(ps), NEW w \in Nat, w >= 1, w <= k
    PROVE  /\ RollingSum(Closes(ps), w)[k]
                 = SumOver([r \in ps[k].period - w + 1 .. ps[k].period |-> CloseOf(a, r, n)],
                           ps[k].period - w + 1, ps[k].period)
           /\ RollingSum(Closes(ps), w)[k] \in Int
<1> DEFINE N == Len(ps)
           v == Closes(ps)
           p == ps[k].period
           u == [r \in p - w + 1 .. p |-> CloseOf(a, r, n)]
<1>1. /\ N \in Nat /\ k \in Nat /\ k <= N /\ p \in Nat
      /\ \A j \in 1 .. N : v[j] = ps[j].kind.close /\ v[j] \in Nat /\ v[j] = CloseOf(a, ps[j].period, n)
  BY DEF Series, Closes
<1>2. Len(v) = N
  <2>1. v = [j \in 1 .. N |-> ps[j].kind.close]
    BY DEF Closes
  <2> HIDE DEF v, N
  <2>2. QED
    BY <1>1, <2>1
<1>3. RollingSum(v, w) = Daily!RollingSum(v, w)
  BY DEF RollingSum, Daily!RollingSum
<1>4. ASSUME NEW j \in k - w + 1 .. k PROVE v[j] \in Int /\ u[j + (p - k)] = v[j]
  <2>1. j \in 1 .. N /\ k - j \in Nat /\ k - j < k /\ k - (k - j) = j
    BY <1>1
  <2>2. ps[j].period = p - (k - j)
    <3>1. ps[k - (k - j)].period = ps[k].period - (k - j)
      <4>1. /\ Len(ps) \in Nat /\ Consecutive(ps)
            /\ \A m \in 1 .. Len(ps) : ps[m].period \in Nat
        BY DEF Series
      <4> DEFINE d == k - j
      <4>2. d \in Nat /\ d < k
        BY <2>1
      <4> HIDE DEF d
      <4>3. ps[k - d].period = ps[k].period - d
        BY <4>1, <4>2, PeriodsApart
      <4>4. QED
        BY <4>3 DEF d
    <3>2. QED
      BY <2>1, <3>1
  <2>3. j + (p - k) = p - (k - j) /\ j + (p - k) \in p - w + 1 .. p
    BY <1>1
  <2>4. QED
    BY <1>1, <2>1, <2>2, <2>3
<1> HIDE DEF v, u, N, p
<1>5. Rolls(v, w, N, RollingSum(v, w))
  BY <1>1, <1>2, <1>3, RollingSumRolls
<1>6. RollingSum(v, w)[k] = SumOver(v, k - w + 1, k)
  <2>1. k \in 0 .. N /\ ~(k < w) /\ \A j \in 1 .. N : v[j] \in Int
    BY <1>1
  <2>2. QED
    BY <1>1, <1>5, <2>1, RolledIsSum
<1>7. k - w + 1 \in Int /\ (k - w + 1) - 1 <= k /\ p - k \in Int
      /\ (k - w + 1) + (p - k) = p - w + 1 /\ k + (p - k) = p
  BY <1>1
<1>8. SumOver(u, (k - w + 1) + (p - k), k + (p - k)) = SumOver(v, k - w + 1, k)
  <2> DEFINE from == k - w + 1
             c == p - k
  <2>1. from \in Int /\ k \in Int /\ from - 1 <= k /\ c \in Int /\ Shifted(v, u, from, k, c)
    BY <1>1, <1>4, <1>7 DEF Shifted
  <2> HIDE DEF from, c
  <2>2. SumOver(u, from + c, k + c) = SumOver(v, from, k)
    BY <2>1, SumShifts
  <2>3. QED
    BY <2>2 DEF from, c
<1>9. SumOver(v, k - w + 1, k) \in Int
  BY <1>1, <1>4, <1>7, SumSteps
<1>10. QED
  BY <1>6, <1>7, <1>8, <1>9 DEF v, u, p

-----------------------------------------------------------------------------
(* What S3 and S4 return *)

\* The target after period k of the series.
PeriodTarget(ps, window, long, k) ==
    TargetPosition(Available(ps, k - window + 1 .. k), session_open_at(ExecutionSession(ps[k])),
                   k \in long)

LEMMA PeriodStepShape ==
    ASSUME NEW before, NEW ps, NEW k, NEW eligible, NEW window, NEW long
    PROVE  LET after == PeriodStep(before, ps, k, eligible, window, long)
           IN  /\ after.raised \in BOOLEAN
               /\ after.raised => after.targets = <<>>
               /\ ~after.raised =>
                    /\ ~before.raised /\ ~(ExecutionSession(ps[k]) > eligible)
                    /\ after.targets = Append(before.targets, PeriodTarget(ps, window, long, k))
  BY DEF PeriodStep, Emit, Raised, Returned, PeriodTarget

Returning(ps, eligible, window, long, k, target) ==
    /\ AllComplete(ps) /\ Consecutive(ps) /\ MatchesSchedule(ps, eligible)
    /\ k \in window .. Len(ps)
    /\ ~(ExecutionSession(ps[k]) > eligible)
    /\ target = PeriodTarget(ps, window, long, k)

\* A target for each period from the first with a whole window, each with a
\* session to take effect in; or no target.
LEMMA PeriodTargetsReturn ==
    ASSUME NEW ps, Len(ps) \in Nat, NEW eligible, NEW window \in Nat \ {0}, NEW long,
           NEW n \in DOMAIN PeriodTargets(ps, eligible, window, long).targets
    PROVE  Returning(ps, eligible, window, long, window - 1 + n,
                     PeriodTargets(ps, eligible, window, long).targets[n])
<1> DEFINE start == window - 1
           N == Len(ps)
           T(i) == [m \in 1 .. i - start |-> PeriodTarget(ps, window, long, start + m)]
           f == CHOOSE f : Periods(ps, eligible, start, window, long, N, f)
<1>1. start \in Nat /\ N \in Nat /\ start + 1 = window /\ window \in Nat
  OBVIOUS
<1>2. DOMAIN <<>> = {}
  OBVIOUS
<1>3. AllComplete(ps) /\ Consecutive(ps) /\ MatchesSchedule(ps, eligible) /\ ~(Len(ps) < window)
  <2>1. CASE ~(AllComplete(ps) /\ Consecutive(ps) /\ MatchesSchedule(ps, eligible))
    <3>1. PeriodTargets(ps, eligible, window, long).targets = <<>>
      BY <2>1 DEF PeriodTargets, Raised
    <3>2. QED
      BY <1>2, <3>1
  <2>2. CASE AllComplete(ps) /\ Consecutive(ps) /\ MatchesSchedule(ps, eligible) /\ Len(ps) < window
    <3>1. PeriodTargets(ps, eligible, window, long).targets = <<>>
      BY <2>2 DEF PeriodTargets, Returned
    <3>2. QED
      BY <1>2, <3>1
  <2>3. QED
    BY <2>1, <2>2
<1>4. PeriodTargets(ps, eligible, window, long) = f[N]
  BY <1>3 DEF PeriodTargets, Periods, PeriodStep
<1> HIDE DEF start, N
<1>5. start <= N /\ window <= N
  BY <1>1, <1>3 DEF N
<1>6. Periods(ps, eligible, start, window, long, N, f)
  BY <1>1, <1>5, PeriodsExist
<1> HIDE DEF f
<1> DEFINE P(i) == /\ f[i].raised \in BOOLEAN
                   /\ f[i].raised => f[i].targets = <<>>
                   /\ ~f[i].raised =>
                        /\ f[i].targets = T(i)
                        /\ \A k \in start + 1 .. i : ~(ExecutionSession(ps[k]) > eligible)
           S == {i \in Nat : start <= i /\ i <= N /\ ~P(i)}
<1>7. S = {}
  <2>1. SUFFICES ASSUME S # {} PROVE FALSE
    OBVIOUS
  <2>2. PICK i \in S : \A j \in S : i <= j
    <3> S \subseteq Nat
      OBVIOUS
    <3> HIDE DEF S
    <3> QED
      BY <2>1, LeastNumber
  <2>3. i \in Nat /\ start <= i /\ i <= N /\ ~P(i)
    BY <2>2
  <2>4. CASE i = start
    <3>1. f[i] = Returned(<<>>)
      BY <1>1, <1>5, <1>6, <2>4 DEF Periods
    <3>2. 1 .. i - start = {} /\ start + 1 .. i = {}
      BY <1>1, <2>4
    <3>3. T(i) = <<>>
      BY <3>2
    <3> HIDE DEF T
    <3>4. QED
      BY <2>3, <3>1, <3>2, <3>3 DEF Returned
  <2>5. CASE i # start
    <3>1. i - 1 \in Nat /\ start <= i - 1 /\ i - 1 <= N /\ i \in start .. N
      BY <1>1, <2>3, <2>5
    <3>2. P(i - 1)
      <4>1. i - 1 \notin S
        <5> HIDE DEF S
        <5> QED
          BY <2>2, <2>3, <3>1
      <4> HIDE DEF P
      <4>2. QED
        BY <3>1, <4>1
    <3>3. f[i] = PeriodStep(f[i - 1], ps, i, eligible, window, long)
      BY <1>6, <2>5, <3>1 DEF Periods
    <3>4. /\ f[i].raised \in BOOLEAN
          /\ f[i].raised => f[i].targets = <<>>
          /\ ~f[i].raised =>
                /\ ~f[i - 1].raised /\ ~(ExecutionSession(ps[i]) > eligible)
                /\ f[i].targets = Append(f[i - 1].targets, PeriodTarget(ps, window, long, i))
      BY <3>3, PeriodStepShape, SMTT(30)
    <3>5. ASSUME ~f[i].raised
          PROVE  /\ f[i].targets = T(i)
                 /\ \A k \in start + 1 .. i : ~(ExecutionSession(ps[k]) > eligible)
      <4> DEFINE m == (i - 1) - start
                 F == [x \in 1 .. m + 1 |-> PeriodTarget(ps, window, long, start + x)]
      <4>1. m \in Nat /\ m + 1 = i - start /\ start + (m + 1) = i
        BY <1>1, <3>1
      <4>2. f[i - 1].targets = T(i - 1)
        BY <3>2, <3>4, <3>5
      <4>3. F = T(i) /\ F = [x \in 1 .. m + 1 |-> F[x]]
        BY <4>1
      <4>4. T(i - 1) = [x \in 1 .. m |-> F[x]]
        <5>1. \A x \in 1 .. m : x \in 1 .. m + 1
          BY <4>1
        <5>2. T(i - 1) = [x \in 1 .. m |-> PeriodTarget(ps, window, long, start + x)]
          OBVIOUS
        <5>3. QED
          BY <5>1, <5>2
      <4>5. F[m + 1] = PeriodTarget(ps, window, long, i)
        BY <4>1
      <4> HIDE DEF F, m, T
      <4>6. Append([x \in 1 .. m |-> F[x]], F[m + 1]) = F
        BY <4>1, <4>3, AppendNext
      <4>7. f[i].targets = T(i)
        BY <3>4, <3>5, <4>2, <4>3, <4>4, <4>5, <4>6
      <4>8. \A k \in start + 1 .. i : k = i \/ k \in start + 1 .. i - 1
        BY <1>1, <2>3
      <4>9. QED
        BY <3>2, <3>4, <3>5, <4>7, <4>8
    <3>6. QED
      BY <2>3, <3>4, <3>5
  <2>6. QED
    BY <2>4, <2>5
<1>8. P(N)
  <2>1. N \notin S /\ N \in Nat /\ start <= N
    BY <1>1, <1>5, <1>7
  <2> HIDE DEF P
  <2>2. QED
    BY <2>1
<1>9. ~f[N].raised
  BY <1>2, <1>4, <1>8
<1>10. /\ PeriodTargets(ps, eligible, window, long).targets = T(N)
       /\ \A k \in start + 1 .. N : ~(ExecutionSession(ps[k]) > eligible)
  BY <1>4, <1>8, <1>9
<1>11. n \in 1 .. N - start
  BY <1>10
<1>12. start + n \in window .. N /\ start + n \in start + 1 .. N
  BY <1>1, <1>11
<1>13. T(N)[n] = PeriodTarget(ps, window, long, start + n)
  BY <1>11
<1> HIDE DEF T
<1>14. QED
  BY <1>3, <1>10, <1>12, <1>13 DEF Returning, start, N

\* The session after the last one of a period is the first of a later period.
LEMMA NextPeriod ==
    ASSUME NEW n \in DOMAIN PeriodOf, NEW p \in Nat, SessionsOf(p, n) # {},
           ~(Latest(SessionsOf(p, n)) + 1 > n)
    PROVE  LET after == {i \in 1 .. n : PeriodOf[i] > p}
           IN  after # {} /\ Earliest(after) = Latest(SessionsOf(p, n)) + 1
<1> DEFINE S == SessionsOf(p, n)
           e == Latest(S) + 1
           after == {i \in 1 .. n : PeriodOf[i] > p}
<1>1. /\ n \in Nat /\ \A i \in 1 .. n : i \in DOMAIN PeriodOf /\ PeriodOf[i] \in Nat
      /\ \A i, j \in 1 .. n : i <= j => PeriodOf[i] <= PeriodOf[j]
  BY PeriodsAssumption
<1>2. S \subseteq 1 .. n /\ \A i \in 1 .. n : i \in S <=> PeriodOf[i] = p
  BY DEF SessionsOf
<1>3. Latest(S) \in S /\ \A i \in S : i <= Latest(S)
  <2> HIDE DEF S
  <2>1. S # {}
    BY DEF S
  <2>2. QED
    BY <1>1, <1>2, <2>1, LatestIsGreatest
<1>4. e \in 1 .. n /\ Latest(S) \in 1 .. n /\ Latest(S) < e
  BY <1>1, <1>2, <1>3
<1>5. PeriodOf[e] > p
  <2>1. PeriodOf[Latest(S)] = p /\ PeriodOf[Latest(S)] <= PeriodOf[e]
    BY <1>1, <1>2, <1>3, <1>4
  <2>2. e \notin S
    BY <1>3, <1>4
  <2>3. QED
    BY <1>1, <1>2, <1>4, <2>1, <2>2
<1>6. ASSUME NEW i \in after PROVE e <= i
  <2>1. i \in 1 .. n /\ PeriodOf[i] > p /\ i \in Nat
    OBVIOUS
  <2>2. SUFFICES ASSUME i <= Latest(S) PROVE FALSE
    BY <1>4, <2>1
  <2>3. PeriodOf[i] <= p
    BY <1>1, <1>2, <1>3, <1>4, <2>1, <2>2
  <2>4. QED
    BY <1>1, <2>1, <2>3
<1>7. e \in after /\ after \subseteq Nat
  BY <1>4, <1>5
<1> HIDE DEF after
<1>8. Earliest(after) \in after /\ \A i \in after : Earliest(after) <= i
  BY <1>7, EarliestIsLeast
<1>9. Earliest(after) = e
  <2>1. Earliest(after) <= e /\ e <= Earliest(after) /\ Earliest(after) \in Nat /\ e \in Nat
    BY <1>6, <1>7, <1>8
  <2>2. QED
    BY <2>1
<1>10. QED
  BY <1>7, <1>9 DEF after

\* What S3 and S4 promise of the target after period k, where long are the
\* periods whose closes say so.
Matching(ps, eligible, window, long, k, target) ==
    LET p == ps[k].period
        after == {i \in 1 .. eligible : PeriodOf[i] > p}
    IN  /\ Series("QQQ", ps, eligible) /\ DOMAIN ps = 1 .. Len(ps)
        /\ k \in 1 .. Len(ps) /\ window <= k
        /\ after # {}
        /\ target.effective_at = session_open_at(Earliest(after))
        /\ Informed("QQQ", p, window, eligible, target.decision_at)
        /\ target.weight = 1 <=> k \in long

LEMMA PeriodTargetMatches ==
    ASSUME Typed, Recorded, NEW ps \in Offers("QQQ"), NEW eligible \in Eligible,
           NEW window \in Nat \ {0}, NEW long,
           NEW n \in DOMAIN PeriodTargets(ps, eligible, window, long).targets
    PROVE  Matching(ps, eligible, window, long, window - 1 + n,
                    PeriodTargets(ps, eligible, window, long).targets[n])
<1> DEFINE k == window - 1 + n
           p == ps[k].period
           target == PeriodTargets(ps, eligible, window, long).targets[n]
<1>1. Len(ps) \in Nat /\ DOMAIN ps = 1 .. Len(ps) /\ "QQQ" \in Asset /\ eligible \in DOMAIN PeriodOf
  BY OffersWhole, PeriodSignalsAssumption DEF Asset
<1>2. /\ AllComplete(ps) /\ Consecutive(ps) /\ MatchesSchedule(ps, eligible)
      /\ k \in window .. Len(ps)
      /\ ~(ExecutionSession(ps[k]) > eligible)
      /\ target = PeriodTarget(ps, window, long, k)
  <2>1. Returning(ps, eligible, window, long, window - 1 + n,
                  PeriodTargets(ps, eligible, window, long).targets[n])
    BY <1>1, PeriodTargetsReturn
  <2>2. Returning(ps, eligible, window, long, k, target)
    BY <2>1
  <2> HIDE DEF k, target
  <2>3. QED
    BY <2>2 DEF Returning
<1> HIDE DEF k, target
<1>3. k \in 1 .. Len(ps) /\ window <= k /\ k \in Nat /\ window \in Nat /\ window >= 1
  BY <1>1, <1>2
<1>4. Series("QQQ", ps, eligible)
  BY <1>1, <1>2, SeriesOffered
<1>5. ps[k].expected = SessionsOf(p, eligible) /\ SessionsOf(p, eligible) # {} /\ p \in Nat
  BY <1>3, <1>4 DEF Series
<1>6. /\ target.decision_at = Available(ps, k - window + 1 .. k)
      /\ target.effective_at = session_open_at(Latest(SessionsOf(p, eligible)) + 1)
      /\ target.weight = 1 <=> k \in long
      /\ ~(Latest(SessionsOf(p, eligible)) + 1 > eligible)
  BY <1>2, <1>5 DEF PeriodTarget, TargetPosition, ExecutionSession
<1>7. Available(ps, k - window + 1 .. k) \in Nat
  <2> DEFINE S == k - window + 1 .. k
  <2>1. S \subseteq 1 .. Len(ps) /\ k \in S
    BY <1>1, <1>3
  <2>2. \A x \in S : ps[x].available_at \in Nat
    BY <1>4, <2>1 DEF Series
  <2> HIDE DEF S
  <2>3. Available(ps, S) \in Nat
    BY <1>1, <2>1, <2>2, AvailableIsLatest
  <2>4. QED
    BY <2>3 DEF S
<1>8. Informed("QQQ", p, window, eligible, target.decision_at)
  <2>1. target.decision_at \in Nat /\ Available(ps, k - window + 1 .. k) <= target.decision_at
    BY <1>6, <1>7
  <2>2. QED
    BY <1>3, <1>4, <2>1, WindowInformed
<1>9. LET after == {i \in 1 .. eligible : PeriodOf[i] > p}
      IN  after # {} /\ Earliest(after) = Latest(SessionsOf(p, eligible)) + 1
  BY <1>1, <1>5, <1>6, NextPeriod
<1>10. QED
  BY <1>1, <1>3, <1>4, <1>6, <1>8, <1>9 DEF Matching, k, target

\* A target of S3 or S4 says what the closes of whole periods say.
LEMMA TargetsMatch ==
    ASSUME Typed, Recorded PROVE TargetsMatchDailyBars
<1> DEFINE result(s, ps, eligible) ==
              IF s = "s3" THEN S3Targets(ps, eligible) ELSE S4Targets(ps, eligible)
           window(s) == IF s = "s3" THEN S3_SLOW_WINDOW ELSE S4_MONTHLY_SMA_WINDOW
           fast(s) == IF s = "s3" THEN S3_FAST_WINDOW ELSE 1
           k(s, n) == window(s) - 1 + n
<1>1. SUFFICES ASSUME NEW ps \in Offers("QQQ"), NEW eligible \in Eligible, NEW s \in {"s3", "s4"},
                      NEW n \in DOMAIN result(s, ps, eligible).targets
               PROVE  LET target == result(s, ps, eligible).targets[n]
                          p == ps[window(s) - 1 + n].period
                          after == {i \in 1 .. eligible : PeriodOf[i] > p}
                      IN  /\ after # {}
                          /\ target.effective_at = session_open_at(Earliest(after))
                          /\ Informed("QQQ", p, window(s), eligible, target.decision_at)
                          /\ target.weight = 1 <=> MeanAbove("QQQ", p, eligible, fast(s), window(s))
  BY DEF TargetsMatchDailyBars
<1>2. /\ S3_FAST_WINDOW \in Nat /\ S3_FAST_WINDOW >= 1 /\ S3_SLOW_WINDOW \in Nat \ {0}
      /\ S3_FAST_WINDOW < S3_SLOW_WINDOW /\ S4_MONTHLY_SMA_WINDOW \in Nat \ {0}
  BY PeriodSignalsAssumption
<1>3. CASE s = "s3"
  <2> DEFINE long == {j \in S3_SLOW_WINDOW .. Len(ps) :
                        RollingSum(Closes(ps), S3_FAST_WINDOW)[j] * S3_SLOW_WINDOW
                           > RollingSum(Closes(ps), S3_SLOW_WINDOW)[j] * S3_FAST_WINDOW}
             j == S3_SLOW_WINDOW - 1 + n
             p == ps[j].period
             target == PeriodTargets(ps, eligible, S3_SLOW_WINDOW, long).targets[n]
             after == {i \in 1 .. eligible : PeriodOf[i] > p}
  <2>1. result(s, ps, eligible) = PeriodTargets(ps, eligible, S3_SLOW_WINDOW, long)
    BY <1>3 DEF S3Targets
  <2>2. n \in DOMAIN PeriodTargets(ps, eligible, S3_SLOW_WINDOW, long).targets
    BY <2>1
  <2> HIDE DEF long
  <2>3. /\ Series("QQQ", ps, eligible) /\ DOMAIN ps = 1 .. Len(ps)
        /\ j \in 1 .. Len(ps) /\ S3_SLOW_WINDOW <= j
        /\ after # {} /\ target.effective_at = session_open_at(Earliest(after))
        /\ Informed("QQQ", p, S3_SLOW_WINDOW, eligible, target.decision_at)
        /\ target.weight = 1 <=> j \in long
    <3>1. Matching(ps, eligible, S3_SLOW_WINDOW, long, S3_SLOW_WINDOW - 1 + n,
                   PeriodTargets(ps, eligible, S3_SLOW_WINDOW, long).targets[n])
      BY <1>2, <2>2, PeriodTargetMatches
    <3>2. Matching(ps, eligible, S3_SLOW_WINDOW, long, j, target)
      BY <3>1
    <3> HIDE DEF j, target
    <3>3. QED
      BY <3>2 DEF Matching
  <2> HIDE DEF after, target, j
  <2>4. \A w \in Nat : w >= 1 /\ w <= j =>
           RollingSum(Closes(ps), w)[j]
              = SumOver([r \in p - w + 1 .. p |-> CloseOf("QQQ", r, eligible)], p - w + 1, p)
    BY <2>3, SeriesSum
  <2>5. S3_FAST_WINDOW <= j /\ j \in S3_SLOW_WINDOW .. Len(ps) /\ S3_SLOW_WINDOW >= 1
        /\ S3_SLOW_WINDOW \in Nat
    <3>1. Len(ps) \in Nat
      BY <2>3 DEF Series
    <3>2. QED
      BY <1>2, <2>3, <3>1
  <2>6. j \in long <=> MeanAbove("QQQ", p, eligible, S3_FAST_WINDOW, S3_SLOW_WINDOW)
    <3>1. j \in long <=> RollingSum(Closes(ps), S3_FAST_WINDOW)[j] * S3_SLOW_WINDOW
                           > RollingSum(Closes(ps), S3_SLOW_WINDOW)[j] * S3_FAST_WINDOW
      BY <2>5 DEF long
    <3>2. QED
      BY <1>2, <2>3, <2>4, <2>5, <3>1 DEF MeanAbove
  <2>7. QED
    BY <1>3, <2>1, <2>3, <2>6 DEF after, target, j
<1>4. CASE s = "s4"
  <2> DEFINE W == S4_MONTHLY_SMA_WINDOW
             long == {j \in S4_MONTHLY_SMA_WINDOW .. Len(ps) :
                        ps[j].kind.close * S4_MONTHLY_SMA_WINDOW
                           > RollingSum(Closes(ps), S4_MONTHLY_SMA_WINDOW)[j]}
             j == S4_MONTHLY_SMA_WINDOW - 1 + n
             p == ps[j].period
             target == PeriodTargets(ps, eligible, S4_MONTHLY_SMA_WINDOW, long).targets[n]
             after == {i \in 1 .. eligible : PeriodOf[i] > p}
  <2>1. result(s, ps, eligible) = PeriodTargets(ps, eligible, S4_MONTHLY_SMA_WINDOW, long)
    BY <1>4 DEF S4Targets
  <2>2. n \in DOMAIN PeriodTargets(ps, eligible, S4_MONTHLY_SMA_WINDOW, long).targets
    BY <2>1
  <2> HIDE DEF long
  <2>3. /\ Series("QQQ", ps, eligible) /\ DOMAIN ps = 1 .. Len(ps)
        /\ j \in 1 .. Len(ps) /\ S4_MONTHLY_SMA_WINDOW <= j
        /\ after # {} /\ target.effective_at = session_open_at(Earliest(after))
        /\ Informed("QQQ", p, S4_MONTHLY_SMA_WINDOW, eligible, target.decision_at)
        /\ target.weight = 1 <=> j \in long
    <3>1. Matching(ps, eligible, S4_MONTHLY_SMA_WINDOW, long, S4_MONTHLY_SMA_WINDOW - 1 + n,
                   PeriodTargets(ps, eligible, S4_MONTHLY_SMA_WINDOW, long).targets[n])
      BY <1>2, <2>2, PeriodTargetMatches
    <3>2. Matching(ps, eligible, S4_MONTHLY_SMA_WINDOW, long, j, target)
      BY <3>1
    <3> HIDE DEF j, target
    <3>3. QED
      BY <3>2 DEF Matching
  <2> HIDE DEF after, target, j
  <2>4. /\ RollingSum(Closes(ps), W)[j]
              = SumOver([r \in p - W + 1 .. p |-> CloseOf("QQQ", r, eligible)], p - W + 1, p)
        /\ RollingSum(Closes(ps), W)[j] \in Int
    BY <1>2, <2>3, SeriesSum
  <2>5. p \in Nat /\ ps[j].kind.close = CloseOf("QQQ", p, eligible) /\ ps[j].kind.close \in Nat
        /\ Len(ps) \in Nat
    BY <2>3 DEF Series
  <2>6. SumOver([r \in p - 1 + 1 .. p |-> CloseOf("QQQ", r, eligible)], p - 1 + 1, p)
           = ps[j].kind.close
    <3> DEFINE u == [r \in p - 1 + 1 .. p |-> CloseOf("QQQ", r, eligible)]
               x == p
    <3>1. p - 1 + 1 = p /\ p .. p = {p} /\ p .. p - 1 = {} /\ p - 1 \in Int
      BY <2>5
    <3>2. u[p] = ps[j].kind.close /\ \A i \in p .. p : u[i] \in Int
      BY <2>5, <3>1
    <3> HIDE DEF u, p
    <3>3. SumOver(u, p, p) = SumOver(u, p, p - 1) + u[p]
      BY <2>5, <3>1, <3>2, SumSteps
    <3>4. SumOver(u, p, p - 1) = 0
      BY <2>5, <3>1, SumSteps
    <3>5. QED
      BY <2>5, <3>1, <3>2, <3>3, <3>4 DEF u
  <2>7. j \in long <=> MeanAbove("QQQ", p, eligible, 1, W)
    <3>1. j \in S4_MONTHLY_SMA_WINDOW .. Len(ps)
      BY <1>2, <2>3, <2>5
    <3>2. j \in long <=> ps[j].kind.close * W > RollingSum(Closes(ps), W)[j]
      BY <3>1 DEF long
    <3>3. RollingSum(Closes(ps), W)[j] * 1 = RollingSum(Closes(ps), W)[j]
      BY <2>4
    <3>4. MeanAbove("QQQ", p, eligible, 1, W)
             <=> ps[j].kind.close * W > RollingSum(Closes(ps), W)[j] * 1
      BY <2>4, <2>6 DEF MeanAbove
    <3>5. QED
      BY <3>2, <3>3, <3>4
  <2>8. s # "s3"
    BY <1>4
  <2>9. QED
    BY <2>1, <2>3, <2>7, <2>8 DEF after, target, j
<1>5. QED
  BY <1>3, <1>4

-----------------------------------------------------------------------------
(* What S5 returns *)

\* The asset whose growth is greater, if it is a growth.
LEMMA SelectionSays ==
    ASSUME NEW q, NEW d, q.n \in Nat, q.d \in Nat, d.n \in Nat, d.d \in Nat
    PROVE  /\ Selection(q, d) = "QQQ" <=> q.n > q.d /\ q.n * d.d > d.n * q.d
           /\ Selection(q, d) = "DIA" <=> d.n > d.d /\ d.n * q.d > q.n * d.d
           /\ Selection(q, d) = "relative_tie" <=> /\ ~(q.n * d.d > d.n * q.d)
                                                   /\ ~(d.n * q.d > q.n * d.d)
<1> DEFINE x == q.n * d.d
           y == d.n * q.d
           selected == IF x > y THEN [asset |-> "QQQ", growth |-> q]
                       ELSE [asset |-> "DIA", growth |-> d]
<1>1. x \in Int /\ y \in Int
  OBVIOUS
<1>2. Selection(q, d) = CASE x = y -> "relative_tie"
                          [] x # y /\ selected.growth.n > selected.growth.d -> selected.asset
                          [] OTHER -> "cash_non_positive"
  BY DEF Selection
<1> HIDE DEF x, y
<1>3. /\ x > y => selected.asset = "QQQ" /\ selected.growth = q
      /\ ~(x > y) => selected.asset = "DIA" /\ selected.growth = d
  OBVIOUS
<1> HIDE DEF selected
<1>4. /\ Selection(q, d) = "QQQ" <=> q.n > q.d /\ x > y
      /\ Selection(q, d) = "DIA" <=> d.n > d.d /\ y > x
      /\ Selection(q, d) = "relative_tie" <=> ~(x > y) /\ ~(y > x)
  <2>1. CASE x = y
    BY <1>1, <1>2, <2>1
  <2>2. CASE x > y
    BY <1>1, <1>2, <1>3, <2>2
  <2>3. CASE y > x
    BY <1>1, <1>2, <1>3, <2>3
  <2>4. QED
    BY <1>1, <2>1, <2>2, <2>3
<1>5. QED
  BY <1>4 DEF x, y

\* The signal at position k of two series.
Signal(qqq, dia, k) ==
    [period |-> qqq[k].period,
     decision_at |-> Latest({Available(qqq, k - S5_LOOKBACK_MONTHS .. k),
                             Available(dia, k - S5_LOOKBACK_MONTHS .. k)}),
     selected |-> Selection(Growth(Closes(qqq), k, S5_LOOKBACK_MONTHS),
                            Growth(Closes(dia), k, S5_LOOKBACK_MONTHS))]

Comparing(qqq, dia, k, signal) ==
    /\ AllComplete(qqq) /\ AllComplete(dia) /\ Consecutive(qqq) /\ Consecutive(dia)
    /\ Aligned(qqq, dia)
    /\ k \in S5_LOOKBACK_MONTHS + 1 .. Len(qqq)
    /\ signal = Signal(qqq, dia, k)

LEMMA S5SignalsReturn ==
    ASSUME NEW qqq, NEW dia, Len(qqq) \in Nat, NEW n \in DOMAIN S5Signals(qqq, dia).targets
    PROVE  Comparing(qqq, dia, n + S5_LOOKBACK_MONTHS, S5Signals(qqq, dia).targets[n])
<1> DEFINE refused == \/ ~AllComplete(qqq) \/ ~AllComplete(dia)
                      \/ qqq = <<>> \/ dia = <<>>
                      \/ ~Consecutive(qqq) \/ ~Consecutive(dia)
                      \/ ~Aligned(qqq, dia)
           lookback == S5_LOOKBACK_MONTHS
           signals == [m \in 1 .. Len(qqq) - lookback |-> Signal(qqq, dia, m + lookback)]
<1>1. S5Signals(qqq, dia)
         = IF refused THEN Raised ELSE Returned(IF Len(qqq) <= lookback THEN <<>> ELSE signals)
  BY DEF S5Signals, Signal
<1>2. DOMAIN <<>> = {}
  OBVIOUS
<1> HIDE DEF refused, signals
<1>3. ~refused /\ ~(Len(qqq) <= lookback) /\ S5Signals(qqq, dia).targets = signals
  BY <1>1, <1>2 DEF Raised, Returned
<1>4. n \in 1 .. Len(qqq) - lookback /\ signals[n] = Signal(qqq, dia, n + lookback)
  BY <1>3 DEF signals
<1>5. n + lookback \in lookback + 1 .. Len(qqq)
  <2>1. lookback \in Nat
    BY PeriodSignalsAssumption
  <2> HIDE DEF lookback
  <2>2. QED
    BY <1>4, <2>1
<1>6. QED
  BY <1>3, <1>4, <1>5 DEF Comparing, refused

\* What S5 promises of an asset's series ps at position k.
Compared(a, ps, k, growth) ==
    /\ growth.n = CloseOf(a, ps[k].period, scheduled) /\ growth.n \in Nat
    /\ growth.d = CloseOf(a, ps[k].period - S5_LOOKBACK_MONTHS, scheduled) /\ growth.d \in Nat
    /\ Available(ps, k - S5_LOOKBACK_MONTHS .. k) \in Nat
    /\ \A decided \in Nat :
          Available(ps, k - S5_LOOKBACK_MONTHS .. k) <= decided
             => Informed(a, ps[k].period, S5_LOOKBACK_MONTHS + 1, scheduled, decided)

LEMMA SeriesCompared ==
    ASSUME Typed, Recorded, NEW a \in Asset, NEW ps \in Offers(a),
           AllComplete(ps), Consecutive(ps), NEW k \in S5_LOOKBACK_MONTHS + 1 .. Len(ps)
    PROVE  Compared(a, ps, k, Growth(Closes(ps), k, S5_LOOKBACK_MONTHS))
<1> DEFINE lookback == S5_LOOKBACK_MONTHS
           growth == Growth(Closes(ps), k, S5_LOOKBACK_MONTHS)
<1>1. /\ Len(ps) \in Nat /\ DOMAIN ps = 1 .. Len(ps) /\ scheduled \in DOMAIN PeriodOf
      /\ lookback \in Nat /\ lookback >= 1
  BY OffersWhole, RecordFacts, PeriodSignalsAssumption
<1>2. Series(a, ps, scheduled)
  BY <1>1, SeriesOffered
<1>3. growth.n = Closes(ps)[k] /\ growth.d = Closes(ps)[k - lookback]
  BY DEF Growth
<1> HIDE DEF growth
<1>4. k \in 1 .. Len(ps) /\ k - lookback \in 1 .. Len(ps) /\ lookback < k /\ k \in Nat
      /\ k - (lookback + 1) + 1 = k - lookback /\ lookback + 1 \in Nat /\ lookback + 1 >= 1
      /\ lookback + 1 <= k
  <2> HIDE DEF lookback
  <2>1. k \in lookback + 1 .. Len(ps)
    BY DEF lookback
  <2>2. QED
    BY <1>1, <2>1
<1>5. ps[k - lookback].period = ps[k].period - lookback
  <2>1. Len(ps) \in Nat /\ Consecutive(ps) /\ \A j \in 1 .. Len(ps) : ps[j].period \in Nat
    BY <1>2 DEF Series
  <2> HIDE DEF lookback
  <2>2. QED
    BY <1>1, <1>4, <2>1, PeriodsApart
<1>6. growth.n = ps[k].kind.close /\ growth.d = ps[k - lookback].kind.close
  BY <1>1, <1>3, <1>4 DEF Closes
<1>7. /\ growth.n = CloseOf(a, ps[k].period, scheduled) /\ growth.n \in Nat
      /\ growth.d = CloseOf(a, ps[k].period - lookback, scheduled) /\ growth.d \in Nat
  <2>1. /\ ps[k].kind.close = CloseOf(a, ps[k].period, scheduled) /\ ps[k].kind.close \in Nat
    BY <1>2, <1>4 DEF Series
  <2>2. /\ ps[k - lookback].kind.close = CloseOf(a, ps[k - lookback].period, scheduled)
        /\ ps[k - lookback].kind.close \in Nat
    BY <1>2, <1>4 DEF Series
  <2>3. QED
    BY <1>5, <1>6, <2>1, <2>2
<1>8. Available(ps, k - lookback .. k) \in Nat
  <2> DEFINE S == k - lookback .. k
  <2>1. S \subseteq 1 .. Len(ps) /\ k \in S
    BY <1>1, <1>4
  <2>2. \A x \in S : ps[x].available_at \in Nat
    BY <1>2, <2>1 DEF Series
  <2> HIDE DEF S
  <2>3. Available(ps, S) \in Nat
    BY <1>1, <2>1, <2>2, AvailableIsLatest
  <2>4. QED
    BY <2>3 DEF S
<1>9. ASSUME NEW decided \in Nat, Available(ps, k - lookback .. k) <= decided
      PROVE  Informed(a, ps[k].period, lookback + 1, scheduled, decided)
  <2> DEFINE w == lookback + 1
  <2>1. w \in Nat /\ w >= 1 /\ w <= k /\ k - w + 1 = k - lookback
    BY <1>4
  <2>2. Available(ps, k - w + 1 .. k) <= decided
    BY <1>9, <2>1
  <2> HIDE DEF w
  <2>3. Informed(a, ps[k].period, w, scheduled, decided)
    BY <1>2, <1>4, <2>1, <2>2, WindowInformed
  <2>4. QED
    BY <2>3 DEF w
<1>10. QED
  BY <1>7, <1>8, <1>9 DEF Compared, growth

LEMMA LatestOfPair ==
    ASSUME NEW a \in Nat, NEW b \in Nat
    PROVE  Latest({a, b}) \in Nat /\ a <= Latest({a, b}) /\ b <= Latest({a, b})
<1>1. \E t \in {a, b} : \A u \in {a, b} : u <= t
  OBVIOUS
<1>2. QED
  BY <1>1 DEF Latest

\* A signal of S5 says what the closes of whole periods say.
LEMMA MomentumMatches ==
    ASSUME Typed, Recorded PROVE MomentumMatchesDailyBars
<1>1. SUFFICES ASSUME NEW qqq \in Offers("QQQ"), NEW dia \in Offers("DIA"),
                      NEW n \in DOMAIN S5Signals(qqq, dia).targets
               PROVE  LET signal == S5Signals(qqq, dia).targets[n]
                          p == signal.period
                          base(a) == CloseOf(a, p - S5_LOOKBACK_MONTHS, scheduled)
                          final(a) == CloseOf(a, p, scheduled)
                          grew(a) == final(a) > base(a)
                          leads(a, b) == final(a) * base(b) > final(b) * base(a)
                      IN  /\ \A a \in Asset :
                               Informed(a, p, S5_LOOKBACK_MONTHS + 1, scheduled, signal.decision_at)
                          /\ \A a \in Asset :
                               signal.selected = a <=> grew(a) /\ \A b \in Asset \ {a} : leads(a, b)
                          /\ signal.selected = "relative_tie" <=>
                               \A a, b \in Asset : ~leads(a, b)
  BY DEF MomentumMatchesDailyBars
<1> DEFINE lookback == S5_LOOKBACK_MONTHS
           k == n + lookback
           signal == S5Signals(qqq, dia).targets[n]
           p == signal.period
           base(a) == CloseOf(a, p - lookback, scheduled)
           final(a) == CloseOf(a, p, scheduled)
           leads(a, b) == final(a) * base(b) > final(b) * base(a)
           q == Growth(Closes(qqq), k, lookback)
           d == Growth(Closes(dia), k, lookback)
           waits == Available(qqq, k - lookback .. k)
           holds == Available(dia, k - lookback .. k)
<1>2. "QQQ" \in Asset /\ "DIA" \in Asset /\ Asset = {"QQQ", "DIA"}
  BY DEF Asset
<1>3. Len(qqq) \in Nat /\ DOMAIN qqq = 1 .. Len(qqq)
  BY <1>2, OffersWhole
<1>4. Comparing(qqq, dia, n + lookback, S5Signals(qqq, dia).targets[n])
  BY <1>3, S5SignalsReturn
<1>5. Comparing(qqq, dia, k, signal)
  BY <1>4
<1> HIDE DEF signal, k
<1>6. /\ AllComplete(qqq) /\ AllComplete(dia) /\ Consecutive(qqq) /\ Consecutive(dia)
      /\ Aligned(qqq, dia) /\ k \in S5_LOOKBACK_MONTHS + 1 .. Len(qqq)
      /\ signal = Signal(qqq, dia, k)
  BY <1>5 DEF Comparing
<1>7. k \in S5_LOOKBACK_MONTHS + 1 .. Len(dia) /\ k \in DOMAIN qqq
  <2>1. S5_LOOKBACK_MONTHS \in Nat /\ Len(dia) = Len(qqq)
    BY <1>6, PeriodSignalsAssumption DEF Aligned
  <2>2. QED
    BY <1>3, <1>6, <2>1
<1>8. dia[k].period = qqq[k].period
  BY <1>6, <1>7 DEF Aligned
<1>9. signal.period = qqq[k].period /\ signal.decision_at = Latest({waits, holds})
      /\ signal.selected = Selection(q, d)
  BY <1>6 DEF Signal
<1> HIDE DEF q, d, waits, holds, lookback
<1>10. Compared("QQQ", qqq, k, q)
  BY <1>2, <1>6, SeriesCompared DEF q, lookback
<1>11. Compared("DIA", dia, k, d)
  BY <1>2, <1>6, <1>7, SeriesCompared DEF d, lookback
<1>12. /\ q.n = final("QQQ") /\ q.n \in Nat /\ q.d = base("QQQ") /\ q.d \in Nat
       /\ d.n = final("DIA") /\ d.n \in Nat /\ d.d = base("DIA") /\ d.d \in Nat
       /\ waits \in Nat /\ holds \in Nat
  BY <1>8, <1>9, <1>10, <1>11 DEF Compared, waits, holds, lookback
<1>13. \A a \in Asset : Informed(a, p, lookback + 1, scheduled, signal.decision_at)
  <2>1. /\ signal.decision_at \in Nat /\ waits <= signal.decision_at
        /\ holds <= signal.decision_at
    BY <1>9, <1>12, LatestOfPair
  <2>2. Informed("QQQ", qqq[k].period, lookback + 1, scheduled, signal.decision_at)
    BY <1>10, <2>1 DEF Compared, waits, lookback
  <2>3. Informed("DIA", dia[k].period, lookback + 1, scheduled, signal.decision_at)
    BY <1>11, <2>1 DEF Compared, holds, lookback
  <2>4. QED
    BY <1>2, <1>8, <1>9, <2>2, <2>3
<1> HIDE DEF base, final
<1>14. /\ signal.selected = "QQQ" <=> final("QQQ") > base("QQQ") /\ leads("QQQ", "DIA")
       /\ signal.selected = "DIA" <=> final("DIA") > base("DIA") /\ leads("DIA", "QQQ")
       /\ signal.selected = "relative_tie" <=> ~leads("QQQ", "DIA") /\ ~leads("DIA", "QQQ")
  BY <1>9, <1>12, SelectionSays
<1>15. ~leads("QQQ", "QQQ") /\ ~leads("DIA", "DIA")
  <2>1. final("QQQ") \in Nat /\ base("QQQ") \in Nat /\ final("DIA") \in Nat /\ base("DIA") \in Nat
    BY <1>12
  <2>2. \A x \in Nat : ~(x > x)
    OBVIOUS
  <2>3. final("QQQ") * base("QQQ") \in Nat /\ final("DIA") * base("DIA") \in Nat
    BY <2>1
  <2>4. QED
    BY <2>2, <2>3
<1> HIDE DEF leads, p
<1>16. \A a \in Asset :
          signal.selected = a <=> final(a) > base(a) /\ \A b \in Asset \ {a} : leads(a, b)
  BY <1>2, <1>14
<1>17. signal.selected = "relative_tie" <=> \A a, b \in Asset : ~leads(a, b)
  BY <1>2, <1>14, <1>15
<1>18. QED
  BY <1>13, <1>16, <1>17 DEF signal, p, base, final, leads, lookback

\* Every target of S3 and S4 and every signal of S5 says what the daily bars of
\* whole periods say, is dated after each of them, and takes effect at the next
\* eligible session, however the periods were derived and whichever of them
\* are offered (derive_period_bars, weekly_dual_ma_targets,
\* monthly_ten_month_sma_targets, monthly_dual_momentum_signals).
THEOREM DailyBarsTheorem == WorldsSpec => []SignalsMatchDailyBars
<1>1. Typed /\ Recorded => SignalsMatchDailyBars
  BY TargetsMatch, MomentumMatches DEF SignalsMatchDailyBars
<1>2. QED
  BY <1>1, RecordedHolds, WorldsApart, PTL
=============================================================================
