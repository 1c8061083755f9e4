------------------------ MODULE ReferenceEngineProofs ------------------------
(***************************************************************************)
(* Theorems about ReferenceEngine and MeasuredRun, for every history, list *)
(* of targets, costs, cash, policy and precision: the equity is the cash   *)
(* compounded, the books balance, trades alternate, an accepted run        *)
(* returns unless costs take all, what it returns can be measured, and     *)
(* rounding hides neither its worst fall nor its fluctuation.              *)
(*                                                                         *)
(* First the arithmetic of Fraction: Gcd computes a greatest common        *)
(* divisor, so that fractions of one value are equal and the operations    *)
(* keep the laws of arithmetic.  Then the recursions over bars and trades, *)
(* the invariant of the account, and what follows from it.  Then the       *)
(* arithmetic of Decimals: the scale that fits a value is unique, and      *)
(* rounding to it keeps order and sign.  Last the calculators of Metrics,  *)
(* and the points of a run handed to them.                                 *)
(***************************************************************************)
EXTENDS MeasuredRun, WellFoundedInduction, TLAPS

\* A non-empty set of numbers has a least one.
LEMMA LeastNumber ==
    ASSUME NEW T, T \subseteq Nat, T # {}
    PROVE  \E x \in T : \A y \in T : x <= y
<1> DEFINE R == OpToRel(<, Nat)
<1>1. PICK x \in T : \A y \in T : ~ (<<y, x>> \in R)
  <2>1. IsWellFoundedOn(R, Nat)
    BY NatLessThanWellFounded
  <2> HIDE DEF R
  <2>2. QED
    BY <2>1, WFMin
<1>2. \A y \in T : x <= y
  <2>1. SUFFICES ASSUME NEW y \in T, y < x PROVE FALSE
    OBVIOUS
  <2>2. <<y, x>> \in R
    BY <2>1 DEF OpToRel
  <2>3. QED
    BY <1>1, <2>1, <2>2
<1>3. QED
  BY <1>2

-----------------------------------------------------------------------------
\* Euclid's algorithm on pairs whose second number is at most n.
Euclid(n, f) ==
    f = [p \in Nat \X (0 .. n) |-> IF p[2] = 0 THEN p[1] ELSE f[<<p[2], p[1] % p[2]>>]]

\* There is one for every n: the least n without one has one.
LEMMA EuclidExists == ASSUME NEW n \in Nat PROVE \E f : Euclid(n, f)
<1> DEFINE S == {m \in Nat : ~ \E f : Euclid(m, f)}
<1>1. SUFFICES ASSUME S # {} PROVE FALSE
  OBVIOUS
<1>2. PICK m \in S : \A k \in S : m <= k
  <2> S \subseteq Nat
    OBVIOUS
  <2> HIDE DEF S
  <2> QED
    BY <1>1, LeastNumber
<1>3. CASE m = 0
  <2> DEFINE f == [p \in Nat \X (0 .. 0) |-> p[1]]
  <2>1. Euclid(0, f)
    BY DEF Euclid
  <2>2. QED
    BY <1>2, <1>3, <2>1
<1>4. CASE m # 0
  <2>1. m - 1 \in Nat /\ m - 1 \notin S
    BY <1>2, <1>4
  <2>2. PICK f : Euclid(m - 1, f)
    BY <2>1
  <2> DEFINE h == [p \in Nat \X (0 .. m) |->
                      IF p[2] = 0 THEN p[1] ELSE f[<<p[2], p[1] % p[2]>>]]
  <2>3. ASSUME NEW p \in Nat \X (0 .. m), p[2] # 0
        PROVE  h[<<p[2], p[1] % p[2]>>] = f[<<p[2], p[1] % p[2]>>]
    <3> DEFINE q == <<p[2], p[1] % p[2]>>
    <3>1. p[2] \in Nat /\ p[1] % p[2] \in 0 .. m - 1
      BY <2>3
    <3>2. q \in Nat \X (0 .. m - 1) /\ q \in Nat \X (0 .. m)
      BY <3>1, <2>1
    <3>3. f[q] = IF q[2] = 0 THEN q[1] ELSE f[<<q[2], q[1] % q[2]>>]
      BY <2>2, <3>2 DEF Euclid
    <3> HIDE DEF q
    <3>4. h[q] = IF q[2] = 0 THEN q[1] ELSE f[<<q[2], q[1] % q[2]>>]
      BY <3>2
    <3>5. QED
      BY <3>3, <3>4 DEF q
  <2>4. Euclid(m, h)
    BY <2>3 DEF Euclid
  <2> HIDE DEF h
  <2>5. QED
    BY <1>2, <2>4
<1>5. QED
  BY <1>3, <1>4

\* Two such functions agree where both are defined.
LEMMA EuclidUnique ==
    ASSUME NEW m \in Nat, NEW n \in Nat, NEW f, NEW h, Euclid(m, f), Euclid(n, h),
           NEW a \in Nat, NEW b \in Nat, b <= m, b <= n
    PROVE  f[<<a, b>>] = h[<<a, b>>]
<1> DEFINE S == {k \in Nat : /\ k <= m /\ k <= n
                             /\ \E c \in Nat : f[<<c, k>>] # h[<<c, k>>]}
<1>1. SUFFICES ASSUME S # {} PROVE FALSE
  OBVIOUS
<1>2. PICK k \in S : \A i \in S : k <= i
  <2> S \subseteq Nat
    OBVIOUS
  <2> HIDE DEF S
  <2> QED
    BY <1>1, LeastNumber
<1>3. PICK c \in Nat : f[<<c, k>>] # h[<<c, k>>]
  BY <1>2
<1>4. /\ f[<<c, k>>] = IF k = 0 THEN c ELSE f[<<k, c % k>>]
      /\ h[<<c, k>>] = IF k = 0 THEN c ELSE h[<<k, c % k>>]
  <2>1. <<c, k>> \in Nat \X (0 .. m) /\ <<c, k>> \in Nat \X (0 .. n)
    BY <1>2
  <2>2. QED
    BY <2>1 DEF Euclid
<1>5. k # 0
  BY <1>3, <1>4
<1>6. c % k \in Nat /\ c % k < k
  BY <1>2, <1>5
<1>7. c % k \notin S
  BY <1>2, <1>6
<1>8. f[<<k, c % k>>] = h[<<k, c % k>>]
  <2> DEFINE r == c % k
  <2>1. r \in Nat /\ r <= m /\ r <= n /\ k \in Nat
    BY <1>2, <1>6
  <2>2. ~ \E d \in Nat : f[<<d, r>>] # h[<<d, r>>]
    <3> HIDE DEF r
    <3> QED
      BY <2>1, <1>7 DEF r
  <2> HIDE DEF r
  <2>3. QED
    BY <2>1, <2>2 DEF r
<1>9. QED
  BY <1>3, <1>4, <1>5, <1>8

\* Gcd is what its definition says.
LEMMA GcdStep ==
    ASSUME NEW a \in Nat, NEW b \in Nat
    PROVE  Gcd[<<a, b>>] = IF b = 0 THEN a ELSE Gcd[<<b, a % b>>]
<1> DEFINE e(n) == CHOOSE f : Euclid(n, f)
           g == [p \in Nat \X Nat |-> e(p[2])[p]]
<1>1. \A n \in Nat : Euclid(n, e(n))
  BY EuclidExists
<1>2. ASSUME NEW p \in Nat \X Nat
      PROVE  g[p] = IF p[2] = 0 THEN p[1] ELSE g[<<p[2], p[1] % p[2]>>]
  <2> DEFINE f == e(p[2])
  <2>1. Euclid(p[2], f) /\ p[2] \in Nat /\ p[1] \in Nat /\ p = <<p[1], p[2]>>
    BY <1>1
  <2>2. p \in Nat \X (0 .. p[2])
    BY <2>1
  <2>3. g[p] = f[p]
    OBVIOUS
  <2>4. f[p] = IF p[2] = 0 THEN p[1] ELSE f[<<p[2], p[1] % p[2]>>]
    <3> HIDE DEF f
    <3> QED
    BY <2>1, <2>2 DEF Euclid
  <2>5. CASE p[2] # 0
    <3> DEFINE r == p[1] % p[2]
    <3>1. r \in Nat /\ r < p[2]
      BY <2>1, <2>5
    <3>2. g[<<p[2], r>>] = e(r)[<<p[2], r>>]
      <4> HIDE DEF r
      <4> QED
        BY <2>1, <3>1
    <3>3. Euclid(r, e(r))
      BY <1>1, <3>1
    <3>4. e(r)[<<p[2], r>>] = f[<<p[2], r>>]
      <4> HIDE DEF r, f, e
      <4> QED
        BY <2>1, <3>1, <3>3, EuclidUnique
    <3>5. QED
      BY <2>3, <2>4, <2>5, <3>2, <3>4
  <2>6. QED
    BY <2>3, <2>4, <2>5
<1>3. g = [p \in Nat \X Nat |-> IF p[2] = 0 THEN p[1] ELSE g[<<p[2], p[1] % p[2]>>]]
  <2> DEFINE G == [p \in Nat \X Nat |-> IF p[2] = 0 THEN p[1] ELSE g[<<p[2], p[1] % p[2]>>]]
  <2>1. \A p \in Nat \X Nat : g[p] = G[p]
    BY <1>2
  <2> QED
    BY <2>1
<1> HIDE DEF g
<1>4. Gcd = [p \in Nat \X Nat |-> IF p[2] = 0 THEN p[1] ELSE Gcd[<<p[2], p[1] % p[2]>>]]
  BY <1>3 DEF Gcd
<1>5. QED
  BY <1>4

\* What divides: Gcd divides both numbers and is a combination of them.
LEMMA GcdDivides ==
    ASSUME NEW a \in Nat, NEW b \in Nat, a # 0 \/ b # 0
    PROVE  /\ Gcd[<<a, b>>] \in Nat \ {0}
           /\ \E p \in Nat, q \in Nat : a = p * Gcd[<<a, b>>] /\ b = q * Gcd[<<a, b>>]
           /\ \E x \in Int, y \in Int : x * a + y * b = Gcd[<<a, b>>]
<1> DEFINE Good(c, d, g) ==
               /\ g \in Nat \ {0}
               /\ \E p \in Nat, q \in Nat : c = p * g /\ d = q * g
               /\ \E x \in Int, y \in Int : x * c + y * d = g
           S == {d \in Nat : \E c \in Nat : /\ c # 0 \/ d # 0
                                            /\ ~Good(c, d, Gcd[<<c, d>>])}
<1>1. SUFFICES ASSUME S # {} PROVE FALSE
  OBVIOUS
<1>2. PICK d \in S : \A i \in S : d <= i
  <2> S \subseteq Nat
    OBVIOUS
  <2> HIDE DEF S
  <2> QED
    BY <1>1, LeastNumber
<1>3. PICK c \in Nat : (c # 0 \/ d # 0) /\ ~Good(c, d, Gcd[<<c, d>>])
  BY <1>2
<1> DEFINE g == Gcd[<<c, d>>]
<1>4. CASE d = 0
  <2>1. g = c
    BY <1>3, <1>4, GcdStep
  <2>2. c = 1 * g /\ d = 0 * g /\ 1 * c + 0 * d = g
    BY <1>3, <1>4, <2>1
  <2>3. Good(c, d, g)
    BY <1>3, <1>4, <2>1, <2>2
  <2>4. QED
    BY <1>3, <2>3
<1>5. CASE d # 0
  <2> DEFINE r == c % d
             t == c \div d
  <2>1. d \in Nat /\ r \in Nat /\ r < d /\ t \in Nat /\ c = (t * d) + r
    <3>1. c \in Nat /\ d \in Nat \ {0}
      BY <1>2, <1>3, <1>5
    <3> HIDE DEF S
    <3>2. QED
      BY <3>1
  <2>2. g = Gcd[<<d, r>>]
    BY <1>2, <1>3, <1>5, GcdStep
  <2>3. Good(d, r, g)
    <3>1. ~(d <= r)
      BY <2>1
    <3>2. r \notin S
      BY <1>2, <3>1
    <3> HIDE DEF r, g, Good
    <3>3. QED
      BY <3>2, <2>1, <2>2, <1>5
  <2>4. g \in Nat \ {0}
    BY <2>3
  <2>5. PICK p \in Nat, q \in Nat : d = p * g /\ r = q * g
    BY <2>3
  <2>6. PICK x \in Int, y \in Int : x * d + y * r = g
    BY <2>3
  <2> HIDE DEF r, t, g
  <2>7. c = (t * p + q) * g
    BY <2>1, <2>4, <2>5
  <2>8. y * c + (x - y * t) * d = g
    <3>1. y * c = (y * t) * d + y * r
      BY <2>1
    <3>2. (x - y * t) * d = x * d - (y * t) * d
      BY <2>1
    <3>3. QED
      BY <3>1, <3>2, <2>1, <2>6
  <2>9. t * p + q \in Nat /\ x - y * t \in Int
    BY <2>1
  <2>10. Good(c, d, g)
    BY <2>4, <2>5, <2>7, <2>8, <2>9
  <2>11. QED
    BY <1>3, <2>10 DEF g
<1>6. QED
  BY <1>4, <1>5

-----------------------------------------------------------------------------
\* Ratio keeps the value of n / d, and is in lowest terms.

InLowestTerms(r) ==
    /\ r = [n |-> r.n, d |-> r.d]
    /\ r.n \in Int /\ r.d \in Nat \ {0}
    /\ \E x \in Int, y \in Int : x * r.n + y * r.d = 1

\* A ratio is in lowest terms and keeps its value.
LEMMA RatioReduces ==
    ASSUME NEW n \in Int, NEW d \in Nat \ {0}
    PROVE  /\ InLowestTerms(Ratio(n, d))
           /\ Ratio(n, d).n * d = n * Ratio(n, d).d
           /\ \E g \in Nat \ {0} : n = Ratio(n, d).n * g /\ d = Ratio(n, d).d * g
<1> DEFINE s == Size(n)
           g == Gcd[<<s, d>>]
           r == Ratio(n, d)
<1>1. s \in Nat /\ (n = s \/ n = -s)
  BY DEF Size
<1>2. /\ g \in Nat \ {0}
      /\ \E p \in Nat, q \in Nat : s = p * g /\ d = q * g
      /\ \E x \in Int, y \in Int : x * s + y * d = g
  <2> HIDE DEF s
  <2> QED
    BY <1>1, GcdDivides
<1>3. PICK p \in Nat, q \in Nat : s = p * g /\ d = q * g
  BY <1>2
<1>4. PICK x \in Int, y \in Int : x * s + y * d = g
  BY <1>2
<1>5. r = [n |-> n \div g, d |-> d \div g]
  BY DEF Ratio
<1> HIDE DEF s, g, r
<1>6. PICK m \in Int, z \in Int : n = m * g /\ (z * m) * g + (y * q) * g = g
  <2>1. CASE n = s
    <3>1. n = p * g /\ (x * p) * g + (y * q) * g = g
      BY <2>1, <1>2, <1>3, <1>4
    <3>2. QED
      BY <3>1
  <2>2. CASE n = -s
    <3>1. -p \in Int /\ -x \in Int
      OBVIOUS
    <3>2. n = (-p) * g /\ ((-x) * (-p)) * g + (y * q) * g = g
      <4>1. (-x) * (-p) = x * p
        OBVIOUS
      <4>2. (x * p) * g + (y * q) * g = g
        BY <1>2, <1>3, <1>4
      <4>3. QED
        BY <4>1, <4>2, <2>2, <1>2, <1>3
    <3>3. QED
      BY <3>1, <3>2
  <2>3. QED
    BY <1>1, <2>1, <2>2
<1>7. n \div g = m /\ d \div g = q
  BY <1>2, <1>3, <1>6
<1>8. q # 0
  BY <1>2, <1>3
<1>9. z * m + y * q = 1
  <2> DEFINE k == z * m + y * q
  <2>1. k \in Int /\ k * g = g
    BY <1>2, <1>6
  <2> HIDE DEF k
  <2>2. k = 1
    BY <1>2, <2>1
  <2>3. QED
    BY <2>2 DEF k
<1>10. r = [n |-> m, d |-> q]
  BY <1>5, <1>7
<1>11. r.n = m /\ r.d = q
  BY <1>10
<1>12. InLowestTerms(r)
  BY <1>8, <1>9, <1>10, <1>11 DEF InLowestTerms
<1>13. r.n * d = n * r.d
  <2>1. m * (q * g) = (m * g) * q
    BY <1>2
  <2>2. QED
    BY <2>1, <1>3, <1>6, <1>11
<1>14. QED
  BY <1>2, <1>3, <1>6, <1>11, <1>12, <1>13 DEF r

\* Two fractions in lowest terms of one value are one.
LEMMA LowestTermsUnique ==
    ASSUME NEW r, NEW s, InLowestTerms(r), InLowestTerms(s), r.n * s.d = s.n * r.d
    PROVE  r = s
<1> DEFINE a == r.n
           b == r.d
           c == s.n
           e == s.d
<1>1. a \in Int /\ c \in Int /\ b \in Nat \ {0} /\ e \in Nat \ {0} /\ a * e = c * b
  BY DEF InLowestTerms
<1>2. PICK x \in Int, y \in Int : x * a + y * b = 1
  BY DEF InLowestTerms
<1>3. PICK u \in Int, v \in Int : u * c + v * e = 1
  BY DEF InLowestTerms
<1> HIDE DEF a, b, c, e
<1>4. e = (x * c + y * e) * b
  <2>1. e = (x * a + y * b) * e
    BY <1>1, <1>2
  <2>2. (x * a + y * b) * e = x * (a * e) + (y * e) * b
    BY <1>1
  <2>3. x * (a * e) = (x * c) * b
    BY <1>1
  <2>4. QED
    BY <2>1, <2>2, <2>3, <1>1
<1>5. b = (u * a + v * b) * e
  <2>1. b = (u * c + v * e) * b
    BY <1>1, <1>3
  <2>2. (u * c + v * e) * b = u * (c * b) + (v * b) * e
    BY <1>1
  <2>3. u * (c * b) = (u * a) * e
    BY <1>1
  <2>4. QED
    BY <2>1, <2>2, <2>3, <1>1
<1>6. PICK k \in Int, l \in Int : e = k * b /\ b = l * e
  <2>1. x * c + y * e \in Int /\ u * a + v * b \in Int
    BY <1>1
  <2>2. QED
    BY <2>1, <1>4, <1>5
<1>7. k > 0 /\ l > 0
  BY <1>1, <1>6
<1>8. e >= b /\ b >= e
  BY <1>1, <1>6, <1>7
<1>9. b = e
  BY <1>1, <1>8
<1>10. a = c
  BY <1>1, <1>9
<1>11. QED
  BY <1>9, <1>10 DEF InLowestTerms, a, b, c, e

\* Ratio gives one fraction to all pairs of one value.
LEMMA RatioEqual ==
    ASSUME NEW n \in Int, NEW d \in Nat \ {0}, NEW m \in Int, NEW e \in Nat \ {0},
           n * e = m * d
    PROVE  Ratio(n, d) = Ratio(m, e)
<1> DEFINE r == Ratio(n, d)
           s == Ratio(m, e)
<1>1. PICK g \in Nat \ {0} : n = r.n * g /\ d = r.d * g
  BY RatioReduces
<1>2. PICK h \in Nat \ {0} : m = s.n * h /\ e = s.d * h
  BY RatioReduces
<1>3. InLowestTerms(r) /\ InLowestTerms(s)
  BY RatioReduces
<1> HIDE DEF r, s
<1>4. r.n \in Int /\ s.n \in Int /\ r.d \in Nat \ {0} /\ s.d \in Nat \ {0}
  BY <1>3 DEF InLowestTerms
<1>5. r.n * s.d = s.n * r.d
  <2> DEFINE a == r.n * s.d
             b == s.n * r.d
  <2>1. a \in Int /\ b \in Int /\ a * (g * h) = b * (g * h)
    <3>1. (r.n * g) * (s.d * h) = (s.n * h) * (r.d * g)
      BY <1>1, <1>2
    <3>2. QED
      BY <3>1, <1>4
  <2>2. g * h # 0 /\ g * h \in Int
    OBVIOUS
  <2> HIDE DEF a, b
  <2>3. a = b
    BY <2>1, <2>2
  <2>4. QED
    BY <2>3 DEF a, b
<1>6. QED
  BY <1>3, <1>5, LowestTermsUnique DEF r, s

-----------------------------------------------------------------------------
\* The operations on pairs n / d, reduced or not.

\* A fraction in lowest terms is the Ratio of its parts.
LEMMA LowestTermsIsRatio ==
    ASSUME NEW x, InLowestTerms(x)
    PROVE  x.n \in Int /\ x.d \in Nat \ {0} /\ x = Ratio(x.n, x.d)
<1>1. x.n \in Int /\ x.d \in Nat \ {0}
  BY DEF InLowestTerms
<1>2. InLowestTerms(Ratio(x.n, x.d)) /\ Ratio(x.n, x.d).n * x.d = x.n * Ratio(x.n, x.d).d
  BY <1>1, RatioReduces
<1>3. QED
  BY <1>1, <1>2, LowestTermsUnique

\* A whole number as a ratio.
LEMMA WholeIsRatio ==
    ASSUME NEW n \in Int
    PROVE  InLowestTerms(Whole(n)) /\ Whole(n) = Ratio(n, 1)
<1>1. Whole(n).n = n /\ Whole(n).d = 1 /\ Whole(n) = [n |-> Whole(n).n, d |-> Whole(n).d]
  BY DEF Whole
<1>2. InLowestTerms(Whole(n))
  <2> DEFINE w == Whole(n)
  <2>1. 0 * w.n + 1 * w.d = 1
    BY <1>1
  <2>2. \E x \in Int, y \in Int : x * w.n + y * w.d = 1
    BY <2>1
  <2>3. w.n \in Int /\ w.d \in Nat \ {0} /\ w = [n |-> w.n, d |-> w.d]
    BY <1>1
  <2> HIDE DEF w
  <2>4. InLowestTerms(w)
    BY <2>2, <2>3 DEF InLowestTerms
  <2>5. QED
    BY <2>4 DEF w
<1>3. QED
  BY <1>1, <1>2, LowestTermsIsRatio

\* Each operation, done on pairs that need not be reduced.
LEMMA RatioOperations ==
    ASSUME NEW a \in Int, NEW b \in Nat \ {0}, NEW c \in Int, NEW d \in Nat \ {0}
    PROVE  /\ Times(Ratio(a, b), Ratio(c, d)) = Ratio(a * c, b * d)
           /\ Plus(Ratio(a, b), Ratio(c, d)) = Ratio(a * d + c * b, b * d)
           /\ Minus(Ratio(a, b), Ratio(c, d)) = Ratio(a * d - c * b, b * d)
           /\ c > 0 => Over(Ratio(a, b), Ratio(c, d)) = Ratio(a * d, b * c)
           /\ Positive(Ratio(a, b)) <=> a > 0
           /\ AtMost(Whole(0), Ratio(a, b)) <=> a >= 0
<1> DEFINE r == Ratio(a, b)
           s == Ratio(c, d)
<1>1. r.n \in Int /\ r.d \in Nat \ {0} /\ s.n \in Int /\ s.d \in Nat \ {0}
  BY RatioReduces DEF InLowestTerms
<1>2. r.n * b = a * r.d /\ s.n * d = c * s.d
  BY RatioReduces
<1> HIDE DEF r, s
<1>3. r.d * s.d \in Nat \ {0} /\ b * d \in Nat \ {0}
  BY <1>1
<1>4. Times(r, s) = Ratio(a * c, b * d)
  <2>1. (r.n * s.n) * (b * d) = (r.n * b) * (s.n * d)
    BY <1>1
  <2>2. (a * c) * (r.d * s.d) = (a * r.d) * (c * s.d)
    BY <1>1
  <2>3. r.n * s.n \in Int /\ a * c \in Int
    BY <1>1
  <2>4. (r.n * s.n) * (b * d) = (a * c) * (r.d * s.d)
    BY <1>2, <2>1, <2>2
  <2>5. QED
    BY <1>3, <2>3, <2>4, RatioEqual DEF Times
<1>5. Plus(r, s) = Ratio(a * d + c * b, b * d)
  <2>1. (r.n * s.d + s.n * r.d) * (b * d) = (r.n * b) * (s.d * d) + (s.n * d) * (r.d * b)
    BY <1>1
  <2>2. (a * d + c * b) * (r.d * s.d) = (a * r.d) * (s.d * d) + (c * s.d) * (r.d * b)
    BY <1>1
  <2>3. r.n * s.d + s.n * r.d \in Int /\ a * d + c * b \in Int
    BY <1>1
  <2>4. (r.n * s.d + s.n * r.d) * (b * d) = (a * d + c * b) * (r.d * s.d)
    BY <1>2, <2>1, <2>2
  <2>5. QED
    BY <1>3, <2>3, <2>4, RatioEqual DEF Plus
<1>6. Minus(r, s) = Ratio(a * d - c * b, b * d)
  <2>1. (r.n * s.d - s.n * r.d) * (b * d) = (r.n * b) * (s.d * d) - (s.n * d) * (r.d * b)
    BY <1>1
  <2>2. (a * d - c * b) * (r.d * s.d) = (a * r.d) * (s.d * d) - (c * s.d) * (r.d * b)
    BY <1>1
  <2>3. r.n * s.d - s.n * r.d \in Int /\ a * d - c * b \in Int
    BY <1>1
  <2>4. (r.n * s.d - s.n * r.d) * (b * d) = (a * d - c * b) * (r.d * s.d)
    BY <1>2, <2>1, <2>2
  <2>5. QED
    BY <1>3, <2>3, <2>4, RatioEqual DEF Minus
<1>7. ASSUME c > 0 PROVE Over(r, s) = Ratio(a * d, b * c)
  <2>1. s.n \in Nat \ {0}
    <3>1. c * s.d > 0
      BY <1>1, <1>7
    <3>2. s.n * d > 0
      BY <3>1, <1>2
    <3>3. QED
      BY <3>2, <1>1
  <2>2. (r.n * s.d) * (b * c) = (r.n * b) * (c * s.d)
    BY <1>1
  <2>3. (a * d) * (r.d * s.n) = (a * r.d) * (s.n * d)
    BY <1>1
  <2>4. r.n * s.d \in Int /\ r.d * s.n \in Nat \ {0} /\ a * d \in Int /\ b * c \in Nat \ {0}
    BY <1>1, <1>7, <2>1
  <2>5. (r.n * s.d) * (b * c) = (a * d) * (r.d * s.n)
    BY <1>2, <2>2, <2>3
  <2>6. QED
    BY <2>4, <2>5, RatioEqual DEF Over
<1>8. r.n > 0 <=> a > 0
  BY <1>1, <1>2
<1>9. r.n >= 0 <=> a >= 0
  BY <1>1, <1>2
<1>10. AtMost(Whole(0), r) <=> r.n >= 0
  BY <1>1 DEF AtMost, Whole
<1>11. QED
  BY <1>4, <1>5, <1>6, <1>7, <1>8, <1>9, <1>10 DEF r, s, Positive

\* A fraction is some n / d.
LEMMA Parts ==
    ASSUME NEW x, InLowestTerms(x)
    PROVE  \E n \in Int, d \in Nat \ {0} : x = Ratio(n, d) /\ (Positive(x) => n > 0)
<1>1. x.n \in Int /\ x.d \in Nat \ {0} /\ x = Ratio(x.n, x.d)
  BY LowestTermsIsRatio
<1>2. Positive(x) => x.n > 0
  BY DEF Positive
<1>3. QED
  BY <1>1, <1>2

\* The operations on ratios, one by one.
LEMMA TimesRatio ==
    ASSUME NEW a \in Int, NEW b \in Nat \ {0}, NEW c \in Int, NEW d \in Nat \ {0}
    PROVE  /\ Times(Ratio(a, b), Ratio(c, d)) = Ratio(a * c, b * d)
           /\ a * c \in Int /\ b * d \in Nat \ {0}
<1>1. a * c \in Int /\ b * d \in Nat \ {0}
  OBVIOUS
<1>2. QED
  BY <1>1, RatioOperations

\* Addition of ratios.
LEMMA PlusRatio ==
    ASSUME NEW a \in Int, NEW b \in Nat \ {0}, NEW c \in Int, NEW d \in Nat \ {0}
    PROVE  Plus(Ratio(a, b), Ratio(c, d)) = Ratio(a * d + c * b, b * d)
  BY RatioOperations

\* Subtraction of ratios.
LEMMA MinusRatio ==
    ASSUME NEW a \in Int, NEW b \in Nat \ {0}, NEW c \in Int, NEW d \in Nat \ {0}
    PROVE  Minus(Ratio(a, b), Ratio(c, d)) = Ratio(a * d - c * b, b * d)
  BY RatioOperations

\* Division of ratios.
LEMMA OverRatio ==
    ASSUME NEW a \in Int, NEW b \in Nat \ {0}, NEW c \in Nat \ {0}, NEW d \in Nat \ {0}
    PROVE  Over(Ratio(a, b), Ratio(c, d)) = Ratio(a * d, b * c)
<1>1. c \in Int /\ c > 0
  OBVIOUS
<1>2. QED
  BY <1>1, RatioOperations

\* The exact operations stay in lowest terms.
LEMMA Closed ==
    ASSUME NEW x, NEW y, InLowestTerms(x), InLowestTerms(y)
    PROVE  /\ InLowestTerms(Times(x, y))
           /\ InLowestTerms(Plus(x, y))
           /\ InLowestTerms(Minus(x, y))
           /\ Positive(y) => InLowestTerms(Over(x, y))
<1>1. x.n \in Int /\ y.n \in Int /\ x.d \in Nat \ {0} /\ y.d \in Nat \ {0}
  BY DEF InLowestTerms
<1>2. /\ x.d * y.d \in Nat \ {0} /\ x.n * y.n \in Int
      /\ x.n * y.d + y.n * x.d \in Int
      /\ x.n * y.d - y.n * x.d \in Int
      /\ x.n * y.d \in Int
  BY <1>1
<1>3. ASSUME Positive(y) PROVE InLowestTerms(Over(x, y))
  <2>1. y.n \in Nat \ {0}
    BY <1>1, <1>3 DEF Positive
  <2>2. x.d * y.n \in Nat \ {0}
    BY <1>1, <2>1
  <2>3. QED
    BY <1>2, <2>2, RatioReduces DEF Over
<1>4. InLowestTerms(Times(x, y))
  BY <1>2, RatioReduces DEF Times
<1>5. InLowestTerms(Plus(x, y))
  BY <1>2, RatioReduces DEF Plus
<1>6. InLowestTerms(Minus(x, y))
  BY <1>2, RatioReduces DEF Minus
<1>7. QED
  BY <1>3, <1>4, <1>5, <1>6

-----------------------------------------------------------------------------
\* Laws of the arithmetic.

\* The laws of zero and one.
LEMMA PlusZero ==
    ASSUME NEW x, InLowestTerms(x)
    PROVE  /\ Plus(x, Whole(0)) = x /\ Plus(Whole(0), x) = x
           /\ Times(Whole(0), x) = Whole(0) /\ Minus(x, x) = Whole(0)
           /\ Times(x, Whole(1)) = x /\ Times(Whole(1), x) = x
<1>1. PICK n \in Int, d \in Nat \ {0} : x = Ratio(n, d)
  BY Parts
<1>2. Whole(0) = Ratio(0, 1) /\ Whole(1) = Ratio(1, 1)
  BY WholeIsRatio
<1>3. Plus(x, Whole(0)) = Ratio(n * 1 + 0 * d, d * 1)
  BY <1>1, <1>2, RatioOperations
<1>4. Plus(Whole(0), x) = Ratio(0 * d + n * 1, 1 * d)
  BY <1>1, <1>2, RatioOperations
<1>5. Times(Whole(0), x) = Ratio(0 * n, 1 * d)
  BY <1>1, <1>2, RatioOperations
<1>6. Minus(x, x) = Ratio(n * d - n * d, d * d)
  BY <1>1, <1>2, RatioOperations
<1>7. Times(x, Whole(1)) = Ratio(n * 1, d * 1) /\ Times(Whole(1), x) = Ratio(1 * n, 1 * d)
  BY <1>1, <1>2, RatioOperations
<1>8. /\ n * 1 + 0 * d = n /\ d * 1 = d /\ 0 * d + n * 1 = n /\ 1 * d = d /\ n * 1 = n
      /\ 1 * n = n /\ 0 * n = 0 /\ n * d - n * d = 0 /\ d * d \in Nat \ {0}
  BY <1>1
<1>9. Ratio(0, d) = Ratio(0, 1) /\ Ratio(0, d * d) = Ratio(0, 1)
  <2>1. 0 * 1 = 0 * d /\ 0 * 1 = 0 * (d * d)
    BY <1>8
  <2>2. QED
    BY <2>1, <1>8, RatioEqual
<1>10. QED
  BY <1>1, <1>2, <1>3, <1>4, <1>5, <1>6, <1>7, <1>8, <1>9

\* Products associate and commute.
LEMMA TimesAssociates ==
    ASSUME NEW x, NEW y, NEW z, InLowestTerms(x), InLowestTerms(y), InLowestTerms(z)
    PROVE  Times(Times(x, y), z) = Times(x, Times(y, z)) /\ Times(x, y) = Times(y, x)
<1>1. PICK a \in Int, b \in Nat \ {0} : x = Ratio(a, b)
  BY Parts
<1>2. PICK c \in Int, d \in Nat \ {0} : y = Ratio(c, d)
  BY Parts
<1>3. PICK e \in Int, f \in Nat \ {0} : z = Ratio(e, f)
  BY Parts
<1>4. Times(x, y) = Ratio(a * c, b * d)
  BY <1>1, <1>2, TimesRatio
<1>5. Times(y, z) = Ratio(c * e, d * f)
  BY <1>2, <1>3, TimesRatio
<1>6. Times(y, x) = Ratio(c * a, d * b)
  BY <1>1, <1>2, TimesRatio
<1>7. /\ a * c \in Int /\ b * d \in Nat \ {0} /\ c * e \in Int /\ d * f \in Nat \ {0}
      /\ a * c = c * a /\ b * d = d * b
      /\ (a * c) * e = a * (c * e) /\ (b * d) * f = b * (d * f)
  OBVIOUS
<1>8. Times(Times(x, y), z) = Ratio((a * c) * e, (b * d) * f)
  BY <1>3, <1>4, <1>7, TimesRatio
<1>9. Times(x, Times(y, z)) = Ratio(a * (c * e), b * (d * f))
  BY <1>1, <1>5, <1>7, TimesRatio
<1>10. QED
  BY <1>4, <1>7, <1>8, <1>9, <1>6

\* Products distribute over differences.
LEMMA TimesDistributes ==
    ASSUME NEW x, NEW y, NEW z, InLowestTerms(x), InLowestTerms(y), InLowestTerms(z)
    PROVE  Times(x, Minus(y, z)) = Minus(Times(x, y), Times(x, z))
<1>1. PICK a \in Int, b \in Nat \ {0} : x = Ratio(a, b)
  BY Parts
<1>2. PICK c \in Int, d \in Nat \ {0} : y = Ratio(c, d)
  BY Parts
<1>3. PICK e \in Int, f \in Nat \ {0} : z = Ratio(e, f)
  BY Parts
<1>4. Times(x, y) = Ratio(a * c, b * d)
  BY <1>1, <1>2, TimesRatio
<1>5. Times(x, z) = Ratio(a * e, b * f)
  BY <1>1, <1>3, TimesRatio
<1>6. Minus(y, z) = Ratio(c * f - e * d, d * f)
  BY <1>2, <1>3, MinusRatio
<1> DEFINE l == a * (c * f - e * d)
           k == b * (d * f)
           m == (a * c) * (b * f) - (a * e) * (b * d)
           o == (b * d) * (b * f)
<1>7. /\ a * c \in Int /\ b * d \in Nat \ {0} /\ a * e \in Int /\ b * f \in Nat \ {0}
      /\ c * f - e * d \in Int /\ d * f \in Nat \ {0}
      /\ k \in Nat \ {0} /\ o \in Nat \ {0} /\ l \in Int /\ m \in Int
  OBVIOUS
<1>8. Times(x, Minus(y, z)) = Ratio(l, k)
  BY <1>1, <1>6, <1>7, TimesRatio
<1>9. Minus(Times(x, y), Times(x, z)) = Ratio(m, o)
  BY <1>4, <1>5, <1>7, MinusRatio
<1>10. l * o = m * k
  <2>1. l = a * c * f - a * e * d
    OBVIOUS
  <2>2. m = b * (a * c * f - a * e * d)
    OBVIOUS
  <2>3. o = b * k
    OBVIOUS
  <2> HIDE DEF k, l, o, m
  <2>4. m = b * l
    BY <2>1, <2>2
  <2>5. QED
    BY <2>4, <2>3, <1>7
<1> HIDE DEF k, l, o, m
<1>11. QED
  BY <1>7, <1>8, <1>9, <1>10, RatioEqual

\* A product undoes a quotient.
LEMMA OverUndone ==
    ASSUME NEW x, NEW y, InLowestTerms(x), InLowestTerms(y), Positive(y)
    PROVE  Times(Over(x, y), y) = x
<1>1. PICK a \in Int, b \in Nat \ {0} : x = Ratio(a, b)
  BY Parts
<1>2. PICK c \in Int, d \in Nat \ {0} : y = Ratio(c, d) /\ c > 0
  BY Parts
<1>3. /\ a * d \in Int /\ b * c \in Nat \ {0}
      /\ (a * d) * c \in Int /\ (b * c) * d \in Nat \ {0}
      /\ ((a * d) * c) * b = a * ((b * c) * d)
  BY <1>2
<1>4. Over(x, y) = Ratio(a * d, b * c)
  BY <1>1, <1>2, RatioOperations
<1>5. Times(Over(x, y), y) = Ratio((a * d) * c, (b * c) * d)
  BY <1>2, <1>3, <1>4, RatioOperations
<1>6. QED
  BY <1>1, <1>3, <1>5, RatioEqual

-----------------------------------------------------------------------------
\* What the account is worth after a bar, in each case of the loop.

\* Held: the value moves with the gap and the day.
LEMMA HeldValue ==
    ASSUME NEW q, InLowestTerms(q),
           NEW last \in Nat \ {0}, NEW open \in Nat \ {0}, NEW close \in Nat \ {0}
    PROVE  Times(Times(q, Whole(last)),
                 Times(Ratio(open, last), Times(Whole(1), Ratio(close, open))))
             = Times(q, Whole(close))
<1>1. PICK a \in Int, b \in Nat \ {0} : q = Ratio(a, b)
  BY Parts
<1>2. Whole(last) = Ratio(last, 1) /\ Whole(close) = Ratio(close, 1)
  BY WholeIsRatio
<1>3. Times(q, Whole(last)) = Ratio(a * last, b * 1)
  BY <1>1, <1>2, TimesRatio
<1>4. Times(q, Whole(close)) = Ratio(a * close, b * 1)
  BY <1>1, <1>2, TimesRatio
<1>5. Times(Whole(1), Ratio(close, open)) = Ratio(close, open)
  BY PlusZero, RatioReduces
<1>6. Times(Ratio(open, last), Ratio(close, open)) = Ratio(open * close, last * open)
  BY TimesRatio
<1>7. /\ a * last \in Int /\ b * 1 \in Nat \ {0} /\ open * close \in Int
      /\ last * open \in Nat \ {0} /\ a * close \in Int
      /\ (a * last) * (open * close) \in Int /\ (b * 1) * (last * open) \in Nat \ {0}
      /\ ((a * last) * (open * close)) * (b * 1) = (a * close) * ((b * 1) * (last * open))
  OBVIOUS
<1>8. Times(Ratio(a * last, b * 1), Ratio(open * close, last * open))
        = Ratio((a * last) * (open * close), (b * 1) * (last * open))
  BY <1>7, TimesRatio
<1>9. QED
  BY <1>3, <1>4, <1>5, <1>6, <1>7, <1>8, RatioEqual

\* Bought: the cash less the costs, and the day.
LEMMA BoughtValue ==
    ASSUME NEW x, NEW u, NEW v, InLowestTerms(x), InLowestTerms(u), InLowestTerms(v),
           Positive(u), Positive(v), NEW open \in Nat \ {0}, NEW close \in Nat \ {0}
    PROVE  Times(Over(Over(x, u), Times(Whole(open), v)), Whole(close))
             = Times(x, Times(Whole(1), Times(Over(Whole(1), Times(u, v)), Ratio(close, open))))
<1>1. PICK a \in Int, b \in Nat \ {0} : x = Ratio(a, b)
  BY Parts
<1>2. PICK m \in Int, n \in Nat \ {0} : u = Ratio(m, n) /\ m > 0
  BY Parts
<1>3. PICK k \in Int, l \in Nat \ {0} : v = Ratio(k, l) /\ k > 0
  BY Parts
<1>4. /\ Whole(open) = Ratio(open, 1) /\ Whole(close) = Ratio(close, 1)
      /\ Whole(1) = Ratio(1, 1)
  BY WholeIsRatio
<1>5. m \in Nat \ {0} /\ k \in Nat \ {0}
  BY <1>2, <1>3
<1>6. Over(x, u) = Ratio(a * n, b * m)
  BY <1>1, <1>2, <1>5, OverRatio
<1>7. Times(Whole(open), v) = Ratio(open * k, 1 * l)
  BY <1>3, <1>4, TimesRatio
<1>8. /\ a * n \in Int /\ b * m \in Nat \ {0} /\ open * k \in Nat \ {0}
      /\ 1 * l \in Nat \ {0} /\ m * k \in Nat \ {0} /\ n * l \in Nat \ {0}
  BY <1>5
<1>9. Over(Over(x, u), Times(Whole(open), v)) = Ratio((a * n) * (1 * l), (b * m) * (open * k))
  BY <1>6, <1>7, <1>8, OverRatio
<1>10. /\ (a * n) * (1 * l) \in Int /\ (b * m) * (open * k) \in Nat \ {0}
       /\ 1 * (n * l) \in Int /\ 1 * (m * k) \in Nat \ {0}
  BY <1>8
<1>11. Times(Over(Over(x, u), Times(Whole(open), v)), Whole(close))
         = Ratio(((a * n) * (1 * l)) * close, ((b * m) * (open * k)) * 1)
  <2> DEFINE r == (a * n) * (1 * l)
             s == (b * m) * (open * k)
  <2>1. r \in Int /\ s \in Nat \ {0} /\ close \in Int
    BY <1>10
  <2>2. Over(Over(x, u), Times(Whole(open), v)) = Ratio(r, s)
    BY <1>9
  <2> HIDE DEF r, s
  <2>3. Times(Ratio(r, s), Ratio(close, 1)) = Ratio(r * close, s * 1)
    BY <2>1, TimesRatio
  <2>4. QED
    BY <1>4, <2>2, <2>3 DEF r, s
<1>12. Times(u, v) = Ratio(m * k, n * l)
  BY <1>2, <1>3, TimesRatio
<1>13. Over(Whole(1), Times(u, v)) = Ratio(1 * (n * l), 1 * (m * k))
  BY <1>4, <1>8, <1>12, OverRatio
<1>14. Times(Over(Whole(1), Times(u, v)), Ratio(close, open))
         = Ratio((1 * (n * l)) * close, (1 * (m * k)) * open)
  <2> DEFINE r == 1 * (n * l)
             s == 1 * (m * k)
  <2>1. r \in Int /\ s \in Nat \ {0} /\ close \in Int
    BY <1>10
  <2>2. Over(Whole(1), Times(u, v)) = Ratio(r, s)
    BY <1>13
  <2> HIDE DEF r, s
  <2>3. Times(Ratio(r, s), Ratio(close, open)) = Ratio(r * close, s * open)
    BY <2>1, TimesRatio
  <2>4. QED
    BY <2>2, <2>3 DEF r, s
<1> DEFINE c == (1 * (n * l)) * close
           d == (1 * (m * k)) * open
           e == ((a * n) * (1 * l)) * close
           f == ((b * m) * (open * k)) * 1
<1>15. c \in Int /\ d \in Nat \ {0} /\ e \in Int /\ f \in Nat \ {0}
  BY <1>10
<1>16. e * (b * d) = (a * c) * f
  BY <1>5
<1> HIDE DEF c, d, e, f
<1>17. Times(Whole(1), Ratio(c, d)) = Ratio(c, d)
  BY <1>15, PlusZero, RatioReduces
<1>18. Times(x, Ratio(c, d)) = Ratio(a * c, b * d) /\ a * c \in Int /\ b * d \in Nat \ {0}
  BY <1>1, <1>15, TimesRatio
<1>19. Ratio(e, f) = Ratio(a * c, b * d)
  BY <1>15, <1>16, <1>18, RatioEqual
<1>20. QED
  BY <1>11, <1>14, <1>17, <1>18, <1>19 DEF c, d, e, f

\* Sold: the value moves with the gap, less the costs.
LEMMA SoldValue ==
    ASSUME NEW q, NEW c, NEW w, InLowestTerms(q), InLowestTerms(c), InLowestTerms(w),
           NEW last \in Nat \ {0}, NEW open \in Nat \ {0}
    PROVE  LET P == Times(q, Times(Whole(open), w))
               z == Minus(Whole(1), c)
           IN  Minus(P, Times(P, c))
                 = Times(Times(q, Whole(last)),
                         Times(Ratio(open, last), Times(Times(z, w), Whole(1))))
<1> DEFINE P == Times(q, Times(Whole(open), w))
           z == Minus(Whole(1), c)
<1>1. InLowestTerms(Whole(1)) /\ InLowestTerms(Whole(open))
  BY WholeIsRatio
<1>2. InLowestTerms(z)
  BY <1>1, Closed
<1>3. InLowestTerms(Times(Whole(open), w))
  BY <1>1, Closed
<1>4. InLowestTerms(P)
  BY <1>3, Closed
<1>5. Minus(P, Times(P, c)) = Times(P, z)
  <2> HIDE DEF P
  <2>1. Times(P, Minus(Whole(1), c)) = Minus(Times(P, Whole(1)), Times(P, c))
    BY <1>1, <1>4, TimesDistributes
  <2>2. QED
    BY <2>1, <1>4, PlusZero
<1>6. PICK a \in Int, b \in Nat \ {0} : q = Ratio(a, b)
  BY Parts
<1>7. PICK m \in Int, n \in Nat \ {0} : w = Ratio(m, n)
  BY Parts
<1>8. PICK k \in Int, l \in Nat \ {0} : z = Ratio(k, l)
  BY <1>2, Parts
<1> HIDE DEF z
<1>9. Whole(open) = Ratio(open, 1) /\ Whole(last) = Ratio(last, 1)
  BY WholeIsRatio
<1>10. Times(Whole(open), w) = Ratio(open * m, 1 * n) /\ open * m \in Int /\ 1 * n \in Nat \ {0}
  BY <1>7, <1>9, TimesRatio
<1>11. /\ P = Ratio(a * (open * m), b * (1 * n))
       /\ a * (open * m) \in Int /\ b * (1 * n) \in Nat \ {0}
  BY <1>6, <1>10, TimesRatio
<1> HIDE DEF P
<1> DEFINE e == (a * (open * m)) * k
           f == (b * (1 * n)) * l
<1>12. Times(P, z) = Ratio(e, f) /\ e \in Int /\ f \in Nat \ {0}
  BY <1>8, <1>11, TimesRatio
<1>13. Times(z, w) = Ratio(k * m, l * n) /\ k * m \in Int /\ l * n \in Nat \ {0}
  BY <1>7, <1>8, TimesRatio
<1>14. Times(Times(z, w), Whole(1)) = Ratio(k * m, l * n)
  BY <1>13, PlusZero, RatioReduces
<1>15. /\ Times(Ratio(open, last), Ratio(k * m, l * n)) = Ratio(open * (k * m), last * (l * n))
       /\ open * (k * m) \in Int /\ last * (l * n) \in Nat \ {0}
  BY <1>13, TimesRatio
<1>16. Times(q, Whole(last)) = Ratio(a * last, b * 1) /\ a * last \in Int /\ b * 1 \in Nat \ {0}
  BY <1>6, <1>9, TimesRatio
<1> DEFINE g == (a * last) * (open * (k * m))
           h == (b * 1) * (last * (l * n))
<1>17. /\ Times(Ratio(a * last, b * 1), Ratio(open * (k * m), last * (l * n))) = Ratio(g, h)
       /\ g \in Int /\ h \in Nat \ {0}
  BY <1>15, <1>16, TimesRatio
<1>18. e * h = g * f
  OBVIOUS
<1> HIDE DEF e, f, g, h
<1>19. Ratio(e, f) = Ratio(g, h)
  BY <1>12, <1>17, <1>18, RatioEqual
<1>20. QED
  BY <1>5, <1>12, <1>14, <1>15, <1>16, <1>17, <1>19 DEF P, z

-----------------------------------------------------------------------------
\* What the trades say of the account.

\* A purchase at N, of A at reference prices, spends the cash x.
LEMMA BuyExplained ==
    ASSUME NEW x, NEW A, NEW N, InLowestTerms(x), InLowestTerms(A), InLowestTerms(N)
    PROVE  Minus(Minus(x, A), Plus(Minus(x, N), Minus(N, A))) = Whole(0)
<1>1. PICK a \in Int, b \in Nat \ {0} : x = Ratio(a, b)
  BY Parts
<1>2. PICK c \in Int, d \in Nat \ {0} : A = Ratio(c, d)
  BY Parts
<1>3. PICK e \in Int, f \in Nat \ {0} : N = Ratio(e, f)
  BY Parts
<1>4. Minus(x, A) = Ratio(a * d - c * b, b * d)
  BY <1>1, <1>2, MinusRatio
<1>5. Minus(x, N) = Ratio(a * f - e * b, b * f)
  BY <1>1, <1>3, MinusRatio
<1>6. Minus(N, A) = Ratio(e * d - c * f, f * d)
  BY <1>2, <1>3, MinusRatio
<1> DEFINE g == (a * f - e * b) * (f * d) + (e * d - c * f) * (b * f)
           h == (b * f) * (f * d)
<1>7. /\ a * d - c * b \in Int /\ a * f - e * b \in Int /\ e * d - c * f \in Int
      /\ b * d \in Nat \ {0} /\ b * f \in Nat \ {0} /\ f * d \in Nat \ {0}
      /\ g \in Int /\ h \in Nat \ {0} /\ (b * d) * h \in Nat \ {0}
  OBVIOUS
<1>8. Plus(Minus(x, N), Minus(N, A)) = Ratio(g, h)
  BY <1>5, <1>6, <1>7, PlusRatio
<1>9. (a * d - c * b) * h = g * (b * d)
  OBVIOUS
<1> HIDE DEF g, h
<1>10. Minus(Ratio(a * d - c * b, b * d), Ratio(g, h))
         = Ratio((a * d - c * b) * h - g * (b * d), (b * d) * h)
  BY <1>7, MinusRatio
<1>11. (a * d - c * b) * h - g * (b * d) = 0
  BY <1>7, <1>9
<1>12. Ratio(0, (b * d) * h) = Ratio(0, 1)
  <2>1. 0 * 1 = 0 * ((b * d) * h)
    BY <1>7
  <2>2. QED
    BY <2>1, <1>7, RatioEqual
<1>13. QED
  BY <1>4, <1>8, <1>10, <1>11, <1>12, WholeIsRatio

\* A sale at P, of A at reference prices, with commission K, leaves P less K.
LEMMA SellExplained ==
    ASSUME NEW A, NEW K, NEW P, InLowestTerms(A), InLowestTerms(K), InLowestTerms(P)
    PROVE  Minus(A, Plus(K, Minus(A, P))) = Minus(P, K)
<1>1. PICK a \in Int, b \in Nat \ {0} : A = Ratio(a, b)
  BY Parts
<1>2. PICK c \in Int, d \in Nat \ {0} : K = Ratio(c, d)
  BY Parts
<1>3. PICK e \in Int, f \in Nat \ {0} : P = Ratio(e, f)
  BY Parts
<1>4. Minus(A, P) = Ratio(a * f - e * b, b * f)
  BY <1>1, <1>3, MinusRatio
<1>5. Minus(P, K) = Ratio(e * d - c * f, f * d)
  BY <1>2, <1>3, MinusRatio
<1> DEFINE g == c * (b * f) + (a * f - e * b) * d
           h == d * (b * f)
           k == a * h - g * b
           l == b * h
<1>6. /\ a * f - e * b \in Int /\ b * f \in Nat \ {0} /\ e * d - c * f \in Int
      /\ f * d \in Nat \ {0} /\ g \in Int /\ h \in Nat \ {0}
      /\ k \in Int /\ l \in Nat \ {0}
  OBVIOUS
<1>7. Plus(K, Minus(A, P)) = Ratio(g, h)
  BY <1>2, <1>4, <1>6, PlusRatio
<1>8. Minus(A, Ratio(g, h)) = Ratio(k, l)
  BY <1>1, <1>6, MinusRatio
<1>9. k * (f * d) = (e * d - c * f) * l
  <2>1. k = (b * b) * (e * d - c * f)
    OBVIOUS
  <2>2. l = (b * b) * (f * d)
    OBVIOUS
  <2> HIDE DEF k, l
  <2>3. QED
    BY <2>1, <2>2
<1> HIDE DEF g, h, k, l
<1>10. Ratio(k, l) = Ratio(e * d - c * f, f * d)
  BY <1>6, <1>9, RatioEqual
<1>11. QED
  BY <1>5, <1>7, <1>8, <1>10

-----------------------------------------------------------------------------
\* The two recursions over bars and trades have their equations.

Compounds(n, f) ==
    f = [i \in 0 .. n |-> IF i = 0 THEN Whole(Cash) ELSE Times(f[i - 1], Factor(i))]

\* The recursion over the bars has a solution.
LEMMA CompoundsExists == ASSUME NEW n \in Nat PROVE \E f : Compounds(n, f)
<1> DEFINE S == {m \in Nat : ~ \E f : Compounds(m, f)}
<1>1. SUFFICES ASSUME S # {} PROVE FALSE
  OBVIOUS
<1>2. PICK m \in S : \A k \in S : m <= k
  <2> S \subseteq Nat
    OBVIOUS
  <2> HIDE DEF S
  <2> QED
    BY <1>1, LeastNumber
<1>3. CASE m = 0
  <2> DEFINE f == [i \in 0 .. 0 |-> Whole(Cash)]
  <2>1. Compounds(0, f)
    BY DEF Compounds
  <2>2. QED
    BY <1>2, <1>3, <2>1
<1>4. CASE m # 0
  <2>1. m - 1 \in Nat /\ m - 1 \notin S
    BY <1>2, <1>4
  <2>2. PICK f : Compounds(m - 1, f)
    BY <2>1
  <2> DEFINE h == [i \in 0 .. m |-> IF i = 0 THEN Whole(Cash) ELSE Times(f[i - 1], Factor(i))]
  <2>3. ASSUME NEW i \in 1 .. m PROVE h[i - 1] = f[i - 1]
    <3>1. i - 1 \in 0 .. m - 1 /\ i - 1 \in 0 .. m
      BY <2>1
    <3>2. QED
      BY <2>2, <3>1 DEF Compounds
  <2>4. Compounds(m, h)
    <3> DEFINE G == [i \in 0 .. m |-> IF i = 0 THEN Whole(Cash) ELSE Times(h[i - 1], Factor(i))]
    <3>1. \A i \in 0 .. m : h[i] = G[i]
      <4> SUFFICES ASSUME NEW i \in 0 .. m PROVE h[i] = G[i]
        OBVIOUS
      <4>1. CASE i = 0
        BY <4>1
      <4>2. CASE i # 0
        <5>1. i \in 1 .. m
          BY <4>2
        <5>2. h[i - 1] = f[i - 1]
          BY <2>3, <5>1
        <5> HIDE DEF h
        <5>3. G[i] = Times(h[i - 1], Factor(i))
          BY <4>2
        <5>4. h[i] = Times(f[i - 1], Factor(i))
          BY <4>2 DEF h
        <5>5. QED
          BY <5>2, <5>3, <5>4
      <4>3. QED
        BY <4>1, <4>2
    <3>2. h = G
      BY <3>1
    <3> HIDE DEF h
    <3>3. QED
      BY <3>2 DEF Compounds
  <2> HIDE DEF h
  <2>5. QED
    BY <1>2, <2>4
<1>5. QED
  BY <1>3, <1>4

\* The initial cash, then one factor for each bar.
LEMMA CompoundedStep ==
    ASSUME Len(bars) \in Nat
    PROVE  /\ Compounded[0] = Whole(Cash)
           /\ \A i \in 1 .. Len(bars) : Compounded[i] = Times(Compounded[i - 1], Factor(i))
<1>1. PICK f : Compounds(Len(bars), f)
  BY CompoundsExists
<1>2. Compounds(Len(bars), Compounded)
  BY <1>1 DEF Compounds, Compounded
<1>3. QED
  BY <1>2 DEF Compounds

\* Replaying the trades ts, one after the other.
Replays(ts, n, f) ==
    f = [k \in 0 .. n |-> IF k = 0 THEN [cash |-> Whole(Cash), quantity |-> Whole(0)]
                          ELSE AfterTrade(f[k - 1], ts[k])]

\* The recursion over the trades has a solution.
LEMMA ReplaysExists == ASSUME NEW ts, NEW n \in Nat PROVE \E f : Replays(ts, n, f)
<1> DEFINE S == {m \in Nat : ~ \E f : Replays(ts, m, f)}
<1>1. SUFFICES ASSUME S # {} PROVE FALSE
  OBVIOUS
<1>2. PICK m \in S : \A k \in S : m <= k
  <2> S \subseteq Nat
    OBVIOUS
  <2> HIDE DEF S
  <2> QED
    BY <1>1, LeastNumber
<1> DEFINE none == [cash |-> Whole(Cash), quantity |-> Whole(0)]
<1>3. CASE m = 0
  <2> DEFINE f == [k \in 0 .. 0 |-> none]
  <2>1. Replays(ts, 0, f)
    BY DEF Replays
  <2>2. QED
    BY <1>2, <1>3, <2>1
<1>4. CASE m # 0
  <2>1. m - 1 \in Nat /\ m - 1 \notin S
    BY <1>2, <1>4
  <2>2. PICK f : Replays(ts, m - 1, f)
    BY <2>1
  <2> DEFINE h == [k \in 0 .. m |-> IF k = 0 THEN none ELSE AfterTrade(f[k - 1], ts[k])]
  <2>3. ASSUME NEW k \in 1 .. m PROVE h[k - 1] = f[k - 1]
    <3>1. k - 1 \in 0 .. m - 1 /\ k - 1 \in 0 .. m
      BY <2>1
    <3>2. QED
      BY <2>2, <3>1 DEF Replays
  <2>4. Replays(ts, m, h)
    BY <2>3 DEF Replays
  <2> HIDE DEF h
  <2>5. QED
    BY <1>2, <2>4
<1>5. QED
  BY <1>3, <1>4

\* The first n trades are replayed alike, whatever comes after them.
LEMMA ReplaysUnique ==
    ASSUME NEW ts, NEW us, NEW m \in Nat, NEW n \in Nat, n <= m, NEW f, NEW h,
           Replays(ts, n, f), Replays(us, m, h), \A k \in 1 .. n : ts[k] = us[k]
    PROVE  f[n] = h[n]
<1> DEFINE S == {k \in Nat : k <= n /\ f[k] # h[k]}
<1>1. SUFFICES ASSUME S # {} PROVE FALSE
  OBVIOUS
<1>2. PICK k \in S : \A i \in S : k <= i
  <2> S \subseteq Nat
    OBVIOUS
  <2> HIDE DEF S
  <2> QED
    BY <1>1, LeastNumber
<1>3. k \in 0 .. n /\ k \in 0 .. m /\ f[k] # h[k]
  BY <1>2
<1>4. k # 0
  BY <1>3 DEF Replays
<1>5. k - 1 \in Nat /\ k - 1 <= n /\ ~(k <= k - 1)
  BY <1>3, <1>4
<1>6. f[k - 1] = h[k - 1]
  BY <1>2, <1>5
<1>7. f[k] = AfterTrade(f[k - 1], ts[k]) /\ h[k] = AfterTrade(h[k - 1], us[k])
  BY <1>3, <1>4 DEF Replays
<1>8. ts[k] = us[k]
  BY <1>3, <1>4
<1>9. QED
  BY <1>3, <1>6, <1>7, <1>8

\* What the trades explain is the last value of that recursion.
LEMMA ExplainedIs ==
    ASSUME NEW ts, Len(ts) \in Nat
    PROVE  \E f : Replays(ts, Len(ts), f) /\ Explained(ts) = f[Len(ts)]
<1> DEFINE f == CHOOSE g : Replays(ts, Len(ts), g)
<1>1. Replays(ts, Len(ts), f)
  BY ReplaysExists
<1>2. Explained(ts) = f[Len(ts)]
  BY DEF Explained, Replays
<1>3. QED
  BY <1>1, <1>2

\* One more trade.
LEMMA ExplainedStep ==
    ASSUME NEW ts, NEW us, NEW t, Len(ts) \in Nat, Len(us) = Len(ts) + 1,
           \A k \in 1 .. Len(ts) : us[k] = ts[k], us[Len(ts) + 1] = t
    PROVE  Explained(us) = AfterTrade(Explained(ts), t)
<1> DEFINE n == Len(ts)
           m == n + 1
<1>1. PICK f : Replays(ts, n, f) /\ Explained(ts) = f[n]
  BY ExplainedIs
<1>2. PICK h : Replays(us, m, h) /\ Explained(us) = h[m]
  BY ExplainedIs
<1>3. /\ n \in Nat /\ m \in Nat /\ n <= m /\ \A k \in 1 .. n : ts[k] = us[k]
      /\ m \in 0 .. m /\ m # 0 /\ m - 1 = n /\ us[m] = t
  OBVIOUS
<1> HIDE DEF n, m
<1>4. f[n] = h[n]
  BY <1>1, <1>2, <1>3, ReplaysUnique
<1>5. h[m] = AfterTrade(h[n], us[m])
  BY <1>2, <1>3 DEF Replays
<1>6. QED
  BY <1>1, <1>2, <1>3, <1>4, <1>5

\* No trades explain the initial account.
LEMMA ExplainedNone == Explained(<<>>) = [cash |-> Whole(Cash), quantity |-> Whole(0)]
<1> DEFINE f == CHOOSE g : Replays(<<>>, 0, g)
<1>1. Replays(<<>>, 0, f)
  BY ReplaysExists
<1>2. Explained(<<>>) = f[0]
  BY DEF Explained, Replays
<1> HIDE DEF f
<1>3. QED
  BY <1>1, <1>2 DEF Replays

\* Products and quotients of positive numbers.
LEMMA PositiveKept ==
    ASSUME NEW x, NEW y, InLowestTerms(x), InLowestTerms(y), Positive(x), Positive(y)
    PROVE  Positive(Times(x, y)) /\ Positive(Over(x, y))
<1>1. PICK a \in Int, b \in Nat \ {0} : x = Ratio(a, b) /\ a > 0
  BY Parts
<1>2. PICK c \in Int, d \in Nat \ {0} : y = Ratio(c, d) /\ c > 0
  BY Parts
<1>3. c \in Nat \ {0}
  BY <1>2
<1>4. Times(x, y) = Ratio(a * c, b * d) /\ a * c \in Int /\ b * d \in Nat \ {0}
  BY <1>1, <1>2, TimesRatio
<1>5. a * c > 0 /\ a * d > 0
  BY <1>1, <1>2
<1>6. Over(x, y) = Ratio(a * d, b * c) /\ a * d \in Int /\ b * c \in Nat \ {0}
  BY <1>1, <1>2, <1>3, OverRatio
<1>7. Positive(Ratio(a * c, b * d))
  BY <1>4, <1>5, RatioOperations
<1>8. Positive(Ratio(a * d, b * c))
  BY <1>6, <1>5, RatioOperations
<1>9. QED
  BY <1>4, <1>6, <1>7, <1>8

\* A whole number above zero is a positive fraction.
LEMMA WholePositive ==
    ASSUME NEW n \in Nat \ {0} PROVE InLowestTerms(Whole(n)) /\ Positive(Whole(n))
<1>1. n \in Int /\ Whole(n).n = n /\ n > 0
  BY DEF Whole
<1>2. QED
  BY <1>1, WholeIsRatio DEF Positive

\* The shares that costs are taken with.
LEMMA RateFacts ==
    ASSUME NEW c, Rate(c)
    PROVE  /\ InLowestTerms(c)
           /\ InLowestTerms(Plus(One, c)) /\ Positive(Plus(One, c))
           /\ InLowestTerms(Minus(One, c))
           /\ c.n < c.d => Positive(Minus(One, c))
           /\ ~AtMost(One, c) => c.n < c.d
<1>1. c.n \in Nat /\ c.d \in Nat \ {0} /\ c = Ratio(c.n, c.d)
  BY DEF Rate
<1>2. InLowestTerms(Ratio(c.n, c.d))
  BY <1>1, RatioReduces
<1>3. InLowestTerms(c)
  BY <1>1, <1>2
<1>4. One = Ratio(1, 1) /\ One.n = 1 /\ One.d = 1 /\ InLowestTerms(One)
  BY WholeIsRatio DEF One, Whole
<1> DEFINE a == c.n
           b == c.d
<1>5. /\ a \in Nat /\ b \in Nat \ {0} /\ c = Ratio(a, b)
      /\ 1 * b + a * 1 \in Int /\ 1 * b - a * 1 \in Int /\ 1 * b \in Nat \ {0}
      /\ 1 * b + a * 1 > 0
  BY <1>1
<1>6. Plus(One, c) = Ratio(1 * b + a * 1, 1 * b) /\ Minus(One, c) = Ratio(1 * b - a * 1, 1 * b)
  <2> HIDE DEF a, b
  <2>1. Plus(Ratio(1, 1), Ratio(a, b)) = Ratio(1 * b + a * 1, 1 * b)
    BY <1>5, PlusRatio
  <2>2. Minus(Ratio(1, 1), Ratio(a, b)) = Ratio(1 * b - a * 1, 1 * b)
    BY <1>5, MinusRatio
  <2>3. QED
    BY <1>4, <1>5, <2>1, <2>2
<1>7. InLowestTerms(Plus(One, c)) /\ InLowestTerms(Minus(One, c))
  BY <1>3, <1>4, Closed
<1>8. Positive(Plus(One, c))
  <2> DEFINE m == 1 * b + a * 1
             n == 1 * b
  <2>1. m \in Int /\ n \in Nat \ {0} /\ m > 0 /\ Plus(One, c) = Ratio(m, n)
    BY <1>5, <1>6
  <2> HIDE DEF m, n
  <2>2. QED
    BY <2>1, RatioOperations
<1>9. ASSUME c.n < c.d PROVE Positive(Minus(One, c))
  <2> DEFINE m == 1 * b - a * 1
             n == 1 * b
  <2>1. m \in Int /\ n \in Nat \ {0} /\ m > 0 /\ Minus(One, c) = Ratio(m, n)
    BY <1>5, <1>6, <1>9
  <2> HIDE DEF m, n
  <2>2. QED
    BY <2>1, RatioOperations
<1>10. ~AtMost(One, c) => c.n < c.d
  BY <1>1, <1>4 DEF AtMost
<1>11. QED
  BY <1>3, <1>7, <1>8, <1>9, <1>10

-----------------------------------------------------------------------------
\* The targets of a call that is accepted.

\* At most one target takes effect at the open of a bar, with weight 0 or 1.
LEMMA OneTarget ==
    ASSUME Accepts, NEW b, NEW v \in EffectiveAt(b), NEW w \in EffectiveAt(b)
    PROVE  v = w /\ v \in {0, 1}
<1>1. PICK i \in DOMAIN targets : targets[i].effective_at = b.session_open_at /\ targets[i].weight = v
  BY DEF EffectiveAt
<1>2. PICK j \in DOMAIN targets : targets[j].effective_at = b.session_open_at /\ targets[j].weight = w
  BY DEF EffectiveAt
<1>3. i = j
  BY <1>1, <1>2 DEF Accepts
<1>4. QED
  BY <1>1, <1>2, <1>3 DEF Accepts

\* The weight asked for is that of the bar's own target, or the one before.
LEMMA AskedStep ==
    ASSUME NEW i \in Nat \ {0}
    PROVE  Asked(i) = IF EffectiveAt(bars[i]) = {} THEN Asked(i - 1) ELSE EffectiveAt(bars[i])
<1> DEFINE S(k) == {j \in 1 .. k : EffectiveAt(bars[j]) # {}}
<1>1. Asked(i) = IF S(i) = {} THEN {0}
                 ELSE EffectiveAt(bars[CHOOSE j \in S(i) : \A l \in S(i) : l <= j])
  BY DEF Asked
<1>2. Asked(i - 1) = IF S(i - 1) = {} THEN {0}
                     ELSE EffectiveAt(bars[CHOOSE j \in S(i - 1) : \A l \in S(i - 1) : l <= j])
  BY DEF Asked
<1>3. CASE EffectiveAt(bars[i]) = {}
  <2>1. S(i) = S(i - 1)
    <3>1. \A j : j \in 1 .. i /\ j # i <=> j \in 1 .. i - 1
      OBVIOUS
    <3>2. QED
      BY <1>3, <3>1
  <2> HIDE DEF S
  <2>2. QED
    BY <1>1, <1>3, <1>2, <2>1
<1>4. CASE EffectiveAt(bars[i]) # {}
  <2>1. i \in S(i) /\ \A l \in S(i) : l <= i /\ l \in Nat
    BY <1>4
  <2> HIDE DEF S
  <2>2. (CHOOSE j \in S(i) : \A l \in S(i) : l <= j) = i
    <3> DEFINE j == CHOOSE m \in S(i) : \A l \in S(i) : l <= m
    <3>1. j \in S(i) /\ \A l \in S(i) : l <= j
      BY <2>1
    <3> HIDE DEF j
    <3>2. j = i
      BY <2>1, <3>1
    <3>3. QED
      BY <3>2 DEF j
  <2>3. S(i) # {}
    BY <2>1
  <2>4. QED
    BY <1>1, <1>4, <2>2, <2>3
<1>5. QED
  BY <1>3, <1>4

\* Before the first bar the weight zero is asked for.
LEMMA AskedNone == Asked(0) = {0}
<1>1. {j \in 1 .. 0 : EffectiveAt(bars[j]) # {}} = {}
  OBVIOUS
<1>2. QED
  BY <1>1 DEF Asked

\* The elements of a sequence.
Listed(s) == {s[k] : k \in DOMAIN s}

\* A sequence with an element appended.
LEMMA AppendFacts ==
    ASSUME NEW s, s \in Seq(Listed(s)), NEW e
    PROVE  /\ Append(s, e) \in Seq(Listed(Append(s, e)))
           /\ Len(s) \in Nat
           /\ DOMAIN s = 1 .. Len(s)
           /\ Len(Append(s, e)) = Len(s) + 1
           /\ DOMAIN Append(s, e) = 1 .. Len(s) + 1
           /\ \A k \in 1 .. Len(s) : Append(s, e)[k] = s[k]
           /\ Append(s, e)[Len(s) + 1] = e
<1> DEFINE T == Listed(s) \cup {e}
           a == Append(s, e)
<1>1. s \in Seq(T) /\ e \in T
  <2>1. Len(s) \in Nat /\ DOMAIN s = 1 .. Len(s) /\ \A k \in 1 .. Len(s) : s[k] \in Listed(s)
    OBVIOUS
  <2>2. s = [k \in 1 .. Len(s) |-> s[k]]
    OBVIOUS
  <2>3. QED
    BY <2>1, <2>2
<1>2. /\ a \in Seq(T)
      /\ Len(s) \in Nat
      /\ DOMAIN s = 1 .. Len(s)
      /\ Len(a) = Len(s) + 1
      /\ DOMAIN a = 1 .. Len(s) + 1
      /\ \A k \in 1 .. Len(s) : a[k] = s[k]
      /\ a[Len(s) + 1] = e
  <2> HIDE DEF T
  <2>1. QED
    BY <1>1
<1>3. a \in Seq(Listed(a))
  <2> HIDE DEF a
  <2>1. a = [k \in 1 .. Len(s) + 1 |-> a[k]]
    BY <1>2
  <2>2. \A k \in 1 .. Len(s) + 1 : a[k] \in Listed(a)
    BY <1>2 DEF Listed
  <2>3. Len(s) + 1 \in Nat
    BY <1>2
  <2> HIDE DEF Listed
  <2>4. QED
    BY <2>1, <2>2, <2>3
<1>4. QED
  BY <1>2, <1>3

-----------------------------------------------------------------------------
\* The invariant

Typed ==
    /\ bars \in Seq(Bar) /\ targets \in Seq(Target) /\ rates \in Costs
    /\ outcome \in {"called", "refused", "running", "invalid", "returned"}
    /\ target_weight \in {0, 1}
    /\ InLowestTerms(cash) /\ InLowestTerms(quantity)
    /\ points \in Seq(Listed(points)) /\ trades \in Seq(Listed(trades))

\* How far the call is.
CallOK ==
    /\ outcome \notin {"called", "refused"} => Accepts
    /\ outcome \in {"called", "refused"} => points = <<>> /\ trades = <<>>
    /\ Len(points) <= Len(bars)
    /\ outcome = "returned" => Len(points) = Len(bars)
    /\ outcome = "invalid" => Len(points) < Len(bars)
    /\ Len(trades) <= IF outcome = "invalid" THEN Len(points) + 1 ELSE Len(points)

\* The account is all cash or all shares, as the targets asked, and is worth
\* the cash compounded so far.
Worth == Compounded[Len(points)]

FollowsTargets ==
    outcome # "invalid" =>
        /\ Asked(Len(points)) = {target_weight}
        /\ target_weight = 0 => quantity = Whole(0) /\ cash = Worth
        /\ target_weight = 1 =>
             /\ cash = Whole(0) /\ Len(points) > 0
             /\ Times(quantity, Whole(bars[Len(points)].close)) = Worth

\* It stays worth something if a commission leaves something.
Solvent ==
    ~AtMost(One, rates.commission) =>
        /\ outcome # "invalid"
        /\ target_weight = 0 => Positive(cash)
        /\ target_weight = 1 => Positive(quantity)

TargetsMet == \A j \in DOMAIN points : EffectiveAt(bars[j]) \subseteq {points[j].target_weight}

AccountInv ==
    /\ Typed /\ CallOK /\ FollowsTargets /\ Solvent /\ TargetsMet
    /\ EquityCompounds /\ BooksBalance

\* What the invariant says of the next bar.
LEMMA BarFacts ==
    ASSUME AccountInv, outcome = "running", Len(points) < Len(bars)
    PROVE  /\ bar \in Bar /\ bar = bars[Len(points) + 1]
           /\ Len(points) + 1 \in 1 .. Len(bars) /\ (Len(points) + 1) - 1 = Len(points)
           /\ Len(points) \in Nat /\ Len(bars) \in Nat
           /\ bar.open \in Nat \ {0} /\ bar.close \in Nat \ {0}
           /\ Accepts
           /\ Len(points) > 0 => bars[Len(points)].close \in Nat \ {0}
<1>1. Len(points) \in Nat /\ Len(bars) \in Nat
  BY DEF AccountInv, Typed
<1>2. Len(points) + 1 \in 1 .. Len(bars) /\ (Len(points) + 1) - 1 = Len(points)
  BY <1>1
<1>3. \A i \in 1 .. Len(bars) : bars[i] \in Bar
  BY DEF AccountInv, Typed
<1>4. bar = bars[Len(points) + 1] /\ bar \in Bar
  BY <1>2, <1>3 DEF bar
<1>5. ASSUME Len(points) > 0 PROVE bars[Len(points)] \in Bar
  <2>1. Len(points) \in 1 .. Len(bars)
    BY <1>1, <1>5
  <2>2. QED
    BY <1>3, <2>1
<1>6. \A b \in Bar : b.open \in Nat \ {0} /\ b.close \in Nat \ {0}
  BY DEF Bar
<1>7. Accepts
  BY DEF AccountInv, CallOK
<1>8. QED
  BY <1>1, <1>2, <1>4, <1>5, <1>6, <1>7

\* A bar moves the worth of the account by its factor.
LEMMA FactorIs ==
    ASSUME AccountInv, outcome = "running", Len(points) < Len(bars),
           NEW w \in {0, 1}, Asked(Len(points) + 1) = {w}
    PROVE  LET last == bars[Len(points)]
               gap == IF target_weight = 1 THEN Ratio(bar.open, last.close) ELSE One
               day == IF w = 1 THEN Ratio(bar.close, bar.open) ELSE One
               switch == CASE w > target_weight ->
                                Over(One, Times(Plus(One, rates.commission),
                                                Plus(One, rates.slippage)))
                           [] w < target_weight ->
                                Times(Minus(One, rates.commission), Minus(One, rates.slippage))
                           [] OTHER -> One
           IN  Compounded[Len(points) + 1] = Times(Worth, Times(gap, Times(switch, day)))
<1> DEFINE i == Len(points) + 1
           before == IF i = 1 THEN 0 ELSE CHOOSE v \in Asked(i - 1) : TRUE
           after == CHOOSE v \in Asked(i) : TRUE
<1>1. /\ i \in 1 .. Len(bars) /\ i - 1 = Len(points) /\ bar = bars[i]
      /\ Len(points) \in Nat /\ Len(bars) \in Nat
  BY BarFacts
<1>2. Compounded[i] = Times(Compounded[i - 1], Factor(i))
  BY <1>1, CompoundedStep
<1>3. after = w
  OBVIOUS
<1>4. before = target_weight
  <2>1. CASE i = 1
    <3>1. ~(Len(points) > 0)
      BY <2>1, <1>1
    <3>2. target_weight = 0
      BY <3>1 DEF AccountInv, Typed, FollowsTargets
    <3>3. QED
      BY <2>1, <3>2
  <2>2. CASE i # 1
    <3>1. Asked(i - 1) = {target_weight}
      BY <1>1 DEF AccountInv, FollowsTargets
    <3>2. QED
      BY <2>2, <3>1
  <2>3. QED
    BY <2>1, <2>2
<1>5. Factor(i) = LET gap == IF before = 1 THEN Ratio(bars[i].open, bars[i - 1].close) ELSE One
                      day == IF after = 1 THEN Ratio(bars[i].close, bars[i].open) ELSE One
                      switch == CASE after > before ->
                                       Over(One, Times(Plus(One, rates.commission),
                                                       Plus(One, rates.slippage)))
                                  [] after < before ->
                                       Times(Minus(One, rates.commission),
                                             Minus(One, rates.slippage))
                                  [] OTHER -> One
                  IN  Times(gap, Times(switch, day))
  BY DEF Factor
<1> HIDE DEF before, after, i
<1>6. QED
  BY <1>1, <1>2, <1>3, <1>4, <1>5 DEF Worth, i

\* The input of a call does not change.
LEMMA SameInput ==
    ASSUME UNCHANGED input
    PROVE  /\ bars' = bars /\ targets' = targets /\ rates' = rates
           /\ Compounded' = Compounded /\ (Accepts' <=> Accepts)
<1>1. bars' = bars /\ targets' = targets /\ rates' = rates
  BY DEF input
<1>2. Compounded' = Compounded
  BY DEF Compounded, Factor, Asked, EffectiveAt, input
<1>3. Accepts' <=> Accepts
  BY DEF Accepts, opens, input
<1>4. QED
  BY <1>1, <1>2, <1>3

\* Effects depend on the input alone.
LEMMA SameEffects ==
    ASSUME UNCHANGED input, NEW b PROVE EffectiveAt(b)' = EffectiveAt(b)
  BY DEF EffectiveAt, input

\* Asked, of given bars and targets.
AskedOf(bs, ts, k) ==
    LET effective(b) == {ts[i].weight : i \in {j \in DOMAIN ts :
                                                   ts[j].effective_at = b.session_open_at}}
        S == {j \in 1 .. k : effective(bs[j]) # {}}
    IN  IF S = {} THEN {0}
        ELSE effective(bs[CHOOSE j \in S : \A l \in S : l <= j])

\* What a round of the loop has done to the account when it marks it to market.
Settled ==
    /\ InLowestTerms(cash') /\ InLowestTerms(quantity')
    /\ target_weight' \in {0, 1}
    /\ EffectiveAt(bar) \subseteq {target_weight'}
    /\ EffectiveAt(bar) = {} => target_weight' = target_weight
    /\ target_weight' = 0 =>
         quantity' = Whole(0) /\ cash' = Compounded[Len(points) + 1]
    /\ target_weight' = 1 =>
         cash' = Whole(0) /\ Times(quantity', Whole(bar.close)) = Compounded[Len(points) + 1]
    /\ ~AtMost(One, rates.commission) =>
         /\ target_weight' = 0 => Positive(cash')
         /\ target_weight' = 1 => Positive(quantity')
    /\ trades' \in Seq(Listed(trades')) /\ Len(trades') \in Nat /\ Len(trades') <= Len(trades) + 1
    /\ BooksBalance'

\* After a round of the loop the weight is the one asked for.
LEMMA AskedNow ==
    ASSUME AccountInv, outcome = "running", Len(points) < Len(bars),
           NEW w \in {0, 1}, EffectiveAt(bar) \subseteq {w},
           EffectiveAt(bar) = {} => w = target_weight
    PROVE  Asked(Len(points) + 1) = {w}
<1>1. Asked(Len(points)) = {target_weight}
  BY DEF AccountInv, FollowsTargets
<1>2. /\ Len(points) + 1 \in Nat \ {0} /\ bar = bars[Len(points) + 1]
      /\ (Len(points) + 1) - 1 = Len(points)
  BY BarFacts
<1>3. Asked(Len(points) + 1) = IF EffectiveAt(bar) = {} THEN Asked(Len(points)) ELSE EffectiveAt(bar)
  BY <1>2, AskedStep
<1>4. QED
  BY <1>1, <1>3

\* The point of the bar is recorded, and refused only if the costs took all.
LEMMA Recorded ==
    ASSUME AccountInv, outcome = "running", Len(points) < Len(bars), UNCHANGED input,
           Settled, MarkToMarket
    PROVE  AccountInv'
<1> DEFINE i == Len(points) + 1
           equity == Plus(cash', Times(quantity', Whole(bar.close)))
           point == [close |-> bar.close, cash |-> cash', quantity |-> quantity',
                     equity |-> equity, target_weight |-> target_weight']
<1>1. /\ i \in 1 .. Len(bars) /\ i - 1 = Len(points) /\ bar = bars[i]
      /\ Len(points) \in Nat /\ Len(bars) \in Nat
      /\ bar.close \in Nat \ {0} /\ Accepts
  BY BarFacts
<1>2. Record(point)
  BY DEF MarkToMarket
<1>3. point.equity = equity /\ point.cash = cash' /\ point.target_weight = target_weight'
  OBVIOUS
<1>4. /\ bars' = bars /\ targets' = targets /\ rates' = rates
      /\ Compounded' = Compounded /\ Accepts'
  BY <1>1, SameInput
<1>5. equity = Compounded[i]
  <2>1. InLowestTerms(Whole(bar.close))
    BY <1>1, WholePositive
  <2>2. InLowestTerms(Times(quantity', Whole(bar.close)))
    BY <2>1, Closed DEF Settled
  <2>3. CASE target_weight' = 0
    <3>1. Times(quantity', Whole(bar.close)) = Whole(0)
      BY <2>1, <2>3, PlusZero DEF Settled
    <3>2. equity = cash'
      BY <3>1, PlusZero DEF Settled
    <3>3. QED
      BY <2>3, <3>2 DEF Settled
  <2>4. CASE target_weight' = 1
    <3>1. cash' = Whole(0)
      BY <2>4 DEF Settled
    <3>2. equity = Times(quantity', Whole(bar.close))
      BY <2>2, <3>1, PlusZero
    <3>3. QED
      BY <2>4, <3>2 DEF Settled
  <2>5. QED
    BY <2>3, <2>4 DEF Settled
<1>6. ASSUME ~AtMost(One, rates.commission)
      PROVE  Positive(equity) /\ AtMost(Whole(0), cash')
  <2>1. InLowestTerms(Whole(bar.close)) /\ Positive(Whole(bar.close))
    BY <1>1, WholePositive
  <2>2. CASE target_weight' = 0
    <3>1. Positive(cash') /\ equity = cash'
      BY <1>5, <1>6, <2>2 DEF Settled
    <3>2. cash'.n \in Int /\ cash'.n > 0
      BY <3>1 DEF Settled, InLowestTerms, Positive
    <3>3. cash'.d \in Nat \ {0}
      BY DEF Settled, InLowestTerms
    <3>4. Whole(0).n = 0 /\ Whole(0).d = 1
      BY DEF Whole
    <3>5. AtMost(Whole(0), cash')
      BY <3>2, <3>3, <3>4 DEF AtMost
    <3>6. QED
      BY <3>1, <3>5
  <2>3. CASE target_weight' = 1
    <3>1. Positive(quantity') /\ InLowestTerms(quantity')
      BY <1>6, <2>3 DEF Settled
    <3>2. Positive(Times(quantity', Whole(bar.close)))
      BY <2>1, <3>1, PositiveKept
    <3>3. equity = Times(quantity', Whole(bar.close)) /\ cash' = Whole(0)
      BY <1>5, <2>3 DEF Settled
    <3>4. AtMost(Whole(0), Whole(0))
      BY DEF AtMost, Whole
    <3>5. QED
      BY <3>2, <3>3, <3>4
  <2>4. QED
    BY <2>2, <2>3 DEF Settled
<1>7. /\ points \in Seq(Listed(points)) /\ DOMAIN points = 1 .. Len(points)
      /\ Len(trades) \in Nat
  BY DEF AccountInv, Typed
<1>8. Len(trades) <= Len(points)
  BY DEF AccountInv, CallOK
<1>9. CASE outcome' = "invalid" /\ points' = points
  <2>1. AtMost(One, rates.commission)
    BY <1>2, <1>3, <1>6, <1>9 DEF Record
  <2>2. Typed'
    BY <1>4, <1>9 DEF AccountInv, Typed, Settled
  <2>3. CallOK'
    BY <1>1, <1>4, <1>7, <1>8, <1>9 DEF CallOK, Settled
  <2>4. FollowsTargets'
    BY <1>9 DEF FollowsTargets
  <2>5. Solvent'
    BY <2>1, <1>4 DEF Solvent, One
  <2>6. TargetsMet'
    BY <1>4, <1>9, SameEffects DEF AccountInv, TargetsMet
  <2>7. EquityCompounds'
    BY <1>4, <1>9 DEF AccountInv, EquityCompounds
  <2>8. BooksBalance'
    BY DEF Settled
  <2>9. QED
    BY <2>2, <2>3, <2>4, <2>5, <2>6, <2>7, <2>8 DEF AccountInv
<1>10. CASE outcome' = "running" /\ points' = Append(points, point)
  <2> HIDE DEF point
  <2>1. /\ points' \in Seq(Listed(points'))
        /\ Len(points') = i
        /\ DOMAIN points' = 1 .. i
        /\ \A k \in 1 .. Len(points) : points'[k] = points[k]
        /\ points'[i] = point
    BY <1>7, <1>10, AppendFacts
  <2>2. Typed'
    BY <1>4, <1>10, <2>1 DEF AccountInv, Typed, Settled
  <2>3. CallOK'
    BY <1>1, <1>4, <1>7, <1>8, <1>10, <2>1 DEF CallOK, Settled
  <2>4. FollowsTargets'
    <3>1. Asked(Len(points))' = {target_weight'}
      <4>1. Asked(i) = {target_weight'}
        BY AskedNow DEF Settled
      <4>2. AskedOf(bars, targets, i) = Asked(i)
        BY DEF AskedOf, Asked, EffectiveAt
      <4>3. Asked(Len(points))' = AskedOf(bars', targets', Len(points'))
        BY DEF AskedOf, Asked, EffectiveAt
      <4>4. QED
        BY <1>4, <2>1, <4>1, <4>2, <4>3
    <3>2. /\ target_weight' = 0 => quantity' = Whole(0) /\ cash' = Compounded[i]
          /\ target_weight' = 1 => /\ cash' = Whole(0)
                                   /\ Times(quantity', Whole(bars[i].close)) = Compounded[i]
      BY <1>1 DEF Settled
    <3> HIDE DEF i
    <3>3. i > 0
      BY <1>1
    <3>4. QED
      BY <1>4, <2>1, <3>1, <3>2, <3>3 DEF FollowsTargets, Worth
  <2>5. Solvent'
    BY <1>4, <1>10 DEF Solvent, One, Settled
  <2>6. TargetsMet'
    <3> SUFFICES ASSUME NEW j \in 1 .. i
                 PROVE  EffectiveAt(bars[j]) \subseteq {points'[j].target_weight}
      BY <1>4, <2>1, SameEffects DEF TargetsMet
    <3>1. CASE j = i
      BY <3>1, <1>1, <1>3, <2>1 DEF Settled, point
    <3>2. CASE j # i
      <4>1. j \in 1 .. Len(points)
        BY <3>2, <1>1
      <4>2. QED
        BY <4>1, <1>7, <2>1 DEF AccountInv, TargetsMet
    <3>3. QED
      BY <3>1, <3>2
  <2>7. EquityCompounds'
    <3> SUFFICES ASSUME NEW j \in 1 .. i PROVE points'[j].equity = Compounded[j]
      BY <1>4, <2>1 DEF EquityCompounds
    <3>1. CASE j = i
      BY <3>1, <1>3, <1>5, <2>1 DEF point
    <3>2. CASE j # i
      <4>1. j \in 1 .. Len(points)
        BY <3>2, <1>1
      <4>2. QED
        BY <4>1, <1>7, <2>1 DEF AccountInv, EquityCompounds
    <3>3. QED
      BY <3>1, <3>2
  <2>8. BooksBalance'
    BY DEF Settled
  <2>9. QED
    BY <2>2, <2>3, <2>4, <2>5, <2>6, <2>7, <2>8 DEF AccountInv
<1>11. QED
  BY <1>2, <1>9, <1>10 DEF Record

\* A bar at which the weight stays.
LEMMA HoldSettles ==
    ASSUME AccountInv, HoldBar
    PROVE  Settled
<1> DEFINE i == Len(points) + 1
           last == bars[Len(points)]
<1>1. /\ outcome = "running" /\ Len(points) < Len(bars)
      /\ EffectiveAt(bar) \subseteq {target_weight}
      /\ cash' = cash /\ quantity' = quantity /\ target_weight' = target_weight
      /\ trades' = trades
  BY DEF HoldBar, account
<1>2. /\ bar.open \in Nat \ {0} /\ bar.close \in Nat \ {0}
      /\ Len(points) > 0 => last.close \in Nat \ {0}
  BY <1>1, BarFacts
<1>3. /\ InLowestTerms(cash) /\ InLowestTerms(quantity) /\ target_weight \in {0, 1}
      /\ trades \in Seq(Listed(trades)) /\ Len(trades) \in Nat
  BY DEF AccountInv, Typed
<1>4. Asked(i) = {target_weight}
  BY <1>1, <1>3, AskedNow
<1>5. InLowestTerms(One) /\ One = Whole(1)
  BY WholePositive DEF One
<1>6. /\ target_weight = 0 => Compounded[i] = Times(Worth, Times(One, Times(One, One)))
      /\ target_weight = 1 =>
           Compounded[i] = Times(Worth, Times(Ratio(bar.open, last.close),
                                              Times(One, Ratio(bar.close, bar.open))))
  BY <1>1, <1>3, <1>4, FactorIs
<1>7. ASSUME target_weight = 0
      PROVE  quantity' = Whole(0) /\ cash' = Compounded[i]
  <2>1. cash = Worth /\ quantity = Whole(0)
    BY <1>1, <1>7 DEF AccountInv, FollowsTargets
  <2>2. Times(One, Times(One, One)) = One
    BY <1>5, PlusZero
  <2>3. Compounded[i] = cash
    BY <1>3, <1>5, <1>6, <1>7, <2>1, <2>2, PlusZero
  <2>4. QED
    BY <1>1, <2>1, <2>3
<1>8. ASSUME target_weight = 1
      PROVE  cash' = Whole(0) /\ Times(quantity', Whole(bar.close)) = Compounded[i]
  <2>1. /\ cash = Whole(0) /\ Len(points) > 0
        /\ Times(quantity, Whole(last.close)) = Worth
    BY <1>1, <1>8 DEF AccountInv, FollowsTargets
  <2>2. last.close \in Nat \ {0}
    BY <1>2, <2>1
  <2> HIDE DEF last
  <2>3. Compounded[i] = Times(Times(quantity, Whole(last.close)),
                              Times(Ratio(bar.open, last.close),
                                    Times(Whole(1), Ratio(bar.close, bar.open))))
    BY <1>5, <1>6, <1>8, <2>1
  <2>4. Compounded[i] = Times(quantity, Whole(bar.close))
    BY <1>2, <1>3, <2>2, <2>3, HeldValue
  <2>5. QED
    BY <1>1, <2>1, <2>4
<1>9. BooksBalance'
  BY <1>1 DEF AccountInv, BooksBalance
<1>10. ~AtMost(One, rates.commission) => /\ target_weight' = 0 => Positive(cash')
                                         /\ target_weight' = 1 => Positive(quantity')
  BY <1>1 DEF AccountInv, Solvent
<1>11. QED
  BY <1>1, <1>3, <1>7, <1>8, <1>9, <1>10 DEF Settled

-----------------------------------------------------------------------------

\* A trade in the list is as Trade says.
LEMMA Listing ==
    ASSUME AccountInv, NEW side, NEW q, NEW price, NEW commission,
           Trade(side, q, price, commission)
    PROVE  LET slippage == IF side = "buy" THEN Times(q, Minus(price, Whole(bar.open)))
                           ELSE Times(q, Minus(Whole(bar.open), price))
               t == [side |-> side, executed_at |-> bar.session_open_at,
                     reference_price |-> bar.open, quantity |-> q,
                     commission |-> commission, slippage |-> slippage]
           IN  /\ trades' \in Seq(Listed(trades'))
               /\ Len(trades') \in Nat /\ Len(trades') <= Len(trades) + 1
               /\ Explained(trades') = AfterTrade([cash |-> cash, quantity |-> quantity], t)
<1> DEFINE slippage == IF side = "buy" THEN Times(q, Minus(price, Whole(bar.open)))
                       ELSE Times(q, Minus(Whole(bar.open), price))
           t == [side |-> side, executed_at |-> bar.session_open_at,
                 reference_price |-> bar.open, quantity |-> q,
                 commission |-> commission, slippage |-> slippage]
<1>1. trades' = Append(trades, t)
  BY DEF Trade
<1> HIDE DEF t
<1>2. /\ trades' \in Seq(Listed(trades'))
      /\ Len(trades) \in Nat
      /\ Len(trades') = Len(trades) + 1
      /\ \A k \in 1 .. Len(trades) : trades'[k] = trades[k]
      /\ trades'[Len(trades) + 1] = t
  BY <1>1, AppendFacts DEF AccountInv, Typed
<1>3. Explained(trades') = AfterTrade(Explained(trades), t)
  BY <1>2, ExplainedStep
<1>4. Explained(trades) = [cash |-> cash, quantity |-> quantity]
  BY DEF AccountInv, BooksBalance
<1>5. QED
  BY <1>2, <1>3, <1>4 DEF t

\* The rates are those run() accepts.
LEMMA RatesOK ==
    ASSUME AccountInv
    PROVE  /\ Rate(rates.commission) /\ Rate(rates.slippage)
           /\ rates.slippage.n < rates.slippage.d
  BY EngineAssumption DEF AccountInv, Typed

\* A purchase.
LEMMA BuySettles ==
    ASSUME AccountInv, BuyBar
    PROVE  Settled
<1> DEFINE i == Len(points) + 1
           u == Plus(One, rates.commission)
           v == Plus(One, rates.slippage)
           w == Whole(bar.open)
           price == Times(w, v)
           N == Over(cash, u)
           q == Over(N, price)
           A == Times(q, w)
<1>1. /\ outcome = "running" /\ Len(points) < Len(bars)
      /\ 1 \in EffectiveAt(bar) /\ target_weight # 1
      /\ Trade("buy", q, price, Minus(cash, N))
      /\ quantity' = q /\ cash' = Whole(0) /\ target_weight' = 1
  BY DEF BuyBar
<1>2. bar.open \in Nat \ {0} /\ bar.close \in Nat \ {0} /\ Accepts
  BY <1>1, BarFacts
<1>3. InLowestTerms(cash) /\ target_weight = 0
  BY <1>1 DEF AccountInv, Typed
<1>4. quantity = Whole(0) /\ cash = Worth
  BY <1>1, <1>3 DEF AccountInv, FollowsTargets
<1>5. InLowestTerms(u) /\ Positive(u) /\ InLowestTerms(v) /\ Positive(v)
  BY RatesOK, RateFacts
<1>6. InLowestTerms(w) /\ Positive(w)
  BY <1>2, WholePositive
<1>7. EffectiveAt(bar) \subseteq {1} /\ EffectiveAt(bar) # {}
  BY <1>1, <1>2, OneTarget
<1>8. Asked(i) = {1}
  BY <1>1, <1>7, AskedNow
<1>9. Compounded[i] = Times(Worth, Times(One, Times(Over(One, Times(u, v)),
                                                    Ratio(bar.close, bar.open))))
  BY <1>1, <1>3, <1>8, FactorIs
<1> HIDE DEF u, v, w
<1>10. InLowestTerms(price) /\ Positive(price)
  BY <1>5, <1>6, Closed, PositiveKept
<1>11. InLowestTerms(N)
  BY <1>3, <1>5, Closed
<1>12. InLowestTerms(q)
  <2> HIDE DEF N, price
  <2> QED
    BY <1>10, <1>11, Closed
<1>13. Times(quantity', Whole(bar.close)) = Compounded[i]
  <2>1. Times(Over(Over(cash, u), Times(Whole(bar.open), v)), Whole(bar.close))
          = Times(cash, Times(Whole(1), Times(Over(Whole(1), Times(u, v)),
                                              Ratio(bar.close, bar.open))))
    BY <1>2, <1>3, <1>5, BoughtValue
  <2>2. QED
    BY <1>1, <1>4, <1>9, <2>1 DEF One, w
<1>14. ~AtMost(One, rates.commission) => Positive(quantity')
  <2> SUFFICES ASSUME ~AtMost(One, rates.commission) PROVE Positive(q)
    BY <1>1
  <2>1. Positive(cash)
    BY <1>3 DEF AccountInv, Solvent
  <2>2. Positive(N)
    BY <1>3, <1>5, <2>1, PositiveKept
  <2> HIDE DEF N, price
  <2>3. QED
    BY <1>10, <1>11, <2>2, PositiveKept
<1> HIDE DEF price, N, q
<1>15. InLowestTerms(A)
  BY <1>6, <1>12, Closed
<1>16. Times(q, Minus(price, w)) = Minus(N, A)
  <2>1. Times(q, Minus(price, w)) = Minus(Times(q, price), Times(q, w))
    BY <1>6, <1>10, <1>12, TimesDistributes
  <2>2. Times(q, price) = N
    BY <1>10, <1>11, OverUndone DEF q
  <2>3. QED
    BY <2>1, <2>2
<1> HIDE DEF A
<1>17. /\ trades' \in Seq(Listed(trades'))
       /\ Len(trades') \in Nat /\ Len(trades') <= Len(trades) + 1
       /\ Explained(trades')
            = AfterTrade([cash |-> cash, quantity |-> quantity],
                         [side |-> "buy", executed_at |-> bar.session_open_at,
                          reference_price |-> bar.open, quantity |-> q,
                          commission |-> Minus(cash, N),
                          slippage |-> Times(q, Minus(price, w))])
  BY <1>1, Listing DEF w
<1>18. BooksBalance'
  <2>1. Explained(trades')
          = [cash |-> Minus(Minus(cash, A), Plus(Minus(cash, N), Minus(N, A))),
             quantity |-> Plus(quantity, q)]
    BY <1>16, <1>17 DEF AfterTrade, A, w
  <2>2. Minus(Minus(cash, A), Plus(Minus(cash, N), Minus(N, A))) = Whole(0)
    BY <1>3, <1>11, <1>15, BuyExplained
  <2>3. Plus(quantity, q) = q
    BY <1>4, <1>12, PlusZero
  <2>4. QED
    BY <1>1, <2>1, <2>2, <2>3 DEF BooksBalance
<1>19. InLowestTerms(cash')
  BY <1>1, WholeIsRatio
<1>20. QED
  BY <1>1, <1>7, <1>12, <1>13, <1>14, <1>17, <1>18, <1>19 DEF Settled

\* A sale.
LEMMA SellSettles ==
    ASSUME AccountInv, SellBar
    PROVE  Settled
<1> DEFINE i == Len(points) + 1
           last == bars[Len(points)]
           c == rates.commission
           z == Minus(One, c)
           v == Minus(One, rates.slippage)
           w == Whole(bar.open)
           price == Times(w, v)
           P == Times(quantity, price)
           K == Times(P, c)
           A == Times(quantity, w)
<1>1. /\ outcome = "running" /\ Len(points) < Len(bars)
      /\ target_weight' \in EffectiveAt(bar) \ {1, target_weight}
      /\ Trade("sell", quantity, price, K)
      /\ quantity' = Whole(0) /\ cash' = Minus(P, K)
  BY DEF SellBar
<1>2. /\ bar.open \in Nat \ {0} /\ Accepts
      /\ Len(points) > 0 => last.close \in Nat \ {0}
  BY <1>1, BarFacts
<1>3. target_weight' \in {0, 1} /\ EffectiveAt(bar) \subseteq {target_weight'}
  BY <1>1, <1>2, OneTarget
<1>4. InLowestTerms(quantity) /\ target_weight \in {0, 1}
  BY DEF AccountInv, Typed
<1>5. target_weight' = 0 /\ target_weight = 1 /\ EffectiveAt(bar) # {}
  BY <1>1, <1>3, <1>4
<1>6. /\ cash = Whole(0) /\ last.close \in Nat \ {0}
      /\ Times(quantity, Whole(last.close)) = Worth
  BY <1>1, <1>2, <1>5 DEF AccountInv, FollowsTargets
<1>7. InLowestTerms(c) /\ InLowestTerms(z) /\ InLowestTerms(v) /\ Positive(v)
  BY RatesOK, RateFacts
<1>8. InLowestTerms(w) /\ Positive(w)
  BY <1>2, WholePositive
<1>9. Asked(i) = {0}
  BY <1>1, <1>3, <1>5, AskedNow
<1>10. Compounded[i] = Times(Worth, Times(Ratio(bar.open, last.close),
                                          Times(Times(z, v), One)))
  BY <1>1, <1>5, <1>9, FactorIs
<1>11. /\ Minus(P, K) = Times(P, z)
       /\ Minus(P, K) = Compounded[i]
  <2> HIDE DEF last
  <2>1. InLowestTerms(Whole(1)) /\ One = Whole(1)
    BY WholePositive DEF One
  <2>2. Minus(P, K) = Times(Times(quantity, Whole(last.close)),
                            Times(Ratio(bar.open, last.close),
                                  Times(Times(Minus(Whole(1), c), v), Whole(1))))
    BY <1>2, <1>4, <1>6, <1>7, SoldValue
  <2>3. InLowestTerms(P)
    BY <1>4, <1>7, <1>8, Closed
  <2> HIDE DEF P
  <2>4. Times(P, Minus(Whole(1), c)) = Minus(Times(P, Whole(1)), Times(P, c))
    BY <1>7, <2>1, <2>3, TimesDistributes
  <2>5. Minus(P, K) = Times(P, z)
    BY <2>1, <2>3, <2>4, PlusZero
  <2>6. QED
    BY <1>6, <1>10, <2>1, <2>2, <2>5
<1>12. ~AtMost(One, rates.commission) => Positive(cash')
  <2> SUFFICES ASSUME ~AtMost(One, rates.commission) PROVE Positive(Times(P, z))
    BY <1>1, <1>11
  <2>1. Positive(quantity)
    BY <1>5 DEF AccountInv, Solvent
  <2>2. Positive(z)
    BY RatesOK, RateFacts
  <2> HIDE DEF w, v, z
  <2>3. InLowestTerms(price) /\ Positive(price)
    BY <1>7, <1>8, Closed, PositiveKept
  <2> HIDE DEF price
  <2>4. InLowestTerms(P) /\ Positive(P)
    BY <1>4, <2>1, <2>3, Closed, PositiveKept
  <2> HIDE DEF P
  <2>5. QED
    BY <1>7, <2>2, <2>4, PositiveKept
<1> HIDE DEF w, v, z
<1>13. InLowestTerms(price)
  BY <1>7, <1>8, Closed
<1> HIDE DEF price
<1>14. InLowestTerms(P) /\ InLowestTerms(A)
  BY <1>4, <1>8, <1>13, Closed
<1>15. InLowestTerms(K)
  <2> HIDE DEF P
  <2> QED
    BY <1>7, <1>14, Closed
<1>16. Times(quantity, Minus(w, price)) = Minus(A, P)
  BY <1>4, <1>8, <1>13, TimesDistributes
<1>17. InLowestTerms(cash')
  <2> HIDE DEF P, K
  <2> QED
    BY <1>1, <1>14, <1>15, Closed
<1>18. /\ trades' \in Seq(Listed(trades'))
       /\ Len(trades') \in Nat /\ Len(trades') <= Len(trades) + 1
       /\ Explained(trades')
            = AfterTrade([cash |-> cash, quantity |-> quantity],
                         [side |-> "sell", executed_at |-> bar.session_open_at,
                          reference_price |-> bar.open, quantity |-> quantity,
                          commission |-> K,
                          slippage |-> Times(quantity, Minus(w, price))])
  BY <1>1, Listing DEF w
<1>19. BooksBalance'
  <2>1. Explained(trades')
          = [cash |-> Minus(Plus(cash, A), Plus(K, Minus(A, P))),
             quantity |-> Minus(quantity, quantity)]
    BY <1>16, <1>18 DEF AfterTrade, w
  <2> HIDE DEF A, P, K
  <2>2. Plus(cash, A) = A
    BY <1>6, <1>14, PlusZero
  <2>3. Minus(A, Plus(K, Minus(A, P))) = Minus(P, K)
    BY <1>14, <1>15, SellExplained
  <2>4. Minus(quantity, quantity) = Whole(0)
    BY <1>4, PlusZero
  <2>5. QED
    BY <1>1, <2>1, <2>2, <2>3, <2>4 DEF BooksBalance
<1>20. InLowestTerms(quantity')
  BY <1>1, WholeIsRatio
<1>21. QED
  BY <1>1, <1>3, <1>5, <1>11, <1>12, <1>17, <1>18, <1>19, <1>20 DEF Settled

\* A call starts in the invariant.
LEMMA AccountInit == Init => AccountInv
<1> SUFFICES ASSUME Init PROVE AccountInv
  OBVIOUS
<1>1. /\ bars \in Seq(Bar) /\ targets \in Seq(Target) /\ rates \in Costs
      /\ outcome = "called" /\ cash = Whole(Cash) /\ quantity = Whole(0)
      /\ target_weight = 0 /\ trades = <<>> /\ points = <<>>
      /\ Cash \in Nat \ {0} /\ Len(bars) \in Nat
  BY EngineAssumption DEF Init
<1>2. /\ points \in Seq(Listed(points)) /\ trades \in Seq(Listed(trades))
      /\ Len(points) = 0 /\ DOMAIN points = {} /\ Len(trades) = 0
  BY <1>1
<1>3. InLowestTerms(cash) /\ Positive(cash) /\ InLowestTerms(quantity)
  BY <1>1, WholePositive, WholeIsRatio
<1>4. Typed
  BY <1>1, <1>2, <1>3 DEF Typed
<1>5. CallOK
  BY <1>1, <1>2 DEF CallOK
<1>6. FollowsTargets
  BY <1>1, <1>2, AskedNone, CompoundedStep DEF FollowsTargets, Worth
<1>7. Solvent
  BY <1>1, <1>3 DEF Solvent
<1>8. TargetsMet /\ EquityCompounds
  BY <1>2 DEF TargetsMet, EquityCompounds
<1>9. BooksBalance
  BY <1>1, ExplainedNone DEF BooksBalance
<1>10. QED
  BY <1>4, <1>5, <1>6, <1>7, <1>8, <1>9 DEF AccountInv

\* Steps that only move the call along.
LEMMA AccountKept ==
    ASSUME AccountInv, UNCHANGED <<input, account, trades, points>>,
           outcome' \in {"called", "refused", "running", "invalid", "returned"},
           outcome' \notin {"called", "refused"} => Accepts,
           outcome' \in {"called", "refused"} => outcome = "called" \/ outcome' = outcome,
           outcome' = "returned" => Len(points) = Len(bars),
           (outcome' = "invalid") <=> (outcome = "invalid")
    PROVE  AccountInv'
<1>1. /\ bars' = bars /\ targets' = targets /\ rates' = rates
      /\ Compounded' = Compounded /\ (Accepts' <=> Accepts)
  BY SameInput
<1>2. /\ cash' = cash /\ quantity' = quantity /\ target_weight' = target_weight
      /\ trades' = trades /\ points' = points
  BY DEF account
<1>3. Typed'
  BY <1>1, <1>2 DEF AccountInv, Typed
<1>4. CallOK'
  BY <1>1, <1>2 DEF AccountInv, CallOK
<1>5. FollowsTargets'
  <2>1. Asked(Len(points))' = Asked(Len(points))
    BY <1>2 DEF Asked, EffectiveAt, input
  <2>2. QED
    BY <1>1, <1>2, <2>1 DEF AccountInv, FollowsTargets, Worth
<1>6. Solvent'
  BY <1>1, <1>2 DEF AccountInv, Solvent, One
<1>7. TargetsMet'
  BY <1>1, <1>2, SameEffects DEF AccountInv, TargetsMet
<1>8. EquityCompounds'
  BY <1>1, <1>2 DEF AccountInv, EquityCompounds
<1>9. BooksBalance'
  BY <1>2 DEF AccountInv, BooksBalance
<1>10. QED
  BY <1>3, <1>4, <1>5, <1>6, <1>7, <1>8, <1>9 DEF AccountInv

\* Every step keeps the invariant.
LEMMA AccountStep == AccountInv /\ [Next]_vars => AccountInv'
<1> SUFFICES ASSUME AccountInv, [Next]_vars PROVE AccountInv'
  OBVIOUS
<1>1. outcome \in {"called", "refused", "running", "invalid", "returned"}
  BY DEF AccountInv, Typed
<1>2. CASE Refuse
  BY <1>2, AccountKept DEF Refuse
<1>3. CASE Start
  BY <1>3, AccountKept DEF Start
<1>4. CASE HoldBar
  BY <1>4, HoldSettles, Recorded DEF HoldBar
<1>5. CASE BuyBar
  BY <1>5, BuySettles, Recorded DEF BuyBar
<1>6. CASE SellBar
  BY <1>6, SellSettles, Recorded DEF SellBar
<1>7. CASE Return
  <2>1. Accepts
    BY <1>7 DEF Return, AccountInv, CallOK
  <2>2. QED
    BY <1>7, <2>1, AccountKept DEF Return
<1>8. CASE UNCHANGED vars
  <2>1. outcome \notin {"called", "refused"} => Accepts
    BY DEF AccountInv, CallOK
  <2>2. outcome = "returned" => Len(points) = Len(bars)
    BY DEF AccountInv, CallOK
  <2>3. outcome' = outcome /\ UNCHANGED <<input, account, trades, points>>
    BY <1>8 DEF vars
  <2>4. QED
    BY <1>1, <2>1, <2>2, <2>3, AccountKept
<1>9. QED
  BY <1>2, <1>3, <1>4, <1>5, <1>6, <1>7, <1>8 DEF Next

\* The invariant of the account holds in every state of every call.
THEOREM AccountTheorem == Spec => []AccountInv
  BY AccountInit, AccountStep, PTL DEF Spec

\* The account holds fractions and a weight of zero or one, and there is at most
\* one point and one trade for each bar: in every state of _run().
THEOREM TypeCorrect == Spec => []TypeOK
<1>1. AccountInv => TypeOK
  <2> SUFFICES ASSUME AccountInv PROVE TypeOK
    OBVIOUS
  <2>1. \A x : InLowestTerms(x) => x \in Fraction
    BY DEF InLowestTerms, Fraction
  <2>2. Len(points) \in Nat /\ Len(bars) \in Nat /\ Len(trades) \in Nat
    BY DEF AccountInv, Typed
  <2>3. QED
    BY <2>1, <2>2 DEF AccountInv, Typed, CallOK, TypeOK
<1>2. QED
  BY <1>1, AccountTheorem, PTL

\* Every point records the initial cash compounded by the bars in which the
\* targets asked for the asset, less the costs of each change: _run() adds and
\* loses no return, for every history, list of targets, costs and cash.
THEOREM EquityTheorem == Spec => []EquityCompounds
<1>1. AccountInv => EquityCompounds
  BY DEF AccountInv
<1>2. QED
  BY <1>1, AccountTheorem, PTL

\* The trades explain cash and quantity, for every call: what _buy() and _sell()
\* report of price, commission and slippage is what they did to the account.
THEOREM BooksTheorem == Spec => []BooksBalance
<1>1. AccountInv => BooksBalance
  BY DEF AccountInv
<1>2. QED
  BY <1>1, AccountTheorem, PTL

\* A call that passes the checks fails only on a commission of all proceeds or
\* more; if it returns, each bar has its point and every target was held at the
\* close of the session it takes effect in.
THEOREM AcceptedTheorem == Spec => []AcceptedRunsReturn
<1>1. AccountInv => AcceptedRunsReturn
  <2> SUFFICES ASSUME AccountInv PROVE AcceptedRunsReturn
    OBVIOUS
  <2>1. outcome = "invalid" => AtMost(One, rates.commission)
    BY DEF AccountInv, Solvent
  <2>2. ASSUME outcome = "returned", NEW i \in DOMAIN targets
        PROVE  \E j \in DOMAIN bars : /\ bars[j].session_open_at = targets[i].effective_at
                                      /\ points[j].target_weight = targets[i].weight
    <3>1. targets[i].effective_at \in opens
      BY <2>2 DEF AccountInv, CallOK, Accepts
    <3>2. PICK j \in DOMAIN bars : bars[j].session_open_at = targets[i].effective_at
      BY <3>1 DEF opens
    <3>3. targets[i].weight \in EffectiveAt(bars[j])
      BY <3>2 DEF EffectiveAt
    <3>4. j \in DOMAIN points
      <4>1. Len(points) = Len(bars)
        BY <2>2 DEF AccountInv, CallOK
      <4>2. DOMAIN points = 1 .. Len(points) /\ DOMAIN bars = 1 .. Len(bars)
        BY DEF AccountInv, Typed
      <4>3. QED
        BY <4>1, <4>2
    <3>5. EffectiveAt(bars[j]) \subseteq {points[j].target_weight}
      BY <3>4 DEF AccountInv, TargetsMet
    <3>6. QED
      BY <3>2, <3>3, <3>5
  <2>3. outcome = "returned" => Len(points) = Len(bars)
    BY DEF AccountInv, CallOK
  <2>4. QED
    BY <2>1, <2>2, <2>3 DEF AcceptedRunsReturn
<1>2. QED
  BY <1>1, AccountTheorem, PTL

-----------------------------------------------------------------------------
\* The discipline of the trades

\* The weights that take effect are those of targets.
LEMMA WeightsTaken ==
    ASSUME NEW b, NEW w \in EffectiveAt(b)
    PROVE  \E i \in DOMAIN targets : /\ targets[i].effective_at = b.session_open_at
                                     /\ targets[i].weight = w
  BY DEF EffectiveAt

\* A trade keeps the discipline if it goes the way the weight goes, at the
\* time of a target that asked for it.
LEMMA TradeOK ==
    ASSUME AccountInv, TradesAlternate, UNCHANGED input,
           NEW side, NEW q, NEW price, NEW commission,
           Trade(side, q, price, commission),
           target_weight' \in EffectiveAt(bar), target_weight' \in {0, 1},
           target_weight' # target_weight,
           side = IF target_weight' = 1 THEN "buy" ELSE "sell"
    PROVE  TradesAlternate'
<1>1. PICK t : /\ trades' = Append(trades, t)
               /\ t.side = side /\ t.executed_at = bar.session_open_at
  BY DEF Trade
<1>2. /\ trades \in Seq(Listed(trades)) /\ target_weight \in {0, 1}
      /\ targets' = targets
  BY DEF AccountInv, Typed, input
<1>3. /\ Len(trades) \in Nat
      /\ DOMAIN trades = 1 .. Len(trades)
      /\ Len(trades') = Len(trades) + 1
      /\ DOMAIN trades' = 1 .. Len(trades) + 1
      /\ \A k \in 1 .. Len(trades) : trades'[k] = trades[k]
      /\ trades'[Len(trades) + 1] = t
  BY <1>1, <1>2, AppendFacts
<1>4. target_weight' = Len(trades') % 2
  BY <1>2, <1>3 DEF TradesAlternate
<1>5. \E i \in DOMAIN targets : /\ targets[i].effective_at = bar.session_open_at
                                /\ targets[i].weight = target_weight'
  BY WeightsTaken
<1>6. SUFFICES ASSUME NEW k \in DOMAIN trades'
               PROVE  /\ trades'[k].side = IF k % 2 = 1 THEN "buy" ELSE "sell"
                      /\ \E i \in DOMAIN targets :
                           /\ targets[i].effective_at = trades'[k].executed_at
                           /\ targets[i].weight = k % 2
  BY <1>2, <1>4 DEF TradesAlternate
<1>7. CASE k \in 1 .. Len(trades)
  BY <1>7, <1>3 DEF TradesAlternate
<1>8. CASE k = Len(trades) + 1
  BY <1>8, <1>1, <1>3, <1>4, <1>5
<1>9. QED
  BY <1>3, <1>7, <1>8

\* A step that makes no trade keeps it.
LEMMA NoTradeOK ==
    ASSUME TradesAlternate, UNCHANGED <<input, target_weight, trades>>
    PROVE  TradesAlternate'
  BY DEF TradesAlternate, input

\* Purchases and sales alternate, beginning with a purchase, the weight says
\* which came last, and each trade was asked for by a target effective at its
\* time: for every history, list of targets and costs.
THEOREM TradeDiscipline == Spec => []TradesAlternate
<1>1. Init => TradesAlternate
  BY DEF Init, TradesAlternate
<1>2. AccountInv /\ TradesAlternate /\ [Next]_vars => TradesAlternate'
  <2> SUFFICES ASSUME AccountInv, TradesAlternate, [Next]_vars PROVE TradesAlternate'
    OBVIOUS
  <2>1. CASE Refuse \/ Start \/ Return \/ UNCHANGED vars
    BY <2>1, NoTradeOK DEF Refuse, Start, Return, vars, account
  <2>2. CASE HoldBar
    BY <2>2, NoTradeOK DEF HoldBar, account
  <2>3. CASE BuyBar
    <3>1. PICK q, price, commission : Trade("buy", q, price, commission)
      BY <2>3 DEF BuyBar
    <3>2. /\ target_weight' = 1 /\ 1 \in EffectiveAt(bar) /\ target_weight # 1
          /\ UNCHANGED input
      BY <2>3 DEF BuyBar
    <3>3. QED
      BY <3>1, <3>2, TradeOK
  <2>4. CASE SellBar
    <3>1. PICK q, price, commission : Trade("sell", q, price, commission)
      BY <2>4 DEF SellBar
    <3>2. /\ target_weight' \in EffectiveAt(bar) \ {1, target_weight}
          /\ UNCHANGED input
      BY <2>4 DEF SellBar
    <3>3. Accepts
      BY <2>4 DEF SellBar, AccountInv, CallOK
    <3>4. target_weight' = 0 /\ target_weight' # target_weight
      BY <3>2, <3>3, OneTarget
    <3>5. QED
      BY <3>1, <3>2, <3>4, TradeOK
  <2>5. QED
    BY <2>1, <2>2, <2>3, <2>4 DEF Next
<1>3. QED
  BY <1>1, <1>2, AccountTheorem, PTL DEF Spec

-----------------------------------------------------------------------------
\* Recursions

\* What a recursion computes at x: a value of its own at the base, and what H
\* makes of the value at the next argument elsewhere.
Recurs(base, B, H, down, f, x) == f[x] = IF x \in base THEN B[x] ELSE H[<<x, f[down[x]]>>]

\* Where every call has a smaller argument there is such a function.
LEMMA RecursionExists ==
    ASSUME NEW D, NEW T, NEW base, NEW B \in [D -> T], NEW down \in [D -> D],
           NEW H \in [D \X T -> T], NEW m \in [D -> Nat],
           \A x \in D : x \notin base => m[down[x]] < m[x]
    PROVE  \E f \in [D -> T] : \A x \in D : Recurs(base, B, H, down, f, x)
<1> DEFINE Upto(n, f) == f \in [D -> T] /\ \A x \in D : m[x] <= n => Recurs(base, B, H, down, f, x)
           S == {n \in Nat : ~ \E f : Upto(n, f)}
<1>1. S = {}
  <2>1. SUFFICES ASSUME S # {} PROVE FALSE
    OBVIOUS
  <2>2. PICK n \in S : \A k \in S : n <= k
    <3> S \subseteq Nat
      OBVIOUS
    <3> HIDE DEF S
    <3> QED
      BY <2>1, LeastNumber
  <2>3. \E g \in [D -> T] : n # 0 => Upto(n - 1, g)
    <3>1. CASE n = 0
      BY <3>1
    <3>2. CASE n # 0
      <4>1. n - 1 \in Nat /\ n - 1 \notin S
        BY <2>2, <3>2
      <4>2. QED
        BY <4>1
    <3>3. QED
      BY <3>1, <3>2
  <2>4. PICK g \in [D -> T] : n # 0 => Upto(n - 1, g)
    BY <2>3
  <2> DEFINE h == [x \in D |-> IF x \in base THEN B[x] ELSE H[<<x, g[down[x]]>>]]
  <2>5. h \in [D -> T]
    OBVIOUS
  <2>6. ASSUME NEW x \in D, m[x] <= n PROVE Recurs(base, B, H, down, h, x)
    <3>1. CASE x \in base
      BY <3>1 DEF Recurs
    <3>2. CASE x \notin base
      <4>1. m[down[x]] < m[x] /\ m[x] \in Nat /\ m[down[x]] \in Nat /\ down[x] \in D
        BY <3>2
      <4>2. n # 0 /\ m[down[x]] <= n - 1
        BY <2>2, <2>6, <4>1
      <4>3. Recurs(base, B, H, down, g, down[x])
        BY <2>4, <4>1, <4>2
      <4>4. h[down[x]] = g[down[x]]
        BY <4>1, <4>3 DEF Recurs
      <4>5. h[x] = H[<<x, g[down[x]]>>]
        BY <3>2
      <4> HIDE DEF h
      <4>6. QED
        BY <3>2, <4>4, <4>5 DEF Recurs
    <3>3. QED
      BY <3>1, <3>2
  <2> HIDE DEF h
  <2>7. Upto(n, h)
    BY <2>5, <2>6
  <2>8. QED
    BY <2>2, <2>7
<1>2. \A n \in Nat : \E f : Upto(n, f)
  BY <1>1
<1>3. ASSUME NEW x \in D, NEW a \in Nat, NEW b \in Nat, NEW f, NEW g, Upto(a, f), Upto(b, g),
             m[x] <= a, m[x] <= b
      PROVE  f[x] = g[x]
  <2> DEFINE U == {k \in Nat : \E y \in D : /\ m[y] = k /\ k <= a /\ k <= b /\ f[y] # g[y]}
  <2>1. SUFFICES ASSUME U # {} PROVE FALSE
    <3>1. m[x] \in Nat
      OBVIOUS
    <3>2. QED
      BY <1>3, <3>1
  <2>2. PICK k \in U : \A j \in U : k <= j
    <3> U \subseteq Nat
      OBVIOUS
    <3> HIDE DEF U
    <3> QED
      BY <2>1, LeastNumber
  <2>3. PICK y \in D : m[y] = k /\ k <= a /\ k <= b /\ f[y] # g[y]
    BY <2>2
  <2>4. Recurs(base, B, H, down, f, y) /\ Recurs(base, B, H, down, g, y)
    BY <1>3, <2>3
  <2>5. y \notin base
    BY <2>3, <2>4 DEF Recurs
  <2>6. m[down[y]] \in Nat /\ m[down[y]] < k /\ down[y] \in D
    BY <2>3, <2>5
  <2>7. m[down[y]] \notin U
    BY <2>2, <2>6
  <2>8. f[down[y]] = g[down[y]]
    BY <2>3, <2>6, <2>7
  <2>9. QED
    BY <2>3, <2>4, <2>5, <2>8 DEF Recurs
<1> DEFINE at(x) == CHOOSE f : Upto(m[x], f)
           F == [x \in D |-> at(x)[x]]
<1>4. \A x \in D : Upto(m[x], at(x))
  BY <1>2
<1> HIDE DEF at
<1>5. F \in [D -> T]
  BY <1>4
<1>6. ASSUME NEW x \in D PROVE Recurs(base, B, H, down, F, x)
  <2>1. Recurs(base, B, H, down, at(x), x) /\ F[x] = at(x)[x]
    BY <1>4
  <2>2. CASE x \in base
    BY <2>1, <2>2 DEF Recurs
  <2>3. CASE x \notin base
    <3>1. m[down[x]] < m[x] /\ m[x] \in Nat /\ m[down[x]] \in Nat /\ down[x] \in D
      BY <2>3
    <3>2. Upto(m[x], at(x)) /\ Upto(m[down[x]], at(down[x]))
      BY <1>4, <3>1
    <3>3. at(x)[down[x]] = at(down[x])[down[x]]
      <4> DEFINE y == down[x]
                 f == at(x)
                 g == at(y)
      <4>1. /\ y \in D /\ m[x] \in Nat /\ m[y] \in Nat /\ m[y] <= m[x] /\ m[y] <= m[y]
            /\ Upto(m[x], f) /\ Upto(m[y], g)
        BY <3>1, <3>2
      <4> HIDE DEF Upto, y, f, g
      <4>2. f[y] = g[y]
        BY <1>3, <4>1
      <4>3. QED
        BY <4>2 DEF y, f, g
    <3>4. F[down[x]] = at(down[x])[down[x]]
      BY <3>1
    <3> HIDE DEF F
    <3>5. QED
      BY <2>1, <2>3, <3>3, <3>4 DEF Recurs
  <2>4. QED
    BY <2>2, <2>3
<1>7. QED
  BY <1>5, <1>6

-----------------------------------------------------------------------------
\* The order of fractions

\* Fractions of one value have one sign.
LEMMA SameSign ==
    ASSUME NEW x \in Int, NEW y \in Int, NEW m \in Nat \ {0}, NEW n \in Nat \ {0}, x * m = y * n
    PROVE  x <= 0 <=> y <= 0
<1>1. ASSUME x <= 0 PROVE y <= 0
  <2>1. x * m <= 0
    BY <1>1
  <2>2. SUFFICES ASSUME y > 0 PROVE FALSE
    OBVIOUS
  <2>3. y * n > 0
    BY <2>2
  <2>4. QED
    BY <2>1, <2>3
<1>2. ASSUME y <= 0 PROVE x <= 0
  <2>1. y * n <= 0
    BY <1>2
  <2>2. SUFFICES ASSUME x > 0 PROVE FALSE
    OBVIOUS
  <2>3. x * m > 0
    BY <2>2
  <2>4. QED
    BY <2>1, <2>3
<1>3. QED
  BY <1>1, <1>2

\* The order of ratios, before they are reduced.
LEMMA AtMostRatio ==
    ASSUME NEW a \in Int, NEW b \in Nat \ {0}, NEW c \in Int, NEW d \in Nat \ {0}
    PROVE  AtMost(Ratio(a, b), Ratio(c, d)) <=> a * d <= c * b
<1> DEFINE r == Ratio(a, b)
           s == Ratio(c, d)
           x == r.n * s.d - s.n * r.d
           y == a * d - c * b
           m == b * d
           n == r.d * s.d
<1>1. r.n \in Int /\ r.d \in Nat \ {0} /\ s.n \in Int /\ s.d \in Nat \ {0}
  BY RatioReduces DEF InLowestTerms
<1>2. r.n * b = a * r.d /\ s.n * d = c * s.d
  BY RatioReduces
<1> HIDE DEF r, s
<1>3. x \in Int /\ y \in Int /\ m \in Nat \ {0} /\ n \in Nat \ {0}
  BY <1>1
<1>4. x * m = (r.n * b) * (s.d * d) - (s.n * d) * (r.d * b)
  BY <1>1
<1>5. y * n = (a * r.d) * (s.d * d) - (c * s.d) * (r.d * b)
  BY <1>1
<1>6. x * m = y * n
  BY <1>2, <1>4, <1>5
<1>7. x <= 0 <=> y <= 0
  <2> HIDE DEF x, y, m, n
  <2>1. QED
    BY <1>3, <1>6, SameSign
<1>8. (r.n * s.d <= s.n * r.d <=> x <= 0) /\ (a * d <= c * b <=> y <= 0)
  <2>1. r.n * s.d \in Int /\ s.n * r.d \in Int /\ a * d \in Int /\ c * b \in Int
    BY <1>1
  <2>2. \A p, q \in Int : p <= q <=> p - q <= 0
    OBVIOUS
  <2>3. QED
    BY <2>1, <2>2
<1>9. QED
  BY <1>7, <1>8 DEF AtMost, r, s

\* The order is reflexive, total, transitive and antisymmetric.
LEMMA OrderLaws ==
    ASSUME NEW x, NEW y, NEW z, InLowestTerms(x), InLowestTerms(y), InLowestTerms(z)
    PROVE  /\ AtMost(x, x)
           /\ AtMost(x, y) \/ AtMost(y, x)
           /\ AtMost(x, y) /\ AtMost(y, z) => AtMost(x, z)
           /\ AtMost(x, y) /\ AtMost(y, x) => x = y
<1>1. /\ x.n \in Int /\ x.d \in Nat \ {0} /\ y.n \in Int /\ y.d \in Nat \ {0}
      /\ z.n \in Int /\ z.d \in Nat \ {0}
  BY DEF InLowestTerms
<1>2. x.n * x.d \in Int /\ x.n * y.d \in Int /\ y.n * x.d \in Int /\ y.n * z.d \in Int
      /\ z.n * y.d \in Int /\ x.n * z.d \in Int /\ z.n * x.d \in Int
  BY <1>1
<1>3. AtMost(x, x) /\ (AtMost(x, y) \/ AtMost(y, x))
  BY <1>2 DEF AtMost
<1>4. AtMost(x, y) /\ AtMost(y, x) => x = y
  BY <1>2, LowestTermsUnique DEF AtMost
<1>5. ASSUME AtMost(x, y), AtMost(y, z) PROVE AtMost(x, z)
  <2>1. (x.n * y.d) * z.d <= (y.n * x.d) * z.d
    BY <1>1, <1>2, <1>5 DEF AtMost
  <2>2. (y.n * z.d) * x.d <= (z.n * y.d) * x.d
    BY <1>1, <1>2, <1>5 DEF AtMost
  <2>3. (x.n * y.d) * z.d = (x.n * z.d) * y.d /\ (y.n * x.d) * z.d = (y.n * z.d) * x.d
        /\ (z.n * y.d) * x.d = (z.n * x.d) * y.d
    BY <1>1
  <2> DEFINE p == x.n * z.d
             q == z.n * x.d
  <2>4. p \in Int /\ q \in Int /\ p * y.d \in Int /\ q * y.d \in Int /\ (y.n * z.d) * x.d \in Int
    BY <1>1, <1>2
  <2>5. p * y.d <= q * y.d
    BY <2>1, <2>2, <2>3, <2>4
  <2> HIDE DEF p, q
  <2>6. p <= q
    <3>1. SUFFICES ASSUME p > q PROVE FALSE
      BY <2>4
    <3>2. p - q > 0 /\ p - q \in Int
      BY <2>4, <3>1
    <3>3. (p - q) * y.d > 0
      BY <1>1, <3>2
    <3>4. (p - q) * y.d = p * y.d - q * y.d
      BY <1>1, <2>4
    <3>5. QED
      BY <2>4, <2>5, <3>3, <3>4
  <2>7. QED
    BY <2>6 DEF AtMost, p, q
<1>6. QED
  BY <1>3, <1>4, <1>5

-----------------------------------------------------------------------------
\* Powers of ten

\* What the powers of ten are.
LEMMA TenFacts ==
    /\ Ten[0] = 1
    /\ \A k \in Nat : Ten[k] \in Nat \ {0} /\ Ten[k + 1] = 10 * Ten[k] /\ k < Ten[k]
<1> DEFINE base == {0}
           B == [k \in Nat |-> 1]
           down == [k \in Nat |-> IF k = 0 THEN 0 ELSE k - 1]
           H == [p \in Nat \X Nat |-> 10 * p[2]]
           m == [k \in Nat |-> k]
<1>1. PICK f \in [Nat -> Nat] : \A k \in Nat : Recurs(base, B, H, down, f, k)
  <2>1. B \in [Nat -> Nat] /\ down \in [Nat -> Nat] /\ H \in [Nat \X Nat -> Nat] /\ m \in [Nat -> Nat]
    OBVIOUS
  <2>2. \A k \in Nat : k \notin base => m[down[k]] < m[k]
    OBVIOUS
  <2> HIDE DEF base, B, down, H, m
  <2>3. QED
    BY <2>1, <2>2, RecursionExists, ZenonT(30)
<1>2. ASSUME NEW k \in Nat PROVE f[k] = IF k = 0 THEN 1 ELSE 10 * f[k - 1]
  <2>1. Recurs(base, B, H, down, f, k)
    BY <1>1
  <2>2. CASE k = 0
    BY <2>1, <2>2 DEF Recurs
  <2>3. CASE k # 0
    <3>1. k - 1 \in Nat /\ down[k] = k - 1 /\ f[k - 1] \in Nat
      BY <2>3
    <3>2. f[k] = H[<<k, f[k - 1]>>]
      BY <2>1, <2>3, <3>1 DEF Recurs
    <3>3. QED
      BY <2>3, <3>1, <3>2
  <2>4. QED
    BY <2>2, <2>3
<1>3. f = [k \in Nat |-> IF k = 0 THEN 1 ELSE 10 * f[k - 1]]
  BY <1>2
<1>4. Ten = [k \in Nat |-> IF k = 0 THEN 1 ELSE 10 * Ten[k - 1]]
  BY <1>3 DEF Ten
<1> HIDE DEF base, B, down, H, m
<1>5. \A k \in Nat : Ten[k] = IF k = 0 THEN 1 ELSE 10 * Ten[k - 1]
  BY <1>4
<1>6. \A k \in Nat : Ten[k] \in Nat \ {0} /\ k < Ten[k]
  <2> DEFINE S == {k \in Nat : ~(Ten[k] \in Nat \ {0} /\ k < Ten[k])}
  <2>1. SUFFICES ASSUME S # {} PROVE FALSE
    OBVIOUS
  <2>2. PICK k \in S : \A j \in S : k <= j
    <3> S \subseteq Nat
      OBVIOUS
    <3> HIDE DEF S
    <3> QED
      BY <2>1, LeastNumber
  <2>3. k \in Nat /\ ~(Ten[k] \in Nat \ {0} /\ k < Ten[k])
    BY <2>2
  <2>4. k # 0
    BY <1>5, <2>3
  <2>5. k - 1 \in Nat /\ k - 1 \notin S
    <3> HIDE DEF S
    <3> QED
      BY <2>2, <2>3, <2>4
  <2>6. Ten[k - 1] \in Nat \ {0} /\ k - 1 < Ten[k - 1]
    BY <2>5
  <2>7. Ten[k] = 10 * Ten[k - 1]
    BY <1>5, <2>3, <2>4
  <2>8. QED
    BY <2>3, <2>4, <2>6, <2>7
<1>7. \A k \in Nat : Ten[k + 1] = 10 * Ten[k]
  <2>1. TAKE k \in Nat
  <2>2. k + 1 \in Nat /\ k + 1 # 0 /\ (k + 1) - 1 = k
    OBVIOUS
  <2>3. QED
    BY <1>5, <2>2
<1>8. Ten[0] = 1
  BY <1>5
<1>9. QED
  BY <1>6, <1>7, <1>8

\* Exponents add.
LEMMA TenAdds ==
    ASSUME NEW a \in Nat, NEW b \in Nat PROVE Ten[a + b] = Ten[a] * Ten[b]
<1> DEFINE S == {k \in Nat : Ten[a + k] # Ten[a] * Ten[k]}
<1>1. SUFFICES ASSUME S # {} PROVE FALSE
  <2>1. b \notin S
    <3> HIDE DEF S
    <3> QED
      BY <1>1
  <2>2. QED
    BY <2>1
<1>2. PICK k \in S : \A j \in S : k <= j
  <2> S \subseteq Nat
    OBVIOUS
  <2> HIDE DEF S
  <2> QED
    BY <1>1, LeastNumber
<1>3. k \in Nat /\ Ten[a + k] # Ten[a] * Ten[k]
  BY <1>2
<1>4. k # 0
  <2>1. a + 0 = a /\ Ten[a] * 1 = Ten[a]
    BY TenFacts
  <2>2. QED
    BY <1>3, <2>1, TenFacts
<1>5. k - 1 \in Nat /\ k - 1 \notin S
  <2> HIDE DEF S
  <2> QED
    BY <1>2, <1>3, <1>4
<1>6. Ten[a + (k - 1)] = Ten[a] * Ten[k - 1]
  BY <1>5
<1>7. (a + (k - 1)) + 1 = a + k /\ (k - 1) + 1 = k /\ a + (k - 1) \in Nat
  BY <1>3, <1>5
<1>8. Ten[a + k] = 10 * Ten[a + (k - 1)] /\ Ten[k] = 10 * Ten[k - 1]
  BY <1>5, <1>7, TenFacts
<1>9. Ten[a] \in Nat /\ Ten[k - 1] \in Nat
  BY <1>5, TenFacts
<1>10. 10 * (Ten[a] * Ten[k - 1]) = Ten[a] * (10 * Ten[k - 1])
  BY <1>9
<1>11. QED
  BY <1>3, <1>6, <1>8, <1>10

\* Ten to the power k is Up(k) / Down(k).
Up(k) == IF k < 0 THEN 1 ELSE Ten[k]
Down(k) == IF k < 0 THEN Ten[-k] ELSE 1

\* Moving the point twice multiplies the same powers.
LEMMA UpDown ==
    ASSUME NEW k \in Int, NEW j \in Int
    PROVE  /\ Up(k) \in Nat \ {0} /\ Down(k) \in Nat \ {0}
           /\ Up(k + j) * (Down(k) * Down(j)) = (Up(k) * Up(j)) * Down(k + j)
<1>1. Up(k) \in Nat \ {0} /\ Down(k) \in Nat \ {0}
  <2>1. k < 0 => -k \in Nat
    OBVIOUS
  <2>2. ~(k < 0) => k \in Nat
    OBVIOUS
  <2>3. QED
    BY <2>1, <2>2, TenFacts DEF Up, Down
<1>2. \A a, b \in Nat : Ten[a] \in Nat /\ Ten[a + b] = Ten[a] * Ten[b] /\ Ten[a] * Ten[b] \in Nat
  <2>1. TAKE a, b \in Nat
  <2>2. Ten[a] \in Nat /\ Ten[b] \in Nat
    BY TenFacts
  <2>3. Ten[a] * Ten[b] \in Nat
    BY <2>2
  <2>4. QED
    BY <2>2, <2>3, TenAdds
<1>3. CASE k >= 0 /\ j >= 0
  <2>1. k \in Nat /\ j \in Nat /\ ~(k + j < 0) /\ ~(k < 0) /\ ~(j < 0)
    BY <1>3
  <2>2. Up(k + j) = Ten[k] * Ten[j] /\ Up(k) = Ten[k] /\ Up(j) = Ten[j]
        /\ Down(k + j) = 1 /\ Down(k) = 1 /\ Down(j) = 1
    BY <1>2, <2>1 DEF Up, Down
  <2>3. Ten[k] * Ten[j] \in Nat
    BY <1>2, <2>1
  <2>4. QED
    BY <1>1, <2>2, <2>3
<1>4. CASE k < 0 /\ j < 0
  <2>1. -k \in Nat /\ -j \in Nat /\ k + j < 0 /\ -(k + j) = (-k) + (-j)
    BY <1>4
  <2>2. Down(k + j) = Ten[-k] * Ten[-j] /\ Down(k) = Ten[-k] /\ Down(j) = Ten[-j]
        /\ Up(k + j) = 1 /\ Up(k) = 1 /\ Up(j) = 1
    BY <1>2, <1>4, <2>1 DEF Up, Down
  <2>3. Ten[-k] * Ten[-j] \in Nat
    BY <1>2, <2>1
  <2>4. QED
    BY <1>1, <2>2, <2>3
<1>5. CASE k >= 0 /\ j < 0 /\ k + j >= 0
  <2>1. k \in Nat /\ -j \in Nat /\ k + j \in Nat /\ k = (k + j) + (-j)
    BY <1>5
  <2>2. Ten[k] = Ten[k + j] * Ten[-j] /\ Ten[k] \in Nat /\ Ten[k + j] \in Nat /\ Ten[-j] \in Nat
    BY <1>2, <2>1
  <2>3. Up(k + j) = Ten[k + j] /\ Down(k) = 1 /\ Down(j) = Ten[-j]
        /\ Up(k) = Ten[k] /\ Up(j) = 1 /\ Down(k + j) = 1
    BY <1>5 DEF Up, Down
  <2>4. QED
    BY <1>1, <2>2, <2>3
<1>6. CASE k >= 0 /\ j < 0 /\ k + j < 0
  <2>1. k \in Nat /\ -j \in Nat /\ -(k + j) \in Nat /\ -j = (-(k + j)) + k
    BY <1>6
  <2>2. Ten[-j] = Ten[-(k + j)] * Ten[k] /\ Ten[k] \in Nat /\ Ten[-(k + j)] \in Nat /\ Ten[-j] \in Nat
    BY <1>2, <2>1
  <2>3. Up(k + j) = 1 /\ Down(k) = 1 /\ Down(j) = Ten[-j]
        /\ Up(k) = Ten[k] /\ Up(j) = 1 /\ Down(k + j) = Ten[-(k + j)]
    BY <1>6 DEF Up, Down
  <2>4. QED
    BY <1>1, <2>2, <2>3
<1>7. CASE k < 0 /\ j >= 0 /\ k + j >= 0
  <2>1. j \in Nat /\ -k \in Nat /\ k + j \in Nat /\ j = (k + j) + (-k)
    BY <1>7
  <2>2. Ten[j] = Ten[k + j] * Ten[-k] /\ Ten[j] \in Nat /\ Ten[k + j] \in Nat /\ Ten[-k] \in Nat
    BY <1>2, <2>1
  <2>3. Up(k + j) = Ten[k + j] /\ Down(k) = Ten[-k] /\ Down(j) = 1
        /\ Up(k) = 1 /\ Up(j) = Ten[j] /\ Down(k + j) = 1
    BY <1>7 DEF Up, Down
  <2>4. QED
    BY <1>1, <2>2, <2>3
<1>8. CASE k < 0 /\ j >= 0 /\ k + j < 0
  <2>1. j \in Nat /\ -k \in Nat /\ -(k + j) \in Nat /\ -k = (-(k + j)) + j
    BY <1>8
  <2>2. Ten[-k] = Ten[-(k + j)] * Ten[j] /\ Ten[j] \in Nat /\ Ten[-(k + j)] \in Nat /\ Ten[-k] \in Nat
    BY <1>2, <2>1
  <2>3. Up(k + j) = 1 /\ Down(k) = Ten[-k] /\ Down(j) = 1
        /\ Up(k) = 1 /\ Up(j) = Ten[j] /\ Down(k + j) = Ten[-(k + j)]
    BY <1>8 DEF Up, Down
  <2>4. QED
    BY <1>1, <2>2, <2>3
<1>9. QED
  BY <1>1, <1>3, <1>4, <1>5, <1>6, <1>7, <1>8

-----------------------------------------------------------------------------
\* Moving the point

\* A pair that can be made a fraction.
Pair(x) == x.n \in Int /\ x.d \in Nat \ {0}

\* Moving the point gives a fraction in lowest terms.
LEMMA ByTenIs ==
    ASSUME NEW x, Pair(x), NEW k \in Int
    PROVE  /\ ByTen(x, k) = Ratio(x.n * Up(k), x.d * Down(k))
           /\ x.n * Up(k) \in Int /\ x.d * Down(k) \in Nat \ {0}
           /\ InLowestTerms(ByTen(x, k)) /\ Pair(ByTen(x, k))
<1>1. x.n \in Int /\ x.d \in Nat \ {0} /\ Up(k) \in Nat \ {0} /\ Down(k) \in Nat \ {0}
  BY UpDown DEF Pair
<1>2. x.n * Up(k) \in Int /\ x.d * Down(k) \in Nat \ {0}
  BY <1>1
<1>3. ByTen(x, k) = Ratio(x.n * Up(k), x.d * Down(k))
  <2>1. x.n * 1 = x.n /\ x.d * 1 = x.d
    BY <1>1
  <2>2. QED
    BY <2>1 DEF ByTen, Up, Down
<1>4. InLowestTerms(ByTen(x, k))
  BY <1>2, <1>3, RatioReduces
<1>5. QED
  BY <1>2, <1>3, <1>4 DEF InLowestTerms, Pair

\* A fraction in lowest terms is a pair of numbers.
LEMMA LowestPair ==
    ASSUME NEW x, InLowestTerms(x) PROVE Pair(x)
  BY DEF InLowestTerms, Pair

\* Moving the point twice is moving it once.
LEMMA ByTenAgain ==
    ASSUME NEW x, Pair(x), NEW k \in Int, NEW j \in Int
    PROVE  ByTen(ByTen(x, k), j) = ByTen(x, k + j)
<1> DEFINE n == x.n
           d == x.d
           a == Up(k)
           b == Down(k)
           c == Up(j)
           e == Down(j)
           f == Up(k + j)
           g == Down(k + j)
           y == ByTen(x, k)
<1>1. /\ n \in Int /\ d \in Nat \ {0} /\ a \in Nat \ {0} /\ b \in Nat \ {0} /\ c \in Nat \ {0}
      /\ e \in Nat \ {0} /\ f \in Nat \ {0} /\ g \in Nat \ {0}
      /\ f * (b * e) = (a * c) * g
  <2>1. k + j \in Int
    OBVIOUS
  <2>2. QED
    BY <2>1, UpDown DEF Pair
<1>2. y = Ratio(n * a, d * b) /\ n * a \in Int /\ d * b \in Nat \ {0} /\ Pair(y)
  BY ByTenIs
<1>3. y.n * (d * b) = (n * a) * y.d /\ y.n \in Int /\ y.d \in Nat \ {0}
  BY <1>2, RatioReduces DEF Pair
<1>4. ByTen(y, j) = Ratio(y.n * c, y.d * e)
  BY <1>2, ByTenIs
<1>5. ByTen(x, k + j) = Ratio(n * f, d * g)
  <2>1. k + j \in Int
    OBVIOUS
  <2>2. QED
    BY <2>1, ByTenIs
<1> HIDE DEF n, d, a, b, c, e, f, g, y
<1>6. (y.n * c) * (d * g) = (n * f) * (y.d * e)
  <2>1. ((y.n * c) * (d * g)) * b = ((y.n * (d * b)) * c) * g
    BY <1>1, <1>3
  <2>2. ((n * a) * y.d) * c * g = (n * y.d) * ((a * c) * g)
    BY <1>1, <1>3
  <2>3. ((n * f) * (y.d * e)) * b = (n * y.d) * (f * (b * e))
    BY <1>1, <1>3
  <2>4. ((y.n * c) * (d * g)) * b = ((n * f) * (y.d * e)) * b
    BY <1>1, <1>3, <2>1, <2>2, <2>3
  <2> DEFINE p == (y.n * c) * (d * g)
             q == (n * f) * (y.d * e)
  <2>5. p \in Int /\ q \in Int /\ p * b = q * b
    BY <1>1, <1>3, <2>4
  <2> HIDE DEF p, q
  <2>6. p = q
    BY <1>1, <2>5
  <2>7. QED
    BY <2>6 DEF p, q
<1>7. y.n * c \in Int /\ y.d * e \in Nat \ {0} /\ n * f \in Int /\ d * g \in Nat \ {0}
  BY <1>1, <1>3
<1>8. Ratio(y.n * c, y.d * e) = Ratio(n * f, d * g)
  BY <1>6, <1>7, RatioEqual
<1>9. QED
  BY <1>4, <1>5, <1>8 DEF y

\* Moving it by nothing reduces.
LEMMA ByTenZero ==
    ASSUME NEW x, Pair(x)
    PROVE  ByTen(x, 0) = Ratio(x.n, x.d) /\ (InLowestTerms(x) => ByTen(x, 0) = x)
<1>1. x.n \in Int /\ x.d \in Nat /\ Ten[0] = 1
  BY TenFacts DEF Pair
<1>2. x.n * Ten[0] = x.n
  BY <1>1
<1>3. ByTen(x, 0) = Ratio(x.n, x.d)
  BY <1>2 DEF ByTen
<1>4. InLowestTerms(x) => x = Ratio(x.n, x.d)
  BY LowestTermsIsRatio
<1>5. QED
  BY <1>3, <1>4

\* Moving it back undoes the move.
LEMMA ByTenBack ==
    ASSUME NEW x, InLowestTerms(x), NEW k \in Int
    PROVE  ByTen(ByTen(x, k), -k) = x
<1>1. Pair(x) /\ -k \in Int /\ k + (-k) = 0
  BY LowestPair
<1>2. ByTen(ByTen(x, k), -k) = ByTen(x, k + (-k))
  BY <1>1, ByTenAgain
<1>3. QED
  BY <1>1, <1>2, ByTenZero

\* Moving the point of both keeps their order.
LEMMA ByTenOrder ==
    ASSUME NEW x, NEW y, Pair(x), Pair(y), NEW k \in Int, x.n * y.d <= y.n * x.d
    PROVE  AtMost(ByTen(x, k), ByTen(y, k))
<1> DEFINE a == Up(k)
           b == Down(k)
<1>1. /\ ByTen(x, k) = Ratio(x.n * a, x.d * b) /\ x.n * a \in Int /\ x.d * b \in Nat \ {0}
      /\ ByTen(y, k) = Ratio(y.n * a, y.d * b) /\ y.n * a \in Int /\ y.d * b \in Nat \ {0}
  BY ByTenIs
<1>2. /\ x.n \in Int /\ x.d \in Nat \ {0} /\ y.n \in Int /\ y.d \in Nat \ {0}
      /\ a \in Nat \ {0} /\ b \in Nat \ {0}
  BY UpDown DEF Pair
<1> HIDE DEF a, b
<1>3. (x.n * a) * (y.d * b) <= (y.n * a) * (x.d * b)
  <2> DEFINE p == x.n * y.d
             q == y.n * x.d
             c == a * b
  <2>1. (x.n * a) * (y.d * b) = p * c /\ (y.n * a) * (x.d * b) = q * c
    BY <1>2
  <2>2. p \in Int /\ q \in Int /\ c \in Nat /\ p <= q
    BY <1>2
  <2> HIDE DEF p, q, c
  <2>3. p * c <= q * c
    BY <2>2
  <2>4. QED
    BY <2>1, <2>3
<1>4. QED
  BY <1>1, <1>3, AtMostRatio

\* A larger move makes a larger value.
LEMMA ByTenGrows ==
    ASSUME NEW x, Pair(x), x.n >= 0, NEW k \in Int, NEW l \in Int, k <= l
    PROVE  AtMost(ByTen(x, k), ByTen(x, l))
<1> DEFINE a == Up(k)
           b == Down(k)
           c == Up(l)
           e == Down(l)
           j == l - k
           t == Ten[j]
<1>1. /\ ByTen(x, k) = Ratio(x.n * a, x.d * b) /\ x.n * a \in Int /\ x.d * b \in Nat \ {0}
      /\ ByTen(x, l) = Ratio(x.n * c, x.d * e) /\ x.n * c \in Int /\ x.d * e \in Nat \ {0}
  BY ByTenIs
<1>2. /\ x.n \in Nat /\ x.d \in Nat \ {0} /\ a \in Nat \ {0} /\ b \in Nat \ {0}
      /\ c \in Nat \ {0} /\ e \in Nat \ {0} /\ j \in Nat /\ t \in Nat \ {0}
  <2>1. j \in Nat
    OBVIOUS
  <2>2. x.n \in Nat /\ x.d \in Nat \ {0}
    BY DEF Pair
  <2>3. a \in Nat \ {0} /\ b \in Nat \ {0} /\ c \in Nat \ {0} /\ e \in Nat \ {0}
    BY UpDown
  <2> HIDE DEF j, a, b, c, e
  <2>4. QED
    BY <2>1, <2>2, <2>3, TenFacts
<1>3. k + j = l /\ Up(j) = t /\ Down(j) = 1 /\ j \in Int
  BY DEF Up, Down
<1>4. c * b = (a * t) * e
  <2>1. Up(k + j) * (Down(k) * Down(j)) = (Up(k) * Up(j)) * Down(k + j)
    <3> HIDE DEF j
    <3>1. QED
      BY <1>3, UpDown
  <2>2. c * (b * 1) = (a * t) * e
    <3> HIDE DEF j, t
    <3>1. QED
      BY <1>3, <2>1
  <2>3. QED
    <3> HIDE DEF a, b, c, e, t, j
    <3>1. QED
      BY <1>2, <2>2
<1> HIDE DEF a, b, c, e, t, j
<1>5. a * e <= c * b
  <2>1. (a * t) * e = (a * e) * t /\ a * e \in Nat
    BY <1>2
  <2> DEFINE p == a * e
  <2>2. p <= p * t
    <3>1. p \in Nat
      BY <2>1
    <3> HIDE DEF p
    <3>2. t - 1 \in Nat /\ p * (t - 1) \in Nat /\ p * t = p + p * (t - 1)
      BY <1>2, <3>1
    <3>3. QED
      BY <3>1, <3>2
  <2>3. QED
    BY <1>4, <2>1, <2>2
<1>6. (x.n * a) * (x.d * e) <= (x.n * c) * (x.d * b)
  <2> DEFINE p == x.n * x.d
             q == a * e
             r == c * b
  <2>1. (x.n * a) * (x.d * e) = p * q /\ (x.n * c) * (x.d * b) = p * r
    BY <1>2
  <2>2. p \in Nat /\ q \in Nat /\ r \in Nat /\ q <= r
    BY <1>2, <1>5
  <2> HIDE DEF p, q, r
  <2>3. p * q <= p * r
    BY <2>2
  <2>4. QED
    BY <2>1, <2>3
<1>7. QED
  BY <1>1, <1>6, AtMostRatio

\* Moving the point of a whole number to the right.
LEMMA ByTenWhole ==
    ASSUME NEW m \in Int, NEW k \in Nat
    PROVE  ByTen(Whole(m), k) = Whole(m * Ten[k])
<1>1. m * Ten[k] \in Int /\ ~(k < 0) /\ Whole(m).n = m /\ Whole(m).d = 1
  BY TenFacts DEF Whole
<1>2. ByTen(Whole(m), k) = Ratio(m * Ten[k], 1)
  BY <1>1 DEF ByTen
<1>3. QED
  BY <1>1, <1>2, WholeIsRatio

\* Moving the point keeps the sign.
LEMMA ByTenSign ==
    ASSUME NEW x, Pair(x), NEW k \in Int
    PROVE  /\ x.n > 0 <=> ByTen(x, k).n > 0
           /\ x.n >= 0 <=> ByTen(x, k).n >= 0
<1> DEFINE y == ByTen(x, k)
           p == x.n * Up(k)
           q == x.d * Down(k)
<1>1. y = Ratio(p, q) /\ p \in Int /\ q \in Nat \ {0} /\ Pair(y)
  BY ByTenIs
<1>2. y.n * q = p * y.d /\ y.n \in Int /\ y.d \in Nat \ {0}
  BY <1>1, RatioReduces DEF Pair
<1>3. (x.n > 0 <=> p > 0) /\ (x.n >= 0 <=> p >= 0)
  <2> DEFINE m == x.n
             a == Up(k)
  <2>1. m \in Int /\ a \in Nat \ {0}
    BY UpDown DEF Pair
  <2> HIDE DEF m, a
  <2>2. (m > 0 <=> m * a > 0) /\ (m >= 0 <=> m * a >= 0)
    BY <2>1
  <2>3. QED
    BY <2>2 DEF m, a
<1> HIDE DEF y, p, q
<1>4. (y.n > 0 <=> p > 0) /\ (y.n >= 0 <=> p >= 0)
  <2>1. y.n <= 0 <=> p <= 0
    BY <1>1, <1>2, SameSign
  <2>2. (-y.n) <= 0 <=> (-p) <= 0
    <3>1. (-y.n) * q = -(y.n * q) /\ (-p) * y.d = -(p * y.d) /\ -y.n \in Int /\ -p \in Int
      BY <1>1, <1>2
    <3>2. (-y.n) * q = (-p) * y.d
      BY <1>2, <3>1
    <3>3. QED
      BY <1>1, <1>2, <3>1, <3>2, SameSign
  <2>3. QED
    BY <1>1, <1>2, <2>1, <2>2
<1>5. QED
  BY <1>3, <1>4 DEF y

-----------------------------------------------------------------------------
\* Scales

\* Two opposites that the provers do not compute.
LEMMA Opposite == -(-1) = 1 /\ -0 = 0
<1>1. ASSUME NEW i \in Int, NEW j \in Int, i + j = 0 PROVE -i = j
  BY <1>1
<1> DEFINE k == -1
<1>2. k \in Int /\ k + 1 = 0 /\ 0 + 0 = 0
  OBVIOUS
<1> HIDE DEF k
<1>3. -k = 1
  BY <1>1, <1>2
<1>4. -0 = 0
  <2>1. 0 \in Int /\ 0 + 0 = 0
    OBVIOUS
  <2>2. QED
    BY <1>1, <2>1
<1>5. QED
  BY <1>3, <1>4, Zenon DEF k

\* The bounds of a number with Precision digits.
LEMMA Digits ==
    /\ Precision \in Nat \ {0} /\ Precision - 1 \in Nat /\ 2 * Precision \in Nat
    /\ Ten[Precision - 1] \in Nat \ {0} /\ Ten[Precision] \in Nat \ {0}
    /\ Ten[Precision] = 10 * Ten[Precision - 1]
<1>1. Precision \in Nat \ {0} /\ Precision - 1 \in Nat /\ (Precision - 1) + 1 = Precision
      /\ 2 * Precision \in Nat
  BY PrecisionAssumption
<1>2. QED
  BY <1>1, TenFacts

\* A whole number as a fraction.
LEMMA WholeFacts ==
    ASSUME NEW m \in Int
    PROVE  InLowestTerms(Whole(m)) /\ Pair(Whole(m)) /\ Whole(m).n = m /\ Whole(m).d = 1
<1>1. Whole(m).n = m /\ Whole(m).d = 1
  BY DEF Whole
<1>2. QED
  BY <1>1, WholeIsRatio DEF Pair

\* Order is that of what fractions are made of.
LEMMA ByTenOrdered ==
    ASSUME NEW x, NEW y, Pair(x), Pair(y), NEW k \in Int, AtMost(x, y)
    PROVE  AtMost(ByTen(x, k), ByTen(y, k))
  BY ByTenOrder DEF AtMost

\* A whole number and a value are compared alike after both are multiplied by ten.
LEMMA Tenfold ==
    ASSUME NEW m \in Nat, NEW x, Pair(x), NEW k \in Int
    PROVE  /\ AtMost(Whole(m), ByTen(x, k)) <=> AtMost(Whole(10 * m), ByTen(x, k + 1))
           /\ AtMost(ByTen(x, k), Whole(m)) <=> AtMost(ByTen(x, k + 1), Whole(10 * m))
<1> DEFINE w == Whole(m)
           v == Whole(10 * m)
           y == ByTen(x, k)
           z == ByTen(x, k + 1)
           one == -1
<1>1. Ten[1] = 10
  <2>1. Ten[0 + 1] = 10 * Ten[0] /\ Ten[0] = 1
    BY TenFacts
  <2>2. QED
    BY <2>1
<1>2. v = ByTen(w, 1)
  <2>1. m * Ten[1] = 10 * m
    BY <1>1
  <2>2. QED
    BY <2>1, ByTenWhole
<1>3. InLowestTerms(w) /\ Pair(w) /\ Pair(v)
  <2>1. 10 * m \in Int
    OBVIOUS
  <2>2. QED
    BY <2>1, WholeFacts
<1>4. w = ByTen(v, one)
  BY <1>2, <1>3, ByTenBack
<1>5. InLowestTerms(y) /\ Pair(y) /\ Pair(z) /\ k + 1 \in Int /\ one \in Int
  BY ByTenIs
<1>6. z = ByTen(y, 1)
  BY ByTenAgain
<1>7. y = ByTen(z, one)
  BY <1>5, <1>6, ByTenBack
<1> HIDE DEF w, v, y, z, one
<1>8. AtMost(w, y) => AtMost(v, z)
  BY <1>2, <1>3, <1>5, <1>6, ByTenOrdered
<1>9. AtMost(v, z) => AtMost(w, y)
  BY <1>3, <1>4, <1>5, <1>7, ByTenOrdered
<1>10. AtMost(y, w) => AtMost(z, v)
  BY <1>2, <1>3, <1>5, <1>6, ByTenOrdered
<1>11. AtMost(z, v) => AtMost(y, w)
  BY <1>3, <1>4, <1>5, <1>7, ByTenOrdered
<1>12. QED
  BY <1>8, <1>9, <1>10, <1>11 DEF w, v, y, z

\* At the scale k, x has Precision digits before the point.
Fits(x, k) ==
    /\ AtMost(Whole(Ten[Precision - 1]), ByTen(x, k))
    /\ ~AtMost(Whole(Ten[Precision]), ByTen(x, k))

\* A magnitude is a pair of numbers above zero.
LEMMA MagnitudePair ==
    ASSUME NEW x \in Magnitude
    PROVE  Pair(x) /\ x.n \in Nat \ {0} /\ x.d \in Nat \ {0} /\ x.n > 0 /\ x.n >= 0
  BY DEF Magnitude, Pair

\* Moving the point of a magnitude leaves a magnitude.
LEMMA MagnitudeMoved ==
    ASSUME NEW x, Pair(x), x.n > 0, NEW k \in Int PROVE ByTen(x, k) \in Magnitude
<1>1. InLowestTerms(ByTen(x, k)) /\ ByTen(x, k).n > 0
  BY ByTenIs, ByTenSign
<1> DEFINE y == ByTen(x, k)
<1>2. y = [n |-> y.n, d |-> y.d] /\ y.n \in Nat \ {0} /\ y.d \in Nat \ {0}
  BY <1>1 DEF InLowestTerms
<1> HIDE DEF y
<1>3. y \in Magnitude
  BY <1>2 DEF Magnitude
<1>4. QED
  BY <1>3 DEF y

\* With one more digit than fits, there is one too many.
LEMMA TooMany ==
    ASSUME NEW x, Pair(x), x.n >= 0, NEW k \in Int, NEW l \in Int, k < l,
           AtMost(Whole(Ten[Precision - 1]), ByTen(x, k))
    PROVE  AtMost(Whole(Ten[Precision]), ByTen(x, l))
<1>1. AtMost(Whole(Ten[Precision]), ByTen(x, k + 1))
  BY Digits, Tenfold
<1>2. AtMost(ByTen(x, k + 1), ByTen(x, l))
  <2>1. k + 1 \in Int /\ k + 1 <= l
    OBVIOUS
  <2>2. QED
    BY <2>1, ByTenGrows
<1>3. InLowestTerms(Whole(Ten[Precision])) /\ InLowestTerms(ByTen(x, k + 1))
      /\ InLowestTerms(ByTen(x, l))
  <2>1. k + 1 \in Int /\ Ten[Precision] \in Int
    BY Digits
  <2>2. QED
    BY <2>1, WholeFacts, ByTenIs
<1>4. QED
  BY <1>1, <1>2, <1>3, OrderLaws

\* At most one scale fits.
LEMMA FitsOnce ==
    ASSUME NEW x, Pair(x), x.n >= 0, NEW k \in Int, NEW l \in Int, Fits(x, k), Fits(x, l)
    PROVE  k = l
<1>1. ~(k < l)
  BY TooMany DEF Fits
<1>2. ~(l < k)
  BY TooMany DEF Fits
<1>3. QED
  BY <1>1, <1>2

\* Some scale fits.
LEMMA FitsSomewhere ==
    ASSUME NEW x \in Magnitude PROVE \E k \in Int : Fits(x, k)
<1> DEFINE P == Ten[Precision]
           p == Ten[Precision - 1]
           S == {j \in Nat : ~AtMost(Whole(P), ByTen(x, -j))}
           R == {i \in Nat : AtMost(Whole(p), ByTen(x, i))}
<1>1. Pair(x) /\ x.n \in Nat \ {0} /\ x.d \in Nat \ {0} /\ x.n >= 0
  BY MagnitudePair
<1>2. p \in Nat \ {0} /\ P \in Nat \ {0} /\ P = 10 * p
  BY Digits
<1>3. x.n \in S
  <2> DEFINE t == Ten[x.n]
  <2>1. t \in Nat \ {0} /\ x.n < t
    BY <1>1, TenFacts
  <2>2. -x.n < 0 /\ -(-x.n) = x.n
    BY <1>1
  <2>3. ByTen(x, -x.n) = Ratio(x.n, x.d * t)
    BY <2>2 DEF ByTen
  <2>4. x.d * t \in Nat \ {0} /\ Whole(P) = Ratio(P, 1)
    BY <1>1, <1>2, <2>1, WholeIsRatio
  <2>5. AtMost(Whole(P), ByTen(x, -x.n)) <=> P * (x.d * t) <= x.n * 1
    BY <1>1, <1>2, <2>3, <2>4, AtMostRatio
  <2>6. t <= P * (x.d * t)
    <3> DEFINE q == P * x.d
    <3>1. q \in Nat \ {0} /\ P * (x.d * t) = q * t
      BY <1>1, <1>2, <2>1
    <3> HIDE DEF q, t
    <3>2. q - 1 \in Nat /\ (q - 1) * t \in Nat /\ q * t = (q - 1) * t + t
      BY <2>1, <3>1
    <3>3. QED
      BY <2>1, <3>1, <3>2
  <2>7. ~(P * (x.d * t) <= x.n * 1)
    <3>1. P * (x.d * t) \in Nat
      BY <1>2, <2>4
    <3>2. QED
      BY <1>1, <2>1, <2>6, <3>1
  <2>8. QED
    BY <1>1, <2>5, <2>7
<1>4. x.d * p \in R
  <2> DEFINE i == x.d * p
             t == Ten[i]
  <2>1. i \in Nat
    BY <1>1, <1>2
  <2>2. t \in Nat \ {0} /\ i < t
    BY <2>1, TenFacts
  <2>3. ByTen(x, i) = Ratio(x.n * t, x.d)
    <3>1. ~(i < 0)
      BY <2>1
    <3> HIDE DEF i
    <3>2. QED
      BY <3>1 DEF ByTen
  <2>4. x.n * t \in Nat /\ Whole(p) = Ratio(p, 1)
    BY <1>1, <1>2, <2>2, WholeIsRatio
  <2>5. AtMost(Whole(p), ByTen(x, i)) <=> p * x.d <= (x.n * t) * 1
    BY <1>1, <1>2, <2>3, <2>4, AtMostRatio
  <2>6. t <= x.n * t
    <3> HIDE DEF t
    <3>1. x.n - 1 \in Nat /\ (x.n - 1) * t \in Nat /\ x.n * t = (x.n - 1) * t + t
      BY <1>1, <2>2
    <3>2. QED
      BY <2>2, <2>4, <3>1
  <2>7. p * x.d = i
    BY <1>1, <1>2
  <2> HIDE DEF i, t
  <2>8. p * x.d <= (x.n * t) * 1
    BY <2>1, <2>2, <2>4, <2>6, <2>7
  <2>9. i \in R
    BY <2>1, <2>5, <2>8
  <2>10. QED
    BY <2>9 DEF i
<1>5. PICK j \in S : \A i \in S : j <= i
  <2>1. S \subseteq Nat
    OBVIOUS
  <2> HIDE DEF S
  <2> QED
    BY <1>3, <2>1, LeastNumber
<1>6. PICK i \in R : \A j2 \in R : i <= j2
  <2>1. R \subseteq Nat
    OBVIOUS
  <2> HIDE DEF R
  <2> QED
    BY <1>4, <2>1, LeastNumber
<1>7. j \in Nat /\ -j \in Int /\ ~AtMost(Whole(P), ByTen(x, -j))
  BY <1>5
<1>8. i \in Nat /\ i \in Int /\ AtMost(Whole(p), ByTen(x, i))
  BY <1>6
<1>9. CASE j # 0
  <2>1. j - 1 \in Nat /\ (-j) + 1 = -(j - 1)
    BY <1>7, <1>9
  <2>2. j - 1 \notin S
    <3> HIDE DEF S
    <3> QED
      BY <1>5, <1>7, <2>1
  <2>3. AtMost(Whole(P), ByTen(x, (-j) + 1))
    BY <2>1, <2>2
  <2>4. AtMost(Whole(p), ByTen(x, -j))
    <3> HIDE DEF p, P
    <3> QED
      BY <1>1, <1>2, <1>7, <2>3, Tenfold
  <2>5. QED
    BY <1>7, <2>4 DEF Fits
<1>10. CASE j = 0 /\ i = 0
  <2>1. -0 = 0
    BY Opposite
  <2>2. ~AtMost(Whole(P), ByTen(x, 0)) /\ AtMost(Whole(p), ByTen(x, 0))
    <3> HIDE DEF p, P
    <3> QED
      BY <1>7, <1>8, <1>10, <2>1
  <2>3. QED
    BY <2>2 DEF Fits
<1>11. CASE j = 0 /\ i # 0
  <2>1. i - 1 \in Nat /\ (i - 1) + 1 = i /\ i - 1 \in Int
    BY <1>8, <1>11
  <2>2. i - 1 \notin R
    <3> HIDE DEF R
    <3> QED
      BY <1>6, <1>8, <2>1
  <2>3. ~AtMost(Whole(p), ByTen(x, i - 1))
    BY <2>1, <2>2
  <2>4. ~AtMost(Whole(P), ByTen(x, i))
    <3> HIDE DEF p, P
    <3> QED
      BY <1>1, <1>2, <2>1, <2>3, Tenfold
  <2>5. QED
    BY <1>8, <2>4 DEF Fits
<1>12. QED
  BY <1>9, <1>10, <1>11

\* A scale that fits moves with the point.
LEMMA FitsMoved ==
    ASSUME NEW x, Pair(x), NEW k \in Int, NEW j \in Int
    PROVE  Fits(ByTen(x, j), k) <=> Fits(x, j + k)
  BY ByTenAgain DEF Fits

\* Which way the scale is.
LEMMA ScaleSide ==
    ASSUME NEW x \in Magnitude
    PROVE  /\ x.n >= x.d * Ten[Precision] <=> AtMost(Whole(Ten[Precision]), ByTen(x, 0))
           /\ x.n < x.d * Ten[Precision - 1] <=> ~AtMost(Whole(Ten[Precision - 1]), ByTen(x, 0))
           /\ Ratio(x.n, 10 * x.d) = ByTen(x, -1)
           /\ Ratio(10 * x.n, x.d) = ByTen(x, 1)
<1>1. Pair(x) /\ x.n \in Nat \ {0} /\ x.d \in Nat \ {0}
  BY MagnitudePair
<1>2. ByTen(x, 0) = Ratio(x.n, x.d)
  BY <1>1, ByTenZero
<1>3. ASSUME NEW m \in Nat PROVE AtMost(Whole(m), ByTen(x, 0)) <=> x.n >= x.d * m
  <2>1. Whole(m) = Ratio(m, 1)
    BY WholeIsRatio
  <2>2. AtMost(Whole(m), ByTen(x, 0)) <=> m * x.d <= x.n * 1
    BY <1>1, <1>2, <2>1, AtMostRatio
  <2>3. m * x.d = x.d * m /\ x.d * m \in Nat
    BY <1>1
  <2>4. QED
    BY <1>1, <2>2, <2>3
<1>4. Ten[1] = 10
  <2>1. Ten[0 + 1] = 10 * Ten[0] /\ Ten[0] = 1
    BY TenFacts
  <2>2. QED
    BY <2>1
<1>5. 10 * x.d = x.d * Ten[1] /\ 10 * x.n = x.n * Ten[1] /\ -(-1) = 1
  <2>1. \A a \in Nat : 10 * a = a * 10
    OBVIOUS
  <2>2. 10 * x.d = x.d * 10 /\ 10 * x.n = x.n * 10
    BY <1>1, <2>1
  <2>3. QED
    BY <1>4, <2>2, Opposite
<1>6. ByTen(x, -1) = Ratio(x.n, 10 * x.d) /\ ByTen(x, 1) = Ratio(10 * x.n, x.d)
  BY <1>5 DEF ByTen
<1>7. x.d * Ten[Precision - 1] \in Nat
  BY <1>1, Digits
<1>8. QED
  BY <1>1, <1>3, <1>6, <1>7, Digits

\* Scale[x] is the scale at which x fits.
LEMMA ScaleRecurs ==
    \A x \in Magnitude :
        Scale[x] = IF x.n >= x.d * Ten[Precision] THEN Scale[Ratio(x.n, 10 * x.d)] - 1
                   ELSE IF x.n < x.d * Ten[Precision - 1] THEN Scale[Ratio(10 * x.n, x.d)] + 1
                   ELSE 0
<1> DEFINE g == [x \in Magnitude |-> CHOOSE k \in Int : Fits(x, k)]
<1>1. \A x \in Magnitude : g[x] \in Int /\ Fits(x, g[x])
  BY FitsSomewhere
<1>2. ASSUME NEW x \in Magnitude, NEW k \in Int, Fits(x, k) PROVE g[x] = k
  <2>1. g[x] \in Int /\ Fits(x, g[x])
    BY <1>1
  <2> HIDE DEF g
  <2>2. QED
    BY <1>2, <2>1, MagnitudePair, FitsOnce
<1> HIDE DEF g
<1>3. ASSUME NEW x \in Magnitude
      PROVE  g[x] = IF x.n >= x.d * Ten[Precision] THEN g[Ratio(x.n, 10 * x.d)] - 1
                    ELSE IF x.n < x.d * Ten[Precision - 1] THEN g[Ratio(10 * x.n, x.d)] + 1
                    ELSE 0
  <2>1. Pair(x) /\ x.n > 0
    BY MagnitudePair
  <2>2. ASSUME NEW j \in Int PROVE g[x] = g[ByTen(x, j)] + j
    <3> DEFINE y == ByTen(x, j)
    <3>1. y \in Magnitude
      BY <2>1, MagnitudeMoved
    <3>2. g[y] \in Int /\ Fits(y, g[y])
      BY <1>1, <3>1
    <3> DEFINE k == g[y]
    <3>3. Fits(x, j + k)
      <4> HIDE DEF k
      <4>1. k \in Int /\ Fits(ByTen(x, j), k)
        BY <3>2 DEF k
      <4>2. QED
        BY <2>1, <4>1, FitsMoved
    <3>4. j + k \in Int
      BY <3>2
    <3> HIDE DEF k, y
    <3>5. g[x] = j + k
      BY <1>2, <3>3, <3>4
    <3>6. k \in Int
      BY <3>2 DEF k
    <3>7. QED
      BY <3>5, <3>6 DEF k, y
  <2>3. CASE x.n >= x.d * Ten[Precision]
    <3>1. g[x] = g[ByTen(x, -1)] + (-1) /\ g[ByTen(x, -1)] \in Int
      <4>1. -1 \in Int /\ ByTen(x, -1) \in Magnitude
        BY <2>1, MagnitudeMoved
      <4>2. QED
        BY <1>1, <2>2, <4>1
    <3>2. g[x] = g[ByTen(x, -1)] - 1
      BY <3>1
    <3>3. QED
      BY <2>3, <3>2, ScaleSide
  <2>4. CASE ~(x.n >= x.d * Ten[Precision]) /\ x.n < x.d * Ten[Precision - 1]
    <3>1. g[x] = g[ByTen(x, 1)] + 1
      BY <2>2
    <3>2. QED
      BY <2>4, <3>1, ScaleSide
  <2>5. CASE ~(x.n >= x.d * Ten[Precision]) /\ ~(x.n < x.d * Ten[Precision - 1])
    <3>1. Fits(x, 0)
      BY <2>5, ScaleSide DEF Fits
    <3>2. g[x] = 0
      BY <1>2, <3>1
    <3>3. QED
      BY <2>5, <3>2
  <2>6. QED
    BY <2>3, <2>4, <2>5
<1>4. g = [x \in Magnitude |->
             IF x.n >= x.d * Ten[Precision] THEN g[Ratio(x.n, 10 * x.d)] - 1
             ELSE IF x.n < x.d * Ten[Precision - 1] THEN g[Ratio(10 * x.n, x.d)] + 1
             ELSE 0]
  <2>1. g = [x \in Magnitude |-> g[x]]
    BY DEF g
  <2>2. QED
    BY <1>3, <2>1
<1>5. Scale = [x \in Magnitude |->
             IF x.n >= x.d * Ten[Precision] THEN Scale[Ratio(x.n, 10 * x.d)] - 1
             ELSE IF x.n < x.d * Ten[Precision - 1] THEN Scale[Ratio(10 * x.n, x.d)] + 1
             ELSE 0]
  BY <1>4 DEF Scale
<1>6. QED
  BY <1>5

\* The scale that the recursion finds fits.
LEMMA ScaleFits ==
    ASSUME NEW x \in Magnitude PROVE Scale[x] \in Int /\ Fits(x, Scale[x])
<1> DEFINE Abs(k) == IF k < 0 THEN -k ELSE k
           S == {m \in Nat : \E y \in Magnitude, k \in Int :
                                Fits(y, k) /\ Abs(k) = m /\ Scale[y] # k}
<1>1. SUFFICES ASSUME S # {} PROVE FALSE
  <2>1. PICK k \in Int : Fits(x, k)
    BY FitsSomewhere
  <2>2. Abs(k) \in Nat /\ Abs(k) \notin S
    <3>1. Abs(k) \in Nat
      OBVIOUS
    <3> HIDE DEF S, Abs
    <3>2. QED
      BY <1>1, <3>1
  <2>3. Scale[x] = k
    BY <2>1, <2>2
  <2>4. QED
    BY <2>1, <2>3
<1>2. PICK m \in S : \A l \in S : m <= l
  <2>1. S \subseteq Nat
    OBVIOUS
  <2> HIDE DEF S
  <2> QED
    BY <1>1, <2>1, LeastNumber
<1>3. PICK y \in Magnitude, k \in Int : Fits(y, k) /\ Abs(k) = m /\ Scale[y] # k
  BY <1>2
<1>4. Pair(y) /\ y.n > 0 /\ y.n >= 0 /\ m \in Nat
  BY <1>2, MagnitudePair
<1>5. ASSUME NEW j \in {-1, 1}, Abs(k - j) < m PROVE Scale[ByTen(y, j)] = k - j
  <2>1. j \in Int /\ k - j \in Int /\ j + (k - j) = k
    BY <1>3
  <2>2. ByTen(y, j) \in Magnitude
    BY <1>4, <2>1, MagnitudeMoved
  <2>3. Fits(ByTen(y, j), k - j)
    BY <1>3, <1>4, <2>1, FitsMoved
  <2>4. Abs(k - j) \in Nat
    BY <2>1
  <2>5. Abs(k - j) \notin S
    <3> HIDE DEF S, Abs
    <3> QED
      BY <1>2, <1>4, <1>5, <2>4
  <2>6. QED
    BY <2>1, <2>2, <2>3, <2>4, <2>5
<1>6. 0 \in Int /\ -1 \in {-1, 1} /\ 1 \in {-1, 1}
  OBVIOUS
<1>7. CASE k < 0
  <2>1. AtMost(Whole(Ten[Precision]), ByTen(y, 0))
    BY <1>3, <1>4, <1>6, <1>7, TooMany DEF Fits
  <2>2. Abs(k - (-1)) < m /\ k - (-1) = k + 1
    BY <1>3, <1>7
  <2>3. Scale[ByTen(y, -1)] = k + 1
    BY <1>5, <1>6, <2>2
  <2>4. Scale[y] = (k + 1) - 1
    BY <2>1, <2>3, ScaleRecurs, ScaleSide
  <2>5. QED
    BY <1>3, <2>4
<1>8. CASE k > 0
  <2>1. ~AtMost(Whole(Ten[Precision - 1]), ByTen(y, 0))
    BY <1>3, <1>4, <1>6, <1>8, TooMany DEF Fits
  <2>2. ~AtMost(Whole(Ten[Precision]), ByTen(y, 0))
    <3> DEFINE w == Whole(Ten[Precision])
    <3>1. InLowestTerms(w) /\ InLowestTerms(ByTen(y, 0)) /\ InLowestTerms(ByTen(y, k))
      <4>1. Ten[Precision] \in Int
        BY Digits
      <4>2. QED
        BY <1>4, <1>6, <4>1, WholeFacts, ByTenIs
    <3>2. AtMost(ByTen(y, 0), ByTen(y, k))
      BY <1>3, <1>4, <1>8, ByTenGrows
    <3>3. ~AtMost(w, ByTen(y, k))
      BY <1>3 DEF Fits
    <3> HIDE DEF w
    <3>4. ~AtMost(w, ByTen(y, 0))
      BY <3>1, <3>2, <3>3, OrderLaws
    <3>5. QED
      BY <3>4 DEF w
  <2>3. Abs(k - 1) < m
    BY <1>3, <1>8
  <2>4. Scale[ByTen(y, 1)] = k - 1
    BY <1>5, <1>6, <2>3
  <2>5. Scale[y] = (k - 1) + 1
    BY <2>1, <2>2, <2>4, ScaleRecurs, ScaleSide
  <2>6. QED
    BY <1>3, <2>5
<1>9. CASE k = 0
  <2>1. AtMost(Whole(Ten[Precision - 1]), ByTen(y, 0)) /\ ~AtMost(Whole(Ten[Precision]), ByTen(y, 0))
    BY <1>3, <1>9 DEF Fits
  <2>2. Scale[y] = 0
    BY <2>1, ScaleRecurs, ScaleSide
  <2>3. QED
    BY <1>3, <1>9, <2>2
<1>10. QED
  BY <1>3, <1>7, <1>8, <1>9

-----------------------------------------------------------------------------
\* Rounding half even

\* Quotient and rest.
LEMMA Divided ==
    ASSUME NEW n \in Nat, NEW d \in Nat \ {0}
    PROVE  /\ n \div d \in Nat /\ n % d \in Nat /\ n % d < d
           /\ n = (n \div d) * d + (n % d)
  OBVIOUS

\* Products with a number above zero keep the order.
LEMMA ProductOrder ==
    ASSUME NEW a \in Int, NEW b \in Int, NEW c \in Nat \ {0}
    PROVE  /\ a <= b => a * c <= b * c
           /\ a < b => a * c + c <= b * c
           /\ a * c <= b * c => a <= b
<1>1. ASSUME a <= b PROVE a * c <= b * c
  <2>1. b - a \in Nat /\ (b - a) * c \in Nat /\ b * c = a * c + (b - a) * c /\ a * c \in Int
    BY <1>1
  <2>2. QED
    BY <2>1
<1>2. ASSUME a < b PROVE a * c + c <= b * c
  <2>1. b - a - 1 \in Nat /\ (b - a - 1) * c \in Nat /\ b * c = (a * c + c) + (b - a - 1) * c
        /\ a * c \in Int
    BY <1>2
  <2>2. QED
    BY <2>1
<1>3. ASSUME a * c <= b * c PROVE a <= b
  <2>1. SUFFICES ASSUME b < a PROVE FALSE
    OBVIOUS
  <2>2. a - b - 1 \in Nat /\ (a - b - 1) * c \in Nat /\ a * c = (b * c + c) + (a - b - 1) * c
        /\ b * c \in Int /\ a * c \in Int
    BY <2>1
  <2>3. QED
    BY <1>3, <2>2
<1>4. QED
  BY <1>1, <1>2, <1>3

\* The rounded number is the quotient, or the next one when something remains.
LEMMA HalfEvenIs ==
    ASSUME NEW x, x.n \in Nat, x.d \in Nat \ {0}
    PROVE  LET q == x.n \div x.d
               r == x.n % x.d
           IN  /\ q \in Nat /\ r \in Nat /\ r < x.d /\ x.n = q * x.d + r
               /\ HalfEven(x) = IF 2 * r < x.d \/ (2 * r = x.d /\ q % 2 = 0) THEN q ELSE q + 1
  BY Divided DEF HalfEven

\* Rounding half even crosses no whole number.
LEMMA HalfEvenBounds ==
    ASSUME NEW x, x.n \in Nat, x.d \in Nat \ {0}, NEW m \in Nat
    PROVE  /\ HalfEven(x) \in Nat
           /\ m * x.d <= x.n => m <= HalfEven(x)
           /\ x.n <= m * x.d => HalfEven(x) <= m
<1> DEFINE q == x.n \div x.d
           r == x.n % x.d
<1>1. /\ q \in Nat /\ r \in Nat /\ r < x.d /\ x.n = q * x.d + r
      /\ HalfEven(x) = IF 2 * r < x.d \/ (2 * r = x.d /\ q % 2 = 0) THEN q ELSE q + 1
  BY HalfEvenIs
<1> HIDE DEF q, r
<1>2. HalfEven(x) \in {q, q + 1} /\ (r = 0 => HalfEven(x) = q)
  BY <1>1
<1>3. q * x.d \in Nat /\ m * x.d \in Nat
  BY <1>1
<1>4. ASSUME m * x.d <= x.n PROVE m <= q
  <2>1. SUFFICES ASSUME q < m PROVE FALSE
    BY <1>1
  <2>2. q * x.d + x.d <= m * x.d
    BY <1>1, <2>1, ProductOrder
  <2>3. QED
    BY <1>1, <1>3, <1>4, <2>2
<1>5. ASSUME x.n <= m * x.d PROVE q <= m /\ (q = m => r = 0)
  <2>1. q * x.d <= m * x.d
    BY <1>1, <1>3, <1>5
  <2>2. q <= m
    BY <1>1, <2>1, ProductOrder
  <2>3. q = m => r = 0
    BY <1>1, <1>3, <1>5
  <2>4. QED
    BY <2>2, <2>3
<1>6. QED
  BY <1>1, <1>2, <1>4, <1>5

\* Rounding half even keeps the order.
LEMMA HalfEvenOrder ==
    ASSUME NEW x, NEW y, x.n \in Nat, x.d \in Nat \ {0}, y.n \in Nat, y.d \in Nat \ {0},
           AtMost(x, y)
    PROVE  HalfEven(x) <= HalfEven(y)
<1> DEFINE q == x.n \div x.d
           r == x.n % x.d
           p == y.n \div y.d
           s == y.n % y.d
           d == x.d
           e == y.d
<1>1. /\ q \in Nat /\ r \in Nat /\ r < d /\ x.n = q * d + r /\ d \in Nat \ {0}
      /\ HalfEven(x) = IF 2 * r < d \/ (2 * r = d /\ q % 2 = 0) THEN q ELSE q + 1
  BY HalfEvenIs
<1>2. /\ p \in Nat /\ s \in Nat /\ s < e /\ y.n = p * e + s /\ e \in Nat \ {0}
      /\ HalfEven(y) = IF 2 * s < e \/ (2 * s = e /\ p % 2 = 0) THEN p ELSE p + 1
  BY HalfEvenIs
<1>3. x.n * e <= y.n * d
  BY DEF AtMost
<1> HIDE DEF q, r, p, s, d, e
<1>4. q * d \in Nat /\ p * e \in Nat /\ d * e \in Nat /\ r * e \in Nat /\ s * d \in Nat
      /\ q * (d * e) \in Nat /\ p * (d * e) \in Nat
  BY <1>1, <1>2
<1>5. (q * d + r) * e = q * (d * e) + r * e /\ (p * e + s) * d = p * (d * e) + s * d
  BY <1>1, <1>2
<1>6. q * (d * e) + r * e <= p * (d * e) + s * d
  BY <1>1, <1>2, <1>3, <1>5
<1>7. r * e < d * e /\ s * d < d * e
  <2>1. r * e + e <= d * e
    BY <1>1, <1>2, ProductOrder
  <2>2. s * d + d <= e * d /\ e * d = d * e
    BY <1>1, <1>2, ProductOrder
  <2>3. QED
    BY <1>1, <1>2, <1>4, <2>1, <2>2
<1>8. q <= p
  <2>1. SUFFICES ASSUME p < q PROVE FALSE
    BY <1>1, <1>2
  <2>2. d * e \in Nat \ {0}
    BY <1>4, <1>7
  <2>3. p * (d * e) + d * e <= q * (d * e)
    <3> DEFINE t == d * e
    <3> HIDE DEF t
    <3>1. p * t + t <= q * t
      BY <1>1, <1>2, <2>1, <2>2, ProductOrder DEF t
    <3>2. QED
      BY <3>1 DEF t
  <2>4. QED
    BY <1>4, <1>6, <1>7, <2>3
<1>9. CASE q < p
  BY <1>1, <1>2, <1>9
<1>10. CASE q = p
  <2>1. r * e <= s * d
    <3> DEFINE t == q * (d * e)
    <3>1. t \in Nat /\ t + r * e <= t + s * d
      BY <1>4, <1>6, <1>10
    <3> HIDE DEF t
    <3>2. QED
      BY <1>4, <3>1
  <2>2. ASSUME 2 * r >= d PROVE 2 * s >= e
    <3>1. d * e <= (2 * r) * e
      BY <1>1, <1>2, <2>2, ProductOrder
    <3>2. (2 * r) * e = 2 * (r * e) /\ (2 * s) * d = 2 * (s * d) /\ d * e = e * d
      BY <1>1, <1>2
    <3>3. e * d <= (2 * s) * d
      BY <1>4, <2>1, <3>1, <3>2
    <3>4. QED
      BY <1>1, <1>2, <3>3, ProductOrder
  <2>3. ASSUME 2 * r > d PROVE 2 * s > e
    <3>1. d * e + e <= (2 * r) * e
      BY <1>1, <1>2, <2>3, ProductOrder
    <3>2. (2 * r) * e = 2 * (r * e) /\ (2 * s) * d = 2 * (s * d) /\ d * e = e * d
      BY <1>1, <1>2
    <3>3. e * d < (2 * s) * d
      BY <1>2, <1>4, <2>1, <3>1, <3>2
    <3>4. ~(2 * s <= e)
      <4>1. ~((2 * s) * d <= e * d)
        BY <1>4, <3>2, <3>3
      <4>2. QED
        BY <1>1, <1>2, <4>1, ProductOrder
    <3>5. QED
      BY <1>2, <3>4
  <2>4. QED
    BY <1>1, <1>2, <1>10, <2>2, <2>3
<1>11. QED
  BY <1>1, <1>2, <1>8, <1>9, <1>10

\* A whole number is its own rounding.
LEMMA HalfEvenWhole == ASSUME NEW m \in Nat PROVE HalfEven(Whole(m)) = m
<1>1. Whole(m).n = m /\ Whole(m).d = 1
  BY DEF Whole
<1>2. HalfEven(Whole(m)) \in Nat /\ m <= HalfEven(Whole(m)) /\ HalfEven(Whole(m)) <= m
  <2> DEFINE w == Whole(m)
  <2>1. w.n = m /\ w.d = 1 /\ w.n \in Nat /\ w.d \in Nat \ {0} /\ m * w.d <= w.n /\ w.n <= m * w.d
    BY <1>1
  <2> HIDE DEF w
  <2>2. HalfEven(w) \in Nat /\ m <= HalfEven(w) /\ HalfEven(w) <= m
    BY <2>1, HalfEvenBounds
  <2>3. QED
    BY <2>2 DEF w
<1>3. QED
  BY <1>2

-----------------------------------------------------------------------------
\* Rounding to significant digits

\* The digits kept of x.
Kept(x) == HalfEven(ByTen(x, Scale[x]))

\* What is kept has Precision digits, or is the next power of ten.
LEMMA KeptDigits ==
    ASSUME NEW x \in Magnitude
    PROVE  /\ Kept(x) \in Nat \ {0} /\ Scale[x] \in Int /\ -Scale[x] \in Int
           /\ Ten[Precision - 1] <= Kept(x) /\ Kept(x) <= Ten[Precision]
           /\ RoundedUp(x) = ByTen(Whole(Kept(x)), -Scale[x])
<1> DEFINE k == Scale[x]
           y == ByTen(x, k)
           p == Ten[Precision - 1]
           P == Ten[Precision]
<1>1. k \in Int /\ Fits(x, k) /\ Pair(x) /\ x.n > 0
  BY ScaleFits, MagnitudePair
<1>2. p \in Nat \ {0} /\ P \in Nat \ {0}
  BY Digits
<1>3. y \in Magnitude
  <2> HIDE DEF k
  <2> QED
    BY <1>1, MagnitudeMoved
<1>4. AtMost(Whole(p), y) /\ ~AtMost(Whole(P), y)
  BY <1>1 DEF Fits
<1>5. RoundedUp(x) = ByTen(Whole(Kept(x)), -k) /\ Kept(x) = HalfEven(y)
  BY DEF RoundedUp, Kept
<1> HIDE DEF y, k, p, P
<1>6. y.n \in Nat /\ y.d \in Nat \ {0}
  BY <1>3, MagnitudePair
<1>7. p * y.d <= y.n /\ y.n <= P * y.d
  <2>1. p * y.d \in Nat /\ P * y.d \in Nat
    BY <1>2, <1>6
  <2>2. y.n * 1 = y.n
    BY <1>6
  <2>3. QED
    BY <1>2, <1>4, <1>6, <2>1, <2>2 DEF AtMost, Whole
<1>8. Kept(x) \in Nat /\ p <= Kept(x) /\ Kept(x) <= P
  BY <1>2, <1>5, <1>6, <1>7, HalfEvenBounds
<1>9. Kept(x) # 0
  BY <1>2, <1>8
<1>10. -k \in Int
  BY <1>1
<1>11. QED
  BY <1>1, <1>5, <1>8, <1>9, <1>10 DEF k, p, P

\* A rounded magnitude is a magnitude.
LEMMA RoundedUpIs ==
    ASSUME NEW x \in Magnitude
    PROVE  InLowestTerms(RoundedUp(x)) /\ RoundedUp(x).n > 0 /\ RoundedUp(x) \in Magnitude
<1> DEFINE h == Kept(x)
           l == -Scale[x]
           w == Whole(h)
<1>1. h \in Nat \ {0} /\ l \in Int /\ RoundedUp(x) = ByTen(w, l)
  BY KeptDigits
<1>2. Pair(w) /\ w.n = h
  BY <1>1, WholeFacts
<1>3. w.n > 0
  BY <1>1, <1>2
<1> HIDE DEF w, l, h
<1>4. QED
  BY <1>1, <1>2, <1>3, ByTenIs, ByTenSign, MagnitudeMoved

\* Rounding keeps the order of values.
LEMMA RoundedUpOrder ==
    ASSUME NEW x \in Magnitude, NEW y \in Magnitude, AtMost(x, y)
    PROVE  AtMost(RoundedUp(x), RoundedUp(y))
<1> DEFINE k == Scale[x]
           l == Scale[y]
           g == Kept(x)
           h == Kept(y)
           p == Ten[Precision - 1]
           P == Ten[Precision]
<1>1. /\ k \in Int /\ Fits(x, k) /\ Pair(x) /\ x.n > 0 /\ x.n >= 0
      /\ l \in Int /\ Fits(y, l) /\ Pair(y) /\ y.n > 0 /\ y.n >= 0
  BY ScaleFits, MagnitudePair
<1>2. /\ g \in Nat \ {0} /\ g <= P /\ RoundedUp(x) = ByTen(Whole(g), -k) /\ -k \in Int
      /\ h \in Nat \ {0} /\ p <= h /\ RoundedUp(y) = ByTen(Whole(h), -l) /\ -l \in Int
  BY KeptDigits
<1>3. p \in Nat \ {0} /\ P \in Nat \ {0} /\ P = 10 * p
  BY Digits
<1>4. g = HalfEven(ByTen(x, k)) /\ h = HalfEven(ByTen(y, l))
  BY DEF Kept
<1>5. AtMost(Whole(p), ByTen(x, k)) /\ ~AtMost(Whole(P), ByTen(y, l))
  BY <1>1 DEF Fits
<1>6. ASSUME NEW a \in Nat, NEW b \in Nat, a <= b, NEW j \in Int
      PROVE  AtMost(ByTen(Whole(a), j), ByTen(Whole(b), j))
  <2>1. AtMost(Whole(a), Whole(b))
    BY <1>6 DEF AtMost, Whole
  <2>2. Pair(Whole(a)) /\ Pair(Whole(b))
    BY WholeFacts
  <2>3. QED
    BY <2>1, <2>2, ByTenOrdered
<1>7. AtMost(Whole(p), ByTen(x, k)) => (k < l => AtMost(Whole(P), ByTen(x, l)))
  BY <1>1, TooMany
<1> HIDE DEF k, l, g, h, p, P
<1>8. l <= k
  <2>1. SUFFICES ASSUME k < l PROVE FALSE
    BY <1>1
  <2>2. AtMost(Whole(P), ByTen(x, l))
    BY <1>5, <1>7, <2>1
  <2>3. AtMost(ByTen(x, l), ByTen(y, l))
    BY <1>1, ByTenOrdered
  <2>4. InLowestTerms(Whole(P)) /\ InLowestTerms(ByTen(x, l)) /\ InLowestTerms(ByTen(y, l))
    BY <1>1, <1>3, WholeFacts, ByTenIs
  <2>5. QED
    BY <1>5, <2>2, <2>3, <2>4, OrderLaws
<1>9. CASE l = k
  <2> DEFINE u == ByTen(x, k)
             v == ByTen(y, k)
  <2>1. AtMost(u, v)
    BY <1>1, ByTenOrdered
  <2>2. u \in Magnitude /\ v \in Magnitude
    BY <1>1, MagnitudeMoved
  <2> HIDE DEF u, v
  <2>3. u.n \in Nat /\ u.d \in Nat \ {0} /\ v.n \in Nat /\ v.d \in Nat \ {0}
    BY <2>2, MagnitudePair
  <2>4. HalfEven(u) <= HalfEven(v)
    BY <2>1, <2>3, HalfEvenOrder
  <2>5. g <= h
    BY <1>4, <1>9, <2>4 DEF u, v
  <2>6. QED
    BY <1>2, <1>6, <1>9, <2>5
<1>10. CASE l < k
  <2> DEFINE a == ByTen(Whole(g), -k)
             b == ByTen(Whole(P), -k)
             c == ByTen(Whole(p), -l)
             e == ByTen(Whole(h), -l)
  <2>1. AtMost(a, b) /\ AtMost(c, e)
    BY <1>2, <1>3, <1>6
  <2>2. AtMost(b, c)
    <3> DEFINE j == 1 + (-k)
    <3>1. Whole(P) = ByTen(Whole(p), 1)
      <4>1. Ten[0 + 1] = 10 * Ten[0] /\ Ten[0] = 1
        BY TenFacts
      <4>2. Ten[1] = 10
        BY <4>1
      <4>3. p * Ten[1] = P
        BY <1>3, <4>2
      <4>4. QED
        BY <1>3, <4>3, ByTenWhole
    <3>2. Pair(Whole(p)) /\ Whole(p).n >= 0
      BY <1>3, WholeFacts
    <3>3. b = ByTen(Whole(p), j)
      BY <1>2, <3>1, <3>2, ByTenAgain
    <3>4. j \in Int /\ j <= -l
      BY <1>1, <1>10
    <3> HIDE DEF j, b
    <3>5. AtMost(ByTen(Whole(p), j), ByTen(Whole(p), -l))
      BY <1>2, <3>2, <3>4, ByTenGrows
    <3>6. QED
      BY <3>3, <3>5
  <2>3. InLowestTerms(a) /\ InLowestTerms(b) /\ InLowestTerms(c) /\ InLowestTerms(e)
    BY <1>2, <1>3, WholeFacts, ByTenIs
  <2> HIDE DEF a, b, c, e
  <2>4. AtMost(a, e)
    BY <2>1, <2>2, <2>3, OrderLaws
  <2>5. QED
    BY <1>2, <2>4 DEF a, e
<1>11. QED
  BY <1>1, <1>8, <1>9, <1>10

\* One is kept as it is.
LEMMA RoundedUpOne == RoundedUp(Whole(1)) = Whole(1)
<1> DEFINE k == Precision - 1
           p == Ten[k]
           P == Ten[Precision]
           w == Whole(1)
<1>1. k \in Nat /\ p \in Nat \ {0} /\ P \in Nat \ {0} /\ P = 10 * p
  BY Digits
<1>2. w.n = 1 /\ w.d = 1 /\ Pair(w) /\ InLowestTerms(w) /\ w \in Magnitude /\ w.n >= 0
  <2>1. w = [n |-> 1, d |-> 1]
    BY DEF Whole
  <2>2. w \in Magnitude
    BY <2>1 DEF Magnitude
  <2>3. QED
    BY <2>1, <2>2, WholeFacts
<1>3. ByTen(w, k) = Whole(p)
  <2>1. 1 * Ten[k] = Ten[k]
    BY <1>1
  <2>2. QED
    BY <1>1, <2>1, ByTenWhole
<1>4. Fits(w, k)
  <2>1. AtMost(Whole(p), Whole(p)) /\ ~AtMost(Whole(P), Whole(p))
    BY <1>1 DEF AtMost, Whole
  <2> HIDE DEF w
  <2>2. QED
    BY <1>3, <2>1 DEF Fits
<1>5. Scale[w] \in Int /\ Fits(w, Scale[w])
  BY <1>2, ScaleFits
<1> HIDE DEF w
<1>6. Scale[w] = k
  BY <1>1, <1>2, <1>4, <1>5, FitsOnce
<1>7. HalfEven(ByTen(w, k)) = p
  <2> HIDE DEF p
  <2> QED
    BY <1>1, <1>3, HalfEvenWhole
<1>8. RoundedUp(w) = ByTen(Whole(p), -k)
  BY <1>6, <1>7 DEF RoundedUp
<1>9. ByTen(ByTen(w, k), -k) = w
  <2> HIDE DEF k
  <2> QED
    BY <1>1, <1>2, ByTenBack
<1>10. QED
  BY <1>3, <1>8, <1>9 DEF w

-----------------------------------------------------------------------------
\* Rounding, over all signs

\* A positive fraction in lowest terms is a magnitude.
LEMMA LowestIsMagnitude ==
    ASSUME NEW x, InLowestTerms(x), x.n > 0 PROVE x \in Magnitude
<1>1. x = [n |-> x.n, d |-> x.d] /\ x.n \in Nat \ {0} /\ x.d \in Nat \ {0}
  BY DEF InLowestTerms
<1> DEFINE a == x.n
           b == x.d
<1> HIDE DEF a, b
<1>2. [n |-> a, d |-> b] \in Magnitude
  BY <1>1 DEF Magnitude, a, b
<1>3. QED
  BY <1>1, <1>2 DEF a, b

\* Negation stays in lowest terms and undoes itself.
LEMMA NegatedIs ==
    ASSUME NEW x, InLowestTerms(x)
    PROVE  /\ InLowestTerms(Negated(x)) /\ Negated(x).n = -x.n /\ Negated(x).d = x.d
           /\ Negated(Negated(x)) = x
<1> DEFINE a == x.n
           b == x.d
<1>1. x = [n |-> a, d |-> b] /\ a \in Int /\ b \in Nat \ {0}
  BY DEF InLowestTerms
<1>2. PICK p \in Int, q \in Int : p * a + q * b = 1
  BY DEF InLowestTerms
<1> HIDE DEF a, b
<1>3. Negated(x) = [n |-> -a, d |-> b]
  BY <1>1 DEF Negated
<1>4. -p \in Int /\ -a \in Int /\ -(-a) = a
  BY <1>1
<1>5. (-p) * (-a) + q * b = 1
  BY <1>1, <1>2
<1>6. InLowestTerms(Negated(x))
  BY <1>1, <1>3, <1>4, <1>5 DEF InLowestTerms
<1>7. Negated(Negated(x)) = [n |-> a, d |-> b]
  <2> DEFINE m == -a
  <2>1. Negated(x) = [n |-> m, d |-> b] /\ -m = a
    BY <1>3, <1>4
  <2> HIDE DEF m
  <2>2. Negated([n |-> m, d |-> b]) = [n |-> -m, d |-> b]
    BY DEF Negated
  <2>3. QED
    BY <2>1, <2>2
<1>8. QED
  BY <1>1, <1>3, <1>4, <1>6, <1>7 DEF a, b

\* Negation turns the order around.
LEMMA NegatedOrder ==
    ASSUME NEW x, NEW y, InLowestTerms(x), InLowestTerms(y)
    PROVE  AtMost(x, y) <=> AtMost(Negated(y), Negated(x))
<1> DEFINE a == x.n * y.d
           b == y.n * x.d
<1>1. x.n \in Int /\ x.d \in Int /\ y.n \in Int /\ y.d \in Int
  BY DEF InLowestTerms
<1>2. a \in Int /\ b \in Int /\ (-x.n) * y.d = -a /\ (-y.n) * x.d = -b
  BY <1>1
<1>3. AtMost(Negated(y), Negated(x)) <=> -b <= -a
  BY <1>2, NegatedIs DEF AtMost
<1>4. AtMost(x, y) <=> a <= b
  BY DEF AtMost
<1> HIDE DEF a, b
<1>5. QED
  BY <1>2, <1>3, <1>4

\* What is below zero negates to a magnitude.
LEMMA NegatedMagnitude ==
    ASSUME NEW x, InLowestTerms(x), x.n < 0 PROVE Negated(x) \in Magnitude
<1>1. InLowestTerms(Negated(x)) /\ Negated(x).n = -x.n /\ x.n \in Int
  BY NegatedIs DEF InLowestTerms
<1>2. Negated(x).n > 0
  BY <1>1
<1>3. QED
  BY <1>1, <1>2, LowestIsMagnitude

\* A rounded value has the sign of the exact one.
LEMMA RoundedIs ==
    ASSUME NEW x, InLowestTerms(x)
    PROVE  /\ InLowestTerms(Rounded(x))
           /\ x.n > 0 <=> Rounded(x).n > 0
           /\ x.n < 0 <=> Rounded(x).n < 0
           /\ x.n = 0 <=> Rounded(x).n = 0
<1>1. x.n \in Int
  BY DEF InLowestTerms
<1>2. CASE x.n = 0
  BY <1>1, <1>2 DEF Rounded
<1>3. CASE x.n > 0
  <2>1. Rounded(x) = RoundedUp(x)
    BY <1>1, <1>3 DEF Rounded
  <2>2. InLowestTerms(RoundedUp(x)) /\ RoundedUp(x).n > 0
    BY <1>3, LowestIsMagnitude, RoundedUpIs
  <2>3. RoundedUp(x).n \in Int
    BY <2>2 DEF InLowestTerms
  <2>4. QED
    BY <1>1, <1>3, <2>1, <2>2, <2>3
<1>4. CASE x.n < 0
  <2> DEFINE y == RoundedUp(Negated(x))
  <2>1. Rounded(x) = Negated(y)
    BY <1>1, <1>4 DEF Rounded
  <2>2. InLowestTerms(y) /\ y.n > 0
    BY <1>4, NegatedMagnitude, RoundedUpIs
  <2> HIDE DEF y
  <2>3. y.n \in Int
    BY <2>2 DEF InLowestTerms
  <2>4. InLowestTerms(Rounded(x)) /\ Rounded(x).n = -y.n
    BY <2>1, <2>2, NegatedIs
  <2>5. QED
    BY <1>1, <1>4, <2>2, <2>3, <2>4
<1>5. QED
  BY <1>1, <1>2, <1>3, <1>4

\* Values on the two sides of zero.
LEMMA AcrossZero ==
    ASSUME NEW x, NEW y, InLowestTerms(x), InLowestTerms(y)
    PROVE  /\ x.n <= 0 /\ y.n >= 0 => AtMost(x, y)
           /\ x.n >= 0 /\ y.n < 0 => ~AtMost(x, y)
           /\ x.n > 0 /\ y.n <= 0 => ~AtMost(x, y)
<1> DEFINE a == x.n
           b == x.d
           c == y.n
           e == y.d
<1>1. a \in Int /\ b \in Nat \ {0} /\ c \in Int /\ e \in Nat \ {0}
  BY DEF InLowestTerms
<1> HIDE DEF a, b, c, e
<1>2. a * e \in Int /\ c * b \in Int
  BY <1>1
<1>3. (a <= 0 => a * e <= 0) /\ (a >= 0 => a * e >= 0) /\ (a > 0 => a * e > 0)
  BY <1>1
<1>4. (c <= 0 => c * b <= 0) /\ (c >= 0 => c * b >= 0) /\ (c < 0 => c * b < 0)
  BY <1>1
<1>5. AtMost(x, y) <=> a * e <= c * b
  BY DEF AtMost, a, b, c, e
<1>6. QED
  BY <1>2, <1>3, <1>4, <1>5 DEF a, c

\* Rounding keeps the order.
LEMMA RoundedOrder ==
    ASSUME NEW x, NEW y, InLowestTerms(x), InLowestTerms(y), AtMost(x, y)
    PROVE  AtMost(Rounded(x), Rounded(y))
<1>1. /\ InLowestTerms(Rounded(x)) /\ InLowestTerms(Rounded(y))
      /\ x.n \in Int /\ y.n \in Int /\ Rounded(x).n \in Int /\ Rounded(y).n \in Int
  <2>1. InLowestTerms(Rounded(x)) /\ InLowestTerms(Rounded(y))
    BY RoundedIs
  <2>2. QED
    BY <2>1 DEF InLowestTerms
<1>2. CASE x.n > 0
  <2>1. y.n > 0
    BY <1>1, <1>2, AcrossZero
  <2>2. x \in Magnitude /\ y \in Magnitude
    BY <1>2, <2>1, LowestIsMagnitude
  <2>3. Rounded(x) = RoundedUp(x) /\ Rounded(y) = RoundedUp(y)
    BY <1>1, <1>2, <2>1 DEF Rounded
  <2>4. QED
    BY <2>2, <2>3, RoundedUpOrder
<1>3. CASE y.n < 0
  <2>1. x.n < 0
    BY <1>1, <1>3, AcrossZero
  <2> DEFINE u == Negated(x)
             v == Negated(y)
  <2>2. u \in Magnitude /\ v \in Magnitude /\ AtMost(v, u)
    BY <1>3, <2>1, NegatedMagnitude, NegatedOrder
  <2>3. Rounded(x) = Negated(RoundedUp(u)) /\ Rounded(y) = Negated(RoundedUp(v))
    BY <1>1, <1>3, <2>1 DEF Rounded
  <2> HIDE DEF u, v
  <2>4. AtMost(RoundedUp(v), RoundedUp(u)) /\ InLowestTerms(RoundedUp(u)) /\ InLowestTerms(RoundedUp(v))
    BY <2>2, RoundedUpOrder, RoundedUpIs
  <2>5. QED
    BY <2>3, <2>4, NegatedOrder
<1>4. CASE x.n <= 0 /\ y.n >= 0
  <2>1. Rounded(x).n <= 0 /\ Rounded(y).n >= 0
    BY <1>1, <1>4, RoundedIs
  <2>2. QED
    BY <1>1, <2>1, AcrossZero
<1>5. QED
  BY <1>1, <1>2, <1>3, <1>4

\* Zero and one are their own roundings.
LEMMA RoundedWhole == Rounded(Whole(0)) = Whole(0) /\ Rounded(Whole(1)) = Whole(1)
<1>1. Whole(0).n = 0 /\ Whole(1).n = 1
  BY DEF Whole
<1>2. QED
  BY <1>1, RoundedUpOne DEF Rounded

-----------------------------------------------------------------------------
\* The rounded operations

\* The differences of values are ordered as the values.
LEMMA MinusOrder ==
    ASSUME NEW x, NEW y, NEW z, InLowestTerms(x), InLowestTerms(y), InLowestTerms(z), AtMost(x, y)
    PROVE  AtMost(Minus(x, z), Minus(y, z))
<1> DEFINE a == x.n
           b == x.d
           c == y.n
           e == y.d
           f == z.n
           g == z.d
<1>1. a \in Int /\ b \in Nat \ {0} /\ c \in Int /\ e \in Nat \ {0} /\ f \in Int /\ g \in Nat \ {0}
  BY DEF InLowestTerms
<1>2. Minus(x, z) = Ratio(a * g - f * b, b * g) /\ Minus(y, z) = Ratio(c * g - f * e, e * g)
  BY DEF Minus
<1>3. a * e <= c * b
  BY DEF AtMost
<1> HIDE DEF a, b, c, e, f, g
<1>4. a * g - f * b \in Int /\ b * g \in Nat \ {0} /\ c * g - f * e \in Int /\ e * g \in Nat \ {0}
  BY <1>1
<1>5. AtMost(Minus(x, z), Minus(y, z)) <=> (a * g - f * b) * (e * g) <= (c * g - f * e) * (b * g)
  BY <1>2, <1>4, AtMostRatio
<1>6. (a * g - f * b) * (e * g) = (a * e) * (g * g) - (f * g) * (b * e)
      /\ (c * g - f * e) * (b * g) = (c * b) * (g * g) - (f * g) * (b * e)
  BY <1>1
<1>7. (a * e) * (g * g) <= (c * b) * (g * g)
  <2>1. g * g \in Nat \ {0} /\ a * e \in Int /\ c * b \in Int
    BY <1>1
  <2> DEFINE s == g * g
             t == a * e
             u == c * b
  <2> HIDE DEF s, t, u
  <2>2. t * s <= u * s
    BY <1>3, <2>1, ProductOrder DEF s, t, u
  <2>3. QED
    BY <2>2 DEF s, t, u
<1>8. (a * e) * (g * g) \in Int /\ (c * b) * (g * g) \in Int /\ (f * g) * (b * e) \in Int
  <2>1. a * e \in Int /\ g * g \in Int /\ c * b \in Int /\ f * g \in Int /\ b * e \in Int
    BY <1>1
  <2>2. QED
    BY <2>1
<1>9. QED
  <2> DEFINE p == (a * e) * (g * g)
             q == (c * b) * (g * g)
             r == (f * g) * (b * e)
  <2>1. p \in Int /\ q \in Int /\ r \in Int /\ p <= q
    BY <1>7, <1>8
  <2>2. (a * g - f * b) * (e * g) = p - r /\ (c * g - f * e) * (b * g) = q - r
    BY <1>6
  <2> HIDE DEF p, q, r
  <2>3. p - r <= q - r
    BY <2>1
  <2>4. QED
    BY <1>5, <2>2, <2>3

\* What is left of a difference from zero says how two values compare.
LEMMA MinusSign ==
    ASSUME NEW x, NEW y, InLowestTerms(x), InLowestTerms(y)
    PROVE  /\ Minus(x, y).n > 0 <=> ~AtMost(x, y)
           /\ Minus(x, y).n < 0 <=> ~AtMost(y, x)
           /\ Minus(x, y).n >= 0 <=> AtMost(y, x)
           /\ Minus(x, y).n <= 0 <=> AtMost(x, y)
           /\ Minus(x, y).n = 0 <=> x = y
<1> DEFINE p == x.n * y.d
           q == y.n * x.d
           b == x.d * y.d
           m == Minus(x, y)
           t == p - q
<1>1. x.n \in Int /\ x.d \in Nat \ {0} /\ y.n \in Int /\ y.d \in Nat \ {0}
  BY DEF InLowestTerms
<1>2. p \in Int /\ q \in Int /\ b \in Nat \ {0} /\ t \in Int
  BY <1>1
<1>3. m = Ratio(t, b)
  BY DEF Minus
<1>4. AtMost(x, y) <=> p <= q
  BY DEF AtMost
<1>5. AtMost(y, x) <=> q <= p
  BY DEF AtMost
<1>6. p = q => x = y
  BY LowestTermsUnique
<1>7. x = y => p = q
  OBVIOUS
<1> HIDE DEF p, q, b, m
<1>8. m.n \in Int /\ (t > 0 <=> m.n > 0) /\ (t >= 0 <=> m.n >= 0)
  <2> HIDE DEF t
  <2>1. InLowestTerms(m)
    BY <1>2, <1>3, RatioReduces
  <2>2. m.n \in Int
    BY <2>1 DEF InLowestTerms
  <2>3. Positive(m) <=> t > 0
    BY <1>2, <1>3, RatioOperations
  <2>4. AtMost(Whole(0), m) <=> t >= 0
    BY <1>2, <1>3, RatioOperations
  <2>5. AtMost(Whole(0), m) <=> m.n >= 0
    <3>1. AtMost(Whole(0), m) <=> 0 * m.d <= m.n * 1
      BY DEF AtMost, Whole
    <3>2. m.d \in Int
      BY <2>1 DEF InLowestTerms
    <3>3. 0 * m.d = 0 /\ m.n * 1 = m.n
      BY <2>2, <3>2
    <3>4. QED
      BY <3>1, <3>3
  <2>6. QED
    BY <2>2, <2>3, <2>4, <2>5 DEF Positive
<1>9. t > 0 <=> ~(p <= q)
  BY <1>2
<1>10. t >= 0 <=> q <= p
  BY <1>2
<1>11. QED
  BY <1>2, <1>4, <1>5, <1>6, <1>7, <1>8, <1>9, <1>10 DEF m

\* What a positive value is divided by: more leaves less.
LEMMA OverOrder ==
    ASSUME NEW x, NEW y, NEW z, InLowestTerms(x), InLowestTerms(y), InLowestTerms(z),
           x.n > 0, y.n > 0, z.n > 0, AtMost(x, y)
    PROVE  AtMost(Over(z, y), Over(z, x)) /\ InLowestTerms(Over(z, x)) /\ InLowestTerms(Over(z, y))
           /\ Over(z, x).n > 0
<1> DEFINE a == x.n
           b == x.d
           c == y.n
           e == y.d
           f == z.n
           g == z.d
<1>1. /\ a \in Nat \ {0} /\ b \in Nat \ {0} /\ c \in Nat \ {0} /\ e \in Nat \ {0}
      /\ f \in Nat \ {0} /\ g \in Nat \ {0}
  BY DEF InLowestTerms
<1>2. Over(z, x) = Ratio(f * b, g * a) /\ Over(z, y) = Ratio(f * e, g * c)
  BY DEF Over
<1>3. a * e <= c * b
  BY DEF AtMost
<1> HIDE DEF a, b, c, e, f, g
<1>4. f * b \in Nat \ {0} /\ g * a \in Nat \ {0} /\ f * e \in Nat \ {0} /\ g * c \in Nat \ {0}
      /\ f * b \in Int /\ f * e \in Int /\ f * b > 0
  BY <1>1
<1>5. AtMost(Over(z, y), Over(z, x)) <=> (f * e) * (g * a) <= (f * b) * (g * c)
  BY <1>2, <1>4, AtMostRatio
<1>6. (f * e) * (g * a) = (a * e) * (f * g) /\ (f * b) * (g * c) = (c * b) * (f * g)
  BY <1>1
<1>7. (a * e) * (f * g) <= (c * b) * (f * g)
  <2> DEFINE s == f * g
             t == a * e
             u == c * b
  <2>1. s \in Nat \ {0} /\ t \in Int /\ u \in Int
    BY <1>1
  <2> HIDE DEF s, t, u
  <2>2. t * s <= u * s
    BY <1>3, <2>1, ProductOrder DEF s, t, u
  <2>3. QED
    BY <2>2 DEF s, t, u
<1>8. Over(z, x).n > 0
  <2> DEFINE p == f * b
             q == g * a
  <2>1. p \in Int /\ q \in Nat \ {0} /\ p > 0 /\ Over(z, x) = Ratio(p, q)
    BY <1>2, <1>4
  <2> HIDE DEF p, q
  <2>2. Positive(Ratio(p, q))
    BY <2>1, RatioOperations
  <2>3. QED
    BY <2>1, <2>2 DEF Positive
<1>9. InLowestTerms(Over(z, x)) /\ InLowestTerms(Over(z, y))
  BY <1>2, <1>4, RatioReduces
<1>10. QED
  BY <1>5, <1>6, <1>7, <1>8, <1>9

-----------------------------------------------------------------------------
\* Folds

\* A function that takes the step H from value to value, over 1 .. n.
Iterates(n, z, H, f) == f[0] = z /\ \A i \in 1 .. n : f[i] = H[<<i, f[i - 1]>>]

\* An iteration of n steps has a solution.
LEMMA Iterated ==
    ASSUME NEW n \in Nat, NEW T, NEW z \in T, NEW H \in [(1 .. n) \X T -> T]
    PROVE  \E f \in [0 .. n -> T] : Iterates(n, z, H, f)
<1> DEFINE D == 0 .. n
           base == {0}
           B == [i \in D |-> z]
           down == [i \in D |-> IF i = 0 THEN 0 ELSE i - 1]
           G == [p \in D \X T |-> IF p[1] = 0 THEN z ELSE H[p]]
           m == [i \in D |-> i]
<1>1. PICK f \in [D -> T] : \A i \in D : Recurs(base, B, G, down, f, i)
  <2>1. B \in [D -> T] /\ down \in [D -> D] /\ m \in [D -> Nat]
    OBVIOUS
  <2>2. G \in [D \X T -> T]
    <3>1. ASSUME NEW p \in D \X T, p[1] # 0 PROVE H[p] \in T
      <4>1. p \in (1 .. n) \X T
        BY <3>1
      <4>2. QED
        BY <4>1
    <3>2. QED
      BY <3>1
  <2>3. \A i \in D : i \notin base => m[down[i]] < m[i]
    OBVIOUS
  <2> HIDE DEF D, base, B, down, G, m
  <2>4. QED
    BY <2>1, <2>2, <2>3, RecursionExists, ZenonT(30)
<1>2. f[0] = z
  <2>1. 0 \in D
    OBVIOUS
  <2>2. QED
    BY <1>1, <2>1 DEF Recurs
<1>3. ASSUME NEW i \in 1 .. n PROVE f[i] = H[<<i, f[i - 1]>>]
  <2>1. i \in D /\ i \notin base /\ i - 1 \in D /\ down[i] = i - 1 /\ i # 0
    OBVIOUS
  <2>2. f[i - 1] \in T
    BY <1>1, <2>1
  <2>3. Recurs(base, B, G, down, f, i)
    BY <1>1, <2>1
  <2>4. f[i] = G[<<i, f[i - 1]>>]
    <3> HIDE DEF D, base, B, down, G, m
    <3> QED
      BY <2>1, <2>3 DEF Recurs
  <2>5. QED
    BY <2>1, <2>2, <2>4
<1>4. Iterates(n, z, H, f)
  BY <1>2, <1>3 DEF Iterates
<1>5. QED
  BY <1>1, <1>4

-----------------------------------------------------------------------------
\* Values in lowest terms

Numbers == {x \in Fraction : InLowestTerms(x)}

\* The numbers are the fractions in lowest terms.
LEMMA NumberIs ==
    ASSUME NEW x
    PROVE  x \in Numbers <=> InLowestTerms(x)
  BY DEF Numbers, InLowestTerms, Fraction

\* Rounded operations stay among them.
LEMMA OperationsClosed ==
    ASSUME NEW x, NEW y, InLowestTerms(x), InLowestTerms(y)
    PROVE  /\ InLowestTerms(Sum(x, y)) /\ InLowestTerms(Difference(x, y))
           /\ InLowestTerms(Product(x, y))
           /\ y.n > 0 => InLowestTerms(Over(x, y)) /\ InLowestTerms(Quotient(x, y))
<1>1. InLowestTerms(Plus(x, y)) /\ InLowestTerms(Minus(x, y)) /\ InLowestTerms(Times(x, y))
  BY Closed
<1>2. ASSUME y.n > 0 PROVE InLowestTerms(Over(x, y)) /\ Quotient(x, y) = Rounded(Over(x, y))
  <2>1. Positive(y) /\ y.n \in Int
    BY <1>2 DEF Positive, InLowestTerms
  <2>2. InLowestTerms(Over(x, y))
    BY <2>1, Closed
  <2>3. ~(y.n < 0)
    BY <1>2, <2>1
  <2>4. QED
    BY <2>2, <2>3 DEF Quotient
<1>3. QED
  BY <1>1, <1>2, RoundedIs DEF Sum, Difference, Product

\* A sum of values that are not negative.
LEMMA SumSign ==
    ASSUME NEW x, NEW y, InLowestTerms(x), InLowestTerms(y), x.n >= 0, y.n >= 0
    PROVE  Sum(x, y).n >= 0 /\ (Sum(x, y).n = 0 <=> x.n = 0 /\ y.n = 0)
<1> DEFINE a == x.n
           b == x.d
           c == y.n
           e == y.d
           p == a * e + c * b
           q == b * e
<1>1. a \in Nat /\ b \in Nat \ {0} /\ c \in Nat /\ e \in Nat \ {0}
  BY DEF InLowestTerms
<1>2. Plus(x, y) = Ratio(p, q)
  BY DEF Plus
<1>3. a * e \in Nat /\ c * b \in Nat /\ p \in Nat /\ q \in Nat \ {0}
      /\ (p = 0 <=> a = 0 /\ c = 0)
  <2> HIDE DEF a, b, c, e
  <2>1. a * e \in Nat /\ c * b \in Nat /\ (a * e = 0 <=> a = 0) /\ (c * b = 0 <=> c = 0)
        /\ q \in Nat \ {0}
    BY <1>1
  <2>2. QED
    BY <2>1
<1>4. InLowestTerms(Plus(x, y))
  BY Closed
<1>5. Plus(x, y).n \in Int /\ (Plus(x, y).n > 0 <=> p > 0) /\ Plus(x, y).n >= 0
  <2> DEFINE s == Plus(x, y)
  <2>1. s.n \in Int /\ s.d \in Nat \ {0}
    BY <1>4 DEF InLowestTerms
  <2> HIDE DEF p, q
  <2>2. s.n * q = p * s.d
    BY <1>2, <1>3, RatioReduces
  <2> HIDE DEF s
  <2>3. p * s.d \in Nat /\ (p * s.d = 0 <=> p = 0)
    BY <1>3, <2>1
  <2>4. (s.n < 0 => s.n * q < 0) /\ (s.n = 0 <=> s.n * q = 0)
    BY <1>3, <2>1
  <2>5. QED
    BY <1>3, <2>1, <2>2, <2>3, <2>4 DEF s
<1> DEFINE s == Plus(x, y)
           r == Rounded(s)
<1>6. r.n \in Int /\ (s.n > 0 <=> r.n > 0) /\ (s.n = 0 <=> r.n = 0)
  <2>1. InLowestTerms(r) /\ (s.n > 0 <=> r.n > 0) /\ (s.n = 0 <=> r.n = 0)
    BY <1>4, RoundedIs
  <2>2. QED
    BY <2>1 DEF InLowestTerms
<1>7. Sum(x, y) = r
  BY DEF Sum
<1>8. QED
  <2> HIDE DEF s, r, p, a, c
  <2>1. s.n \in Int /\ (s.n > 0 <=> p > 0) /\ s.n >= 0
    BY <1>5 DEF s
  <2>2. r.n >= 0 /\ (r.n = 0 <=> a = 0 /\ c = 0)
    BY <1>3, <1>6, <2>1
  <2>3. QED
    BY <1>7, <2>2 DEF a, c

-----------------------------------------------------------------------------
\* Sums

Sums(v, n, f) == f = [i \in 0 .. n |-> IF i = 0 THEN Whole(0) ELSE Sum(f[i - 1], v[i])]

\* The running sums exist.
LEMMA SumsExist ==
    ASSUME NEW v, NEW n \in Nat, \A i \in 1 .. n : InLowestTerms(v[i])
    PROVE  \E f : Sums(v, n, f)
<1> DEFINE H == [p \in (1 .. n) \X Numbers |-> Sum(p[2], v[p[1]])]
           z == Whole(0)
<1>1. z \in Numbers
  BY WholeFacts, NumberIs
<1>2. H \in [(1 .. n) \X Numbers -> Numbers]
  <2>1. ASSUME NEW p \in (1 .. n) \X Numbers PROVE Sum(p[2], v[p[1]]) \in Numbers
    <3>1. p[1] \in 1 .. n /\ p[2] \in Numbers
      OBVIOUS
    <3>2. InLowestTerms(p[2]) /\ InLowestTerms(v[p[1]])
      BY <3>1, NumberIs
    <3>3. QED
      BY <3>2, OperationsClosed, NumberIs
  <2>2. QED
    BY <2>1
<1>3. PICK f \in [0 .. n -> Numbers] : Iterates(n, z, H, f)
  <2> HIDE DEF H, z
  <2> QED
    BY <1>1, <1>2, Iterated, ZenonT(30)
<1>0. f[0] = z /\ \A i \in 1 .. n : f[i] = H[<<i, f[i - 1]>>]
  <2> HIDE DEF H, z
  <2> QED
    BY <1>3 DEF Iterates
<1>4. ASSUME NEW i \in 0 .. n PROVE f[i] = IF i = 0 THEN Whole(0) ELSE Sum(f[i - 1], v[i])
  <2>1. CASE i = 0
    BY <1>0, <2>1
  <2>2. CASE i # 0
    <3>1. i \in 1 .. n /\ i - 1 \in 0 .. n
      BY <2>2
    <3>2. f[i - 1] \in Numbers /\ f[i] = H[<<i, f[i - 1]>>]
      BY <1>0, <1>3, <3>1
    <3>3. QED
      BY <2>2, <3>1, <3>2
  <2>3. QED
    BY <2>1, <2>2
<1>5. f = [i \in 0 .. n |-> IF i = 0 THEN Whole(0) ELSE Sum(f[i - 1], v[i])]
  BY <1>4
<1>6. QED
  BY <1>5 DEF Sums

\* A total is the last running sum.
LEMMA TotalIs ==
    ASSUME NEW v, Len(v) \in Nat, \A i \in 1 .. Len(v) : InLowestTerms(v[i])
    PROVE  \E f : Sums(v, Len(v), f) /\ Total(v) = f[Len(v)]
<1> DEFINE f == CHOOSE g : Sums(v, Len(v), g)
<1>1. Sums(v, Len(v), f)
  BY SumsExist
<1>2. Total(v) = f[Len(v)]
  BY DEF Total, Sums
<1>3. QED
  BY <1>1, <1>2

\* A total is in lowest terms; one of values that are not negative is zero only
\* if each of them is.
LEMMA TotalFacts ==
    ASSUME NEW v, Len(v) \in Nat, \A i \in 1 .. Len(v) : InLowestTerms(v[i])
    PROVE  /\ InLowestTerms(Total(v))
           /\ (\A i \in 1 .. Len(v) : v[i].n >= 0)
                => /\ Total(v).n >= 0
                   /\ Total(v).n = 0 <=> \A i \in 1 .. Len(v) : v[i].n = 0
<1> DEFINE n == Len(v)
<1>1. PICK f : Sums(v, n, f) /\ Total(v) = f[n]
  BY TotalIs
<1>2. n \in Nat
  OBVIOUS
<1> HIDE DEF n
<1>3. f[0] = Whole(0) /\ \A i \in 1 .. n : f[i] = Sum(f[i - 1], v[i])
  <2>1. \A i \in 0 .. n : f[i] = IF i = 0 THEN Whole(0) ELSE Sum(f[i - 1], v[i])
    BY <1>1 DEF Sums
  <2>2. 0 \in 0 .. n
    BY <1>2
  <2>3. ASSUME NEW i \in 1 .. n PROVE f[i] = Sum(f[i - 1], v[i])
    <3>1. i \in 0 .. n /\ i # 0
      BY <1>2
    <3>2. QED
      BY <2>1, <3>1
  <2>4. QED
    BY <2>1, <2>2, <2>3
<1> DEFINE Zeros(i) == \A j \in 1 .. i : v[j].n = 0
           Good(i) == /\ InLowestTerms(f[i])
                      /\ (\A j \in 1 .. n : v[j].n >= 0) => f[i].n >= 0 /\ (f[i].n = 0 <=> Zeros(i))
<1>4. Good(0)
  <2>1. InLowestTerms(Whole(0)) /\ Whole(0).n = 0
    BY WholeFacts
  <2>2. QED
    BY <1>3, <2>1
<1>5. ASSUME NEW i \in 1 .. n, Good(i - 1) PROVE Good(i)
  <2>1. f[i] = Sum(f[i - 1], v[i]) /\ InLowestTerms(v[i]) /\ InLowestTerms(f[i - 1])
    BY <1>3, <1>5 DEF n
  <2>2. InLowestTerms(f[i])
    BY <2>1, OperationsClosed
  <2>3. Zeros(i) <=> Zeros(i - 1) /\ v[i].n = 0
    <3>1. \A j \in 1 .. i : j = i \/ j \in 1 .. i - 1
      BY <1>2
    <3>2. i \in 1 .. i /\ \A j \in 1 .. i - 1 : j \in 1 .. i
      BY <1>2
    <3>3. QED
      BY <3>1, <3>2
  <2>4. ASSUME \A j \in 1 .. n : v[j].n >= 0
        PROVE  f[i].n >= 0 /\ (f[i].n = 0 <=> Zeros(i))
    <3>1. f[i - 1].n >= 0 /\ (f[i - 1].n = 0 <=> Zeros(i - 1)) /\ v[i].n >= 0
      BY <1>5, <2>4
    <3> HIDE DEF Zeros
    <3>2. QED
      BY <2>1, <2>3, <3>1, SumSign
  <2>5. QED
    BY <2>2, <2>4
<1>6. Good(n)
  <2> DEFINE S == {i \in Nat : i <= n /\ ~Good(i)}
  <2> HIDE DEF Good
  <2>1. SUFFICES ASSUME S # {} PROVE FALSE
    BY <1>2
  <2>2. PICK i \in S : \A j \in S : i <= j
    <3> S \subseteq Nat
      OBVIOUS
    <3> HIDE DEF S
    <3> QED
      BY <2>1, LeastNumber
  <2>3. i \in Nat /\ i <= n /\ ~Good(i) /\ i # 0
    BY <1>4, <2>2
  <2>4. i - 1 \in Nat /\ i - 1 \notin S /\ i \in 1 .. n /\ i - 1 <= n
    <3>1. i - 1 \in Nat /\ ~(i <= i - 1)
      BY <2>3
    <3> HIDE DEF S
    <3> QED
      BY <1>2, <2>2, <2>3, <3>1
  <2>5. Good(i - 1)
    BY <2>4
  <2>6. QED
    BY <1>5, <2>3, <2>4, <2>5
<1>7. QED
  BY <1>1, <1>6 DEF n

-----------------------------------------------------------------------------
\* Powers

Powers(x, f) == f = [k \in Nat |-> IF k = 0 THEN Whole(1) ELSE Times(f[k - 1], x)]

\* The powers exist.
LEMMA PowersExist == ASSUME NEW x, InLowestTerms(x) PROVE \E f : Powers(x, f)
<1> DEFINE base == {0}
           B == [k \in Nat |-> Whole(1)]
           down == [k \in Nat |-> IF k = 0 THEN 0 ELSE k - 1]
           H == [p \in Nat \X Numbers |-> Times(p[2], x)]
           m == [k \in Nat |-> k]
<1>1. PICK f \in [Nat -> Numbers] : \A k \in Nat : Recurs(base, B, H, down, f, k)
  <2>1. Whole(1) \in Numbers
    BY WholeFacts, NumberIs
  <2>2. B \in [Nat -> Numbers] /\ down \in [Nat -> Nat] /\ m \in [Nat -> Nat]
    BY <2>1
  <2>3. H \in [Nat \X Numbers -> Numbers]
    <3>1. ASSUME NEW p \in Nat \X Numbers PROVE Times(p[2], x) \in Numbers
      <4>1. InLowestTerms(p[2])
        BY NumberIs
      <4>2. QED
        BY <4>1, Closed, NumberIs
    <3>2. QED
      BY <3>1
  <2>4. \A k \in Nat : k \notin base => m[down[k]] < m[k]
    OBVIOUS
  <2> HIDE DEF base, B, down, H, m
  <2>5. QED
    BY <2>2, <2>3, <2>4, RecursionExists, ZenonT(30)
<1>2. ASSUME NEW k \in Nat PROVE f[k] = IF k = 0 THEN Whole(1) ELSE Times(f[k - 1], x)
  <2>1. Recurs(base, B, H, down, f, k)
    BY <1>1
  <2>2. CASE k = 0
    BY <2>1, <2>2 DEF Recurs
  <2>3. CASE k # 0
    <3>1. k - 1 \in Nat /\ down[k] = k - 1 /\ f[k - 1] \in Numbers
      BY <1>1, <2>3
    <3>2. f[k] = H[<<k, f[k - 1]>>]
      BY <2>1, <2>3, <3>1 DEF Recurs
    <3>3. QED
      BY <2>3, <3>1, <3>2
  <2>4. QED
    BY <2>2, <2>3
<1>3. f = [k \in Nat |-> IF k = 0 THEN Whole(1) ELSE Times(f[k - 1], x)]
  BY <1>1, <1>2
<1>4. QED
  BY <1>3 DEF Powers

\* A power is a rounded one of them.
LEMMA PowerIs ==
    ASSUME NEW x, InLowestTerms(x), NEW e \in Nat
    PROVE  \E f : Powers(x, f) /\ Power(x, e) = Rounded(f[e])
<1> DEFINE f == CHOOSE g : Powers(x, g)
<1>1. Powers(x, f)
  BY PowersExist
<1>2. Power(x, e) = Rounded(f[e])
  BY DEF Power, Powers
<1>3. QED
  BY <1>1, <1>2

\* On which side of one a value is.
LEMMA SideOfOne ==
    ASSUME NEW x, InLowestTerms(x)
    PROVE  /\ AtMost(Whole(1), x) <=> x.d <= x.n
           /\ AtMost(x, Whole(1)) <=> x.n <= x.d
<1>1. x.n \in Int /\ x.d \in Int
  BY DEF InLowestTerms
<1>2. x.n * 1 = x.n /\ 1 * x.d = x.d
  BY <1>1
<1>3. QED
  BY <1>2 DEF AtMost, Whole

\* A product is on the side of one of its factors.
LEMMA TimesSide ==
    ASSUME NEW x, NEW y, InLowestTerms(x), InLowestTerms(y), x.n >= 0, y.n >= 0
    PROVE  /\ InLowestTerms(Times(x, y)) /\ Times(x, y).n >= 0
           /\ AtMost(Whole(1), x) /\ AtMost(Whole(1), y) => AtMost(Whole(1), Times(x, y))
           /\ AtMost(x, Whole(1)) /\ AtMost(y, Whole(1)) => AtMost(Times(x, y), Whole(1))
<1> DEFINE a == x.n
           b == x.d
           c == y.n
           e == y.d
           p == a * c
           q == b * e
           r == Times(x, y)
<1>1. a \in Nat /\ b \in Nat \ {0} /\ c \in Nat /\ e \in Nat \ {0}
  BY DEF InLowestTerms
<1>2. r = Ratio(p, q)
  BY DEF Times
<1>3. p \in Nat /\ q \in Nat \ {0}
  <2> HIDE DEF a, b, c, e
  <2> QED
    BY <1>1
<1>4. Whole(1) = Ratio(1, 1)
  BY WholeIsRatio
<1>5. /\ AtMost(Whole(1), x) <=> b <= a
      /\ AtMost(x, Whole(1)) <=> a <= b
      /\ AtMost(Whole(1), y) <=> e <= c
      /\ AtMost(y, Whole(1)) <=> c <= e
  BY SideOfOne
<1> HIDE DEF a, b, c, e, r
<1>6. /\ AtMost(Whole(1), r) <=> q <= p
      /\ AtMost(r, Whole(1)) <=> p <= q
      /\ InLowestTerms(r)
  <2> HIDE DEF p, q
  <2>1. AtMost(Whole(1), r) <=> 1 * q <= p * 1
    BY <1>2, <1>3, <1>4, AtMostRatio
  <2>2. AtMost(r, Whole(1)) <=> p * 1 <= 1 * q
    BY <1>2, <1>3, <1>4, AtMostRatio
  <2>3. QED
    BY <1>2, <1>3, <2>1, <2>2, RatioReduces
<1>7. r.n >= 0
  <2> HIDE DEF p, q
  <2>1. r.n \in Int /\ r.d \in Nat \ {0}
    BY <1>6 DEF InLowestTerms
  <2>2. r.n * q = p * r.d
    BY <1>2, <1>3, RatioReduces
  <2>3. p * r.d \in Nat /\ (r.n < 0 => r.n * q < 0)
    BY <1>3, <2>1
  <2>4. QED
    BY <2>1, <2>2, <2>3
<1>8. ASSUME b <= a, e <= c PROVE q <= p
  <2>1. b * e <= a * e
    BY <1>1, <1>8, ProductOrder
  <2>2. e * a <= c * a
    <3>1. CASE a = 0
      BY <1>1, <1>8, <3>1
    <3>2. CASE a # 0
      BY <1>1, <1>8, <3>2, ProductOrder
    <3>3. QED
      BY <3>1, <3>2
  <2>3. e * a = a * e /\ c * a = a * c /\ a * e \in Nat
    BY <1>1
  <2>4. QED
    BY <1>3, <2>1, <2>2, <2>3
<1>9. ASSUME a <= b, c <= e PROVE p <= q
  <2>1. a * e <= b * e
    BY <1>1, <1>9, ProductOrder
  <2>2. c * a <= e * a
    <3>1. CASE a = 0
      BY <1>1, <1>9, <3>1
    <3>2. CASE a # 0
      BY <1>1, <1>9, <3>2, ProductOrder
    <3>3. QED
      BY <3>1, <3>2
  <2>3. e * a = a * e /\ c * a = a * c /\ a * e \in Nat
    BY <1>1
  <2>4. QED
    BY <1>3, <2>1, <2>2, <2>3
<1>10. QED
  BY <1>5, <1>6, <1>7, <1>8, <1>9 DEF r

\* A power is on the side of one of what is raised.
LEMMA PowerSide ==
    ASSUME NEW x, InLowestTerms(x), x.n >= 0, NEW e \in Nat
    PROVE  /\ InLowestTerms(Power(x, e))
           /\ AtMost(Whole(1), x) => AtMost(Whole(1), Power(x, e))
           /\ AtMost(x, Whole(1)) => AtMost(Power(x, e), Whole(1))
<1>1. PICK f : Powers(x, f) /\ Power(x, e) = Rounded(f[e])
  BY PowerIs
<1>2. \A k \in Nat : f[k] = IF k = 0 THEN Whole(1) ELSE Times(f[k - 1], x)
  BY <1>1 DEF Powers
<1> DEFINE Good(k) == /\ InLowestTerms(f[k]) /\ f[k].n >= 0
                      /\ AtMost(Whole(1), x) => AtMost(Whole(1), f[k])
                      /\ AtMost(x, Whole(1)) => AtMost(f[k], Whole(1))
<1>3. Good(0)
  <2>1. f[0] = Whole(1)
    BY <1>2
  <2>2. InLowestTerms(Whole(1)) /\ Whole(1).n >= 0
    BY WholeFacts
  <2>3. QED
    BY <2>1, <2>2, OrderLaws
<1>4. ASSUME NEW k \in Nat, k # 0, Good(k - 1) PROVE Good(k)
  <2>1. f[k] = Times(f[k - 1], x)
    BY <1>2, <1>4
  <2>2. QED
    BY <1>4, <2>1, TimesSide
<1>5. Good(e)
  <2> DEFINE S == {k \in Nat : ~Good(k)}
  <2> HIDE DEF Good
  <2>1. SUFFICES ASSUME S # {} PROVE FALSE
    OBVIOUS
  <2>2. PICK k \in S : \A j \in S : k <= j
    <3> S \subseteq Nat
      OBVIOUS
    <3> HIDE DEF S
    <3> QED
      BY <2>1, LeastNumber
  <2>3. k \in Nat /\ ~Good(k) /\ k # 0
    BY <1>3, <2>2
  <2>4. k - 1 \in Nat /\ k - 1 \notin S
    <3>1. k - 1 \in Nat /\ ~(k <= k - 1)
      BY <2>3
    <3> HIDE DEF S
    <3> QED
      BY <2>2, <3>1
  <2>5. Good(k - 1)
    BY <2>4
  <2>6. QED
    BY <1>4, <2>3, <2>5
<1>6. InLowestTerms(Whole(1))
  BY WholeFacts
<1>7. QED
  BY <1>1, <1>5, <1>6, RoundedIs, RoundedOrder, RoundedWhole

\* A square is not negative, and zero only for zero.
LEMMA SquareIs ==
    ASSUME NEW x, InLowestTerms(x)
    PROVE  InLowestTerms(Power(x, 2)) /\ Power(x, 2).n >= 0 /\ (Power(x, 2).n = 0 <=> x.n = 0)
<1> DEFINE a == x.n
           b == x.d
           p == a * a
           q == b * b
           y == Times(x, x)
<1>1. PICK f : Powers(x, f) /\ Power(x, 2) = Rounded(f[2])
  BY PowerIs
<1>2. \A k \in Nat : f[k] = IF k = 0 THEN Whole(1) ELSE Times(f[k - 1], x)
  BY <1>1 DEF Powers
<1>3. f[2] = y
  <2>1. f[0] = Whole(1) /\ f[1] = Times(f[0], x) /\ f[2] = Times(f[1], x)
    BY <1>2
  <2>2. QED
    BY <2>1, PlusZero
<1>4. a \in Int /\ b \in Nat \ {0} /\ y = Ratio(p, q)
  BY DEF InLowestTerms, Times
<1> HIDE DEF a, b, y
<1>5. p \in Nat /\ q \in Nat \ {0} /\ (p = 0 <=> a = 0)
  BY <1>4
<1> HIDE DEF p, q
<1>6. InLowestTerms(y) /\ y.n * q = p * y.d
  BY <1>4, <1>5, RatioReduces
<1>7. y.n \in Int /\ y.d \in Nat \ {0}
  BY <1>6 DEF InLowestTerms
<1>8. y.n >= 0 /\ (y.n = 0 <=> p = 0)
  <2>1. p * y.d \in Nat /\ (p * y.d = 0 <=> p = 0) /\ (y.n < 0 => y.n * q < 0) /\ (y.n = 0 <=> y.n * q = 0)
    BY <1>5, <1>7
  <2>2. QED
    BY <1>6, <1>7, <2>1
<1>9. Power(x, 2) = Rounded(y)
  BY <1>1, <1>3
<1>10. InLowestTerms(Rounded(y)) /\ Rounded(y).n >= 0 /\ (Rounded(y).n = 0 <=> y.n = 0)
  <2>1. InLowestTerms(Rounded(y)) /\ (y.n > 0 <=> Rounded(y).n > 0) /\ (y.n = 0 <=> Rounded(y).n = 0)
    BY <1>6, RoundedIs
  <2>2. Rounded(y).n \in Int
    BY <2>1 DEF InLowestTerms
  <2>3. QED
    BY <1>7, <1>8, <2>1, <2>2
<1>11. QED
  BY <1>5, <1>8, <1>9, <1>10 DEF a

-----------------------------------------------------------------------------
\* Roots

\* The number that the root is chosen from exists.
LEMMA RootExists ==
    ASSUME NEW n \in Nat, NEW d \in Nat \ {0}, NEW p \in Nat \ {0}, NEW q \in Nat \ {0},
           p * p * d <= n, n < q * q * d
    PROVE  \E r \in p .. q : r * r * d <= n /\ n < (r + 1) * (r + 1) * d
<1> DEFINE S == {s \in Nat : n < s * s * d}
<1>1. q \in S
  OBVIOUS
<1>2. PICK s \in S : \A t \in S : s <= t
  <2> S \subseteq Nat
    OBVIOUS
  <2> HIDE DEF S
  <2> QED
    BY <1>1, LeastNumber
<1>3. s \in Nat /\ n < s * s * d /\ s <= q
  BY <1>1, <1>2
<1>4. p < s
  <2>1. SUFFICES ASSUME s <= p PROVE FALSE
    BY <1>3
  <2>2. s * s <= p * s
    <3>1. CASE s = 0
      BY <3>1
    <3>2. CASE s # 0
      BY <1>3, <2>1, <3>2, ProductOrder
    <3>3. QED
      BY <3>1, <3>2
  <2>3. s * p <= p * p
    BY <1>3, <2>1, ProductOrder
  <2>4. s * s \in Nat /\ p * s = s * p /\ s * p \in Nat /\ p * p \in Nat
    BY <1>3
  <2>5. s * s <= p * p
    BY <2>2, <2>3, <2>4
  <2>6. (s * s) * d <= (p * p) * d
    BY <2>4, <2>5, ProductOrder
  <2>7. (s * s) * d \in Nat /\ (p * p) * d \in Nat
    BY <2>4
  <2>8. QED
    BY <1>3, <2>6, <2>7
<1>5. s - 1 \in Nat /\ s - 1 \notin S /\ s - 1 \in p .. q
  <2>1. s - 1 \in Nat /\ ~(s <= s - 1) /\ s - 1 \in p .. q
    BY <1>3, <1>4
  <2> HIDE DEF S
  <2>2. QED
    BY <1>2, <2>1
<1> DEFINE r == s - 1
<1>6. r \in Nat /\ r \in p .. q /\ ~(n < r * r * d) /\ r + 1 = s
  BY <1>3, <1>5
<1> HIDE DEF r
<1>7. r * r * d \in Nat
  <2>1. r * r \in Nat
    BY <1>6
  <2>2. QED
    BY <2>1
<1>8. r * r * d <= n /\ n < (r + 1) * (r + 1) * d
  BY <1>3, <1>6, <1>7
<1>9. QED
  BY <1>6, <1>8

\* A root is in lowest terms, not negative, and zero only for zero.
LEMMA RootIs ==
    ASSUME NEW x, InLowestTerms(x), x.n >= 0
    PROVE  /\ InLowestTerms(SquareRoot(x)) /\ SquareRoot(x).n >= 0
           /\ SquareRoot(x).n = 0 <=> x.n = 0
<1>1. CASE x.n = 0
  BY <1>1 DEF SquareRoot
<1>2. CASE x.n # 0
  <2> DEFINE s == Scale[x]
             k == (s + Precision) \div 2
             y == ByTen(x, 2 * k)
             u == ByTen(x, s)
             p == Ten[Precision - 1]
             P == Ten[Precision]
             Root(r) == r * r * y.d <= y.n /\ y.n < (r + 1) * (r + 1) * y.d
             c == CHOOSE r \in p .. P : Root(r)
             h == IF 4 * y.n > (2 * c + 1) * (2 * c + 1) * y.d THEN c + 1 ELSE c
  <2>1. SquareRoot(x) = ByTen(Whole(h), -k)
    BY <1>2 DEF SquareRoot
  <2>2. x \in Magnitude /\ x.n > 0 /\ Pair(x)
    <3>1. x.n > 0
      BY <1>2 DEF InLowestTerms
    <3>2. QED
      BY <3>1, LowestIsMagnitude, MagnitudePair
  <2>3. s \in Int /\ Fits(x, s)
    BY <2>2, ScaleFits
  <2>4. p \in Nat \ {0} /\ P \in Nat \ {0} /\ Precision \in Nat \ {0} /\ Precision - 1 \in Nat
    BY Digits
  <2>5. AtMost(Whole(p), u) /\ ~AtMost(Whole(P), u)
    BY <2>3 DEF Fits
  <2> HIDE DEF s
  <2>6. k \in Int /\ -k \in Int /\ 2 * k \in Int /\ s + (Precision - 1) <= 2 * k /\ 2 * k <= s + Precision
    BY <2>3, <2>4
  <2> HIDE DEF k
  <2>7. u \in Magnitude /\ y \in Magnitude /\ Pair(u) /\ InLowestTerms(u) /\ InLowestTerms(y)
    BY <2>2, <2>3, <2>6, MagnitudeMoved, ByTenIs
  <2>8. /\ ByTen(u, Precision - 1) = ByTen(x, s + (Precision - 1))
        /\ ByTen(u, Precision) = ByTen(x, s + Precision)
    BY <2>2, <2>3, <2>4, ByTenAgain
  <2>9. /\ AtMost(ByTen(u, Precision - 1), y)
        /\ AtMost(y, ByTen(u, Precision))
    <3>1. s + (Precision - 1) \in Int /\ s + Precision \in Int
      BY <2>3, <2>4
    <3> HIDE DEF u
    <3>2. QED
      BY <2>2, <2>6, <2>8, <3>1, ByTenGrows
  <2> HIDE DEF u, y
  <2>10. AtMost(Whole(p * p), y)
    <3>1. ByTen(Whole(p), Precision - 1) = Whole(p * p)
      BY <2>4, ByTenWhole
    <3>2. Pair(Whole(p)) /\ InLowestTerms(Whole(p * p)) /\ InLowestTerms(ByTen(u, Precision - 1))
      <4> DEFINE t == p * p
                 l == Precision - 1
      <4>1. t \in Int /\ l \in Int /\ p \in Int
        BY <2>4
      <4> HIDE DEF t, l
      <4>2. InLowestTerms(ByTen(u, l))
        BY <2>7, <4>1, ByTenIs
      <4>3. Pair(Whole(p)) /\ InLowestTerms(Whole(t))
        BY <4>1, WholeFacts
      <4>4. QED
        BY <4>2, <4>3 DEF t, l
    <3>3. AtMost(Whole(p * p), ByTen(u, Precision - 1))
      BY <2>4, <2>5, <2>7, <3>1, <3>2, ByTenOrdered
    <3>4. QED
      BY <2>7, <2>9, <3>2, <3>3, OrderLaws
  <2>11. ~AtMost(Whole(P * P), y)
    <3>1. SUFFICES ASSUME AtMost(Whole(P * P), y) PROVE FALSE
      OBVIOUS
    <3>2. ByTen(Whole(P), Precision) = Whole(P * P)
      BY <2>4, ByTenWhole
    <3> DEFINE v == ByTen(u, Precision)
               w == Whole(P * P)
    <3>3. InLowestTerms(w) /\ Pair(w) /\ InLowestTerms(v) /\ Pair(v) /\ InLowestTerms(Whole(P))
      <4> DEFINE t == P * P
      <4>1. t \in Int /\ Precision \in Int /\ P \in Int
        BY <2>4
      <4>2. InLowestTerms(v) /\ Pair(v)
        BY <2>7, <4>1, ByTenIs
      <4> HIDE DEF t
      <4>3. InLowestTerms(Whole(t)) /\ Pair(Whole(t)) /\ InLowestTerms(Whole(P))
        BY <4>1, WholeFacts
      <4>4. QED
        BY <4>2, <4>3 DEF t
    <3>4. AtMost(w, v)
      <4> HIDE DEF w, v
      <4>1. AtMost(w, y) /\ AtMost(y, v)
        BY <2>9, <3>1 DEF w, v
      <4>2. QED
        BY <2>7, <3>3, <4>1, OrderLaws
    <3>5. ByTen(w, -Precision) = Whole(P) /\ ByTen(v, -Precision) = u /\ -Precision \in Int
      BY <2>4, <2>7, <3>2, <3>3, ByTenBack
    <3> HIDE DEF w, v
    <3>6. AtMost(Whole(P), u)
      BY <3>3, <3>4, <3>5, ByTenOrdered
    <3>7. QED
      BY <2>5, <3>6
  <2>12. y.n \in Nat /\ y.d \in Nat \ {0}
    BY <2>7, MagnitudePair
  <2>13. p * p * y.d <= y.n /\ y.n < P * P * y.d
    <3>1. (p * p) * y.d <= y.n * 1
      BY <2>10 DEF AtMost, Whole
    <3>2. ~((P * P) * y.d <= y.n * 1)
      BY <2>11 DEF AtMost, Whole
    <3>3. p * p \in Nat /\ P * P \in Nat
      BY <2>4
    <3>4. (p * p) * y.d \in Nat /\ (P * P) * y.d \in Nat
      BY <2>12, <3>3
    <3>5. QED
      BY <2>12, <3>1, <3>2, <3>4
  <2>14. \E r \in p .. P : Root(r)
    <3> HIDE DEF p, P
    <3>1. QED
      BY <2>4, <2>12, <2>13, RootExists
  <2>15. c \in p .. P
    <3> HIDE DEF p, P, Root
    <3> QED
      BY <2>14
  <2> HIDE DEF c, p, P
  <2>16. c \in Nat /\ c > 0
    BY <2>4, <2>15
  <2>17. h \in Nat /\ h > 0
    BY <2>16
  <2> HIDE DEF h
  <2>18. Pair(Whole(h)) /\ Whole(h).n > 0
    BY <2>17, WholeFacts
  <2>19. InLowestTerms(ByTen(Whole(h), -k)) /\ ByTen(Whole(h), -k).n > 0
    BY <2>6, <2>18, ByTenIs, ByTenSign
  <2>20. SquareRoot(x).n \in Int
    BY <2>1, <2>19 DEF InLowestTerms
  <2>21. QED
    BY <1>2, <2>1, <2>19, <2>20
<1>3. QED
  BY <1>1, <1>2

-----------------------------------------------------------------------------
\* What the calculators make of an equity list

\* A list of positive equities, one for each of two or more sessions in order.
EquityList(e) ==
    /\ Len(e) \in Nat /\ Len(e) >= 2 /\ DOMAIN e = 1 .. Len(e)
    /\ \A i \in 1 .. Len(e) : /\ InLowestTerms(e[i].equity) /\ e[i].equity.n > 0
                              /\ e[i].observed_on \in Nat
    /\ Ordered(e)

\* Growing by a return leads from one equity to the next.
LEMMA ReturnBack ==
    ASSUME NEW x, NEW y, InLowestTerms(x), InLowestTerms(y), x.n > 0
    PROVE  Times(x, Plus(Whole(1), Minus(Over(y, x), Whole(1)))) = y
<1> DEFINE q == Over(y, x)
           a == q.n
           b == q.d
<1>1. Positive(x)
  BY DEF Positive
<1>2. InLowestTerms(q)
  BY <1>1, Closed
<1>3. a \in Int /\ b \in Nat \ {0} /\ q = Ratio(a, b)
  BY <1>2, LowestTermsIsRatio
<1> HIDE DEF q, a, b
<1>4. Whole(1) = Ratio(1, 1)
  BY WholeIsRatio
<1>5. Minus(q, Whole(1)) = Ratio(a - b, b)
  <2>1. Minus(q, Whole(1)) = Ratio(a * 1 - 1 * b, b * 1)
    BY <1>3, <1>4, MinusRatio
  <2>2. a * 1 - 1 * b = a - b /\ b * 1 = b
    BY <1>3
  <2>3. QED
    BY <2>1, <2>2
<1>6. Plus(Whole(1), Ratio(a - b, b)) = Ratio(a, b)
  <2> DEFINE c == a - b
  <2>1. c \in Int /\ 1 * b + c * 1 = a /\ 1 * b = b
    BY <1>3
  <2> HIDE DEF c
  <2>2. Plus(Ratio(1, 1), Ratio(c, b)) = Ratio(1 * b + c * 1, 1 * b)
    BY <1>3, <2>1, PlusRatio
  <2>3. QED
    BY <1>4, <2>1, <2>2 DEF c
<1>7. Plus(Whole(1), Minus(q, Whole(1))) = q
  BY <1>3, <1>5, <1>6
<1>8. Times(q, x) = y
  BY <1>1, OverUndone DEF q
<1>9. Times(x, q) = Times(q, x)
  <2>1. InLowestTerms(Whole(1))
    BY WholeFacts
  <2>2. QED
    BY <1>2, <2>1, TimesAssociates
<1>10. QED
  BY <1>7, <1>8, <1>9 DEF q

Chain(n, first, rs, f) ==
    f = [i \in 1 .. n |-> IF i = 1 THEN first ELSE Times(f[i - 1], Plus(Whole(1), rs[i - 1]))]

\* The returns chain the first equity to the last.
LEMMA Chained ==
    ASSUME NEW e, EquityList(e)
    PROVE  LET grown == CHOOSE f : Chain(Len(e), e[1].equity, Returns(e), f)
           IN  grown[Len(e)] = Final(e)
<1> DEFINE n == Len(e)
           rs == Returns(e)
           E(i) == e[i].equity
           Step(f) == \A i \in 1 .. n : f[i] = IF i = 1 THEN E(1)
                                               ELSE Times(f[i - 1], Plus(Whole(1), rs[i - 1]))
           h == [i \in 1 .. n |-> E(i)]
           g == CHOOSE f : Chain(n, E(1), rs, f)
<1>1. n \in Nat /\ n >= 2 /\ \A i \in 1 .. n : InLowestTerms(E(i)) /\ E(i).n > 0
  BY DEF EquityList
<1>2. ASSUME NEW i \in 2 .. n
      PROVE  /\ i - 1 \in 1 .. n /\ i \in 1 .. n /\ i # 1
             /\ Times(E(i - 1), Plus(Whole(1), rs[i - 1])) = E(i)
  <2>1. i - 1 \in 1 .. n - 1 /\ i - 1 \in 1 .. n /\ i \in 1 .. n /\ (i - 1) + 1 = i /\ i # 1
    BY <1>1
  <2>2. rs[i - 1] = Minus(Over(E(i), E(i - 1)), Whole(1))
    BY <2>1 DEF Returns, RationalReturn
  <2> HIDE DEF E, rs
  <2>3. InLowestTerms(E(i - 1)) /\ InLowestTerms(E(i)) /\ E(i - 1).n > 0
    BY <1>1, <2>1
  <2>4. QED
    BY <2>1, <2>2, <2>3, ReturnBack
<1> HIDE DEF n, rs, E
<1>3. ASSUME NEW i \in 1 .. n
      PROVE  h[i] = IF i = 1 THEN E(1) ELSE Times(h[i - 1], Plus(Whole(1), rs[i - 1]))
  <2>1. CASE i = 1
    BY <1>1, <2>1
  <2>2. CASE i # 1
    <3>1. i \in 2 .. n
      BY <1>1, <2>2
    <3>2. QED
      BY <1>2, <2>2, <3>1
  <2>3. QED
    BY <2>1, <2>2
<1>4. Chain(n, E(1), rs, h)
  BY <1>3 DEF Chain
<1> HIDE DEF h
<1>5. Chain(n, E(1), rs, g)
  BY <1>4
<1> HIDE DEF g
<1>6. \A i \in 1 .. n : g[i] = IF i = 1 THEN E(1) ELSE Times(g[i - 1], Plus(Whole(1), rs[i - 1]))
  BY <1>5 DEF Chain
<1>7. g[n] = E(n)
  <2> DEFINE S == {i \in Nat : i \in 1 .. n /\ g[i] # E(i)}
  <2>1. SUFFICES ASSUME S # {} PROVE FALSE
    <3>1. n \in 1 .. n
      BY <1>1
    <3>2. QED
      BY <1>1, <3>1
  <2>2. PICK i \in S : \A j \in S : i <= j
    <3> S \subseteq Nat
      OBVIOUS
    <3> HIDE DEF S
    <3> QED
      BY <2>1, LeastNumber
  <2>3. i \in 1 .. n /\ g[i] # E(i)
    BY <2>2
  <2>4. i # 1
    BY <1>1, <1>6, <2>3
  <2>5. i \in 2 .. n
    BY <1>1, <2>3, <2>4
  <2>6. i - 1 \in Nat /\ i - 1 \notin S /\ i - 1 \in 1 .. n
    <3>1. i - 1 \in Nat /\ ~(i <= i - 1) /\ i - 1 \in 1 .. n
      BY <1>1, <2>5
    <3> HIDE DEF S
    <3> QED
      BY <2>2, <3>1
  <2>7. g[i - 1] = E(i - 1)
    BY <2>6
  <2>8. g[i] = Times(g[i - 1], Plus(Whole(1), rs[i - 1]))
    BY <1>6, <2>3, <2>4
  <2>9. QED
    BY <1>2, <2>3, <2>5, <2>7, <2>8
<1>8. QED
  BY <1>7 DEF Final, g, n, E, rs

\* Sessions in order: the last is after the first.
LEMMA LastIsLater ==
    ASSUME NEW e, EquityList(e) PROVE Elapsed(e) \in Nat \ {0}
<1> DEFINE n == Len(e)
           S == {i \in Nat : i \in 2 .. n /\ ~(e[1].observed_on < e[i].observed_on)}
<1>1. n \in Nat /\ n >= 2 /\ \A i \in 1 .. n : e[i].observed_on \in Nat
  BY DEF EquityList
<1>2. \A i \in 1 .. n - 1 : e[i].observed_on < e[i + 1].observed_on
  BY DEF EquityList, Ordered
<1> HIDE DEF n
<1>3. SUFFICES ASSUME S # {} PROVE FALSE
  <2>1. 1 \in 1 .. n /\ n \in 2 .. n /\ n \in 1 .. n
    BY <1>1
  <2>2. e[1].observed_on < e[n].observed_on
    BY <1>1, <1>3, <2>1
  <2>3. e[1].observed_on \in Nat /\ e[n].observed_on \in Nat
    BY <1>1, <2>1
  <2>4. QED
    BY <2>2, <2>3 DEF Elapsed, n
<1>4. PICK i \in S : \A j \in S : i <= j
  <2> S \subseteq Nat
    OBVIOUS
  <2> HIDE DEF S
  <2> QED
    BY <1>3, LeastNumber
<1>5. i \in 2 .. n /\ ~(e[1].observed_on < e[i].observed_on)
  BY <1>4
<1>6. i - 1 \in Nat /\ i - 1 \notin S /\ i - 1 \in 1 .. n - 1 /\ (i - 1) + 1 = i
      /\ i - 1 \in 1 .. n /\ i \in 1 .. n /\ 1 \in 1 .. n
  <2>1. i - 1 \in Nat /\ ~(i <= i - 1) /\ i - 1 \in 1 .. n - 1 /\ (i - 1) + 1 = i
        /\ i - 1 \in 1 .. n /\ i \in 1 .. n /\ 1 \in 1 .. n
    BY <1>1, <1>5
  <2> HIDE DEF S
  <2> QED
    BY <1>4, <2>1
<1>7. e[i - 1].observed_on < e[i].observed_on
  BY <1>2, <1>6
<1>8. i - 1 = 1 \/ e[1].observed_on < e[i - 1].observed_on
  <2>1. CASE i - 1 = 1
    BY <2>1
  <2>2. CASE i - 1 # 1
    <3>1. i - 1 \in 2 .. n
      BY <1>6, <2>2
    <3>2. QED
      BY <1>6, <3>1
  <2>3. QED
    BY <2>1, <2>2
<1>9. e[i - 1].observed_on \in Nat /\ e[i].observed_on \in Nat /\ e[1].observed_on \in Nat
  BY <1>1, <1>6
<1>10. QED
  BY <1>5, <1>7, <1>8, <1>9

\* A rounded quotient of positive values, and its rounded excess over one.
LEMMA QuotientIs ==
    ASSUME NEW x, NEW y, InLowestTerms(x), InLowestTerms(y), x.n > 0, y.n > 0
    PROVE  InLowestTerms(Quotient(x, y)) /\ Quotient(x, y).n > 0
           /\ Quotient(x, y) = Rounded(Over(x, y))
<1>1. AtMost(y, y)
  BY OrderLaws
<1>2. InLowestTerms(Over(x, y)) /\ Over(x, y).n > 0
  BY <1>1, OverOrder
<1>3. ~(y.n < 0)
  BY DEF InLowestTerms
<1>4. Quotient(x, y) = Rounded(Over(x, y))
  BY <1>3 DEF Quotient
<1>5. QED
  BY <1>2, <1>4, RoundedIs

\* The rounded excess over one has the sign of the exact one.
LEMMA ExcessSign ==
    ASSUME NEW x, InLowestTerms(x)
    PROVE  LET d == Difference(x, Whole(1))
           IN  /\ InLowestTerms(d) /\ d.n \in Int
               /\ d.n > 0 => AtMost(Whole(1), x)
               /\ d.n < 0 => AtMost(x, Whole(1))
               /\ AtMost(Whole(1), x) => d.n >= 0
               /\ AtMost(x, Whole(1)) => d.n <= 0
<1> DEFINE m == Minus(x, Whole(1))
           d == Rounded(m)
<1>1. InLowestTerms(Whole(1))
  BY WholeFacts
<1>2. InLowestTerms(m)
  BY <1>1, Closed
<1>3. /\ m.n > 0 <=> ~AtMost(x, Whole(1))
      /\ m.n < 0 <=> ~AtMost(Whole(1), x)
      /\ m.n >= 0 <=> AtMost(Whole(1), x)
      /\ m.n <= 0 <=> AtMost(x, Whole(1))
  BY <1>1, MinusSign
<1>4. InLowestTerms(d) /\ (m.n > 0 <=> d.n > 0) /\ (m.n < 0 <=> d.n < 0)
  BY <1>2, RoundedIs
<1>5. Difference(x, Whole(1)) = d
  BY DEF Difference
<1> HIDE DEF m, d
<1>6. m.n \in Int /\ d.n \in Int
  BY <1>2, <1>4 DEF InLowestTerms
<1>7. QED
  BY <1>3, <1>4, <1>5, <1>6

\* The total return and the annual one never differ in sign.
LEMMA SameDirection ==
    ASSUME NEW e, EquityList(e), NEW p, p.days \in Nat \ {0}
    PROVE  LET total == TotalReturn(e).value
               cagr == Cagr(e, p).value
           IN  (total.n > 0 => cagr.n >= 0) /\ (total.n < 0 => cagr.n <= 0)
<1> DEFINE q == Quotient(Final(e), First(e))
           k == Exponent(e, p)
           w == Power(q, k)
<1>1. /\ InLowestTerms(First(e)) /\ First(e).n > 0
      /\ InLowestTerms(Final(e)) /\ Final(e).n > 0
  <2>1. 1 \in 1 .. Len(e) /\ Len(e) \in 1 .. Len(e)
    BY DEF EquityList
  <2>2. QED
    BY <2>1 DEF EquityList, First, Final
<1>2. InLowestTerms(q) /\ q.n > 0
  BY <1>1, QuotientIs
<1>3. k \in Nat
  <2>1. Elapsed(e) \in Nat \ {0}
    BY LastIsLater
  <2>2. \A a \in Nat, b \in Nat \ {0} : a \div b \in Nat
    OBVIOUS
  <2>3. QED
    BY <2>1, <2>2 DEF Exponent
<1>4. Final(e).n # 0
  BY <1>1 DEF InLowestTerms
<1>5. TotalReturn(e).value = Difference(q, Whole(1)) /\ Cagr(e, p).value = Difference(w, Whole(1))
  BY <1>4 DEF TotalReturn, Cagr, Growth, Valid
<1> HIDE DEF q, k
<1>6. q.n >= 0
  BY <1>2 DEF InLowestTerms
<1>7. /\ InLowestTerms(w)
      /\ AtMost(Whole(1), q) => AtMost(Whole(1), w)
      /\ AtMost(q, Whole(1)) => AtMost(w, Whole(1))
  BY <1>2, <1>3, <1>6, PowerSide
<1> HIDE DEF w
<1> DEFINE total == Difference(q, Whole(1))
           cagr == Difference(w, Whole(1))
<1>8. (total.n > 0 => AtMost(Whole(1), q)) /\ (total.n < 0 => AtMost(q, Whole(1)))
  BY <1>2, ExcessSign
<1>9. (AtMost(Whole(1), w) => cagr.n >= 0) /\ (AtMost(w, Whole(1)) => cagr.n <= 0)
  BY <1>7, ExcessSign
<1>10. QED
  BY <1>5, <1>7, <1>8, <1>9

-----------------------------------------------------------------------------
\* The maximum drawdown

Fall(x, z) == Difference(Quotient(z, x), Whole(1))

\* A fall is deeper from a higher start.
LEMMA FallOrder ==
    ASSUME NEW x, NEW y, NEW z, InLowestTerms(x), InLowestTerms(y), InLowestTerms(z),
           x.n > 0, y.n > 0, z.n > 0, AtMost(x, y)
    PROVE  InLowestTerms(Fall(x, z)) /\ InLowestTerms(Fall(y, z)) /\ AtMost(Fall(y, z), Fall(x, z))
<1> DEFINE u == Rounded(Over(z, y))
           v == Rounded(Over(z, x))
           one == Whole(1)
<1>1. InLowestTerms(Over(z, y)) /\ InLowestTerms(Over(z, x)) /\ AtMost(Over(z, y), Over(z, x))
  BY OverOrder
<1>2. InLowestTerms(u) /\ InLowestTerms(v) /\ AtMost(u, v)
  BY <1>1, RoundedIs, RoundedOrder
<1>3. Quotient(z, x) = v /\ Quotient(z, y) = u
  BY QuotientIs
<1>4. InLowestTerms(one)
  BY WholeFacts
<1>5. Fall(x, z) = Rounded(Minus(v, one)) /\ Fall(y, z) = Rounded(Minus(u, one))
  BY <1>3 DEF Fall, Difference
<1> HIDE DEF u, v, one
<1>6. InLowestTerms(Minus(u, one)) /\ InLowestTerms(Minus(v, one)) /\ AtMost(Minus(u, one), Minus(v, one))
  BY <1>2, <1>4, Closed, MinusOrder
<1>7. QED
  BY <1>5, <1>6, RoundedIs, RoundedOrder

\* A positive value over itself is one.
LEMMA OverItself == ASSUME NEW x, InLowestTerms(x), x.n > 0 PROVE Over(x, x) = Whole(1)
<1> DEFINE a == x.n
           b == x.d
           p == a * b
           q == b * a
<1>1. a \in Nat \ {0} /\ b \in Nat \ {0}
  BY DEF InLowestTerms
<1>2. Over(x, x) = Ratio(p, q)
  BY DEF Over
<1> HIDE DEF a, b
<1>3. p \in Int /\ q \in Nat \ {0} /\ p * 1 = 1 * q
  BY <1>1
<1> HIDE DEF p, q
<1>4. Ratio(p, q) = Ratio(1, 1)
  BY <1>3, RatioEqual
<1>5. QED
  BY <1>2, <1>4, WholeIsRatio

\* Nothing falls from itself.
LEMMA NoFall ==
    ASSUME NEW x, InLowestTerms(x), x.n > 0 PROVE Fall(x, x) = Whole(0)
<1>1. Quotient(x, x) = Whole(1)
  BY OverItself, QuotientIs, RoundedWhole
<1>2. Minus(Whole(1), Whole(1)) = Whole(0)
  BY WholeFacts, PlusZero
<1>3. QED
  BY <1>1, <1>2, RoundedWhole DEF Fall, Difference

\* Below is the strict order.
LEMMA BelowIs ==
    ASSUME NEW x, NEW y, InLowestTerms(x), InLowestTerms(y)
    PROVE  Below(x, y) <=> ~AtMost(y, x)
<1>1. x.n * y.d \in Int /\ y.n * x.d \in Int
  <2>1. x.n \in Int /\ y.d \in Int /\ y.n \in Int /\ x.d \in Int
    BY DEF InLowestTerms
  <2>2. QED
    BY <2>1
<1>2. QED
  BY <1>1 DEF Below, AtMost

\* The peak once equity stands at y with x behind it.
PeakOf(x, y) == IF Below(x, y) THEN y ELSE x

Peaks(e, n, f) ==
    f = [i \in 0 .. n |->
            IF i = 0 THEN [peak |-> First(e), worst |-> Whole(0)]
            ELSE Fallen(f[i - 1], IF Below(f[i - 1].peak, e[i].equity) THEN e[i].equity
                                  ELSE f[i - 1].peak, e[i].equity)]

\* The parts of a step of the drawdown.
LEMMA FallenIs ==
    ASSUME NEW before, NEW p, NEW y
    PROVE  /\ Fallen(before, p, y).peak = p
           /\ Fallen(before, p, y).worst = IF Below(Fall(p, y), before.worst) THEN Fall(p, y)
                                           ELSE before.worst
           /\ Fallen(before, p, y) = [peak |-> p, worst |-> Fallen(before, p, y).worst]
  BY DEF Fallen, Fall

\* The running peaks and worst falls exist.
LEMMA PeaksExist ==
    ASSUME NEW e, EquityList(e) PROVE \E f : Peaks(e, Len(e), f)
<1> DEFINE n == Len(e)
           T == {b \in [peak : Numbers, worst : Numbers] : b.peak.n > 0}
           z == [peak |-> First(e), worst |-> Whole(0)]
           H == [p \in (1 .. n) \X T |->
                    Fallen(p[2], PeakOf(p[2].peak, e[p[1]].equity), e[p[1]].equity)]
<1>1. n \in Nat /\ n >= 2 /\ \A i \in 1 .. n : InLowestTerms(e[i].equity) /\ e[i].equity.n > 0
  BY DEF EquityList
<1> HIDE DEF n
<1>2. z \in T
  <2>1. 1 \in 1 .. n
    BY <1>1
  <2>2. InLowestTerms(First(e)) /\ First(e).n > 0
    BY <1>1, <2>1 DEF First
  <2>3. First(e) \in Numbers /\ Whole(0) \in Numbers
    BY <2>2, NumberIs, WholeFacts
  <2>4. z \in [peak : Numbers, worst : Numbers] /\ z.peak = First(e)
    BY <2>3
  <2>5. QED
    BY <2>2, <2>4
<1>3. H \in [(1 .. n) \X T -> T]
  <2>1. ASSUME NEW i \in 1 .. n, NEW b \in T
        PROVE  Fallen(b, PeakOf(b.peak, e[i].equity), e[i].equity) \in T
    <3> DEFINE y == e[i].equity
               p == PeakOf(b.peak, y)
               w == Fallen(b, p, y).worst
    <3>1. InLowestTerms(y) /\ y.n > 0
      BY <1>1
    <3>2. b.peak \in Numbers /\ b.worst \in Numbers /\ b.peak.n > 0
      OBVIOUS
    <3>3. InLowestTerms(b.peak) /\ b.peak.n > 0
      BY <3>2, NumberIs
    <3> HIDE DEF y
    <3>4. InLowestTerms(p) /\ p.n > 0
      BY <3>1, <3>3 DEF PeakOf
    <3> HIDE DEF p
    <3>5. InLowestTerms(Fall(p, y))
      BY <3>1, <3>4, OrderLaws, FallOrder
    <3>6. w \in Numbers /\ p \in Numbers
      BY <3>2, <3>4, <3>5, FallenIs, NumberIs
    <3>7. Fallen(b, p, y) = [peak |-> p, worst |-> w]
      BY FallenIs
    <3> HIDE DEF w
    <3>8. [peak |-> p, worst |-> w] \in T
      BY <3>4, <3>6
    <3>9. QED
      BY <3>7, <3>8 DEF p, y
  <2>2. ASSUME NEW p \in (1 .. n) \X T
        PROVE  Fallen(p[2], PeakOf(p[2].peak, e[p[1]].equity), e[p[1]].equity) \in T
    <3>1. p[1] \in 1 .. n /\ p[2] \in T
      OBVIOUS
    <3> HIDE DEF T
    <3>2. QED
      BY <2>1, <3>1
  <2> HIDE DEF T
  <2>3. QED
    BY <2>2
<1>4. PICK f \in [0 .. n -> T] : Iterates(n, z, H, f)
  <2> HIDE DEF H, z, T
  <2> QED
    BY <1>1, <1>2, <1>3, Iterated, ZenonT(30)
<1>5. f[0] = z /\ \A i \in 1 .. n : f[i] = H[<<i, f[i - 1]>>]
  <2> HIDE DEF H, z, T
  <2> QED
    BY <1>4 DEF Iterates
<1>6. ASSUME NEW i \in 0 .. n
      PROVE  f[i] = IF i = 0 THEN z
                    ELSE Fallen(f[i - 1], PeakOf(f[i - 1].peak, e[i].equity), e[i].equity)
  <2>1. CASE i = 0
    BY <1>5, <2>1
  <2>2. CASE i # 0
    <3>1. i \in 1 .. n /\ i - 1 \in 0 .. n
      BY <1>1, <2>2
    <3>2. f[i - 1] \in T /\ f[i] = H[<<i, f[i - 1]>>]
      BY <1>4, <1>5, <3>1
    <3> HIDE DEF T
    <3>3. H[<<i, f[i - 1]>>] = Fallen(f[i - 1], PeakOf(f[i - 1].peak, e[i].equity), e[i].equity)
      BY <3>1, <3>2
    <3>4. QED
      BY <2>2, <3>2, <3>3
  <2>3. QED
    BY <2>1, <2>2
<1>7. f = [i \in 0 .. n |->
             IF i = 0 THEN z
             ELSE Fallen(f[i - 1], PeakOf(f[i - 1].peak, e[i].equity), e[i].equity)]
  <2> HIDE DEF z, T
  <2> QED
    BY <1>6
<1>8. QED
  BY <1>7 DEF Peaks, PeakOf, n

\* The maximum drawdown is the last worst fall.
LEMMA DrawdownIs ==
    ASSUME NEW e, EquityList(e)
    PROVE  \E f : Peaks(e, Len(e), f) /\ MaximumDrawdown(e).value = f[Len(e)].worst
<1> DEFINE f == CHOOSE g : Peaks(e, Len(e), g)
<1>1. Peaks(e, Len(e), f)
  BY PeaksExist
<1>2. MaximumDrawdown(e) = Valid(f[Len(e)].worst)
  BY DEF MaximumDrawdown, Peaks
<1> HIDE DEF f
<1>3. \A v : Valid(v).value = v
  BY DEF Valid
<1>4. MaximumDrawdown(e).value = f[Len(e)].worst
  BY <1>2, <1>3
<1>5. QED
  BY <1>1, <1>4

\* The maximum drawdown is a fall from a session to a later one, or to itself,
\* and none is deeper.
LEMMA WorstFall ==
    ASSUME NEW e, EquityList(e)
    PROVE  LET worst == MaximumDrawdown(e).value
           IN  /\ \E b \in 1 .. Len(e) : \E a \in 1 .. b : worst = Fall(e[a].equity, e[b].equity)
               /\ \A b \in 1 .. Len(e) : \A a \in 1 .. b :
                    AtMost(worst, Fall(e[a].equity, e[b].equity))
<1> DEFINE n == Len(e)
           E(i) == e[i].equity
<1>1. n \in Nat /\ n >= 2 /\ \A i \in 1 .. n : InLowestTerms(E(i)) /\ E(i).n > 0
  BY DEF EquityList
<1>2. PICK f : Peaks(e, n, f) /\ MaximumDrawdown(e).value = f[n].worst
  BY DrawdownIs
<1>3. \A i \in 0 .. n : f[i] = IF i = 0 THEN [peak |-> First(e), worst |-> Whole(0)]
                               ELSE Fallen(f[i - 1], PeakOf(f[i - 1].peak, E(i)), E(i))
  BY <1>2 DEF Peaks, PeakOf
<1>4. First(e) = E(1)
  BY DEF First
<1> DEFINE Seen(i) == (1 .. i) \cup {1}
           Highest(i) == /\ \E a \in Seen(i) : f[i].peak = E(a)
                         /\ \A a \in Seen(i) : AtMost(E(a), f[i].peak)
           Deepest(i) == /\ \E a, b \in Seen(i) : a <= b /\ f[i].worst = Fall(E(a), E(b))
                         /\ \A a, b \in Seen(i) : a <= b => AtMost(f[i].worst, Fall(E(a), E(b)))
<1> HIDE DEF n, E
<1>5. \A a, b \in 1 .. n : InLowestTerms(Fall(E(a), E(b)))
  BY <1>1, OrderLaws, FallOrder
<1>6. Highest(0) /\ Deepest(0)
  <2>1. f[0].peak = E(1) /\ f[0].worst = Whole(0)
    <3>1. 0 \in 0 .. n
      BY <1>1
    <3>2. QED
      BY <1>3, <1>4, <3>1
  <2>2. InLowestTerms(E(1)) /\ E(1).n > 0
    BY <1>1
  <2>3. Fall(E(1), E(1)) = Whole(0) /\ AtMost(Whole(0), Whole(0)) /\ AtMost(E(1), E(1))
    BY <2>2, NoFall, WholeFacts, OrderLaws
  <2>4. \A a \in Seen(0) : a = 1
    OBVIOUS
  <2>5. 1 \in Seen(0)
    OBVIOUS
  <2> HIDE DEF Seen
  <2>6. Highest(0)
    BY <2>1, <2>3, <2>4, <2>5
  <2>7. Deepest(0)
    <3>1. 1 <= 1
      OBVIOUS
    <3>2. QED
      BY <2>1, <2>3, <2>4, <2>5, <3>1
  <2>8. QED
    BY <2>6, <2>7
<1>7. ASSUME NEW i \in 1 .. n, Highest(i - 1), Deepest(i - 1) PROVE Highest(i) /\ Deepest(i)
  <2> DEFINE j == i - 1
             top == f[j].peak
             old == f[j].worst
             y == E(i)
             p == PeakOf(top, y)
             fl == Fall(p, y)
  <2>1. /\ i \in Nat /\ j \in Nat /\ j < i /\ i <= n /\ i \in 1 .. n
        /\ Seen(j) \subseteq 1 .. n /\ Seen(i) \subseteq 1 .. n
        /\ \A a \in Seen(i) : a \in Seen(j) \/ a = i
        /\ Seen(j) \subseteq Seen(i) /\ i \in Seen(i)
        /\ \A a, b \in Seen(i) : a <= b /\ b # i => a \in Seen(j) /\ b \in Seen(j)
        /\ \A a \in Seen(i) : a <= i
    BY <1>1
  <2>2. f[i] = Fallen(f[j], p, y)
    BY <1>3, <2>1
  <2>3. f[i].peak = p /\ f[i].worst = IF Below(fl, old) THEN fl ELSE old
    BY <2>2, FallenIs
  <2>4. Highest(j) /\ Deepest(j)
    BY <1>7
  <2>5. /\ \E a \in Seen(j) : top = E(a)
        /\ \A a \in Seen(j) : AtMost(E(a), top)
    BY <2>4
  <2>6. /\ \E a, b \in Seen(j) : a <= b /\ old = Fall(E(a), E(b))
        /\ \A a, b \in Seen(j) : a <= b => AtMost(old, Fall(E(a), E(b)))
    BY <2>4
  <2> HIDE DEF Seen, j, top, old, y
  <2>7. InLowestTerms(y) /\ y.n > 0
    BY <1>1, <2>1 DEF y
  <2>8. InLowestTerms(top) /\ top.n > 0
    BY <1>1, <2>1, <2>5
  <2>9. p \in {top, y} /\ InLowestTerms(p) /\ p.n > 0 /\ AtMost(top, p) /\ AtMost(y, p)
    BY <2>7, <2>8, BelowIs, OrderLaws DEF PeakOf
  <2>10. PICK c \in Seen(i) : p = E(c)
    <3>1. CASE p = top
      BY <2>1, <2>5, <3>1
    <3>2. CASE p = y
      BY <2>1, <3>2 DEF y
    <3>3. QED
      BY <2>9, <3>1, <3>2
  <2> HIDE DEF p
  <2>11. ASSUME NEW a \in Seen(i) PROVE InLowestTerms(E(a)) /\ E(a).n > 0 /\ AtMost(E(a), p)
    <3>1. InLowestTerms(E(a)) /\ E(a).n > 0
      BY <1>1, <2>1
    <3>2. CASE a \in Seen(j)
      BY <2>5, <2>8, <2>9, <3>1, <3>2, OrderLaws
    <3>3. CASE a = i
      BY <2>9, <3>1, <3>3 DEF y
    <3>4. QED
      BY <2>1, <3>1, <3>2, <3>3
  <2>12. Highest(i)
    BY <2>3, <2>10, <2>11
  <2>13. InLowestTerms(fl) /\ fl = Fall(E(c), E(i)) /\ c <= i
    BY <1>5, <2>1, <2>10 DEF y
  <2>14. InLowestTerms(old)
    BY <1>5, <2>1, <2>6
  <2> DEFINE w == f[i].worst
  <2>15. w \in {fl, old} /\ AtMost(w, fl) /\ AtMost(w, old)
    <3> HIDE DEF fl
    <3>1. Below(fl, old) <=> ~AtMost(old, fl)
      BY <2>13, <2>14, BelowIs
    <3>2. QED
      BY <2>3, <2>13, <2>14, <3>1, OrderLaws
  <2>16. \E a, b \in Seen(i) : a <= b /\ w = Fall(E(a), E(b))
    <3>1. CASE w = fl
      BY <2>1, <2>10, <2>13, <3>1
    <3>2. CASE w = old
      <4>1. PICK a \in Seen(j), b \in Seen(j) : a <= b /\ old = Fall(E(a), E(b))
        BY <2>6
      <4>2. a \in Seen(i) /\ b \in Seen(i)
        BY <2>1, <4>1
      <4>3. QED
        BY <3>2, <4>1, <4>2
    <3>3. QED
      BY <2>15, <3>1, <3>2
  <2>17. ASSUME NEW a \in Seen(i), NEW b \in Seen(i), a <= b PROVE AtMost(w, Fall(E(a), E(b)))
    <3>1. InLowestTerms(Fall(E(a), E(b))) /\ InLowestTerms(w)
      BY <1>5, <2>1, <2>13, <2>14, <2>15
    <3>2. CASE b = i
      <4>1. AtMost(fl, Fall(E(a), y))
        BY <2>7, <2>9, <2>11, FallOrder
      <4>2. AtMost(fl, Fall(E(a), E(b)))
        BY <3>2, <4>1 DEF y
      <4> HIDE DEF fl, w
      <4>3. QED
        BY <2>13, <2>15, <3>1, <4>2, OrderLaws
    <3>3. CASE b # i
      <4>1. a \in Seen(j) /\ b \in Seen(j)
        BY <2>1, <2>17, <3>3
      <4>2. AtMost(old, Fall(E(a), E(b)))
        BY <2>6, <2>17, <4>1
      <4> HIDE DEF fl, w
      <4>3. QED
        BY <2>14, <2>15, <3>1, <4>2, OrderLaws
    <3>4. QED
      BY <3>2, <3>3
  <2>18. Deepest(i)
    BY <2>16, <2>17
  <2>19. QED
    BY <2>12, <2>18
<1>8. Deepest(n)
  <2> DEFINE S == {i \in Nat : i <= n /\ ~(Highest(i) /\ Deepest(i))}
  <2> HIDE DEF Highest, Deepest
  <2>1. SUFFICES ASSUME S # {} PROVE FALSE
    BY <1>1
  <2>2. PICK i \in S : \A j \in S : i <= j
    <3> S \subseteq Nat
      OBVIOUS
    <3> HIDE DEF S
    <3> QED
      BY <2>1, LeastNumber
  <2>3. i \in Nat /\ i <= n /\ ~(Highest(i) /\ Deepest(i)) /\ i # 0
    BY <1>6, <2>2
  <2>4. i - 1 \in Nat /\ i - 1 \notin S /\ i \in 1 .. n /\ i - 1 <= n
    <3>1. i - 1 \in Nat /\ ~(i <= i - 1) /\ i \in 1 .. n /\ i - 1 <= n
      BY <1>1, <2>3
    <3> HIDE DEF S
    <3> QED
      BY <2>2, <3>1
  <2>5. Highest(i - 1) /\ Deepest(i - 1)
    BY <2>4
  <2>6. QED
    BY <1>7, <2>3, <2>4, <2>5
<1>9. \A a : a \in Seen(n) <=> a \in 1 .. n
  BY <1>1
<1> HIDE DEF Seen
<1>10. QED
  <2> DEFINE worst == f[n].worst
  <2>1. PICK a \in 1 .. n, b \in 1 .. n : a <= b /\ worst = Fall(E(a), E(b))
    BY <1>8, <1>9
  <2>2. a \in 1 .. b /\ b \in 1 .. n
    BY <1>1, <2>1
  <2>3. \E k \in 1 .. n : \E l \in 1 .. k : worst = Fall(E(l), E(k))
    BY <2>1, <2>2
  <2>4. ASSUME NEW k \in 1 .. n, NEW l \in 1 .. k PROVE AtMost(worst, Fall(E(l), E(k)))
    <3>1. l \in 1 .. n /\ l <= k
      BY <1>1
    <3>2. QED
      BY <1>8, <1>9, <3>1
  <2>5. QED
    BY <1>2, <2>3, <2>4 DEF n, E

-----------------------------------------------------------------------------
\* The Sharpe ratio that is withheld

\* A function on 1 .. n is a sequence of length n.
LEMMA SequenceIs ==
    ASSUME NEW n \in Nat, NEW f, f = [i \in 1 .. n |-> f[i]]
    PROVE  f \in Seq(Listed(f)) /\ Len(f) = n /\ DOMAIN f = 1 .. n
<1>1. DOMAIN f = 1 .. n
  <2> DEFINE h == [i \in 1 .. n |-> f[i]]
  <2>1. DOMAIN h = 1 .. n
    OBVIOUS
  <2> HIDE DEF h
  <2>2. f = h
    BY DEF h
  <2>3. QED
    BY <2>1, <2>2
<1>2. \A k \in 1 .. n : f[k] \in Listed(f)
  BY <1>1 DEF Listed
<1>3. f \in Seq(Listed(f))
  BY <1>2
<1>4. Len(f) \in Nat /\ DOMAIN f = 1 .. Len(f)
  BY <1>3
<1>5. Len(f) = n
  BY <1>1, <1>4
<1>6. QED
  BY <1>1, <1>3, <1>5

\* Zero in lowest terms is the whole number zero.
LEMMA ZeroIs == ASSUME NEW x, InLowestTerms(x), x.n = 0 PROVE x = Whole(0)
<1>1. InLowestTerms(Whole(0)) /\ Whole(0).n = 0 /\ Whole(0).d = 1
  BY WholeFacts DEF Whole
<1>2. x.d \in Int
  BY DEF InLowestTerms
<1>3. x.n * Whole(0).d = Whole(0).n * x.d
  BY <1>1, <1>2
<1>4. QED
  BY <1>1, <1>3, LowestTermsUnique

\* A mean keeps its sign, and is zero only of nothing.
LEMMA ShareSign ==
    ASSUME NEW x, InLowestTerms(x), NEW m \in Nat \ {0}
    PROVE  LET q == Quotient(x, Whole(m))
           IN  /\ InLowestTerms(q)
               /\ q.n = 0 <=> x.n = 0
               /\ x.n >= 0 => q.n >= 0
<1> DEFINE a == x.n
           b == x.d
           d == b * m
           y == Over(x, Whole(m))
<1>1. a \in Int /\ b \in Nat \ {0}
  BY DEF InLowestTerms
<1>2. Whole(m).n = m /\ Whole(m).d = 1 /\ a * 1 = a
  BY <1>1 DEF Whole
<1>3. y = Ratio(a, d)
  BY <1>2 DEF Over
<1> HIDE DEF a, b, y
<1>4. d \in Nat \ {0}
  BY <1>1
<1> HIDE DEF d
<1>5. InLowestTerms(y) /\ y.n * d = a * y.d
  BY <1>1, <1>3, <1>4, RatioReduces
<1>6. y.n \in Int /\ y.d \in Nat \ {0}
  BY <1>5 DEF InLowestTerms
<1>7. (y.n = 0 <=> a = 0) /\ (a >= 0 => y.n >= 0)
  <2> DEFINE z == y.n
             w == y.d
  <2>1. z \in Int /\ w \in Nat \ {0} /\ z * d = a * w
    BY <1>5, <1>6
  <2> HIDE DEF z, w
  <2>2. a <= 0 <=> z <= 0
    BY <1>1, <1>4, <2>1, SameSign
  <2>3. a = 0 => z * d = 0
    BY <1>1, <2>1
  <2>4. z = 0 => a * w = 0
    BY <1>1, <1>4, <2>1
  <2>5. (z # 0 => z * d # 0) /\ (a # 0 => a * w # 0)
    BY <1>1, <1>4, <2>1
  <2>6. (a = 0 <=> z = 0) /\ (a >= 0 => z >= 0)
    <3>1. a = 0 <=> z = 0
      BY <2>1, <2>3, <2>4, <2>5
    <3>2. QED
      BY <1>1, <2>1, <2>2, <3>1
  <2>7. QED
    BY <2>6 DEF z
<1>8. Quotient(x, Whole(m)) = Rounded(y)
  BY <1>2 DEF Quotient, y
<1>9. InLowestTerms(Rounded(y)) /\ (y.n = 0 <=> Rounded(y).n = 0) /\ (y.n < 0 <=> Rounded(y).n < 0)
  BY <1>5, RoundedIs
<1>10. Rounded(y).n \in Int
  BY <1>9 DEF InLowestTerms
<1> HIDE DEF y
<1>11. QED
  BY <1>6, <1>7, <1>8, <1>9, <1>10 DEF a

\* A rounded product is zero only when a factor is.
LEMMA ProductZero ==
    ASSUME NEW x, NEW y, InLowestTerms(x), InLowestTerms(y)
    PROVE  Product(x, y).n = 0 <=> x.n = 0 \/ y.n = 0
<1> DEFINE p == x.n * y.n
           q == x.d * y.d
           r == Times(x, y)
<1>1. x.n \in Int /\ x.d \in Nat \ {0} /\ y.n \in Int /\ y.d \in Nat \ {0}
  BY DEF InLowestTerms
<1>2. p \in Int /\ q \in Nat \ {0} /\ (p = 0 <=> x.n = 0 \/ y.n = 0)
  <2>1. ASSUME NEW i \in Int, NEW j \in Int PROVE i * j \in Int /\ (i * j = 0 <=> i = 0 \/ j = 0)
    <3>1. i # 0 /\ j # 0 => i * j # 0
      OBVIOUS
    <3>2. i = 0 \/ j = 0 => i * j = 0
      OBVIOUS
    <3>3. QED
      BY <3>1, <3>2
  <2>2. ASSUME NEW i \in Nat \ {0}, NEW j \in Nat \ {0} PROVE i * j \in Nat \ {0}
    OBVIOUS
  <2>3. QED
    BY <1>1, <2>1, <2>2
<1>3. r = Ratio(p, q)
  BY DEF Times
<1> HIDE DEF p, q, r
<1>4. InLowestTerms(r) /\ r.n * q = p * r.d
  BY <1>2, <1>3, RatioReduces
<1>5. r.n \in Int /\ r.d \in Nat \ {0}
  BY <1>4 DEF InLowestTerms
<1>6. (r.n = 0 <=> r.n * q = 0) /\ (p = 0 <=> p * r.d = 0)
  BY <1>2, <1>5
<1>7. Product(x, y) = Rounded(r)
  BY DEF Product, r
<1>8. QED
  BY <1>2, <1>4, <1>6, <1>7, RoundedIs

\* One or more returns.
ReturnList(v) == /\ Len(v) \in Nat \ {0} /\ DOMAIN v = 1 .. Len(v)
             /\ \A i \in 1 .. Len(v) : InLowestTerms(v[i])

Squares(v) == [i \in DOMAIN v |-> Power(Difference(v[i], Mean(v)), 2)]

\* A variance is not negative, and zero only when every difference from the
\* mean is rounded to zero.
LEMMA VarianceIs ==
    ASSUME NEW v, ReturnList(v), NEW p, p.ddof \in Nat, p.ddof < Len(v)
    PROVE  /\ InLowestTerms(Mean(v))
           /\ InLowestTerms(Variance(v, p)) /\ Variance(v, p).n >= 0
           /\ Variance(v, p).n = 0 <=> \A i \in 1 .. Len(v) : v[i] = Mean(v)
<1> DEFINE n == Len(v)
           m == n - p.ddof
           mean == Mean(v)
           s == Squares(v)
<1>1. n \in Nat \ {0} /\ m \in Nat \ {0} /\ DOMAIN v = 1 .. n /\ \A i \in 1 .. n : InLowestTerms(v[i])
  <2>1. n \in Nat \ {0} /\ DOMAIN v = 1 .. n /\ \A i \in 1 .. n : InLowestTerms(v[i])
    BY DEF ReturnList
  <2> DEFINE k == p.ddof
  <2>2. k \in Nat /\ k < n
    OBVIOUS
  <2> HIDE DEF k, n
  <2>3. n - k \in Nat \ {0}
    BY <2>1, <2>2
  <2>4. QED
    BY <2>1, <2>3 DEF k
<1>2. InLowestTerms(mean)
  <2>1. InLowestTerms(Total(v))
    BY <1>1, TotalFacts
  <2>2. InLowestTerms(Quotient(Total(v), Whole(n)))
    BY <1>1, <2>1, ShareSign
  <2>3. QED
    BY <2>2 DEF Mean
<1>3. Variance(v, p) = Quotient(Total(s), Whole(m))
  BY DEF Variance, Squares
<1>4. Len(s) = n /\ DOMAIN s = 1 .. n /\ \A i \in 1 .. n : s[i] = Power(Difference(v[i], mean), 2)
  <2>1. s = [i \in 1 .. n |-> Power(Difference(v[i], mean), 2)]
    BY <1>1 DEF Squares
  <2> HIDE DEF s, n, mean
  <2>2. \A i \in 1 .. n : s[i] = Power(Difference(v[i], mean), 2)
    BY <2>1
  <2>3. s = [i \in 1 .. n |-> s[i]]
    BY <2>1
  <2>4. QED
    BY <1>1, <2>2, <2>3, SequenceIs
<1> HIDE DEF n, m, mean, s
<1>5. ASSUME NEW i \in 1 .. n
      PROVE  InLowestTerms(s[i]) /\ s[i].n >= 0 /\ (s[i].n = 0 <=> v[i] = mean)
  <2> DEFINE x == v[i]
             y == Difference(x, mean)
  <2>1. InLowestTerms(x)
    BY <1>1
  <2> HIDE DEF x
  <2>2. InLowestTerms(y)
    BY <1>2, <2>1, OperationsClosed
  <2>3. y.n = 0 <=> x = mean
    <3>1. InLowestTerms(Minus(x, mean)) /\ (Minus(x, mean).n = 0 <=> x = mean)
      BY <1>2, <2>1, MinusSign, Closed
    <3>2. QED
      BY <3>1, RoundedIs DEF Difference
  <2> HIDE DEF y
  <2>4. InLowestTerms(Power(y, 2)) /\ Power(y, 2).n >= 0 /\ (Power(y, 2).n = 0 <=> y.n = 0)
    BY <2>2, SquareIs
  <2>5. s[i] = Power(y, 2)
    BY <1>4 DEF x, y
  <2>6. QED
    BY <2>3, <2>4, <2>5 DEF x
<1>6. /\ InLowestTerms(Total(s)) /\ Total(s).n >= 0
      /\ Total(s).n = 0 <=> \A i \in 1 .. n : s[i].n = 0
  BY <1>1, <1>4, <1>5, TotalFacts
<1>7. /\ InLowestTerms(Variance(v, p)) /\ Variance(v, p).n >= 0
      /\ Variance(v, p).n = 0 <=> Total(s).n = 0
  BY <1>1, <1>3, <1>6, ShareSign
<1>8. QED
  BY <1>2, <1>5, <1>6, <1>7 DEF n, mean

\* A ratio is withheld exactly when every return is the rounded mean.
LEMMA WithheldIs ==
    ASSUME NEW v, ReturnList(v), NEW p, p.ddof \in Nat, p.ddof < Len(v), p.periods \in Nat \ {0}
    PROVE  Sharpe(v, p) = Undefined("zero_volatility") <=> \A i \in 1 .. Len(v) : v[i] = Mean(v)
<1> DEFINE x == SquareRoot(Variance(v, p))
           y == SquareRoot(Whole(p.periods))
           w == Product(x, y)
<1>1. InLowestTerms(x) /\ (x.n = 0 <=> Variance(v, p).n = 0)
  BY VarianceIs, RootIs
<1>2. InLowestTerms(y) /\ y.n # 0
  <2> DEFINE k == p.periods
  <2>1. k \in Int /\ k > 0
    OBVIOUS
  <2> HIDE DEF k
  <2>2. InLowestTerms(Whole(k)) /\ Whole(k).n = k
    BY <2>1, WholeFacts DEF Whole
  <2>3. InLowestTerms(SquareRoot(Whole(k))) /\ SquareRoot(Whole(k)).n # 0
    BY <2>1, <2>2, RootIs
  <2>4. QED
    BY <2>3 DEF k
<1>3. Len(v) \in Nat /\ ~(Len(v) <= p.ddof)
  BY DEF ReturnList
<1>4. Volatility(v, p) = Valid(w)
  BY <1>3 DEF Volatility
<1> HIDE DEF x, y
<1>5. w.n = 0 <=> x.n = 0
  BY <1>1, <1>2, ProductZero
<1> HIDE DEF w
<1>6. Volatility(v, p).status = "valid" /\ Volatility(v, p).value = w
  BY <1>4 DEF Valid
<1>7. "valid" # "undefined"
  OBVIOUS
<1>8. Sharpe(v, p) = Undefined("zero_volatility") <=> w.n = 0
  <2> DEFINE r == Quotient(Product(Difference(Mean(v), PeriodicRate(p)), Whole(p.periods)), w)
  <2>1. Sharpe(v, p) = IF w.n = 0 THEN Undefined("zero_volatility") ELSE Valid(r)
    BY <1>6, <1>7 DEF Sharpe
  <2> HIDE DEF r
  <2>2. Valid(r) # Undefined("zero_volatility")
    <3>1. Valid(r).status = "valid" /\ Undefined("zero_volatility").status = "undefined"
      BY DEF Valid, Undefined
    <3>2. QED
      BY <1>7, <3>1
  <2>3. QED
    BY <2>1, <2>2
<1>9. QED
  BY <1>1, <1>5, <1>8, VarianceIs

\* Returns of zero have the mean zero.
LEMMA ZeroMean ==
    ASSUME NEW v, ReturnList(v), \A i \in 1 .. Len(v) : v[i] = Whole(0)
    PROVE  \A i \in 1 .. Len(v) : v[i] = Mean(v)
<1>1. Whole(0).n = 0 /\ InLowestTerms(Whole(0))
  BY WholeFacts DEF Whole
<1>2. Len(v) \in Nat \ {0} /\ \A i \in 1 .. Len(v) : InLowestTerms(v[i]) /\ v[i].n >= 0 /\ v[i].n = 0
  <2>1. Len(v) \in Nat \ {0} /\ \A i \in 1 .. Len(v) : InLowestTerms(v[i])
    BY DEF ReturnList
  <2>2. \A i \in 1 .. Len(v) : v[i].n = 0
    BY <1>1
  <2>3. \A i \in 1 .. Len(v) : v[i].n >= 0
    BY <2>2
  <2>4. QED
    BY <2>1, <2>2, <2>3
<1>3. InLowestTerms(Total(v)) /\ Total(v).n = 0
  BY <1>2, TotalFacts
<1>4. InLowestTerms(Mean(v)) /\ Mean(v).n = 0
  BY <1>2, <1>3, ShareSign DEF Mean
<1>5. Mean(v) = Whole(0)
  BY <1>4, ZeroIs
<1>6. QED
  BY <1>5

-----------------------------------------------------------------------------
\* The points of a run

\* Every recorded equity is positive, and the initial cash before the first
\* trade.
PointsSolvent ==
    \A i \in DOMAIN points :
        /\ InLowestTerms(points[i].equity) /\ Positive(points[i].equity)
        /\ trades = <<>> => points[i].equity = Whole(Cash)

\* A step that records no point and keeps a trade there was.
LEMMA PointsKept ==
    ASSUME PointsSolvent, points' = points, trades' = <<>> => trades = <<>>
    PROVE  PointsSolvent'
  BY DEF PointsSolvent

\* A round of the loop that marks the account to market.
LEMMA PointRecorded ==
    ASSUME AccountInv, AccountInv', PointsSolvent, outcome = "running",
           Len(points) < Len(bars), UNCHANGED input, MarkToMarket,
           trades' = <<>> => trades = <<>>
    PROVE  PointsSolvent'
<1> DEFINE n == Len(points)
           equity == Plus(cash', Times(quantity', Whole(bar.close)))
           point == [close |-> bar.close, cash |-> cash', quantity |-> quantity',
                     equity |-> equity, target_weight |-> target_weight']
<1>1. Record(point)
  BY DEF MarkToMarket
<1>2. point.equity = equity
  OBVIOUS
<1>3. bar.close \in Nat \ {0}
  BY BarFacts
<1>4. InLowestTerms(Whole(bar.close))
  BY <1>3, WholePositive
<1>5. InLowestTerms(cash') /\ InLowestTerms(quantity')
  BY DEF AccountInv, Typed
<1>6. InLowestTerms(equity)
  BY <1>4, <1>5, Closed
<1>7. ASSUME trades' = <<>> PROVE equity = Whole(Cash)
  <2>1. Explained(trades') = [cash |-> Whole(Cash), quantity |-> Whole(0)]
    BY <1>7, ExplainedNone
  <2>2. Explained(trades') = [cash |-> cash', quantity |-> quantity']
    BY DEF AccountInv, BooksBalance
  <2>3. cash' = Whole(Cash) /\ quantity' = Whole(0)
    BY <2>1, <2>2
  <2>4. InLowestTerms(Whole(Cash))
    BY EngineAssumption, WholePositive
  <2>5. QED
    BY <1>4, <2>3, <2>4, PlusZero
<1>8. CASE points' = points
  BY <1>8, PointsKept
<1>9. CASE Positive(point.equity) /\ points' = Append(points, point)
  <2> HIDE DEF point, equity
  <2>1. points \in Seq(Listed(points))
    BY DEF AccountInv, Typed
  <2>2. /\ n \in Nat /\ DOMAIN points = 1 .. n /\ DOMAIN points' = 1 .. n + 1
        /\ \A k \in 1 .. n : points'[k] = points[k]
        /\ points'[n + 1] = point
    BY <1>9, <2>1, AppendFacts
  <2> HIDE DEF n
  <2>3. SUFFICES ASSUME NEW i \in 1 .. n + 1
                 PROVE  /\ InLowestTerms(points'[i].equity) /\ Positive(points'[i].equity)
                        /\ trades' = <<>> => points'[i].equity = Whole(Cash)
    BY <2>2 DEF PointsSolvent
  <2>4. CASE i = n + 1
    BY <1>2, <1>6, <1>7, <1>9, <2>2, <2>4
  <2>5. CASE i # n + 1
    <3>1. i \in 1 .. n
      BY <2>2, <2>5
    <3>2. QED
      BY <2>2, <3>1 DEF PointsSolvent
  <2>6. QED
    BY <2>4, <2>5
<1>10. QED
  BY <1>1, <1>8, <1>9 DEF Record

\* A trade is listed.
LEMMA TradeIsListed ==
    ASSUME AccountInv, NEW side, NEW q, NEW price, NEW commission,
           Trade(side, q, price, commission)
    PROVE  trades' # <<>>
<1>1. PICK t : trades' = Append(trades, t)
  BY DEF Trade
<1>2. trades \in Seq(Listed(trades))
  BY DEF AccountInv, Typed
<1>3. Len(trades) \in Nat /\ Len(trades') = Len(trades) + 1
  BY <1>1, <1>2, AppendFacts
<1>4. Len(<<>>) = 0
  OBVIOUS
<1>5. QED
  BY <1>3, <1>4

\* Every step keeps the points positive.
LEMMA PointsStep == AccountInv /\ PointsSolvent /\ [Next]_vars => PointsSolvent'
<1> SUFFICES ASSUME AccountInv, PointsSolvent, [Next]_vars PROVE PointsSolvent'
  OBVIOUS
<1>1. AccountInv'
  BY AccountStep
<1>2. CASE Refuse \/ Start \/ Return \/ UNCHANGED vars
  BY <1>2, PointsKept DEF Refuse, Start, Return, vars
<1>3. CASE HoldBar
  BY <1>1, <1>3, PointRecorded DEF HoldBar
<1>4. CASE BuyBar
  <2>1. PICK q, price, commission : Trade("buy", q, price, commission)
    BY <1>4 DEF BuyBar
  <2>2. trades' # <<>>
    BY <2>1, TradeIsListed
  <2>3. QED
    BY <1>1, <1>4, <2>2, PointRecorded DEF BuyBar
<1>5. CASE SellBar
  <2>1. PICK q, price, commission : Trade("sell", q, price, commission)
    BY <1>5 DEF SellBar
  <2>2. trades' # <<>>
    BY <2>1, TradeIsListed
  <2>3. QED
    BY <1>1, <1>5, <2>2, PointRecorded DEF SellBar
<1>6. QED
  BY <1>2, <1>3, <1>4, <1>5 DEF Next

\* A recorded equity is positive, and stays the initial cash until a trade.
THEOREM SolventTheorem == Spec => []PointsSolvent
<1>1. Init => PointsSolvent
  BY DEF Init, PointsSolvent
<1>2. QED
  BY <1>1, PointsStep, AccountTheorem, PTL DEF Spec

-----------------------------------------------------------------------------
\* The equity of a run that returned, as the calculators take it

\* The equity list has the points of the run, at the sessions of its bars.
LEMMA EquityIs ==
    ASSUME AccountInv, outcome = "returned"
    PROVE  /\ Len(Equity) = Len(points) /\ Len(points) = Len(bars) /\ Len(bars) \in Nat
           /\ DOMAIN Equity = 1 .. Len(bars) /\ DOMAIN points = 1 .. Len(bars)
           /\ DOMAIN bars = 1 .. Len(bars)
           /\ \A i \in 1 .. Len(bars) : /\ Equity[i].equity = points[i].equity
                                        /\ Equity[i].observed_on = bars[i].session
                                        /\ bars[i].session \in Nat
<1> DEFINE n == Len(bars)
           E == [i \in 1 .. n |-> [observed_on |-> bars[i].session, equity |-> points[i].equity]]
<1>1. n \in Nat /\ DOMAIN bars = 1 .. n /\ \A i \in 1 .. n : bars[i] \in Bar
  BY DEF AccountInv, Typed
<1>2. Len(points) = n /\ DOMAIN points = 1 .. n
  <2>1. Len(points) = n
    BY DEF AccountInv, CallOK
  <2>2. DOMAIN points = 1 .. Len(points)
    BY DEF AccountInv, Typed
  <2>3. QED
    BY <2>1, <2>2
<1>3. Equity = E
  BY <1>2 DEF Equity
<1> HIDE DEF n
<1>4. \A i \in 1 .. n : E[i].equity = points[i].equity /\ E[i].observed_on = bars[i].session
  OBVIOUS
<1>5. E = [i \in 1 .. n |-> E[i]]
  OBVIOUS
<1> HIDE DEF E
<1>6. Len(E) = n /\ DOMAIN E = 1 .. n
  BY <1>1, <1>5, SequenceIs
<1>7. \A i \in 1 .. n : bars[i].session \in Nat
  BY <1>1 DEF Bar
<1>8. QED
  BY <1>1, <1>2, <1>3, <1>4, <1>6, <1>7 DEF n

\* A run over two or more sessions can be measured.
LEMMA RunMeasured ==
    ASSUME AccountInv, PointsSolvent, outcome = "returned", Len(bars) >= 2
    PROVE  EquityList(Equity) /\ AcceptsV2(Equity, Sessions)
<1> DEFINE n == Len(bars)
<1>1. /\ Len(Equity) = n /\ n \in Nat /\ n >= 2 /\ DOMAIN Equity = 1 .. n
      /\ DOMAIN points = 1 .. n /\ DOMAIN bars = 1 .. n
      /\ \A i \in 1 .. n : /\ Equity[i].equity = points[i].equity
                           /\ Equity[i].observed_on = bars[i].session
                           /\ bars[i].session \in Nat
  BY EquityIs
<1>2. Accepts
  BY DEF AccountInv, CallOK
<1>3. \A i \in 1 .. n - 1 : bars[i].session < bars[i + 1].session
  BY <1>2 DEF Accepts
<1> HIDE DEF n
<1>4. \A i \in 1 .. n : InLowestTerms(Equity[i].equity) /\ Positive(Equity[i].equity)
  BY <1>1 DEF PointsSolvent
<1>5. \A i \in 1 .. n - 1 : i \in 1 .. n /\ i + 1 \in 1 .. n
  BY <1>1
<1>6. Ordered(Equity)
  BY <1>1, <1>3, <1>5 DEF Ordered
<1>7. EquityList(Equity)
  <2>1. \A i \in 1 .. n : Equity[i].equity.n > 0
    BY <1>4 DEF Positive
  <2>2. QED
    BY <1>1, <1>4, <1>6, <2>1 DEF EquityList
<1>8. AtMost(Whole(0), Equity[n].equity)
  <2> DEFINE x == Equity[n].equity
  <2>1. n \in 1 .. n
    BY <1>1
  <2>2. InLowestTerms(x) /\ x.n > 0
    BY <1>4, <2>1 DEF Positive
  <2> HIDE DEF x
  <2>3. InLowestTerms(Whole(0)) /\ Whole(0).n <= 0
    BY WholeFacts
  <2>4. x.n >= 0
    BY <2>2 DEF InLowestTerms
  <2>5. AtMost(Whole(0), x)
    BY <2>2, <2>3, <2>4, AcrossZero
  <2>6. QED
    BY <2>5 DEF x
<1>9. [i \in DOMAIN Equity |-> Equity[i].observed_on] = Sessions
  BY <1>1 DEF Sessions
<1>10. QED
  BY <1>1, <1>4, <1>5, <1>6, <1>7, <1>8, <1>9 DEF AcceptsV2

\* A run that the calculators accept has two sessions or more.
LEMMA MeasuredHasTwo ==
    ASSUME AccountInv, Measured PROVE outcome = "returned" /\ Len(bars) >= 2
<1>1. outcome = "returned" /\ Len(Equity) >= 2
  BY DEF Measured, AcceptsV2
<1>2. QED
  BY <1>1, EquityIs

\* Its returns chain, and its returns total and annual agree in sign.
LEMMA RunMeasurable == AccountInv /\ PointsSolvent => RunsAreMeasurable
<1> SUFFICES ASSUME AccountInv, PointsSolvent, outcome = "returned", Len(bars) >= 2
             PROVE  /\ Measured
                    /\ LET grown[i \in 1 .. Len(points)] ==
                              IF i = 1 THEN points[1].equity
                              ELSE Times(grown[i - 1],
                                         Plus(Whole(1), Returns(Equity)[i - 1]))
                       IN  grown[Len(points)] = Final(Equity)
                    /\ \A set \in {MetricSetV2(Equity, p) :
                                   p \in {q \in Policies : q.days % Elapsed(Equity) = 0}} :
                         /\ set.total_return.value.n > 0 => set.cagr.value.n >= 0
                         /\ set.total_return.value.n < 0 => set.cagr.value.n <= 0
  BY DEF RunsAreMeasurable
<1>1. EquityList(Equity) /\ AcceptsV2(Equity, Sessions)
  BY RunMeasured
<1>2. Measured
  BY <1>1 DEF Measured
<1>3. LET grown[i \in 1 .. Len(points)] ==
             IF i = 1 THEN points[1].equity
             ELSE Times(grown[i - 1], Plus(Whole(1), Returns(Equity)[i - 1]))
      IN  grown[Len(points)] = Final(Equity)
  <2> DEFINE grown == CHOOSE f : Chain(Len(points), points[1].equity, Returns(Equity), f)
             g == CHOOSE f : Chain(Len(Equity), Equity[1].equity, Returns(Equity), f)
  <2>1. g[Len(Equity)] = Final(Equity)
    BY <1>1, Chained
  <2>2. Len(Equity) = Len(points) /\ Equity[1].equity = points[1].equity
    <3>1. 1 \in 1 .. Len(bars)
      BY EquityIs
    <3>2. QED
      BY <3>1, EquityIs
  <2>3. grown[Len(points)] = Final(Equity)
    BY <2>1, <2>2
  <2>4. QED
    BY <2>3 DEF Chain
<1>4. ASSUME NEW p \in Policies, NEW set, set = MetricSetV2(Equity, p)
      PROVE  /\ set.total_return.value.n > 0 => set.cagr.value.n >= 0
             /\ set.total_return.value.n < 0 => set.cagr.value.n <= 0
  <2>1. set.total_return = TotalReturn(Equity) /\ set.cagr = Cagr(Equity, p)
    BY <1>4 DEF MetricSetV2
  <2>2. p.days \in Nat \ {0}
    BY PoliciesAssumption
  <2>3. LET total == TotalReturn(Equity).value
            cagr == Cagr(Equity, p).value
        IN  (total.n > 0 => cagr.n >= 0) /\ (total.n < 0 => cagr.n <= 0)
    BY <1>1, <2>2, SameDirection
  <2>4. QED
    BY <2>1, <2>3
<1>5. ASSUME NEW set \in {MetricSetV2(Equity, p) :
                             p \in {q \in Policies : q.days % Elapsed(Equity) = 0}}
      PROVE  /\ set.total_return.value.n > 0 => set.cagr.value.n >= 0
             /\ set.total_return.value.n < 0 => set.cagr.value.n <= 0
  <2>1. PICK p \in Policies : set = MetricSetV2(Equity, p)
    OBVIOUS
  <2>2. QED
    BY <1>4, <2>1
<1>6. QED
  BY <1>2, <1>3, <1>5

\* Its drawdown is its worst fall.
LEMMA RunDrawdown == AccountInv /\ PointsSolvent => DrawdownIsWorstFall
<1> DEFINE fall(i, j) == Difference(Quotient(Equity[j].equity, Equity[i].equity), Whole(1))
           falls == UNION {{fall(i, j) : i \in 1 .. j} : j \in DOMAIN points}
           worst == MaximumDrawdown(Equity).value
<1> SUFFICES ASSUME AccountInv, PointsSolvent, Measured
             PROVE  worst \in falls /\ \A f \in falls : AtMost(worst, f)
  BY DEF DrawdownIsWorstFall
<1>1. EquityList(Equity)
  BY MeasuredHasTwo, RunMeasured
<1>2. DOMAIN points = 1 .. Len(Equity)
  BY MeasuredHasTwo, EquityIs
<1>3. \A i, j : fall(i, j) = Fall(Equity[i].equity, Equity[j].equity)
  BY DEF Fall
<1>4. /\ \E b \in 1 .. Len(Equity) : \E a \in 1 .. b :
            worst = Fall(Equity[a].equity, Equity[b].equity)
      /\ \A b \in 1 .. Len(Equity) : \A a \in 1 .. b :
            AtMost(worst, Fall(Equity[a].equity, Equity[b].equity))
  BY <1>1, WorstFall
<1> HIDE DEF worst, fall
<1>5. worst \in falls
  BY <1>2, <1>3, <1>4
<1>6. ASSUME NEW f \in falls PROVE AtMost(worst, f)
  <2>1. PICK j \in 1 .. Len(Equity) : f \in {fall(i, j) : i \in 1 .. j}
    BY <1>2
  <2>2. PICK i \in 1 .. j : f = fall(i, j)
    BY <2>1
  <2>3. QED
    BY <1>3, <1>4, <2>2
<1>7. QED
  BY <1>5, <1>6

\* The rounded returns are a list, one shorter than the equities.
LEMMA RunReturns ==
    ASSUME NEW e, EquityList(e)
    PROVE  LET v == [i \in DOMAIN Returns(e) |-> Rounded(Returns(e)[i])]
           IN  /\ ReturnList(v) /\ Len(v) = Len(e) - 1
               /\ \A i \in 1 .. Len(v) : /\ v[i] = Rounded(Minus(Over(e[i + 1].equity, e[i].equity), Whole(1)))
                                         /\ i \in 1 .. Len(e) /\ i + 1 \in 1 .. Len(e)
<1> DEFINE n == Len(e)
           m == n - 1
           ret(i) == Rounded(Minus(Over(e[i + 1].equity, e[i].equity), Whole(1)))
           v == [i \in DOMAIN Returns(e) |-> Rounded(Returns(e)[i])]
<1>1. n \in Nat /\ n >= 2 /\ \A i \in 1 .. n : InLowestTerms(e[i].equity) /\ e[i].equity.n > 0
  BY DEF EquityList
<1>2. DOMAIN Returns(e) = 1 .. m /\ \A i \in 1 .. m : Rounded(Returns(e)[i]) = ret(i)
  BY DEF Returns, RationalReturn
<1>3. DOMAIN v = 1 .. m /\ \A i \in 1 .. m : v[i] = ret(i)
  BY <1>2
<1>4. v = [i \in 1 .. m |-> v[i]]
  BY <1>2
<1> HIDE DEF v, n
<1>5. m \in Nat \ {0} /\ \A i \in 1 .. m : i \in 1 .. n /\ i + 1 \in 1 .. n
  BY <1>1
<1> HIDE DEF m
<1>6. Len(v) = m
  BY <1>4, <1>5, SequenceIs
<1>7. ASSUME NEW i \in 1 .. m PROVE InLowestTerms(v[i])
  <2> DEFINE x == e[i].equity
             y == e[i + 1].equity
  <2>1. InLowestTerms(x) /\ InLowestTerms(y) /\ Positive(x)
    BY <1>1, <1>5 DEF Positive
  <2> HIDE DEF x, y
  <2>2. InLowestTerms(Minus(Over(y, x), Whole(1)))
    BY <2>1, WholeFacts, Closed
  <2>3. InLowestTerms(Rounded(Minus(Over(y, x), Whole(1))))
    BY <2>2, RoundedIs
  <2>4. QED
    BY <1>3, <2>3 DEF x, y
<1>8. ReturnList(v)
  BY <1>3, <1>5, <1>6, <1>7 DEF ReturnList
<1> HIDE DEF ret
<1>9. \A i \in 1 .. m : v[i] = Rounded(Minus(Over(e[i + 1].equity, e[i].equity), Whole(1)))
  BY <1>3 DEF ret
<1>10. QED
  BY <1>5, <1>6, <1>8, <1>9 DEF m, n, v

\* Its ratio is withheld only for equal returns.
LEMMA RunSharpe == AccountInv /\ PointsSolvent => WithheldSharpeIsFlat
<1> DEFINE v == [i \in DOMAIN Returns(Equity) |-> Rounded(Returns(Equity)[i])]
           same == \A i, j \in DOMAIN v : v[i] = v[j]
<1> SUFFICES ASSUME AccountInv, PointsSolvent, Measured,
                    NEW p \in Policies, p.ddof < Len(v)
             PROVE  /\ Sharpe(v, p) = Undefined("zero_volatility") => same
                    /\ trades = <<>> => Sharpe(v, p) = Undefined("zero_volatility")
  BY DEF WithheldSharpeIsFlat
<1>1. EquityList(Equity)
  BY MeasuredHasTwo, RunMeasured
<1>2. /\ ReturnList(v) /\ Len(v) = Len(Equity) - 1
      /\ \A i \in 1 .. Len(v) :
           /\ v[i] = Rounded(Minus(Over(Equity[i + 1].equity, Equity[i].equity), Whole(1)))
           /\ i \in 1 .. Len(Equity) /\ i + 1 \in 1 .. Len(Equity)
  BY <1>1, RunReturns
<1> HIDE DEF v
<1>3. p.ddof \in Nat /\ p.periods \in Nat \ {0}
  BY PoliciesAssumption
<1>4. Sharpe(v, p) = Undefined("zero_volatility") <=> \A i \in 1 .. Len(v) : v[i] = Mean(v)
  BY <1>2, <1>3, WithheldIs
<1>5. DOMAIN v = 1 .. Len(v)
  BY <1>2 DEF ReturnList
<1>6. ASSUME trades = <<>> PROVE \A i \in 1 .. Len(v) : v[i] = Whole(0)
  <2> DEFINE c == Whole(Cash)
  <2>1. InLowestTerms(c) /\ c.n > 0
    BY EngineAssumption, WholePositive DEF Positive
  <2>2. Len(Equity) = Len(bars) /\ \A i \in 1 .. Len(Equity) : Equity[i].equity = c
    <3>1. /\ Len(Equity) = Len(bars) /\ DOMAIN points = 1 .. Len(bars)
          /\ \A i \in 1 .. Len(bars) : Equity[i].equity = points[i].equity
      BY MeasuredHasTwo, EquityIs
    <3>2. QED
      BY <1>6, <3>1 DEF PointsSolvent
  <2> HIDE DEF c
  <2>3. Rounded(Minus(Over(c, c), Whole(1))) = Whole(0)
    <3>1. Over(c, c) = Whole(1)
      BY <2>1, OverItself
    <3>2. Minus(Whole(1), Whole(1)) = Whole(0)
      BY WholeFacts, PlusZero
    <3>3. QED
      BY <3>1, <3>2, RoundedWhole
  <2>4. QED
    BY <1>2, <2>2, <2>3
<1>7. QED
  BY <1>2, <1>4, <1>5, <1>6, ZeroMean

-----------------------------------------------------------------------------
\* Theorems about measured runs

\* An accepted call returns unless a commission takes everything, and what a
\* call over two or more sessions returns is accepted by MetricInputV2: its
\* exact returns chain the first equity to the last, and total return and CAGR
\* never differ in sign, at any precision and for any policy.
THEOREM MeasuredTheorem == Spec => []AcceptedRunsAreMeasured
<1>1. AccountInv /\ PointsSolvent /\ AcceptedRunsReturn => AcceptedRunsAreMeasured
  BY RunMeasurable DEF AcceptedRunsAreMeasured
<1>2. QED
  BY <1>1, AccountTheorem, SolventTheorem, AcceptedTheorem, PTL

\* The maximum drawdown of a run is its worst rounded fall from a session to a
\* later one, and its Sharpe ratio is withheld only when its returns, each
\* rounded once, are one number, and always when it never traded: at any
\* precision.
THEOREM RoundingTheorem == Spec => []RoundingHidesNothing
<1>1. AccountInv /\ PointsSolvent => RoundingHidesNothing
  BY RunDrawdown, RunSharpe DEF RoundingHidesNothing
<1>2. QED
  BY <1>1, AccountTheorem, SolventTheorem, PTL
=============================================================================
