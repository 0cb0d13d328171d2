---------------------- MODULE MagicStateFactoriesProofs ----------------------
(***************************************************************************)
(* Proofs about the magic-state supply, for every factory of the two       *)
(* designs: any number of levels, units, inputs and outputs of a round,    *)
(* any stock, any number of correction decodes, operations and failures.   *)
(*                                                                         *)
(* CountersSound is not inductive: that the delivered states are the       *)
(* operations served needs the waiting requests to be distinct and new.    *)
(* DemandHasWork is not either: that a pass of the pull engine leaves      *)
(* nothing to start rests on what it does to every level at once.  A pass  *)
(* takes from the need of a level what it adds to its supply, so by        *)
(* induction from the top level down (DownTheLevels) the rounds wanted     *)
(* afterwards are those it did not start, and each is held up by the units *)
(* or by the inputs (PassIsEnough).                                        *)
(***************************************************************************)
EXTENDS MagicStateFactories, SequenceFacts

-----------------------------------------------------------------------------
(* Arithmetic *)

\* The smaller of two integers.
LEMMA MinOfTwo ==
  ASSUME NEW a \in Int, NEW b \in Int
  PROVE  Min({a, b}) = IF a <= b THEN a ELSE b
<1>1. \E x \in {a, b} : \A y \in {a, b} : x <= y
  OBVIOUS
<1>2. Min({a, b}) \in {a, b} /\ \A y \in {a, b} : Min({a, b}) <= y
  BY <1>1 DEF Min
<1> QED BY <1>2

\* The larger of two integers.
LEMMA MaxOfTwo ==
  ASSUME NEW a \in Int, NEW b \in Int
  PROVE  Max({a, b}) = IF a <= b THEN b ELSE a
<1>1. \E x \in {a, b} : \A y \in {a, b} : x >= y
  OBVIOUS
<1>2. Max({a, b}) \in {a, b} /\ \A y \in {a, b} : Max({a, b}) >= y
  BY <1>1 DEF Max
<1> QED BY <1>2

\* The smallest of three integers.
LEMMA MinOfThree ==
  ASSUME NEW a \in Int, NEW b \in Int, NEW c \in Int
  PROVE  /\ Min({a, b, c}) \in {a, b, c}
         /\ Min({a, b, c}) <= a /\ Min({a, b, c}) <= b /\ Min({a, b, c}) <= c
<1>1. \E x \in {a, b, c} : \A y \in {a, b, c} : x <= y
  <2>1. CASE a <= b /\ a <= c
    BY <2>1
  <2>2. CASE b <= a /\ b <= c
    BY <2>2
  <2>3. CASE c <= a /\ c <= b
    BY <2>3
  <2> QED BY <2>1, <2>2, <2>3
<1>2. Min({a, b, c}) \in {a, b, c} /\ \A y \in {a, b, c} : Min({a, b, c}) <= y
  BY <1>1 DEF Min
<1> QED BY <1>2

\* Positive cuts an integer off at 0.
LEMMA PositivePart ==
  ASSUME NEW x \in Int
  PROVE  Positive(x) \in Nat /\ Positive(x) = IF x <= 0 THEN 0 ELSE x
BY MaxOfTwo DEF Positive

\* A product with a fixed factor grows with the other one, and strictly so by
\* a full factor.
LEMMA TimesMonotone ==
  ASSUME NEW m \in Nat, NEW a \in Int, NEW b \in Int
  PROVE  /\ a * m \in Int /\ m * a = a * m
         /\ a <= b => a * m <= b * m
         /\ a < b => a * m + m <= b * m
<1>1. ASSUME NEW d \in Nat PROVE d * m \in Nat /\ (a + d) * m = a * m + d * m
  OBVIOUS
<1>2. ASSUME a <= b PROVE a * m <= b * m
  <2>1. PICK d \in Nat : d = b - a
    BY <1>2
  <2>2. b = a + d
    BY <2>1
  <2> QED BY <1>1, <2>2
<1>3. ASSUME a < b PROVE a * m + m <= b * m
  <2>1. PICK d \in Nat : d = b - a - 1
    BY <1>3
  <2>2. b = a + 1 + d /\ (a + 1) * m = a * m + m
    BY <2>1
  <2>3. (a + 1 + d) * m = (a + 1) * m + d * m /\ d * m \in Nat
    BY <1>1
  <2> QED BY <2>2, <2>3
<1> QED BY <1>2, <1>3

\* CeilDiv is the least number of rounds of m that give a.
LEMMA CeilDivLeast ==
  ASSUME NEW a \in Nat, NEW m \in Nat \ {0}
  PROVE  /\ CeilDiv(a, m) \in Nat /\ a <= CeilDiv(a, m) * m
         /\ \A k \in Nat : a <= k * m => CeilDiv(a, m) <= k
<1> DEFINE q == (a + m - 1) \div m
<1>1. q \in Int /\ m * q <= a + m - 1 /\ a + m - 1 < m * q + m
  <2>1. q \in Int /\ m * q <= a + m - 1 /\ a + m - 1 < m * (q + 1)
    OBVIOUS
  <2> QED BY <2>1
<1>2. CeilDiv(a, m) = q
  BY DEF CeilDiv
<1> HIDE DEF q
<1>3. m * q = q * m /\ q * m \in Int
  BY <1>1, TimesMonotone
<1>4. a <= q * m
  BY <1>1, <1>3
<1>5. q >= 0
  <2> SUFFICES ASSUME q < 0 PROVE FALSE
    BY <1>1
  <2>1. q * m + m <= 0 * m /\ 0 * m = 0
    BY <1>1, TimesMonotone
  <2> QED BY <1>3, <1>4, <2>1
<1>6. ASSUME NEW k \in Nat, a <= k * m PROVE q <= k
  <2> SUFFICES ASSUME k < q PROVE FALSE
    BY <1>1
  <2>1. k * m + m <= q * m /\ k * m \in Int
    BY <1>1, TimesMonotone
  <2> QED BY <1>1, <1>3, <1>6, <2>1
<1> QED BY <1>1, <1>2, <1>4, <1>5, <1>6

\* b \div m is the greatest number of rounds that b inputs feed.
LEMMA DivGreatest ==
  ASSUME NEW b \in Nat, NEW m \in Nat \ {0}
  PROVE  /\ b \div m \in Nat /\ (b \div m) * m <= b
         /\ \A k \in Nat : k * m <= b => k <= b \div m
<1> DEFINE q == b \div m
<1>1. q \in Int /\ m * q <= b /\ b < m * q + m
  <2>1. q \in Int /\ m * q <= b /\ b < m * (q + 1)
    OBVIOUS
  <2> QED BY <2>1
<1> HIDE DEF q
<1>2. m * q = q * m /\ q * m \in Int
  BY <1>1, TimesMonotone
<1>3. q >= 0
  <2> SUFFICES ASSUME q < 0 PROVE FALSE
    BY <1>1
  <2>1. q * m + m <= 0 * m /\ 0 * m = 0
    BY <1>1, TimesMonotone
  <2> QED BY <1>1, <1>2, <2>1
<1>4. ASSUME NEW k \in Nat, k * m <= b PROVE k <= q
  <2> SUFFICES ASSUME q < k PROVE FALSE
    BY <1>1
  <2>1. q * m + m <= k * m /\ k * m \in Int
    BY <1>1, TimesMonotone
  <2> QED BY <1>1, <1>2, <1>4, <2>1
<1> QED BY <1>1, <1>2, <1>3, <1>4 DEF q

\* n rounds less are wanted when n rounds are under way.
LEMMA CeilDivShift ==
  ASSUME NEW x \in Int, NEW m \in Nat \ {0}, NEW n \in Nat,
         n <= CeilDiv(Positive(x), m)
  PROVE  CeilDiv(Positive(x - n * m), m) = CeilDiv(Positive(x), m) - n
<1>1. PICK y, q, t : y = Positive(x) /\ q = CeilDiv(y, m) /\ t = n * m
  OBVIOUS
<1>2. y \in Nat /\ t \in Int /\ x - t \in Int
  BY <1>1, PositivePart, TimesMonotone
<1>3. PICK z, p : z = Positive(x - t) /\ p = CeilDiv(z, m)
  OBVIOUS
<1>4. z \in Nat /\ y = (IF x <= 0 THEN 0 ELSE x) /\ z = (IF x - t <= 0 THEN 0 ELSE x - t)
  BY <1>1, <1>2, <1>3, PositivePart
<1>5. q \in Nat /\ y <= q * m /\ \A k \in Nat : y <= k * m => q <= k
  BY <1>1, <1>2, CeilDivLeast
<1>6. p \in Nat /\ z <= p * m /\ \A k \in Nat : z <= k * m => p <= k
  BY <1>3, <1>4, CeilDivLeast
<1>7. p <= q - n
  <2>1. q - n \in Nat
    BY <1>1, <1>5
  <2>2. (q - n) * m = q * m - t
    BY <1>1, <1>5
  <2>3. (q - n) * m \in Int /\ 0 * m <= (q - n) * m /\ 0 * m = 0 /\ q * m \in Int
    BY <1>5, <2>1, TimesMonotone
  <2>4. z <= (q - n) * m
    BY <1>2, <1>4, <1>5, <2>2, <2>3
  <2> QED BY <1>6, <2>1, <2>4
<1>8. q <= p + n
  <2>1. (p + n) * m = p * m + t /\ p * m \in Int
    BY <1>1, <1>6, TimesMonotone
  <2>2. 0 * m <= (p + n) * m /\ 0 * m = 0
    BY <1>6, TimesMonotone
  <2>3. y <= (p + n) * m
    BY <1>2, <1>4, <1>6, <2>1, <2>2
  <2>4. p + n \in Nat
    BY <1>6
  <2> QED BY <1>5, <2>3, <2>4
<1> QED BY <1>1, <1>3, <1>5, <1>6, <1>7, <1>8

\* And the inputs of n rounds that were taken feed n rounds.
LEMMA DivShift ==
  ASSUME NEW b \in Nat, NEW m \in Nat \ {0}, NEW n \in Nat, n <= b \div m
  PROVE  b - m * n \in Nat /\ (b - m * n) \div m = (b \div m) - n
<1>1. PICK q, t : q = b \div m /\ t = m * n
  OBVIOUS
<1>2. t = n * m /\ t \in Int
  BY <1>1, TimesMonotone
<1>3. q \in Nat /\ q * m <= b /\ q * m \in Int /\ \A k \in Nat : k * m <= b => k <= q
  BY <1>1, DivGreatest, TimesMonotone
<1>4. n * m <= q * m
  BY <1>1, <1>3, TimesMonotone
<1>5. b - t \in Nat
  BY <1>2, <1>3, <1>4
<1>6. PICK p : p = (b - t) \div m
  OBVIOUS
<1>7. p \in Nat /\ p * m <= b - t /\ p * m \in Int
      /\ \A k \in Nat : k * m <= b - t => k <= p
  BY <1>5, <1>6, DivGreatest, TimesMonotone
<1>8. q - n <= p
  <2>1. q - n \in Nat /\ (q - n) * m = q * m - t
    BY <1>1, <1>2, <1>3
  <2> QED BY <1>2, <1>3, <1>7, <2>1
<1>9. p + n <= q
  <2>1. (p + n) * m = p * m + t
    BY <1>2, <1>7
  <2>2. (p + n) * m <= b
    BY <1>2, <1>7, <2>1
  <2> QED BY <1>3, <1>7, <2>2
<1> QED BY <1>1, <1>3, <1>5, <1>6, <1>7, <1>8, <1>9


-----------------------------------------------------------------------------
(* Sums over the correction decodes *)

\* s holds the sums of f up to every position up to n.
SumsUpTo(s, f, n) == s = [i \in 0 .. n |-> IF i = 0 THEN 0 ELSE s[i - 1] + f[i]]

\* The recursion of Total has a solution.
LEMMA SumsExist ==
  ASSUME NEW f, NEW n \in Nat
  PROVE  \E s : SumsUpTo(s, f, n)
<1> DEFINE T == {m \in Nat : \E s : SumsUpTo(s, f, m)}
<1>1. 0 \in T
  <2>1. SumsUpTo([i \in 0 .. 0 |-> 0], f, 0)
    BY DEF SumsUpTo
  <2> QED BY <2>1
<1>2. ASSUME NEW m \in Nat, NEW s, SumsUpTo(s, f, m)
      PROVE  \E t : SumsUpTo(t, f, m + 1)
  <2> DEFINE t == [i \in 0 .. m + 1 |-> IF i = m + 1 THEN s[m] + f[m + 1] ELSE s[i]]
  <2>1. \A i \in 0 .. m + 1 : t[i] = IF i = 0 THEN 0 ELSE t[i - 1] + f[i]
    <3> TAKE i \in 0 .. m + 1
    <3>1. CASE i = m + 1
      BY <3>1
    <3>2. CASE i # m + 1
      <4>1. i \in 0 .. m /\ s[i] = IF i = 0 THEN 0 ELSE s[i - 1] + f[i]
        BY <1>2, <3>2 DEF SumsUpTo
      <4> QED BY <4>1
    <3> QED BY <3>1, <3>2
  <2>2. SumsUpTo(t, f, m + 1)
    BY <2>1 DEF SumsUpTo
  <2> QED BY <2>2
<1>3. Nat \subseteq T
  <2>1. ASSUME NEW m \in Nat, m \in T PROVE m + 1 \in T
    BY <1>2, <2>1
  <2> HIDE DEF T
  <2> QED BY <1>1, <2>1, NatSetInduction
<1> QED BY <1>3

\* What Total returns is what a solution ends in.
LEMMA TotalSums ==
  ASSUME NEW f, NEW n \in Nat
  PROVE  \E s : SumsUpTo(s, f, n) /\ Total(f, n) = s[n]
<1> DEFINE sum == CHOOSE s : SumsUpTo(s, f, n)
<1>1. SumsUpTo(sum, f, n)
  BY SumsExist
<1>2. Total(f, n) = sum[n]
  BY DEF Total, SumsUpTo
<1> QED BY <1>1, <1>2

\* Two sums of terms that differ at one position differ by that.
LEMMA TotalChanges ==
  ASSUME NEW n \in Nat, NEW f \in [1 .. n -> Nat], NEW g \in [1 .. n -> Nat],
         NEW k \in 1 .. n, \A i \in 1 .. n : i # k => g[i] = f[i]
  PROVE  Total(f, n) \in Nat /\ Total(g, n) = Total(f, n) + g[k] - f[k]
<1>1. PICK s, t : /\ SumsUpTo(s, f, n) /\ Total(f, n) = s[n]
                  /\ SumsUpTo(t, g, n) /\ Total(g, n) = t[n]
  BY TotalSums
<1> DEFINE T == {m \in Nat : m <= n =>
                   s[m] \in Nat /\ t[m] = s[m] + IF m < k THEN 0 ELSE g[k] - f[k]}
<1>2. 0 \in T
  BY <1>1 DEF SumsUpTo
<1>3. ASSUME NEW m \in Nat, m \in T PROVE m + 1 \in T
  <2> SUFFICES ASSUME m + 1 <= n
               PROVE  /\ s[m + 1] \in Nat
                      /\ t[m + 1] = s[m + 1] + IF m + 1 < k THEN 0 ELSE g[k] - f[k]
    OBVIOUS
  <2>1. s[m + 1] = s[m] + f[m + 1] /\ t[m + 1] = t[m] + g[m + 1]
    BY <1>1 DEF SumsUpTo
  <2>2. s[m] \in Nat /\ t[m] = s[m] + IF m < k THEN 0 ELSE g[k] - f[k]
    BY <1>3
  <2>3. f[m + 1] \in Nat /\ g[m + 1] \in Nat /\ f[k] \in Nat /\ g[k] \in Nat
    OBVIOUS
  <2>4. m + 1 # k => g[m + 1] = f[m + 1]
    OBVIOUS
  <2>5. CASE m + 1 < k
    BY <2>1, <2>2, <2>3, <2>4, <2>5
  <2>6. CASE m + 1 = k
    <3>1. t[m] = s[m]
      BY <2>2, <2>6
    <3>2. t[m + 1] = s[m] + g[k] /\ s[m + 1] = s[m] + f[k]
      <4>1. f[m + 1] = f[k] /\ g[m + 1] = g[k]
        BY <2>6
      <4> QED BY <2>1, <3>1, <4>1
    <3> QED BY SMTT(30), <2>2, <2>3, <2>6, <3>2
  <2>7. CASE m + 1 > k
    <3>1. t[m] = s[m] + (g[k] - f[k]) /\ g[m + 1] = f[m + 1]
      BY <2>2, <2>4, <2>7
    <3> QED BY SMTT(30), <2>1, <2>2, <2>3, <2>7, <3>1
  <2> QED BY <2>5, <2>6, <2>7
<1>4. n \in T
  <2> HIDE DEF T
  <2> QED BY <1>2, <1>3, NatSetInduction
<1> QED BY <1>1, <1>4

\* A sum is natural and no less than each of its terms.
LEMMA TotalBounds ==
  ASSUME NEW n \in Nat, NEW f \in [1 .. n -> Nat]
  PROVE  Total(f, n) \in Nat /\ \A k \in 1 .. n : f[k] <= Total(f, n)
<1>1. ASSUME NEW k \in 1 .. n PROVE f[k] <= Total(f, n) /\ Total(f, n) \in Nat
  <2> DEFINE g == [f EXCEPT ![k] = 0]
  <2>1. g \in [1 .. n -> Nat] /\ g[k] = 0 /\ \A i \in 1 .. n : i # k => g[i] = f[i]
    OBVIOUS
  <2> HIDE DEF g
  <2>2. Total(g, n) \in Nat /\ Total(f, n) = Total(g, n) + f[k] - g[k]
    <3>1. \A i \in 1 .. n : i # k => f[i] = g[i]
      BY <2>1
    <3> QED BY <2>1, <3>1, TotalChanges
  <2> QED BY <2>1, <2>2
<1>2. CASE n = 0
  BY <1>2, TotalSums DEF SumsUpTo
<1>3. CASE n # 0
  BY <1>1, <1>3
<1> QED BY <1>1, <1>2, <1>3

\* Nothing out for correction sums to nothing.
LEMMA TotalZero ==
  ASSUME NEW n \in Nat, NEW f, \A i \in 1 .. n : f[i] = 0
  PROVE  Total(f, n) = 0
<1>1. PICK s : SumsUpTo(s, f, n) /\ Total(f, n) = s[n]
  BY TotalSums
<1> DEFINE T == {m \in Nat : m <= n => s[m] = 0}
<1>2. 0 \in T
  BY <1>1 DEF SumsUpTo
<1>3. ASSUME NEW m \in Nat, m \in T PROVE m + 1 \in T
  BY <1>1, <1>3 DEF SumsUpTo
<1>4. n \in T
  <2> HIDE DEF T
  <2> QED BY <1>2, <1>3, NatSetInduction
<1> QED BY <1>1, <1>4

-----------------------------------------------------------------------------
(* What a level needs and what is started *)

\* Counters in their ranges.
CounterSet == [buffer : [Levels -> Nat], busy : [Levels -> Nat], inFlight : Nat,
               making : [Levels -> Nat]]
InRange(c) == c \in CounterSet /\ \A level \in Levels : c.busy[level] <= fac.units[level]

\* What the constructors check of a factory.
LEMMA FactoryFacts ==
  ASSUME fac \in Factories
  PROVE  /\ Top \in Nat \ {0} /\ Levels = 0 .. Top /\ 0 \in Levels /\ Top \in Levels
         /\ \A level \in Levels : fac.units[level] \in Nat \ {0}
         /\ fac.M \in Nat \ {0} /\ fac.N \in Nat \ {0}
         /\ fac.corr \in Nat /\ fac.stock \in Nat /\ fac.initial \in Nat
         /\ Decodes = 1 .. fac.corr
         /\ ~ fac.multi => Top = 1 /\ Levels = {0, 1}
<1>1. /\ fac.units \in [0 .. fac.top -> Nat \ {0}] /\ fac.top \in Nat \ {0}
      /\ fac.M \in Nat \ {0} /\ fac.N \in Nat \ {0}
      /\ fac.corr \in Nat /\ fac.stock \in Nat /\ fac.initial \in Nat
      /\ ~ fac.multi => fac.top = 1
  BY SupplyAssumption DEF FactoryAssumption
<1> QED BY <1>1 DEF Top, Levels, Decodes

\* Induction over the levels, from the top one down.
LEMMA DownTheLevels ==
  ASSUME fac \in Factories, NEW S, Top \in S,
         \A level \in Levels : level # Top /\ level + 1 \in S => level \in S
  PROVE  Levels \subseteq S
<1>1. Top \in Nat /\ Levels = 0 .. Top
  BY FactoryFacts
<1> DEFINE T == {n \in Nat : n <= Top => Top - n \in S}
<1>2. 0 \in T
  BY <1>1
<1>3. ASSUME NEW n \in Nat, n \in T PROVE n + 1 \in T
  <2> SUFFICES ASSUME n + 1 <= Top PROVE Top - (n + 1) \in S
    OBVIOUS
  <2>1. PICK level : level = Top - (n + 1)
    OBVIOUS
  <2>2. level \in Levels /\ level # Top /\ level + 1 = Top - n
    BY <1>1, <2>1
  <2>3. level + 1 \in S
    BY <1>1, <1>3, <2>2
  <2> QED BY <2>1, <2>2, <2>3
<1>4. Nat \subseteq T
  <2> HIDE DEF T
  <2> QED BY <1>2, <1>3, NatSetInduction
<1>5. ASSUME NEW level \in Levels PROVE level \in S
  <2>1. Top - level \in Nat /\ Top - level <= Top /\ Top - (Top - level) = level
    BY <1>1
  <2> QED BY <1>4, <2>1
<1> QED BY <1>5

\* The rounds wanted of a level are a number of rounds.
LEMMA WantedType ==
  ASSUME fac \in Factories, NEW c, InRange(c), NEW level \in Levels, NEW need \in Nat
  PROVE  /\ c.buffer[level] \in Nat /\ c.busy[level] \in Nat
         /\ c.busy[level] * fac.N \in Nat
         /\ need - c.buffer[level] - c.busy[level] * fac.N \in Int
         /\ Positive(need - c.buffer[level] - c.busy[level] * fac.N) \in Nat
         /\ RoundsWanted(c, level, need) \in Nat
<1>1. c.buffer[level] \in Nat /\ c.busy[level] \in Nat /\ fac.N \in Nat \ {0}
  BY FactoryFacts DEF InRange, CounterSet
<1>2. PICK x : x = c.busy[level] * fac.N
  OBVIOUS
<1>3. x \in Nat
  BY <1>1, <1>2
<1>4. need - c.buffer[level] - x \in Int
  BY <1>1, <1>3
<1>5. Positive(need - c.buffer[level] - x) \in Nat
  BY <1>4, PositivePart
<1>6. CeilDiv(Positive(need - c.buffer[level] - x), fac.N) \in Nat
  BY <1>1, <1>5, CeilDivLeast
<1> QED BY <1>1, <1>2, <1>3, <1>4, <1>5, <1>6 DEF RoundsWanted

\* g computes the needs from the top level down to the given one.
NeedsDownTo(g, c, requests, bottom) ==
  g = [level \in bottom .. Top |->
         IF level = Top THEN requests + fac.stock
         ELSE fac.M * RoundsWanted(c, level + 1, g[level + 1])]

\* The recursion of Need has a solution.
LEMMA NeedsExist ==
  ASSUME fac \in Factories, NEW c, NEW requests
  PROVE  \E g : NeedsDownTo(g, c, requests, 0)
<1>1. Top \in Nat /\ Levels = 0 .. Top
  BY FactoryFacts
<1> DEFINE S == {level \in Levels : \E g : NeedsDownTo(g, c, requests, level)}
<1>2. Top \in S
  <2>1. NeedsDownTo([level \in Top .. Top |-> requests + fac.stock], c, requests, Top)
    <3>1. \A level \in Top .. Top : level = Top
      BY <1>1
    <3> QED BY <3>1 DEF NeedsDownTo
  <2> QED BY <1>1, <2>1
<1>3. ASSUME NEW level \in Levels, level # Top, level + 1 \in S PROVE level \in S
  <2>1. PICK g : NeedsDownTo(g, c, requests, level + 1)
    BY <1>3
  <2> DEFINE last == fac.M * RoundsWanted(c, level + 1, g[level + 1])
             h == [i \in level .. Top |-> IF i = level THEN last ELSE g[i]]
  <2>2. level \in Nat /\ level < Top
    BY <1>1, <1>3
  <2>3. \A i \in level .. Top :
          h[i] = IF i = Top THEN requests + fac.stock
                 ELSE fac.M * RoundsWanted(c, i + 1, h[i + 1])
    <3> TAKE i \in level .. Top
    <3>1. CASE i = level
      <4>1. level + 1 \in level .. Top /\ level + 1 # level
        BY <1>1, <2>2
      <4>2. h[i] = last /\ h[i + 1] = g[level + 1]
        BY <3>1, <4>1
      <4> QED BY <1>3, <3>1, <4>2
    <3>2. CASE i # level
      <4>1. i \in level + 1 .. Top /\ i # level /\ (i # Top => i + 1 \in level .. Top /\ i + 1 # level)
        BY <1>1, <2>2, <3>2
      <4>2. h[i] = g[i] /\ (i # Top => h[i + 1] = g[i + 1])
        BY <4>1
      <4>3. g[i] = IF i = Top THEN requests + fac.stock
                   ELSE fac.M * RoundsWanted(c, i + 1, g[i + 1])
        BY <2>1, <4>1 DEF NeedsDownTo
      <4> QED BY <4>2, <4>3
    <3> QED BY <3>1, <3>2
  <2>4. NeedsDownTo(h, c, requests, level)
    BY <2>3 DEF NeedsDownTo
  <2> QED BY <2>4
<1>4. Levels \subseteq S
  <2> HIDE DEF S
  <2> QED BY <1>2, <1>3, DownTheLevels
<1>5. 0 \in S
  BY <1>4, FactoryFacts
<1> QED BY <1>5

\* What a level needs: the requests and the stock at the top, the inputs of
\* the rounds wanted above it elsewhere.
LEMMA NeedIs ==
  ASSUME fac \in Factories, NEW c, InRange(c), NEW requests \in Nat
  PROVE  LET need == Need(c, requests)
         IN /\ \A level \in Levels : need[level] \in Nat
            /\ need[Top] = requests + fac.stock
            /\ \A level \in Levels :
                 level # Top => need[level] = fac.M * RoundsWanted(c, level + 1, need[level + 1])
<1> DEFINE need == Need(c, requests)
<1>1. /\ Top \in Nat /\ Levels = 0 .. Top /\ Top \in Levels
      /\ fac.M \in Nat /\ fac.stock \in Nat
  BY FactoryFacts
<1>2. NeedsDownTo(need, c, requests, 0)
  <2> DEFINE g == CHOOSE h : NeedsDownTo(h, c, requests, 0)
  <2>1. NeedsDownTo(g, c, requests, 0)
    BY NeedsExist
  <2>2. need = g
    BY DEF Need, NeedsDownTo, Levels
  <2> QED BY <2>1, <2>2
<1> HIDE DEF need
<1>3. /\ need[Top] = requests + fac.stock
      /\ \A level \in Levels :
           level # Top => need[level] = fac.M * RoundsWanted(c, level + 1, need[level + 1])
  BY <1>1, <1>2 DEF NeedsDownTo
<1> DEFINE S == {level \in Levels : need[level] \in Nat}
<1>4. Top \in S
  BY <1>1, <1>3
<1>5. ASSUME NEW level \in Levels, level # Top, level + 1 \in S PROVE level \in S
  <2>1. RoundsWanted(c, level + 1, need[level + 1]) \in Nat
    BY <1>5, WantedType
  <2>2. fac.M * RoundsWanted(c, level + 1, need[level + 1]) \in Nat
    <3>1. PICK x : x = RoundsWanted(c, level + 1, need[level + 1])
      OBVIOUS
    <3>2. x * fac.M \in Int /\ fac.M * x = x * fac.M /\ 0 * fac.M <= x * fac.M
      BY <1>1, <2>1, <3>1, TimesMonotone
    <3> QED BY <1>1, <2>1, <3>1
  <2> QED BY <1>3, <1>5, <2>2
<1>6. Levels \subseteq S
  <2> HIDE DEF S
  <2> QED BY <1>4, <1>5, DownTheLevels
<1> QED BY <1>3, <1>6 DEF need

\* What one pass starts: no more than the rounds wanted, the idle units and
\* the inputs in store allow, and as much as one of them does.
LEMMA StartsAre ==
  ASSUME fac \in Factories, NEW c, InRange(c), NEW requests \in Nat
  PROVE  LET need == Need(c, requests)
             n == Starts(c, requests)
         IN /\ n \in [Levels -> Nat]
            /\ \A level \in Levels : c.busy[level] + n[level] <= fac.units[level]
            /\ n[0] = Positive(Min({need[0] - c.buffer[0] - c.busy[0],
                                    fac.units[0] - c.busy[0]}))
            /\ \A level \in Levels : level # 0 =>
                 /\ level - 1 \in Levels
                 /\ n[level] <= RoundsWanted(c, level, need[level])
                 /\ n[level] <= c.buffer[level - 1] \div fac.M
                 /\ n[level] \in {RoundsWanted(c, level, need[level]),
                                  fac.units[level] - c.busy[level],
                                  c.buffer[level - 1] \div fac.M}
<1> DEFINE need == Need(c, requests)
           n == Starts(c, requests)
<1>1. /\ Levels = 0 .. Top /\ Top \in Nat /\ 0 \in Levels /\ fac.M \in Nat \ {0}
      /\ \A level \in Levels : fac.units[level] \in Nat
  BY FactoryFacts
<1>2. \A level \in Levels :
        /\ c.busy[level] \in Nat /\ c.buffer[level] \in Nat
        /\ c.busy[level] <= fac.units[level]
  BY DEF InRange, CounterSet
<1>3. \A level \in Levels : need[level] \in Nat
  BY NeedIs
<1>4. /\ n = [level \in Levels |-> n[level]]
      /\ n[0] = Positive(Min({need[0] - c.buffer[0] - c.busy[0], fac.units[0] - c.busy[0]}))
      /\ \A level \in Levels : level # 0 =>
           n[level] = Min({RoundsWanted(c, level, need[level]),
                           fac.units[level] - c.busy[level], c.buffer[level - 1] \div fac.M})
  BY <1>1 DEF Starts
<1> HIDE DEF need, n
<1>5. n[0] \in Nat /\ c.busy[0] + n[0] <= fac.units[0]
  <2>1. PICK a, b : a = need[0] - c.buffer[0] - c.busy[0] /\ b = fac.units[0] - c.busy[0]
    OBVIOUS
  <2>2. a \in Int /\ b \in Nat
    BY SMTT(30), <1>1, <1>2, <1>3, <2>1
  <2>3. Min({a, b}) \in Int /\ Min({a, b}) <= b
    BY <2>2, MinOfTwo
  <2>4. Positive(Min({a, b})) \in Nat /\ Positive(Min({a, b})) <= b
    BY <2>2, <2>3, PositivePart
  <2>5. n[0] \in Nat /\ n[0] <= fac.units[0] - c.busy[0]
    BY <1>4, <2>1, <2>4
  <2> QED BY <1>1, <1>2, <2>5
<1>6. ASSUME NEW level \in Levels, level # 0
      PROVE  /\ n[level] \in Nat /\ c.busy[level] + n[level] <= fac.units[level]
             /\ level - 1 \in Levels
             /\ n[level] <= RoundsWanted(c, level, need[level])
             /\ n[level] <= c.buffer[level - 1] \div fac.M
             /\ n[level] \in {RoundsWanted(c, level, need[level]),
                              fac.units[level] - c.busy[level],
                              c.buffer[level - 1] \div fac.M}
  <2>1. PICK a, b, d : /\ a = RoundsWanted(c, level, need[level])
                       /\ b = fac.units[level] - c.busy[level]
                       /\ d = c.buffer[level - 1] \div fac.M
    OBVIOUS
  <2>2. level - 1 \in Levels
    BY <1>1, <1>6
  <2>3. a \in Nat /\ b \in Nat /\ d \in Nat
    <3>1. a \in Nat
      BY <1>1, <1>3, <2>1, WantedType
    <3>2. b \in Nat
      BY <1>1, <1>2, <2>1
    <3>3. d \in Nat
      <4>1. PICK M, y : M = fac.M /\ y = c.buffer[level - 1]
        OBVIOUS
      <4>2. M \in Nat \ {0} /\ y \in Nat
        BY <1>1, <1>2, <2>2, <4>1
      <4> QED BY <2>1, <4>1, <4>2, DivGreatest
    <3> QED BY <3>1, <3>2, <3>3
  <2>4. n[level] = Min({a, b, d})
    BY <1>4, <1>6, <2>1
  <2>5. Min({a, b, d}) \in {a, b, d} /\ Min({a, b, d}) <= a /\ Min({a, b, d}) <= b
        /\ Min({a, b, d}) <= d
    <3>1. a \in Int /\ b \in Int /\ d \in Int
      BY <2>3
    <3> QED BY <3>1, MinOfThree
  <2>6. n[level] \in Nat /\ n[level] <= fac.units[level] - c.busy[level]
    BY <2>1, <2>3, <2>4, <2>5
  <2>7. c.busy[level] + n[level] <= fac.units[level]
    BY <1>1, <1>2, <2>6
  <2> QED BY <2>1, <2>2, <2>4, <2>5, <2>6, <2>7
<1>7. \A level \in Levels : n[level] \in Nat /\ c.busy[level] + n[level] <= fac.units[level]
  BY <1>5, <1>6
<1>8. n \in [Levels -> Nat]
  BY <1>4, <1>7
<1> QED BY <1>4, <1>6, <1>7, <1>8 DEF need, n

-----------------------------------------------------------------------------
(* One pass of the pull engine *)

\* A pass keeps the counters in their ranges; each attempt it starts takes a
\* unit; it takes no state from the top store.
LEMMA MultiStartCounts ==
  ASSUME fac \in Factories, NEW c, InRange(c), NEW requests \in Nat
  PROVE  LET n == Starts(c, requests)
             d == MultiStart(c, requests)
         IN /\ InRange(d)
            /\ \A level \in Levels : /\ d.busy[level] = c.busy[level] + n[level]
                                     /\ d.making[level] = c.making[level] + n[level]
                                     /\ level # Top =>
                                          d.buffer[level] = c.buffer[level] - fac.M * n[level + 1]
            /\ d.buffer[Top] = c.buffer[Top] /\ d.inFlight = c.inFlight
<1> DEFINE n == Starts(c, requests)
           d == MultiStart(c, requests)
<1>1. /\ Levels = 0 .. Top /\ Top \in Nat /\ Top \in Levels /\ fac.M \in Nat \ {0}
  BY FactoryFacts
<1>2. /\ n \in [Levels -> Nat]
      /\ \A level \in Levels : c.busy[level] + n[level] <= fac.units[level]
      /\ \A level \in Levels : level # 0 => n[level] <= c.buffer[level - 1] \div fac.M
  BY StartsAre
<1>3. /\ c \in CounterSet /\ c.buffer \in [Levels -> Nat] /\ c.busy \in [Levels -> Nat]
      /\ c.making \in [Levels -> Nat] /\ c.inFlight \in Nat
  BY DEF InRange, CounterSet
<1>4. d = [c EXCEPT !.busy   = [level \in Levels |-> c.busy[level] + n[level]],
                    !.making = [level \in Levels |-> c.making[level] + n[level]],
                    !.buffer = [level \in Levels |->
                                  c.buffer[level] - IF level = Top THEN 0
                                                    ELSE fac.M * n[level + 1]]]
  BY DEF MultiStart
<1> HIDE DEF n, d
<1>5. /\ d.busy = [level \in Levels |-> c.busy[level] + n[level]]
      /\ d.making = [level \in Levels |-> c.making[level] + n[level]]
      /\ d.buffer = [level \in Levels |->
                       c.buffer[level] - IF level = Top THEN 0 ELSE fac.M * n[level + 1]]
      /\ d.inFlight = c.inFlight
      /\ d = [buffer |-> d.buffer, busy |-> d.busy, inFlight |-> d.inFlight,
              making |-> d.making]
  BY <1>3, <1>4 DEF CounterSet
<1>6. ASSUME NEW level \in Levels
      PROVE  /\ d.busy[level] = c.busy[level] + n[level]
             /\ d.making[level] = c.making[level] + n[level]
             /\ d.buffer[level] = c.buffer[level] - IF level = Top THEN 0
                                                    ELSE fac.M * n[level + 1]
  BY <1>5
<1>7. ASSUME NEW level \in Levels
      PROVE  d.busy[level] \in Nat /\ d.making[level] \in Nat /\ d.buffer[level] \in Nat
             /\ d.busy[level] <= fac.units[level]
  <2>1. c.busy[level] \in Nat /\ c.making[level] \in Nat /\ c.buffer[level] \in Nat
        /\ n[level] \in Nat
    BY <1>2, <1>3
  <2>2. d.buffer[level] \in Nat
    <3>1. CASE level = Top
      BY <1>6, <2>1, <3>1
    <3>2. CASE level # Top
      <4>1. level + 1 \in Levels /\ level + 1 # 0 /\ (level + 1) - 1 = level
        BY <1>1, <3>2
      <4>2. n[level + 1] \in Nat /\ n[level + 1] <= c.buffer[level] \div fac.M
        BY <1>2, <4>1
      <4>3. c.buffer[level] - fac.M * n[level + 1] \in Nat
        BY <1>1, <2>1, <4>2, DivShift
      <4> QED BY <1>6, <3>2, <4>3
    <3> QED BY <3>1, <3>2
  <2>3. d.busy[level] <= fac.units[level]
    BY <1>2, <1>6
  <2> QED BY <1>6, <2>1, <2>2, <2>3
<1>8. d \in CounterSet
  <2>1. d.busy \in [Levels -> Nat] /\ d.making \in [Levels -> Nat] /\ d.buffer \in [Levels -> Nat]
    BY <1>5, <1>7
  <2> QED BY <1>3, <1>5, <2>1 DEF CounterSet
<1>9. d.buffer[Top] = c.buffer[Top]
  <2>1. c.buffer[Top] \in Nat
    BY <1>1, <1>3
  <2> QED BY <1>1, <1>6, <2>1
<1> QED BY <1>5, <1>6, <1>7, <1>8, <1>9 DEF InRange, n, d

\* The rounds a pass starts are no longer wanted afterwards: what a level
\* needs and what it has in store fall by the same inputs.
LEMMA WantedAfterPass ==
  ASSUME fac \in Factories, NEW c, InRange(c), NEW requests \in Nat
  PROVE  LET n == Starts(c, requests)
             d == MultiStart(c, requests)
         IN /\ \A level \in Levels :
                 level # 0 => RoundsWanted(d, level, Need(d, requests)[level])
                                = RoundsWanted(c, level, Need(c, requests)[level]) - n[level]
            /\ Need(d, requests)[0] - d.buffer[0] = Need(c, requests)[0] - c.buffer[0]
<1> DEFINE n == Starts(c, requests)
           d == MultiStart(c, requests)
           need == Need(c, requests)
           new == Need(d, requests)
           Same(level) == new[level] - d.buffer[level] = need[level] - c.buffer[level]
<1>1. /\ Levels = 0 .. Top /\ Top \in Nat \ {0} /\ Top \in Levels /\ 0 \in Levels
      /\ fac.M \in Nat \ {0} /\ fac.N \in Nat \ {0}
  BY FactoryFacts
<1>2. /\ InRange(d)
      /\ \A level \in Levels : /\ d.busy[level] = c.busy[level] + n[level]
                               /\ level # Top =>
                                    d.buffer[level] = c.buffer[level] - fac.M * n[level + 1]
      /\ d.buffer[Top] = c.buffer[Top]
  BY MultiStartCounts
<1>3. /\ n \in [Levels -> Nat]
      /\ \A level \in Levels : level # 0 => n[level] <= RoundsWanted(c, level, need[level])
  BY StartsAre
<1>4. /\ \A level \in Levels : need[level] \in Nat
      /\ need[Top] = requests + fac.stock
      /\ \A level \in Levels :
           level # Top => need[level] = fac.M * RoundsWanted(c, level + 1, need[level + 1])
  BY NeedIs
<1>5. /\ \A level \in Levels : new[level] \in Nat
      /\ new[Top] = requests + fac.stock
      /\ \A level \in Levels :
           level # Top => new[level] = fac.M * RoundsWanted(d, level + 1, new[level + 1])
  BY <1>2, NeedIs
<1> HIDE DEF n, d, need, new
<1>6. ASSUME NEW level \in Levels
      PROVE  /\ c.buffer[level] \in Nat /\ c.busy[level] \in Nat /\ n[level] \in Nat
             /\ d.buffer[level] \in Nat /\ d.busy[level] \in Nat
  BY <1>2, <1>3 DEF InRange, CounterSet
<1>7. ASSUME NEW level \in Levels, level # 0, Same(level)
      PROVE  RoundsWanted(d, level, new[level]) = RoundsWanted(c, level, need[level]) - n[level]
  <2>1. PICK b, k, N, x : /\ b = c.busy[level] /\ k = n[level] /\ N = fac.N
                          /\ x = need[level] - c.buffer[level] - b * N
    OBVIOUS
  <2>2. b \in Nat /\ k \in Nat /\ N \in Nat \ {0} /\ b * N \in Nat /\ k * N \in Int
    BY <1>1, <1>6, <2>1, TimesMonotone
  <2>3. x \in Int
    BY <1>4, <1>6, <2>1, <2>2
  <2>4. RoundsWanted(c, level, need[level]) = CeilDiv(Positive(x), N)
    BY <2>1 DEF RoundsWanted
  <2>5. k <= CeilDiv(Positive(x), N)
    BY <1>3, <1>7, <2>1, <2>4
  <2>6. new[level] - d.buffer[level] - d.busy[level] * N = x - k * N
    <3>1. d.busy[level] * N = b * N + k * N
      BY <1>2, <2>1, <2>2
    <3>2. new[level] - d.buffer[level] = need[level] - c.buffer[level]
      BY <1>7
    <3>3. need[level] - c.buffer[level] \in Int
      BY <1>4, <1>6
    <3> QED BY <2>1, <2>2, <3>1, <3>2, <3>3
  <2>7. RoundsWanted(d, level, new[level]) = CeilDiv(Positive(x - k * N), N)
    BY <2>1, <2>6 DEF RoundsWanted
  <2> QED BY <2>1, <2>2, <2>3, <2>4, <2>5, <2>7, CeilDivShift
<1> DEFINE S == {level \in Levels : Same(level)}
<1>8. Top \in S
  BY <1>1, <1>2, <1>4, <1>5
<1>9. ASSUME NEW level \in Levels, level # Top, level + 1 \in S PROVE level \in S
  <2>1. level + 1 \in Levels /\ level + 1 # 0 /\ Same(level + 1)
    BY <1>1, <1>9
  <2>2. PICK w, k, M : /\ w = RoundsWanted(c, level + 1, need[level + 1])
                       /\ k = n[level + 1] /\ M = fac.M
    OBVIOUS
  <2>3. w \in Nat /\ k \in Nat /\ M \in Nat
    BY <1>1, <1>4, <1>6, <2>1, <2>2, WantedType
  <2>4. RoundsWanted(d, level + 1, new[level + 1]) = w - k
    BY <1>7, <2>1, <2>2
  <2>5. need[level] = M * w /\ new[level] = M * (w - k)
        /\ d.buffer[level] = c.buffer[level] - M * k
    BY <1>2, <1>4, <1>5, <1>9, <2>2, <2>4
  <2>6. M * (w - k) = M * w - M * k /\ M * w \in Int /\ M * k \in Int
    BY <2>3
  <2>7. new[level] - d.buffer[level] = need[level] - c.buffer[level]
    <3>1. PICK p, q : p = M * w /\ q = M * k
      OBVIOUS
    <3>2. p \in Int /\ q \in Int /\ c.buffer[level] \in Int
      BY <1>6, <2>6, <3>1
    <3>3. need[level] = p /\ new[level] = p - q /\ d.buffer[level] = c.buffer[level] - q
      BY <2>5, <2>6, <3>1
    <3> QED BY <3>2, <3>3
  <2> QED BY <2>7
<1>10. Levels \subseteq S
  <2> HIDE DEF S
  <2> QED BY <1>8, <1>9, DownTheLevels
<1> QED BY <1>1, <1>7, <1>10 DEF n, d, need, new

\* One pass is enough: after it, another pass starts nothing.
LEMMA PassIsEnough ==
  ASSUME fac \in Factories, NEW c, InRange(c), NEW requests \in Nat
  PROVE  LET d == MultiStart(c, requests)
         IN \A level \in Levels : Starts(d, requests)[level] = 0
<1> DEFINE n == Starts(c, requests)
           d == MultiStart(c, requests)
           m == Starts(d, requests)
           need == Need(c, requests)
           new == Need(d, requests)
<1>1. /\ Levels = 0 .. Top /\ Top \in Nat \ {0} /\ Top \in Levels /\ 0 \in Levels
      /\ fac.M \in Nat \ {0}
      /\ \A level \in Levels : fac.units[level] \in Nat
  BY FactoryFacts
<1>2. /\ InRange(d)
      /\ \A level \in Levels : /\ d.busy[level] = c.busy[level] + n[level]
                               /\ level # Top =>
                                    d.buffer[level] = c.buffer[level] - fac.M * n[level + 1]
  BY MultiStartCounts
<1>3. /\ \A level \in Levels :
           level # 0 => RoundsWanted(d, level, new[level])
                          = RoundsWanted(c, level, need[level]) - n[level]
      /\ new[0] - d.buffer[0] = need[0] - c.buffer[0]
  BY WantedAfterPass
<1>4. /\ \A level \in Levels : n[level] \in Nat
      /\ n[0] = Positive(Min({need[0] - c.buffer[0] - c.busy[0],
                              fac.units[0] - c.busy[0]}))
      /\ \A level \in Levels : level # 0 =>
           /\ n[level] <= c.buffer[level - 1] \div fac.M
           /\ n[level] \in {RoundsWanted(c, level, need[level]),
                            fac.units[level] - c.busy[level],
                            c.buffer[level - 1] \div fac.M}
  BY StartsAre
<1>5. /\ \A level \in Levels : m[level] \in Nat /\ d.busy[level] + m[level] <= fac.units[level]
      /\ m[0] = Positive(Min({new[0] - d.buffer[0] - d.busy[0],
                              fac.units[0] - d.busy[0]}))
      /\ \A level \in Levels : level # 0 =>
           /\ m[level] <= RoundsWanted(d, level, new[level])
           /\ m[level] <= d.buffer[level - 1] \div fac.M
  BY <1>2, StartsAre
<1>6. \A level \in Levels : need[level] \in Nat /\ new[level] \in Nat
  BY <1>2, NeedIs
<1> HIDE DEF n, d, m, need, new
<1>7. ASSUME NEW level \in Levels
      PROVE  /\ c.buffer[level] \in Nat /\ c.busy[level] \in Nat
             /\ d.buffer[level] \in Nat /\ d.busy[level] \in Nat
  BY <1>2 DEF InRange, CounterSet
<1>8. m[0] = 0
  <2>1. PICK a, b, k : /\ a = need[0] - c.buffer[0] - c.busy[0]
                       /\ b = fac.units[0] - c.busy[0] /\ k = n[0]
    OBVIOUS
  <2>2. a \in Int /\ b \in Int /\ k \in Nat
    BY <1>1, <1>4, <1>6, <1>7, <2>1
  <2>3. new[0] - d.buffer[0] - d.busy[0] = a - k /\ fac.units[0] - d.busy[0] = b - k
    <3>1. d.busy[0] = c.busy[0] + k /\ new[0] - d.buffer[0] = need[0] - c.buffer[0]
      BY <1>1, <1>2, <1>3, <2>1
    <3>2. need[0] - c.buffer[0] \in Int /\ fac.units[0] \in Int /\ c.busy[0] \in Int
      BY <1>1, <1>6, <1>7
    <3> QED BY <2>1, <2>2, <3>1, <3>2
  <2>4. Min({a, b}) = (IF a <= b THEN a ELSE b)
        /\ Min({a - k, b - k}) = (IF a - k <= b - k THEN a - k ELSE b - k)
    BY <2>2, MinOfTwo
  <2>5. k = Positive(Min({a, b})) /\ m[0] = Positive(Min({a - k, b - k}))
    BY <1>4, <1>5, <2>1, <2>3
  <2>6. Positive(Min({a, b})) = (IF Min({a, b}) <= 0 THEN 0 ELSE Min({a, b}))
        /\ Min({a, b}) \in Int
    BY <2>2, <2>4, PositivePart
  <2>7. Positive(Min({a - k, b - k})) =
          (IF Min({a - k, b - k}) <= 0 THEN 0 ELSE Min({a - k, b - k}))
    BY <2>2, <2>4, PositivePart
  <2>8. Min({a - k, b - k}) = Min({a, b}) - k
    BY <2>2, <2>4
  <2> QED BY <2>2, <2>5, <2>6, <2>7, <2>8
<1>9. ASSUME NEW level \in Levels, level # 0 PROVE m[level] = 0
  <2>1. PICK k, below : k = n[level] /\ below = c.buffer[level - 1]
    OBVIOUS
  <2>2. level - 1 \in Levels /\ level - 1 # Top /\ (level - 1) + 1 = level
    BY <1>1, <1>9
  <2>3. k \in Nat /\ below \in Nat /\ k <= below \div fac.M
    BY <1>4, <1>7, <1>9, <2>1, <2>2
  <2>4. d.buffer[level - 1] = below - fac.M * k
    BY <1>2, <2>1, <2>2
  <2>5. d.buffer[level - 1] \div fac.M = (below \div fac.M) - k
    <3>1. PICK M : M = fac.M
      OBVIOUS
    <3>2. M \in Nat \ {0} /\ k <= below \div M
      BY <1>1, <2>3, <3>1
    <3>3. (below - M * k) \div M = (below \div M) - k
      BY <2>3, <3>2, DivShift
    <3> QED BY <2>4, <3>1, <3>3
  <2>6. CASE k = RoundsWanted(c, level, need[level])
    <3>1. RoundsWanted(d, level, new[level]) = k - k
      BY <1>3, <1>9, <2>1, <2>6
    <3>2. m[level] <= k - k /\ m[level] \in Nat
      BY <1>5, <1>9, <3>1
    <3> QED BY <2>3, <3>2
  <2>7. CASE k = fac.units[level] - c.busy[level]
    <3>1. d.busy[level] = c.busy[level] + k
      BY <1>2, <2>1
    <3>2. m[level] \in Nat /\ d.busy[level] + m[level] <= fac.units[level]
      BY <1>5
    <3>3. c.busy[level] \in Nat /\ fac.units[level] \in Nat
      BY <1>1, <1>7
    <3> QED BY <2>3, <2>7, <3>1, <3>2, <3>3
  <2>8. CASE k = below \div fac.M
    <3>1. d.buffer[level - 1] \div fac.M = k - k
      BY <2>5, <2>8
    <3>2. m[level] <= k - k /\ m[level] \in Nat
      BY <1>5, <1>9, <3>1
    <3> QED BY <2>3, <3>2
  <2>9. k \in {RoundsWanted(c, level, need[level]), fac.units[level] - c.busy[level],
               below \div fac.M}
    BY <1>4, <1>9, <2>1
  <2> QED BY <2>6, <2>7, <2>8, <2>9
<1> QED BY <1>8, <1>9 DEF m, d

\* CeilDiv is monotone.
LEMMA CeilDivMonotone ==
  ASSUME NEW a \in Nat, NEW b \in Nat, a <= b, NEW m \in Nat \ {0}
  PROVE  CeilDiv(a, m) <= CeilDiv(b, m)
<1>1. CeilDiv(b, m) \in Nat /\ b <= CeilDiv(b, m) * m
  BY CeilDivLeast
<1>2. CeilDiv(b, m) * m \in Int
  BY <1>1, TimesMonotone
<1>3. a <= CeilDiv(b, m) * m
  BY <1>1, <1>2
<1> QED BY <1>1, <1>3, CeilDivLeast

\* With no more requests and the same stores and units no level needs more.
LEMMA NeedMonotone ==
  ASSUME fac \in Factories, NEW c, InRange(c), NEW d, InRange(d),
         d.buffer = c.buffer, d.busy = c.busy,
         NEW requests \in Nat, NEW fewer \in Nat, fewer <= requests
  PROVE  /\ \A level \in Levels : Need(d, fewer)[level] <= Need(c, requests)[level]
         /\ \A level \in Levels :
              RoundsWanted(d, level, Need(d, fewer)[level])
                <= RoundsWanted(c, level, Need(c, requests)[level])
<1> DEFINE need == Need(c, requests)
           new == Need(d, fewer)
<1>1. /\ Levels = 0 .. Top /\ Top \in Nat \ {0} /\ Top \in Levels
      /\ fac.M \in Nat \ {0} /\ fac.N \in Nat \ {0} /\ fac.stock \in Nat
  BY FactoryFacts
<1>2. /\ \A level \in Levels : need[level] \in Nat
      /\ need[Top] = requests + fac.stock
      /\ \A level \in Levels :
           level # Top => need[level] = fac.M * RoundsWanted(c, level + 1, need[level + 1])
  BY NeedIs
<1>3. /\ \A level \in Levels : new[level] \in Nat
      /\ new[Top] = fewer + fac.stock
      /\ \A level \in Levels :
           level # Top => new[level] = fac.M * RoundsWanted(d, level + 1, new[level + 1])
  BY NeedIs
<1> HIDE DEF need, new
<1>4. ASSUME NEW level \in Levels, new[level] <= need[level]
      PROVE  RoundsWanted(d, level, new[level]) <= RoundsWanted(c, level, need[level])
  <2>1. PICK x, y : /\ x = new[level] - c.buffer[level] - c.busy[level] * fac.N
                    /\ y = need[level] - c.buffer[level] - c.busy[level] * fac.N
    OBVIOUS
  <2>2. c.buffer[level] \in Nat /\ c.busy[level] * fac.N \in Nat
    BY <1>2, WantedType
  <2>3. x \in Int /\ y \in Int /\ x <= y
    BY <1>2, <1>3, <1>4, <2>1, <2>2
  <2>4. Positive(x) \in Nat /\ Positive(y) \in Nat /\ Positive(x) <= Positive(y)
    BY <2>3, PositivePart
  <2>5. CeilDiv(Positive(x), fac.N) <= CeilDiv(Positive(y), fac.N)
    BY <1>1, <2>4, CeilDivMonotone
  <2> QED BY <2>1, <2>5 DEF RoundsWanted
<1> DEFINE S == {level \in Levels : new[level] <= need[level]}
<1>5. Top \in S
  BY <1>1, <1>2, <1>3
<1>6. ASSUME NEW level \in Levels, level # Top, level + 1 \in S PROVE level \in S
  <2>1. level + 1 \in Levels
    BY <1>6
  <2>2. PICK v, w : /\ v = RoundsWanted(d, level + 1, new[level + 1])
                    /\ w = RoundsWanted(c, level + 1, need[level + 1])
    OBVIOUS
  <2>3. v \in Nat /\ w \in Nat /\ v <= w
    BY <1>2, <1>3, <1>4, <1>6, <2>1, <2>2, WantedType
  <2>4. v * fac.M <= w * fac.M /\ fac.M * v = v * fac.M /\ fac.M * w = w * fac.M
    BY <1>1, <2>3, TimesMonotone
  <2> QED BY <1>2, <1>3, <1>6, <2>2, <2>4
<1>7. Levels \subseteq S
  <2> HIDE DEF S
  <2> QED BY <1>5, <1>6, DownTheLevels
<1> QED BY <1>4, <1>7 DEF need, new

\* Where a pass starts nothing, it starts nothing for fewer requests.
LEMMA StillSettled ==
  ASSUME fac \in Factories, NEW c, InRange(c), NEW d, InRange(d),
         d.buffer = c.buffer, d.busy = c.busy,
         NEW requests \in Nat, NEW fewer \in Nat, fewer <= requests,
         \A level \in Levels : Starts(c, requests)[level] = 0
  PROVE  \A level \in Levels : Starts(d, fewer)[level] = 0
<1> DEFINE n == Starts(c, requests)
           m == Starts(d, fewer)
           need == Need(c, requests)
           new == Need(d, fewer)
<1>1. /\ Levels = 0 .. Top /\ Top \in Nat \ {0} /\ 0 \in Levels
      /\ \A level \in Levels : fac.units[level] \in Nat
  BY FactoryFacts
<1>2. /\ n[0] = Positive(Min({need[0] - c.buffer[0] - c.busy[0],
                              fac.units[0] - c.busy[0]}))
      /\ \A level \in Levels : level # 0 =>
           n[level] \in {RoundsWanted(c, level, need[level]),
                         fac.units[level] - c.busy[level],
                         c.buffer[level - 1] \div fac.M}
  BY StartsAre
<1>3. /\ \A level \in Levels : m[level] \in Nat /\ d.busy[level] + m[level] <= fac.units[level]
      /\ m[0] = Positive(Min({new[0] - d.buffer[0] - d.busy[0],
                              fac.units[0] - d.busy[0]}))
      /\ \A level \in Levels : level # 0 =>
           /\ m[level] <= RoundsWanted(d, level, new[level])
           /\ m[level] <= d.buffer[level - 1] \div fac.M
  BY StartsAre
<1>4. /\ \A level \in Levels : new[level] <= need[level]
      /\ \A level \in Levels :
           RoundsWanted(d, level, new[level]) <= RoundsWanted(c, level, need[level])
  BY NeedMonotone
<1>5. \A level \in Levels : need[level] \in Nat /\ new[level] \in Nat
  BY NeedIs
<1>6. \A level \in Levels : n[level] = 0
  OBVIOUS
<1> HIDE DEF n, m, need, new
<1>7. ASSUME NEW level \in Levels
      PROVE  c.buffer[level] \in Nat /\ c.busy[level] \in Nat
  BY DEF InRange, CounterSet
<1>8. m[0] = 0
  <2>1. PICK a, b, e : /\ a = need[0] - c.buffer[0] - c.busy[0]
                       /\ b = fac.units[0] - c.busy[0]
                       /\ e = new[0] - c.buffer[0] - c.busy[0]
    OBVIOUS
  <2>2. a \in Int /\ b \in Int /\ e \in Int /\ e <= a
    BY SMTT(30), <1>1, <1>4, <1>5, <1>7, <2>1
  <2>3. Min({a, b}) = (IF a <= b THEN a ELSE b) /\ Min({e, b}) = (IF e <= b THEN e ELSE b)
    BY <2>2, MinOfTwo
  <2>4. Positive(Min({a, b})) = (IF Min({a, b}) <= 0 THEN 0 ELSE Min({a, b}))
        /\ Positive(Min({e, b})) = (IF Min({e, b}) <= 0 THEN 0 ELSE Min({e, b}))
        /\ Min({a, b}) \in Int /\ Min({e, b}) \in Int
    BY <2>2, <2>3, PositivePart
  <2>5. Positive(Min({a, b})) = 0 /\ m[0] = Positive(Min({e, b}))
    BY <1>1, <1>2, <1>3, <1>6, <2>1
  <2> QED BY <2>2, <2>3, <2>4, <2>5
<1>9. ASSUME NEW level \in Levels, level # 0 PROVE m[level] = 0
  <2>1. m[level] \in Nat /\ n[level] = 0
    BY <1>3, <1>6
  <2>2. CASE RoundsWanted(c, level, need[level]) = 0
    <3>1. /\ RoundsWanted(d, level, new[level]) \in Nat
          /\ m[level] <= RoundsWanted(d, level, new[level])
          /\ RoundsWanted(d, level, new[level]) <= 0
      BY <1>3, <1>4, <1>5, <1>9, <2>2, WantedType
    <3> QED BY <2>1, <3>1
  <2>3. CASE fac.units[level] - c.busy[level] = 0
    BY <1>1, <1>3, <1>7, <2>1, <2>3
  <2>4. CASE c.buffer[level - 1] \div fac.M = 0
    BY <1>3, <1>9, <2>1, <2>4
  <2> QED BY <1>2, <1>9, <2>1, <2>2, <2>3, <2>4
<1> QED BY <1>8, <1>9 DEF m

\* Without requests and without a stock nothing is started.
LEMMA NoDemand ==
  ASSUME fac \in Factories, fac.stock = 0, NEW c, InRange(c)
  PROVE  \A level \in Levels : Starts(c, 0)[level] = 0
<1> DEFINE n == Starts(c, 0)
           need == Need(c, 0)
<1>1. /\ Levels = 0 .. Top /\ Top \in Nat \ {0} /\ 0 \in Levels /\ Top \in Levels
      /\ fac.M \in Nat \ {0} /\ fac.N \in Nat \ {0}
      /\ \A level \in Levels : fac.units[level] \in Nat
  BY FactoryFacts
<1>2. /\ \A level \in Levels : n[level] \in Nat
      /\ n[0] = Positive(Min({need[0] - c.buffer[0] - c.busy[0],
                              fac.units[0] - c.busy[0]}))
      /\ \A level \in Levels : level # 0 => n[level] <= RoundsWanted(c, level, need[level])
  <2>1. PICK r \in Nat : r = 0
    OBVIOUS
  <2>2. LET rn == Need(c, r)
            sn == Starts(c, r)
        IN /\ sn \in [Levels -> Nat]
           /\ sn[0] = Positive(Min({rn[0] - c.buffer[0] - c.busy[0],
                                   fac.units[0] - c.busy[0]}))
           /\ \A level \in Levels : level # 0 => sn[level] <= RoundsWanted(c, level, rn[level])
    BY StartsAre
  <2> QED BY <2>1, <2>2
<1>3. /\ need[Top] = 0 + fac.stock
      /\ \A level \in Levels :
           level # Top => need[level] = fac.M * RoundsWanted(c, level + 1, need[level + 1])
  BY NeedIs
<1> HIDE DEF n, need
<1>4. ASSUME NEW level \in Levels
      PROVE  c.buffer[level] \in Nat /\ c.busy[level] \in Nat
  BY DEF InRange, CounterSet
<1>5. ASSUME NEW level \in Levels, need[level] = 0
      PROVE  RoundsWanted(c, level, need[level]) = 0
  <2>1. PICK x : x = 0 - c.buffer[level] - c.busy[level] * fac.N
    OBVIOUS
  <2>2. x \in Int /\ x <= 0
    <3>1. c.buffer[level] \in Nat /\ c.busy[level] * fac.N \in Nat
      BY WantedType
    <3> QED BY <2>1, <3>1
  <2>3. Positive(x) = 0
    BY <2>2, PositivePart
  <2>4. CeilDiv(0, fac.N) \in Nat /\ CeilDiv(0, fac.N) <= 0
    <3>1. PICK N : N = fac.N
      OBVIOUS
    <3>2. N \in Nat \ {0} /\ 0 <= 0 * N
      BY <1>1, <3>1
    <3>3. CeilDiv(0, N) \in Nat /\ CeilDiv(0, N) <= 0
      BY <3>2, CeilDivLeast
    <3> QED BY <3>1, <3>3
  <2>5. RoundsWanted(c, level, 0) = CeilDiv(Positive(x), fac.N)
    BY <2>1 DEF RoundsWanted
  <2> QED BY <1>5, <2>3, <2>4, <2>5
<1> DEFINE S == {level \in Levels : need[level] = 0}
<1>6. Top \in S
  BY <1>1, <1>3
<1>7. ASSUME NEW level \in Levels, level # Top, level + 1 \in S PROVE level \in S
  BY <1>1, <1>3, <1>5, <1>7
<1>8. Levels \subseteq S
  <2> HIDE DEF S
  <2> QED BY <1>6, <1>7, DownTheLevels
<1>9. n[0] = 0
  <2>1. PICK a, b : a = need[0] - c.buffer[0] - c.busy[0] /\ b = fac.units[0] - c.busy[0]
    OBVIOUS
  <2>2. a \in Int /\ b \in Int /\ a <= 0
    BY <1>1, <1>4, <1>8, <2>1
  <2>3. Min({a, b}) \in Int /\ Min({a, b}) <= a
    BY <2>2, MinOfTwo
  <2> QED BY <1>2, <2>1, <2>2, <2>3, PositivePart
<1>10. ASSUME NEW level \in Levels, level # 0 PROVE n[level] = 0
  BY <1>2, <1>5, <1>8, <1>10
<1> QED BY <1>9, <1>10 DEF n

\* A request that finds the top store empty has work under way for it: if no
\* unit of any level were busy, a pass would start something at some level.
LEMMA SomeLevelWorks ==
  ASSUME fac \in Factories, NEW c, InRange(c), NEW requests \in Nat \ {0},
         c.buffer[Top] = 0, \A level \in Levels : Starts(c, requests)[level] = 0
  PROVE  \E level \in Levels : c.busy[level] > 0
<1> DEFINE n == Starts(c, requests)
           need == Need(c, requests)
<1>1. /\ Levels = 0 .. Top /\ Top \in Nat \ {0} /\ 0 \in Levels /\ Top \in Levels
      /\ fac.M \in Nat \ {0} /\ fac.N \in Nat \ {0} /\ fac.stock \in Nat
      /\ \A level \in Levels : fac.units[level] \in Nat \ {0}
  BY FactoryFacts
<1>2. /\ n[0] = Positive(Min({need[0] - c.buffer[0] - c.busy[0],
                              fac.units[0] - c.busy[0]}))
      /\ \A level \in Levels : level # 0 =>
           n[level] \in {RoundsWanted(c, level, need[level]),
                         fac.units[level] - c.busy[level],
                         c.buffer[level - 1] \div fac.M}
  BY StartsAre
<1>3. /\ \A level \in Levels : need[level] \in Nat
      /\ need[Top] = requests + fac.stock
      /\ \A level \in Levels :
           level # Top => need[level] = fac.M * RoundsWanted(c, level + 1, need[level + 1])
  BY NeedIs
<1>4. \A level \in Levels : n[level] = 0
  OBVIOUS
<1> HIDE DEF n, need
<1>5. ASSUME NEW level \in Levels
      PROVE  c.buffer[level] \in Nat /\ c.busy[level] \in Nat
  BY DEF InRange, CounterSet
<1> SUFFICES ASSUME \A level \in Levels : c.busy[level] = 0 PROVE FALSE
  BY <1>5
<1>6. ASSUME NEW level \in Levels, need[level] > c.buffer[level]
      PROVE  RoundsWanted(c, level, need[level]) \in Nat \ {0}
  <2>1. PICK x : x = need[level] - c.buffer[level] - c.busy[level] * fac.N
    OBVIOUS
  <2>2. c.busy[level] * fac.N = 0
    BY <1>1
  <2>3. x \in Int /\ x > 0
    BY <1>3, <1>5, <1>6, <2>1, <2>2
  <2>4. Positive(x) \in Nat /\ Positive(x) > 0
    BY <2>3, PositivePart
  <2>5. PICK q : q = CeilDiv(Positive(x), fac.N)
    OBVIOUS
  <2>6. q \in Nat /\ Positive(x) <= q * fac.N
    BY <1>1, <2>4, <2>5, CeilDivLeast
  <2>7. q # 0
    <3> SUFFICES ASSUME q = 0 PROVE FALSE
      OBVIOUS
    <3>1. q * fac.N = 0
      BY <1>1
    <3> QED BY <2>4, <2>6, <3>1
  <2> QED BY <2>1, <2>5, <2>6, <2>7 DEF RoundsWanted
<1> DEFINE S == {level \in Levels : need[level] > c.buffer[level]}
<1>7. Top \in S
  BY <1>1, <1>3
<1>8. ASSUME NEW level \in Levels, level # Top, level + 1 \in S PROVE level \in S
  <2>1. level + 1 \in Levels /\ level + 1 # 0 /\ (level + 1) - 1 = level
        /\ need[level + 1] > c.buffer[level + 1]
    BY <1>1, <1>8
  <2>2. PICK w : w = RoundsWanted(c, level + 1, need[level + 1])
    OBVIOUS
  <2>3. w \in Nat \ {0}
    BY <1>6, <2>1, <2>2
  <2>4. c.buffer[level] \div fac.M = 0
    <3>1. fac.units[level + 1] - c.busy[level + 1] # 0
      BY <1>1, <2>1
    <3> QED BY <1>2, <1>4, <2>1, <2>2, <2>3, <3>1
  <2>5. c.buffer[level] < fac.M
    <3> SUFFICES ASSUME fac.M <= c.buffer[level] PROVE FALSE
      BY <1>1, <1>5
    <3>1. 1 * fac.M = fac.M
      BY <1>1
    <3>2. 1 <= c.buffer[level] \div fac.M
      BY <1>1, <1>5, <3>1, DivGreatest
    <3> QED BY <2>4, <3>2
  <2>6. fac.M <= need[level]
    <3>1. 1 * fac.M <= w * fac.M /\ 1 * fac.M = fac.M /\ fac.M * w = w * fac.M
      <4>1. PICK m : m = fac.M
        OBVIOUS
      <4>2. m \in Nat /\ w \in Int /\ 1 <= w
        BY <1>1, <2>3, <4>1
      <4>3. 1 * m <= w * m /\ m * w = w * m
        BY <4>2, TimesMonotone
      <4>4. 1 * m = m
        BY <4>2
      <4> QED BY <4>1, <4>3, <4>4
    <3> QED BY <1>3, <1>8, <2>2, <3>1
  <2> QED BY <1>1, <1>3, <1>5, <2>5, <2>6
<1>9. Levels \subseteq S
  <2> HIDE DEF S
  <2> QED BY <1>7, <1>8, DownTheLevels
<1>10. PICK a, b : a = need[0] - c.buffer[0] - c.busy[0] /\ b = fac.units[0] - c.busy[0]
  OBVIOUS
<1>11. a \in Int /\ b \in Int /\ a > 0 /\ b > 0
  BY SMTT(30), <1>1, <1>3, <1>5, <1>9, <1>10
<1>12. Min({a, b}) = (IF a <= b THEN a ELSE b)
  BY <1>11, MinOfTwo
<1>13. Positive(Min({a, b})) = Min({a, b})
  BY <1>11, <1>12, PositivePart
<1> QED BY <1>1, <1>2, <1>4, <1>10, <1>11, <1>12, <1>13

-----------------------------------------------------------------------------
(* Supply *)

\* Nothing more is to be started for so many requests.
Settled(c, requests) ==
  IF fac.multi THEN \A level \in Levels : Starts(c, requests)[level] = 0
  ELSE Min({fac.units[1], requests}) <= c.busy[1] + c.inFlight

\* The single-level factory covers the requests as far as its units go.
LEMMA SingleStartCounts ==
  ASSUME fac \in Factories, ~ fac.multi, NEW c, InRange(c), NEW requests \in Nat
  PROVE  LET d == SingleStart(c, requests)
         IN /\ InRange(d) /\ d.inFlight = c.inFlight /\ d.buffer[Top] = c.buffer[Top]
            /\ \A level \in Levels :
                 d.busy[level] + c.making[level] = d.making[level] + c.busy[level]
            /\ Settled(d, requests)
<1> DEFINE b == SingleBusy(c, requests)
           d == SingleStart(c, requests)
<1>1. /\ Top = 1 /\ Levels = {0, 1} /\ fac.units[1] \in Nat /\ fac.stock \in Nat
  BY FactoryFacts
<1>2. /\ c \in CounterSet /\ c.buffer \in [Levels -> Nat] /\ c.busy \in [Levels -> Nat]
      /\ c.making \in [Levels -> Nat] /\ c.inFlight \in Nat
      /\ \A level \in Levels : c.busy[level] <= fac.units[level]
  BY DEF InRange, CounterSet
<1>3. PICK demand, stocking :
        /\ demand = requests - c.inFlight
        /\ stocking = IF fac.stock = 0 THEN 0
                      ELSE fac.stock + requests - c.buffer[1] - c.inFlight
  OBVIOUS
<1>4. demand \in Int /\ stocking \in Int /\ c.busy[1] \in Nat /\ c.making[1] \in Nat
      /\ c.buffer[1] \in Nat
  BY <1>1, <1>2, <1>3
<1>5. PICK most, part : most = Max({demand, stocking}) /\ part = Min({fac.units[1], most})
  OBVIOUS
<1>6. most \in Int /\ demand <= most
  BY <1>4, <1>5, MaxOfTwo
<1>7. part \in Int /\ part = (IF fac.units[1] <= most THEN fac.units[1] ELSE most)
  BY <1>1, <1>5, <1>6, MinOfTwo
<1>8. b = Max({c.busy[1], part})
  BY <1>3, <1>5 DEF SingleBusy
<1>9. b = IF c.busy[1] <= part THEN part ELSE c.busy[1]
  BY <1>4, <1>7, <1>8, MaxOfTwo
<1>10. b \in Nat /\ c.busy[1] <= b /\ b <= fac.units[1]
  BY <1>1, <1>2, <1>4, <1>7, <1>9
<1>11. d = [c EXCEPT !.busy[1] = b, !.making[1] = c.making[1] + b - c.busy[1]]
  BY <1>2 DEF SingleStart
<1> HIDE DEF b, d
<1>12. /\ d.busy = [c.busy EXCEPT ![1] = b]
       /\ d.making = [c.making EXCEPT ![1] = c.making[1] + b - c.busy[1]]
       /\ d.buffer = c.buffer /\ d.inFlight = c.inFlight
       /\ d = [buffer |-> d.buffer, busy |-> d.busy, inFlight |-> d.inFlight,
               making |-> d.making]
  BY <1>2, <1>11 DEF CounterSet
<1>13. /\ d.busy[1] = b /\ d.busy[0] = c.busy[0]
       /\ d.making[1] = c.making[1] + b - c.busy[1] /\ d.making[0] = c.making[0]
       /\ d.busy \in [Levels -> Nat] /\ d.making \in [Levels -> Nat]
  BY <1>1, <1>2, <1>4, <1>10, <1>12
<1>14. InRange(d)
  <2>1. \A level \in Levels : d.busy[level] <= fac.units[level]
    BY <1>1, <1>2, <1>10, <1>13
  <2>2. d \in CounterSet
    BY <1>2, <1>12, <1>13 DEF CounterSet
  <2> QED BY <2>1, <2>2 DEF InRange
<1>15. ASSUME NEW level \in Levels
       PROVE  d.busy[level] + c.making[level] = d.making[level] + c.busy[level]
  <2>1. CASE level = 0
    <3>1. c.making[0] \in Nat /\ c.busy[0] \in Nat
      BY <1>1, <1>2
    <3> QED BY <1>13, <2>1, <3>1
  <2>2. CASE level = 1
    BY <1>4, <1>10, <1>13, <2>2
  <2> QED BY <1>1, <2>1, <2>2
<1>16. Min({fac.units[1], requests}) <= d.busy[1] + d.inFlight
  <2>1. Min({fac.units[1], requests}) = IF fac.units[1] <= requests THEN fac.units[1] ELSE requests
    BY <1>1, MinOfTwo
  <2>2. CASE fac.units[1] <= most
    <3>1. b = fac.units[1]
      BY <1>1, <1>2, <1>4, <1>7, <1>9, <1>10, <2>2
    <3> QED BY <1>1, <1>2, <1>12, <1>13, <2>1, <3>1
  <2>3. CASE ~ fac.units[1] <= most
    <3>1. b >= most
      BY <1>1, <1>4, <1>6, <1>7, <1>9, <2>3
    <3>2. b >= requests - c.inFlight
      BY <1>3, <1>4, <1>6, <1>10, <3>1
    <3> QED BY <1>1, <1>2, <1>10, <1>12, <1>13, <2>1, <3>2
  <2> QED BY <2>2, <2>3
<1> QED BY <1>12, <1>14, <1>15, <1>16 DEF d, Settled

\* Of both designs: starting work keeps the counters, and settles the demand.
LEMMA StartCounts ==
  ASSUME fac \in Factories, NEW c, InRange(c), NEW requests \in Nat
  PROVE  LET d == Start(c, requests)
         IN /\ InRange(d) /\ d.inFlight = c.inFlight /\ d.buffer[Top] = c.buffer[Top]
            /\ \A level \in Levels :
                 d.busy[level] + c.making[level] = d.making[level] + c.busy[level]
            /\ Settled(d, requests)
<1>1. CASE fac.multi
  <2> DEFINE n == Starts(c, requests)
             d == MultiStart(c, requests)
  <2>1. /\ InRange(d)
        /\ \A level \in Levels : /\ d.busy[level] = c.busy[level] + n[level]
                                 /\ d.making[level] = c.making[level] + n[level]
        /\ d.buffer[Top] = c.buffer[Top] /\ d.inFlight = c.inFlight
    BY MultiStartCounts
  <2>2. \A level \in Levels : Starts(d, requests)[level] = 0
    BY PassIsEnough
  <2>3. n \in [Levels -> Nat]
    BY StartsAre
  <2>4. Start(c, requests) = d
    BY <1>1 DEF Start
  <2> HIDE DEF n, d
  <2>5. ASSUME NEW level \in Levels
        PROVE  d.busy[level] + c.making[level] = d.making[level] + c.busy[level]
    <3>1. c.busy[level] \in Nat /\ c.making[level] \in Nat /\ n[level] \in Nat
      BY <2>3 DEF InRange, CounterSet
    <3> QED BY <2>1, <3>1
  <2> QED BY <1>1, <2>1, <2>2, <2>4, <2>5 DEF Settled
<1>2. CASE ~ fac.multi
  <2>1. Start(c, requests) = SingleStart(c, requests)
    BY <1>2 DEF Start
  <2> QED BY <1>2, <2>1, SingleStartCounts
<1> QED BY <1>1, <1>2

\* The requests that are delivered leave the queue, each once.
LEMMA Delivered ==
  ASSUME NEW requests \in Seq(Ops), IsInjective(requests), NEW n \in 0 .. Len(requests),
         served \subseteq Ops, ToSet(requests) \cap served = {}
  PROVE  LET rest == SubSeq(requests, n + 1, Len(requests))
             now == served \cup {requests[i] : i \in 1 .. n}
         IN /\ rest \in Seq(Ops) /\ IsInjective(rest) /\ Len(rest) = Len(requests) - n
            /\ ToSet(rest) \cap now = {} /\ now \subseteq Ops
            /\ now \cup ToSet(rest) = served \cup ToSet(requests)
            /\ Cardinality(served) \in Nat /\ Cardinality(now) = Cardinality(served) + n
<1> DEFINE first == SubSeq(requests, 1, n)
           rest == SubSeq(requests, n + 1, Len(requests))
           some == {requests[i] : i \in 1 .. n}
<1>1. /\ first \in Seq(Ops) /\ rest \in Seq(Ops) /\ Len(first) = n
      /\ Len(rest) = Len(requests) - n
      /\ ToSet(requests) = ToSet(first) \cup ToSet(rest)
      /\ IsInjective(first) /\ IsInjective(rest) /\ ToSet(first) \cap ToSet(rest) = {}
  BY CutElements
<1>2. some = ToSet(first)
  <2>1. Len(requests) \in Nat /\ DOMAIN first = 1 .. n
    BY <1>1, LenProperties
  <2>2. \A i \in 1 .. n : first[i] = requests[i]
    BY <2>1
  <2> QED BY <2>1, <2>2 DEF ToSet
<1>3. Cardinality(ToSet(first)) = n /\ IsFiniteSet(ToSet(first))
  BY <1>1, ElementsCounted, ElementsFinite
<1>4. IsFiniteSet(served) /\ Cardinality(served) \in Nat
  <2>1. IsFiniteSet(Ops)
    BY SupplyAssumption, FS_Interval DEF Ops
  <2> QED BY <2>1, PartOfFinite
<1>5. served \cap ToSet(first) = {}
  BY <1>1
<1>6. Cardinality(served \cup ToSet(first)) = Cardinality(served) + Cardinality(ToSet(first))
  BY <1>3, <1>4, <1>5, DisjointUnion
<1>7. ToSet(first) \subseteq Ops
  BY <1>1, ToSetOfSeq
<1> HIDE DEF first, rest, some
<1>8. Cardinality(served \cup some) = Cardinality(served) + n
  BY <1>2, <1>3, <1>6
<1>9. ToSet(rest) \cap (served \cup some) = {}
  BY <1>1, <1>2
<1>10. (served \cup some) \cup ToSet(rest) = served \cup ToSet(requests)
  BY <1>1, <1>2
<1> QED BY <1>1, <1>2, <1>4, <1>7, <1>8, <1>9, <1>10 DEF rest, some

\* A handler's last call: it keeps the counters and the requests exact, and
\* leaves no demand unmet that units and inputs in store could meet.
LEMMA SupplyKeeps ==
  ASSUME fac \in Factories, off' \in BOOLEAN, NEW c, InRange(c),
         NEW requests \in Seq(Ops), IsInjective(requests),
         served \subseteq Ops, ToSet(requests) \cap served = {}, Supply(c, requests)
  PROVE  LET d == [buffer |-> buffer', busy |-> busy', inFlight |-> inFlight',
                   making |-> making']
         IN /\ InRange(d) /\ inFlight' = c.inFlight
            /\ \A level \in Levels :
                 busy'[level] + c.making[level] = making'[level] + c.busy[level]
            /\ buffer'[Top] + Cardinality(served') = c.buffer[Top] + Cardinality(served)
            /\ waiting' \in Seq(Ops) /\ IsInjective(waiting')
            /\ ToSet(waiting') \cap served' = {} /\ served' \subseteq Ops
            /\ served' \cup ToSet(waiting') = served \cup ToSet(requests)
            /\ ~ off' => /\ waiting' # <<>> => buffer'[Top] = 0
                         /\ Settled(d, Len(waiting'))
<1>1. PICK n, given, after :
        /\ n = IF off' /\ fac.multi THEN 0 ELSE Min({Len(requests), c.buffer[Top]})
        /\ given = [c EXCEPT !.buffer[Top] = @ - n]
        /\ after = IF off' THEN given ELSE Start(given, Len(requests) - n)
        /\ waiting' = SubSeq(requests, n + 1, Len(requests))
        /\ served' = served \cup {requests[i] : i \in 1 .. n}
        /\ buffer' = after.buffer /\ busy' = after.busy
        /\ inFlight' = after.inFlight /\ making' = after.making
  BY DEF Supply
<1>2. /\ c \in CounterSet /\ c.buffer \in [Levels -> Nat] /\ Top \in Levels
      /\ c.buffer[Top] \in Nat /\ Len(requests) \in Nat
      /\ c.busy \in [Levels -> Nat] /\ c.making \in [Levels -> Nat] /\ c.inFlight \in Nat
  BY FactoryFacts, LenProperties DEF InRange, CounterSet
<1>3. /\ n \in 0 .. Len(requests) /\ n <= c.buffer[Top]
      /\ ~ off' => n = Len(requests) \/ n = c.buffer[Top]
  <2>1. Min({Len(requests), c.buffer[Top]})
          = IF Len(requests) <= c.buffer[Top] THEN Len(requests) ELSE c.buffer[Top]
    <3>1. PICK a, b : a = Len(requests) /\ b = c.buffer[Top]
      OBVIOUS
    <3>2. a \in Int /\ b \in Int
      BY <1>2, <3>1
    <3>3. Min({a, b}) = IF a <= b THEN a ELSE b
      BY <3>2, MinOfTwo
    <3> QED BY <3>1, <3>3
  <2> QED BY <1>1, <1>2, <2>1
<1>4. /\ InRange(given) /\ given.buffer[Top] = c.buffer[Top] - n
      /\ given.busy = c.busy /\ given.making = c.making /\ given.inFlight = c.inFlight
  <2>1. /\ given.buffer = [c.buffer EXCEPT ![Top] = c.buffer[Top] - n]
        /\ given.busy = c.busy /\ given.making = c.making /\ given.inFlight = c.inFlight
        /\ given = [buffer |-> given.buffer, busy |-> given.busy,
                    inFlight |-> given.inFlight, making |-> given.making]
    BY <1>1, <1>2 DEF CounterSet
  <2>2. c.buffer[Top] - n \in Nat
    BY <1>2, <1>3
  <2>3. given.buffer \in [Levels -> Nat]
    BY <1>2, <2>1, <2>2
  <2>4. given \in CounterSet
    BY <1>2, <2>1, <2>3 DEF CounterSet
  <2> QED BY <1>2, <2>1, <2>4 DEF InRange
<1>5. Len(requests) - n \in Nat
  BY <1>2, <1>3
<1>6. /\ InRange(after) /\ after.inFlight = given.inFlight
      /\ after.buffer[Top] = given.buffer[Top]
      /\ \A level \in Levels :
           after.busy[level] + given.making[level] = after.making[level] + given.busy[level]
      /\ ~ off' => Settled(after, Len(requests) - n)
  <2>1. CASE off'
    <3>1. \A level \in Levels : given.making[level] \in Nat /\ given.busy[level] \in Nat
      BY <1>2, <1>4
    <3> QED BY <1>1, <1>4, <2>1, <3>1
  <2>2. CASE ~ off'
    <3>1. PICK r : r = Len(requests) - n
      OBVIOUS
    <3>2. r \in Nat /\ after = Start(given, r)
      BY <1>1, <1>5, <2>2, <3>1
    <3>3. /\ InRange(after) /\ after.inFlight = given.inFlight
          /\ after.buffer[Top] = given.buffer[Top]
          /\ \A level \in Levels :
               after.busy[level] + given.making[level] = after.making[level] + given.busy[level]
          /\ Settled(after, r)
      BY <1>4, <3>2, StartCounts
    <3> QED BY <3>1, <3>3
  <2> QED BY <2>1, <2>2
<1>7. after = [buffer |-> buffer', busy |-> busy', inFlight |-> inFlight', making |-> making']
  BY <1>1, <1>6 DEF InRange, CounterSet
<1>8. /\ waiting' \in Seq(Ops) /\ IsInjective(waiting') /\ Len(waiting') = Len(requests) - n
      /\ ToSet(waiting') \cap served' = {} /\ served' \subseteq Ops
      /\ served' \cup ToSet(waiting') = served \cup ToSet(requests)
      /\ Cardinality(served) \in Nat /\ Cardinality(served') = Cardinality(served) + n
  <2>1. PICK rest, some : /\ rest = SubSeq(requests, n + 1, Len(requests))
                          /\ some = served \cup {requests[i] : i \in 1 .. n}
    OBVIOUS
  <2>2. n \in 0 .. Len(requests)
    BY <1>3
  <2>3. /\ rest \in Seq(Ops) /\ IsInjective(rest) /\ Len(rest) = Len(requests) - n
        /\ ToSet(rest) \cap some = {} /\ some \subseteq Ops
        /\ some \cup ToSet(rest) = served \cup ToSet(requests)
        /\ Cardinality(served) \in Nat /\ Cardinality(some) = Cardinality(served) + n
    BY <2>1, <2>2, Delivered
  <2>4. waiting' = rest /\ served' = some
    BY <1>1, <2>1
  <2> QED BY <2>3, <2>4
<1>9. buffer'[Top] + Cardinality(served') = c.buffer[Top] + Cardinality(served)
  <2>1. PICK x, y : x = c.buffer[Top] /\ y = Cardinality(served)
    OBVIOUS
  <2>2. x \in Nat /\ y \in Nat /\ n \in Nat
    BY <1>2, <1>3, <1>8, <2>1
  <2>3. buffer'[Top] = x - n /\ Cardinality(served') = y + n
    BY <1>1, <1>4, <1>6, <1>8, <2>1
  <2>4. (x - n) + (y + n) = x + y
    BY <2>2
  <2> QED BY <2>1, <2>3, <2>4
<1>10. \A level \in Levels : busy'[level] + c.making[level] = making'[level] + c.busy[level]
  BY <1>1, <1>4, <1>6
<1>11. ASSUME ~ off', waiting' # <<>> PROVE buffer'[Top] = 0
  <2>1. Len(waiting') # 0
    BY <1>8, <1>11, EmptySeq
  <2>2. n = c.buffer[Top]
    BY <1>2, <1>3, <1>8, <1>11, <2>1
  <2> QED BY SMTT(30), <1>1, <1>2, <1>4, <1>6, <2>2
<1> QED BY <1>1, <1>4, <1>6, <1>7, <1>8, <1>9, <1>10, <1>11

-----------------------------------------------------------------------------
(* The inductive invariant *)

\* Every operation that asked was served, withdrew, or waits; none waits twice.
RequestInv ==
  /\ \E k \in 0 .. NumOps : asked = 1 .. k
  /\ waiting \in Seq(Ops) /\ IsInjective(waiting)
  /\ ToSet(waiting) \cap served = {} /\ served \subseteq Ops
  /\ asked = served \cup withdrawn \cup ToSet(waiting)

\* The tables of work that runs.
WorkInv ==
  /\ fac \in Factories /\ off \in BOOLEAN
  /\ InRange(Counters)
  /\ correcting \in [Levels -> [Decodes -> Nat]]
  /\ returning \in Nat /\ produced \in Nat /\ failures \in 0 .. MaxFailures

\* The counters agree with them.
ExactInv ==
  /\ IF fac.multi
     THEN returning = 0 /\ \A level \in Levels : busy[level] = making[level] + Correcting(level)
     ELSE busy[1] = making[1] /\ inFlight = Correcting(1) + returning
  /\ buffer[Top] + Cardinality(served) = fac.initial + produced

\* Until shutdown a request that waits finds the store empty, and nothing more
\* is to be started.
DemandInv ==
  ~ off => /\ waiting # <<>> => buffer[Top] = 0
           /\ Settled(Counters, Len(waiting))

SupplyInv == RequestInv /\ WorkInv /\ ExactInv /\ DemandInv

\* The invariant gives the properties the runs check.
LEMMA InvariantGives ==
  ASSUME SupplyInv
  PROVE  CountersSound /\ DemandHasWork
<1>1. /\ fac \in Factories /\ InRange(Counters) /\ waiting \in Seq(Ops)
      /\ Len(waiting) \in Nat /\ DOMAIN waiting = 1 .. Len(waiting)
  BY LenProperties DEF SupplyInv, RequestInv, WorkInv
<1>2. /\ Counters.buffer = buffer /\ Counters.busy = busy /\ Counters.making = making
      /\ Counters.inFlight = inFlight
  BY DEF Counters
<1>3. /\ buffer \in [Levels -> Nat] /\ busy \in [Levels -> Nat] /\ making \in [Levels -> Nat]
      /\ inFlight \in Nat /\ \A level \in Levels : busy[level] <= fac.units[level]
  BY <1>1, <1>2 DEF InRange, CounterSet
<1>4. \A level \in Levels : fac.units[level] \in Nat
  BY <1>1, FactoryFacts
<1>5. ToSet(waiting) = {waiting[i] : i \in DOMAIN waiting}
  BY DEF ToSet
<1>6. TypeOK
  <2>1. asked \subseteq Ops /\ served \subseteq asked
    <3>1. PICK k \in 0 .. NumOps : asked = 1 .. k
      BY DEF SupplyInv, RequestInv
    <3>2. asked \subseteq Ops
      BY <3>1, SupplyAssumption DEF Ops
    <3> QED BY <3>2 DEF SupplyInv, RequestInv
  <2>2. \A i \in DOMAIN waiting : waiting[i] \in asked \ served
    BY <1>5 DEF SupplyInv, RequestInv
  <2>3. \A level \in Levels : buffer[level] \in Nat /\ making[level] \in Nat
                              /\ busy[level] \in 0 .. fac.units[level]
    BY <1>3, <1>4
  <2> QED BY <1>1, <1>3, <2>1, <2>2, <2>3 DEF TypeOK, SupplyInv, WorkInv
<1>7. CountersExact
  BY <1>5 DEF CountersExact, SupplyInv, ExactInv, RequestInv
<1>8. ASSUME ~ off PROVE DemandHasWork
  <2>1. (waiting # <<>> => buffer[Top] = 0) /\ Settled(Counters, Len(waiting))
    BY <1>8 DEF SupplyInv, DemandInv
  <2>2. CASE fac.multi
    <3>1. \A level \in Levels : Starts(Counters, Len(waiting))[level] = 0
      BY <2>1, <2>2 DEF Settled
    <3>2. ASSUME waiting # <<>> PROVE \E level \in Levels : busy[level] > 0
      <4>1. Len(waiting) \in Nat \ {0}
        BY <1>1, <3>2, EmptySeq
      <4> QED BY <1>1, <1>2, <2>1, <3>1, <3>2, <4>1, SomeLevelWorks
    <3> QED BY <2>1, <2>2, <3>1, <3>2 DEF DemandHasWork
  <2>3. CASE ~ fac.multi
    BY <1>2, <2>1, <2>3 DEF DemandHasWork, Settled
  <2> QED BY <2>2, <2>3
<1> QED BY <1>6, <1>7, <1>8 DEF CountersSound, DemandHasWork

-----------------------------------------------------------------------------
(* The initial states *)

\* A factory starts with what it has in store, and if it keeps a stock with
\* the attempts that fill it.
LEMMA InitialSupply ==
  ASSUME Init
  PROVE  SupplyInv
<1> DEFINE zero == [level \in Levels |-> 0]
           first == [buffer |-> [zero EXCEPT ![Top] = fac.initial], busy |-> zero,
                     inFlight |-> 0, making |-> zero]
           c == Start(first, 0)
           idle == [c EXCEPT !.busy = zero, !.making = zero]
<1>1. /\ fac \in Factories /\ asked = {} /\ waiting = <<>> /\ served = {}
      /\ withdrawn = {} /\ off = FALSE /\ returning = 0 /\ produced = 0 /\ failures = 0
      /\ inFlight = 0 /\ correcting = [level \in Levels |-> [n \in Decodes |-> 0]]
      /\ LET d == IF fac.stock = 0 THEN idle ELSE c
         IN buffer = d.buffer /\ busy = d.busy /\ making = d.making
  BY DEF Init
<1>2. /\ Top \in Levels /\ fac.corr \in Nat /\ Decodes = 1 .. fac.corr
      /\ fac.initial \in Nat /\ fac.stock \in Nat
      /\ \A level \in Levels : fac.units[level] \in Nat
      /\ ~ fac.multi => 1 \in Levels
  BY <1>1, FactoryFacts
<1>3. zero \in [Levels -> Nat] /\ \A level \in Levels : zero[level] = 0
  OBVIOUS
<1>4. InRange(first) /\ first.buffer[Top] = fac.initial
  <2>1. /\ first.buffer \in [Levels -> Nat] /\ first.buffer[Top] = fac.initial
        /\ first.busy = zero /\ first.making = zero /\ first.inFlight = 0
    BY <1>2, <1>3
  <2>2. first \in CounterSet
    BY <1>3, <2>1 DEF CounterSet
  <2> QED BY <1>2, <1>3, <2>1, <2>2 DEF InRange
<1>5. first.busy = zero /\ first.making = zero /\ first.inFlight = 0
  OBVIOUS
<1> HIDE DEF first, zero
<1>6. /\ InRange(c) /\ c.inFlight = 0 /\ c.buffer[Top] = fac.initial
      /\ \A level \in Levels :
           c.busy[level] + first.making[level] = c.making[level] + first.busy[level]
      /\ Settled(c, 0)
  BY <1>1, <1>4, <1>5, StartCounts
<1> HIDE DEF c
<1>7. c \in CounterSet /\ c.busy \in [Levels -> Nat] /\ c.making \in [Levels -> Nat]
  BY <1>6 DEF InRange, CounterSet
<1>8. /\ idle.buffer = c.buffer /\ idle.busy = zero /\ idle.making = zero
      /\ idle.inFlight = c.inFlight
      /\ idle = [buffer |-> idle.buffer, busy |-> idle.busy, inFlight |-> idle.inFlight,
                 making |-> idle.making]
  <2>1. PICK half : half = [c EXCEPT !.busy = zero]
    OBVIOUS
  <2>2. /\ half \in CounterSet /\ half.buffer = c.buffer /\ half.busy = zero
        /\ half.inFlight = c.inFlight
    BY <1>3, <1>7, <2>1 DEF CounterSet
  <2>3. PICK whole : whole = [half EXCEPT !.making = zero]
    OBVIOUS
  <2>4. /\ whole \in CounterSet /\ whole.buffer = c.buffer /\ whole.busy = zero
        /\ whole.making = zero /\ whole.inFlight = c.inFlight
    BY <1>3, <2>2, <2>3 DEF CounterSet
  <2>5. idle = whole
    BY <2>1, <2>3
  <2> HIDE DEF idle
  <2> QED BY <2>4, <2>5 DEF CounterSet
<1>9. InRange(idle)
  <2>1. idle \in CounterSet
    BY <1>3, <1>7, <1>8 DEF CounterSet
  <2> QED BY <1>2, <1>3, <1>8, <2>1 DEF InRange
<1> HIDE DEF idle
<1>10. PICK d : /\ d = IF fac.stock = 0 THEN idle ELSE c
                /\ buffer = d.buffer /\ busy = d.busy /\ making = d.making
  BY <1>1
<1>11. /\ InRange(d) /\ d.inFlight = 0 /\ d.buffer[Top] = fac.initial
       /\ \A level \in Levels : d.busy[level] = d.making[level]
  <2>1. \A level \in Levels : c.busy[level] = c.making[level]
    BY <1>3, <1>5, <1>6, <1>7
  <2> QED BY <1>3, <1>6, <1>8, <1>9, <1>10, <2>1
<1>12. Counters = d
  <2>1. d = [buffer |-> d.buffer, busy |-> d.busy, inFlight |-> d.inFlight,
             making |-> d.making]
    BY <1>11 DEF InRange, CounterSet
  <2> QED BY <1>1, <1>10, <1>11, <2>1 DEF Counters
<1>13. Settled(d, 0)
  <2>1. CASE fac.stock # 0
    BY <1>6, <1>10, <2>1
  <2>2. CASE fac.stock = 0 /\ fac.multi
    BY <1>1, <1>11, <2>2, NoDemand DEF Settled
  <2>3. CASE ~ fac.multi
    <3>1. d.busy[1] \in Nat /\ fac.units[1] \in Nat
      BY <1>2, <1>11, <2>3 DEF InRange, CounterSet
    <3>2. Min({fac.units[1], 0}) = IF fac.units[1] <= 0 THEN fac.units[1] ELSE 0
      BY <3>1, MinOfTwo
    <3> QED BY <1>11, <2>3, <3>1, <3>2 DEF Settled
  <2> QED BY <2>1, <2>2, <2>3
<1>14. RequestInv
  <2>1. 0 \in 0 .. NumOps /\ asked = 1 .. 0
    BY <1>1, SupplyAssumption
  <2>2. waiting \in Seq(Ops) /\ IsInjective(waiting) /\ ToSet(waiting) = {}
    BY <1>1 DEF IsInjective, ToSet
  <2> QED BY <1>1, <2>1, <2>2 DEF RequestInv
<1>15. WorkInv
  <2>1. failures \in 0 .. MaxFailures
    BY <1>1, SupplyAssumption
  <2> QED BY <1>1, <1>11, <1>12, <2>1 DEF WorkInv
<1>16. ExactInv
  <2>1. \A level \in Levels : Correcting(level) = 0
    <3> SUFFICES ASSUME NEW level \in Levels PROVE Total(correcting[level], fac.corr) = 0
      BY DEF Correcting
    <3>1. \A i \in 1 .. fac.corr : correcting[level][i] = 0
      BY <1>1, <1>2
    <3> QED BY <1>2, <3>1, TotalZero
  <2>2. \A level \in Levels : busy[level] \in Nat /\ making[level] \in Nat
                              /\ busy[level] = making[level]
    BY <1>10, <1>11 DEF InRange, CounterSet
  <2>3. buffer[Top] + Cardinality(served) = fac.initial + produced
    <3>1. Cardinality(served) = 0
      BY <1>1, FS_EmptySet
    <3> QED BY <1>1, <1>2, <1>10, <1>11, <3>1
  <2> QED BY <1>1, <1>2, <2>1, <2>2, <2>3 DEF ExactInv
<1>17. DemandInv
  <2>1. Len(waiting) = 0
    BY <1>1
  <2> QED BY <1>1, <1>12, <1>13, <2>1 DEF DemandInv
<1> QED BY <1>14, <1>15, <1>16, <1>17 DEF SupplyInv

-----------------------------------------------------------------------------
(* The steps *)

\* A handler that ends with Supply keeps the invariant, when the counters and
\* the requests it passes on are exact.
LEMMA SupplyStep ==
  ASSUME SupplyInv, fac' = fac, off' = off, withdrawn' = withdrawn,
         NEW c, InRange(c), NEW requests \in Seq(Ops), IsInjective(requests),
         ToSet(requests) \cap served = {}, Supply(c, requests),
         \E k \in 0 .. NumOps : asked' = 1 .. k,
         asked' = served \cup withdrawn \cup ToSet(requests),
         correcting' \in [Levels -> [Decodes -> Nat]],
         returning' \in Nat, produced' \in Nat, failures' \in 0 .. MaxFailures,
         c.buffer[Top] + Cardinality(served) = fac.initial + produced',
         IF fac.multi
         THEN /\ returning' = 0
              /\ \A level \in Levels :
                   c.busy[level] = c.making[level] + Total(correcting'[level], fac.corr)
         ELSE /\ c.busy[1] = c.making[1]
              /\ c.inFlight = Total(correcting'[1], fac.corr) + returning'
  PROVE  SupplyInv'
<1> DEFINE d == [buffer |-> buffer', busy |-> busy', inFlight |-> inFlight',
                 making |-> making']
<1>1. fac \in Factories /\ off' \in BOOLEAN /\ served \subseteq Ops
  BY DEF SupplyInv, WorkInv, RequestInv
<1>2. /\ InRange(d) /\ inFlight' = c.inFlight
      /\ \A level \in Levels :
           busy'[level] + c.making[level] = making'[level] + c.busy[level]
      /\ buffer'[Top] + Cardinality(served') = c.buffer[Top] + Cardinality(served)
      /\ waiting' \in Seq(Ops) /\ IsInjective(waiting')
      /\ ToSet(waiting') \cap served' = {} /\ served' \subseteq Ops
      /\ served' \cup ToSet(waiting') = served \cup ToSet(requests)
      /\ ~ off' => /\ waiting' # <<>> => buffer'[Top] = 0
                   /\ Settled(d, Len(waiting'))
  BY <1>1, SupplyKeeps
<1>3. /\ Levels' = Levels /\ Decodes' = Decodes /\ Top' = Top /\ Ops' = Ops
      /\ Counters' = d
  BY DEF Levels, Decodes, Top, Ops, Counters
<1>4. RequestInv'
  BY <1>2, <1>3 DEF RequestInv, SupplyInv
<1>5. WorkInv'
  <2> QED BY <1>1, <1>2, <1>3 DEF WorkInv, InRange, CounterSet
<1>6. ASSUME NEW level \in Levels
      PROVE  /\ busy'[level] \in Nat /\ making'[level] \in Nat
             /\ c.busy[level] \in Nat /\ c.making[level] \in Nat
             /\ Total(correcting'[level], fac.corr) \in Nat
  <2>1. d.busy = busy' /\ d.making = making'
    OBVIOUS
  <2>2. Total(correcting'[level], fac.corr) \in Nat
    <3>1. fac.corr \in Nat /\ correcting'[level] \in [1 .. fac.corr -> Nat]
      BY <1>1, FactoryFacts
    <3> QED BY <3>1, TotalBounds
  <2> QED BY <1>2, <2>1, <2>2 DEF InRange, CounterSet
<1>7. ExactInv'
  <2>1. buffer'[Top] + Cardinality(served') = fac.initial + produced'
    BY <1>2
  <2>2. CASE fac.multi
    <3>1. ASSUME NEW level \in Levels
          PROVE  busy'[level] = making'[level] + Total(correcting'[level], fac.corr)
      <4>1. /\ c.busy[level] = c.making[level] + Total(correcting'[level], fac.corr)
            /\ busy'[level] + c.making[level] = making'[level] + c.busy[level]
        BY <1>2, <2>2
      <4>2. PICK b, m, cb, cm, t : /\ b = busy'[level] /\ m = making'[level]
                                   /\ cb = c.busy[level] /\ cm = c.making[level]
                                   /\ t = Total(correcting'[level], fac.corr)
        OBVIOUS
      <4>3. b \in Nat /\ m \in Nat /\ cb \in Nat /\ cm \in Nat /\ t \in Nat
        BY <1>6, <4>2
      <4>4. cb = cm + t /\ b + cm = m + cb
        BY <4>1, <4>2
      <4>5. b = m + t
        BY <4>3, <4>4
      <4> QED BY <4>2, <4>5
    <3> QED BY <1>3, <2>1, <2>2, <3>1 DEF ExactInv, Correcting
  <2>3. CASE ~ fac.multi
    <3>1. 1 \in Levels
      BY <1>1, <2>3, FactoryFacts
    <3>2. busy'[1] = making'[1]
      <4>1. c.busy[1] = c.making[1] /\ busy'[1] + c.making[1] = making'[1] + c.busy[1]
        BY <1>2, <2>3, <3>1
      <4> QED BY <1>6, <3>1, <4>1
    <3> QED BY <1>2, <1>3, <2>1, <2>3, <3>2 DEF ExactInv, Correcting
  <2> QED BY <2>2, <2>3
<1>8. DemandInv'
  <2>1. Settled(Counters, Len(waiting))' = Settled(d, Len(waiting'))
    BY <1>3 DEF Settled, Starts, Need, RoundsWanted
  <2> QED BY <1>2, <1>3, <2>1 DEF DemandInv
<1> QED BY <1>4, <1>5, <1>7, <1>8 DEF SupplyInv

\* One state more, or one less, that waits for k decodes changes the sum by
\* one; one decode back moves it to k - 1 and leaves the sum as it is.
LEMMA TotalMoves ==
  ASSUME NEW n \in Nat, NEW f \in [1 .. n -> Nat], NEW k \in 1 .. n
  PROVE  /\ [f EXCEPT ![k] = @ + 1] \in [1 .. n -> Nat]
         /\ Total([f EXCEPT ![k] = @ + 1], n) = Total(f, n) + 1
         /\ f[k] > 0 =>
              /\ [f EXCEPT ![k] = @ - 1] \in [1 .. n -> Nat]
              /\ Total([f EXCEPT ![k] = @ - 1], n) = Total(f, n) - 1
              /\ k # 1 =>
                   /\ [f EXCEPT ![k] = @ - 1, ![k - 1] = @ + 1] \in [1 .. n -> Nat]
                   /\ Total([f EXCEPT ![k] = @ - 1, ![k - 1] = @ + 1], n) = Total(f, n)
<1>1. ASSUME NEW g \in [1 .. n -> Nat], NEW j \in 1 .. n
      PROVE  /\ [g EXCEPT ![j] = @ + 1] \in [1 .. n -> Nat]
             /\ Total(g, n) \in Nat
             /\ Total([g EXCEPT ![j] = @ + 1], n) = Total(g, n) + 1
  <2>1. PICK h : h = [g EXCEPT ![j] = @ + 1]
    OBVIOUS
  <2>2. h \in [1 .. n -> Nat] /\ h[j] = g[j] + 1 /\ \A i \in 1 .. n : i # j => h[i] = g[i]
    BY <2>1
  <2>3. Total(g, n) \in Nat /\ Total(h, n) = Total(g, n) + h[j] - g[j]
    BY <2>2, TotalChanges
  <2>4. g[j] \in Nat
    OBVIOUS
  <2> QED BY <2>1, <2>2, <2>3, <2>4
<1>2. ASSUME f[k] > 0
      PROVE  /\ [f EXCEPT ![k] = @ - 1] \in [1 .. n -> Nat]
             /\ Total([f EXCEPT ![k] = @ - 1], n) = Total(f, n) - 1
  <2>1. PICK h : h = [f EXCEPT ![k] = @ - 1]
    OBVIOUS
  <2>2. h \in [1 .. n -> Nat] /\ h[k] = f[k] - 1 /\ \A i \in 1 .. n : i # k => h[i] = f[i]
    BY <1>2, <2>1
  <2>3. Total(f, n) \in Nat /\ Total(h, n) = Total(f, n) + h[k] - f[k]
    BY <2>2, TotalChanges
  <2>4. f[k] \in Nat
    OBVIOUS
  <2> QED BY <2>1, <2>2, <2>3, <2>4
<1>3. ASSUME f[k] > 0, k # 1
      PROVE  /\ [f EXCEPT ![k] = @ - 1, ![k - 1] = @ + 1] \in [1 .. n -> Nat]
             /\ Total([f EXCEPT ![k] = @ - 1, ![k - 1] = @ + 1], n) = Total(f, n)
  <2>1. PICK h, m : h = [f EXCEPT ![k] = @ - 1] /\ m = [h EXCEPT ![k - 1] = @ + 1]
    OBVIOUS
  <2>2. h \in [1 .. n -> Nat] /\ Total(h, n) = Total(f, n) - 1 /\ k - 1 \in 1 .. n
    BY <1>2, <1>3, <2>1
  <2>3. m \in [1 .. n -> Nat] /\ Total(m, n) = Total(h, n) + 1
    BY <1>1, <2>1, <2>2
  <2>4. h[k - 1] = f[k - 1] /\ f[k] - 1 = h[k]
    BY <2>1, <2>2
  <2>5. m = [f EXCEPT ![k] = f[k] - 1, ![k - 1] = f[k - 1] + 1]
    BY <2>1, <2>2, <2>4
  <2>6. Total(m, n) = Total(f, n)
    <3>1. Total(f, n) \in Nat
      BY <1>1
    <3> QED BY <2>2, <2>3, <3>1
  <2> QED BY <2>3, <2>5, <2>6
<1> QED BY <1>1, <1>2, <1>3

\* The same for one level of the table of states in correction.
LEMMA CorrectingMoves ==
  ASSUME fac \in Factories, correcting \in [Levels -> [Decodes -> Nat]],
         NEW level \in Levels, NEW k \in Decodes
  PROVE  /\ correcting' = [correcting EXCEPT ![level][k] = @ + 1] =>
              /\ correcting' \in [Levels -> [Decodes -> Nat]]
              /\ \A l \in Levels : Total(correcting'[l], fac.corr)
                                     = Correcting(l) + IF l = level THEN 1 ELSE 0
         /\ correcting[level][k] > 0 =>
              /\ Correcting(level) > 0
              /\ correcting' = [correcting EXCEPT ![level][k] = @ - 1] =>
                   /\ correcting' \in [Levels -> [Decodes -> Nat]]
                   /\ \A l \in Levels : Total(correcting'[l], fac.corr)
                                          = Correcting(l) - IF l = level THEN 1 ELSE 0
              /\ k # 1 /\ correcting' = [correcting EXCEPT ![level][k] = @ - 1,
                                                           ![level][k - 1] = @ + 1] =>
                   /\ correcting' \in [Levels -> [Decodes -> Nat]]
                   /\ \A l \in Levels : Total(correcting'[l], fac.corr) = Correcting(l)
         /\ \A l \in Levels : Correcting(l) \in Nat
<1>1. PICK t : t = correcting'
  OBVIOUS
<1>2. PICK n, f : n = fac.corr /\ f = correcting[level]
  OBVIOUS
<1>3. n \in Nat /\ Decodes = 1 .. n /\ f \in [1 .. n -> Nat] /\ k \in 1 .. n
  BY <1>2, FactoryFacts
<1>4. ASSUME NEW l \in Levels PROVE Correcting(l) = Total(correcting[l], n) /\ Correcting(l) \in Nat
  <2>1. correcting[l] \in [1 .. n -> Nat]
    BY <1>3
  <2> QED BY <1>2, <1>3, <2>1, TotalBounds DEF Correcting
<1>5. Total(f, n) \in Nat /\ f[k] <= Total(f, n) /\ f[k] \in Nat /\ Correcting(level) = Total(f, n)
  BY <1>2, <1>3, <1>4, TotalBounds
<1>6. ASSUME t = [correcting EXCEPT ![level][k] = @ + 1]
      PROVE  /\ t \in [Levels -> [Decodes -> Nat]]
             /\ \A l \in Levels :
                  Total(t[l], fac.corr) = Correcting(l) + IF l = level THEN 1 ELSE 0
  <2>1. PICK g : g = [f EXCEPT ![k] = @ + 1]
    OBVIOUS
  <2>2. g \in [1 .. n -> Nat] /\ Total(g, n) = Total(f, n) + 1
    BY <1>3, <2>1, TotalMoves
  <2>3. t = [correcting EXCEPT ![level] = g]
    BY <1>2, <1>6, <2>1
  <2>4. t \in [Levels -> [Decodes -> Nat]] /\ t[level] = g
        /\ \A l \in Levels : l # level => t[l] = correcting[l]
    BY <1>3, <2>2, <2>3
  <2> QED BY <1>2, <1>4, <1>5, <2>2, <2>4
<1>7. ASSUME f[k] > 0, t = [correcting EXCEPT ![level][k] = @ - 1]
      PROVE  /\ t \in [Levels -> [Decodes -> Nat]]
             /\ \A l \in Levels :
                  Total(t[l], fac.corr) = Correcting(l) - IF l = level THEN 1 ELSE 0
  <2>1. PICK g : g = [f EXCEPT ![k] = @ - 1]
    OBVIOUS
  <2>2. g \in [1 .. n -> Nat] /\ Total(g, n) = Total(f, n) - 1
    BY <1>3, <1>7, <2>1, TotalMoves
  <2>3. t = [correcting EXCEPT ![level] = g]
    BY <1>2, <1>7, <2>1
  <2>4. t \in [Levels -> [Decodes -> Nat]] /\ t[level] = g
        /\ \A l \in Levels : l # level => t[l] = correcting[l]
    BY <1>3, <2>2, <2>3
  <2> QED BY <1>2, <1>4, <1>5, <2>2, <2>4
<1>8. ASSUME f[k] > 0, k # 1,
             t = [correcting EXCEPT ![level][k] = @ - 1, ![level][k - 1] = @ + 1]
      PROVE  /\ t \in [Levels -> [Decodes -> Nat]]
             /\ \A l \in Levels : Total(t[l], fac.corr) = Correcting(l)
  <2>1. PICK g : g = [f EXCEPT ![k] = @ - 1, ![k - 1] = @ + 1]
    OBVIOUS
  <2>2. g \in [1 .. n -> Nat] /\ Total(g, n) = Total(f, n)
    BY <1>3, <1>8, <2>1, TotalMoves
  <2>3. t = [correcting EXCEPT ![level] = g]
    BY <1>2, <1>8, <2>1
  <2>4. t \in [Levels -> [Decodes -> Nat]] /\ t[level] = g
        /\ \A l \in Levels : l # level => t[l] = correcting[l]
    BY <1>3, <2>2, <2>3
  <2> QED BY <1>2, <1>4, <1>5, <2>2, <2>4
<1> QED BY <1>1, <1>2, <1>4, <1>5, <1>6, <1>7, <1>8

\* A step that starts and delivers nothing keeps the invariant, when the
\* counters still agree with the work that runs.
LEMMA QuietStep ==
  ASSUME SupplyInv,
         UNCHANGED <<fac, asked, waiting, served, withdrawn, off, buffer, busy, inFlight,
                     produced, failures>>,
         making' \in [Levels -> Nat], correcting' \in [Levels -> [Decodes -> Nat]],
         returning' \in Nat,
         IF fac.multi
         THEN /\ returning' = 0
              /\ \A level \in Levels :
                   busy[level] = making'[level] + Total(correcting'[level], fac.corr)
         ELSE /\ busy[1] = making'[1]
              /\ inFlight = Total(correcting'[1], fac.corr) + returning'
  PROVE  SupplyInv'
<1> DEFINE d == [buffer |-> buffer, busy |-> busy, inFlight |-> inFlight, making |-> making']
<1>1. /\ fac \in Factories /\ InRange(Counters) /\ waiting \in Seq(Ops)
      /\ Len(waiting) \in Nat
  BY LenProperties DEF SupplyInv, WorkInv, RequestInv
<1>2. /\ Levels' = Levels /\ Decodes' = Decodes /\ Top' = Top /\ Ops' = Ops
      /\ Counters' = d
  BY DEF Levels, Decodes, Top, Ops, Counters
<1>3. InRange(d) /\ d.buffer = Counters.buffer /\ d.busy = Counters.busy
      /\ d.inFlight = Counters.inFlight
  BY <1>1 DEF InRange, CounterSet, Counters
<1>4. RequestInv'
  BY <1>2 DEF RequestInv, SupplyInv
<1>5. WorkInv'
  BY <1>1, <1>2, <1>3 DEF SupplyInv, WorkInv, InRange, CounterSet
<1>6. ExactInv'
  BY <1>2 DEF SupplyInv, ExactInv, Correcting
<1>7. DemandInv'
  <2>1. Settled(Counters, Len(waiting))' = Settled(d, Len(waiting))
    BY <1>2 DEF Settled, Starts, Need, RoundsWanted
  <2>2. ASSUME Settled(Counters, Len(waiting)) PROVE Settled(d, Len(waiting))
    <3>1. CASE fac.multi
      <4>1. Len(waiting) <= Len(waiting)
        BY <1>1
      <4> HIDE DEF d
      <4> QED BY <1>1, <1>3, <2>2, <3>1, <4>1, StillSettled DEF Settled
    <3>2. CASE ~ fac.multi
      BY <1>3, <2>2, <3>2 DEF Settled
    <3> QED BY <3>1, <3>2
  <2> QED BY <1>2, <2>1, <2>2 DEF SupplyInv, DemandInv
<1> QED BY <1>4, <1>5, <1>6, <1>7 DEF SupplyInv

\* What the invariant says of the counters a handler passes on.
LEMMA CountersNow ==
  ASSUME SupplyInv
  PROVE  /\ fac \in Factories /\ off \in BOOLEAN
         /\ Counters = [buffer |-> buffer, busy |-> busy, inFlight |-> inFlight,
                        making |-> making]
         /\ InRange(Counters)
         /\ buffer \in [Levels -> Nat] /\ busy \in [Levels -> Nat]
         /\ making \in [Levels -> Nat] /\ inFlight \in Nat
         /\ \A level \in Levels : busy[level] <= fac.units[level]
         /\ correcting \in [Levels -> [Decodes -> Nat]]
         /\ \A level \in Levels : Correcting(level) \in Nat
         /\ returning \in Nat /\ produced \in Nat /\ failures \in 0 .. MaxFailures
         /\ waiting \in Seq(Ops) /\ IsInjective(waiting) /\ Len(waiting) \in Nat
         /\ ToSet(waiting) \cap served = {} /\ served \subseteq Ops
         /\ \E k \in 0 .. NumOps : asked = 1 .. k
         /\ asked = served \cup withdrawn \cup ToSet(waiting)
         /\ buffer[Top] + Cardinality(served) = fac.initial + produced
         /\ Cardinality(served) \in Nat /\ fac.initial \in Nat
<1>1. fac \in Factories /\ InRange(Counters) /\ waiting \in Seq(Ops) /\ served \subseteq Ops
  BY DEF SupplyInv, WorkInv, RequestInv
<1>2. /\ Counters.buffer = buffer /\ Counters.busy = busy /\ Counters.making = making
      /\ Counters.inFlight = inFlight
  BY DEF Counters
<1>3. /\ buffer \in [Levels -> Nat] /\ busy \in [Levels -> Nat]
      /\ making \in [Levels -> Nat] /\ inFlight \in Nat
      /\ \A level \in Levels : busy[level] <= fac.units[level]
  BY <1>1, <1>2 DEF InRange, CounterSet
<1>4. ASSUME NEW level \in Levels PROVE Correcting(level) \in Nat
  <2>1. fac.corr \in Nat /\ correcting[level] \in [1 .. fac.corr -> Nat]
    BY <1>1, FactoryFacts DEF SupplyInv, WorkInv
  <2> QED BY <2>1, TotalBounds DEF Correcting
<1>5. Cardinality(served) \in Nat /\ fac.initial \in Nat /\ Len(waiting) \in Nat
  <2>1. IsFiniteSet(Ops)
    <3>1. NumOps \in Int /\ 1 \in Int
      BY SupplyAssumption
    <3> QED BY <3>1, FS_Interval DEF Ops
  <2>2. Cardinality(served) \in Nat
    BY <1>1, <2>1, PartOfFinite
  <2> QED BY <1>1, <2>2, FactoryFacts, LenProperties
<1>6. Counters = [buffer |-> buffer, busy |-> busy, inFlight |-> inFlight, making |-> making]
  BY DEF Counters
<1> QED BY <1>1, <1>3, <1>4, <1>5, <1>6 DEF SupplyInv, WorkInv, RequestInv, ExactInv

\* Counters given field by field.
LEMMA CountersInRange ==
  ASSUME NEW b \in [Levels -> Nat], NEW u \in [Levels -> Nat], NEW f \in Nat,
         NEW m \in [Levels -> Nat], \A level \in Levels : u[level] <= fac.units[level]
  PROVE  InRange([buffer |-> b, busy |-> u, inFlight |-> f, making |-> m])
BY DEF InRange, CounterSet

\* An operation that asks is new: neither served, nor withdrawn, nor waiting.
LEMMA RequestKeeps ==
  ASSUME SupplyInv, NEW o \in Ops, Request(o)
  PROVE  SupplyInv'
<1>1. PICK k \in 0 .. NumOps : asked = 1 .. k
  BY CountersNow
<1>2. o = k + 1 /\ k + 1 \in 1 .. NumOps
  <2>1. k \in Int /\ 1 \in Int
    OBVIOUS
  <2>2. Cardinality(1 .. k) = IF 1 > k THEN 0 ELSE k - 1 + 1
    BY <2>1, FS_Interval
  <2> QED BY <1>1, <2>2 DEF Request, Ops
<1>3. o \notin asked /\ asked' = 1 .. k + 1 /\ k + 1 \in 0 .. NumOps
  BY <1>1, <1>2 DEF Request
<1>4. PICK c, requests : /\ c = Counters /\ requests = Append(waiting, o)
                         /\ Supply(c, requests)
  BY DEF Request
<1>5. /\ requests \in Seq(Ops) /\ IsInjective(requests)
      /\ ToSet(requests) = ToSet(waiting) \cup {o}
      /\ ToSet(requests) \cap served = {}
  BY SMTT(30), <1>3, <1>4, CountersNow, AppendElements
<1>6. /\ InRange(c) /\ c.buffer = buffer /\ c.busy = busy /\ c.making = making
      /\ c.inFlight = inFlight
  BY <1>4, CountersNow
<1>7. /\ fac' = fac /\ off' = off /\ withdrawn' = withdrawn /\ correcting' = correcting
      /\ returning' = returning /\ produced' = produced /\ failures' = failures
  BY DEF Request
<1>8. asked' = served \cup withdrawn \cup ToSet(requests)
  BY <1>5, CountersNow DEF Request
<1>9. IF fac.multi
      THEN /\ returning' = 0
           /\ \A level \in Levels :
                c.busy[level] = c.making[level] + Total(correcting'[level], fac.corr)
      ELSE /\ c.busy[1] = c.making[1]
           /\ c.inFlight = Total(correcting'[1], fac.corr) + returning'
  BY <1>6, <1>7 DEF SupplyInv, ExactInv, Correcting
<1>10. /\ correcting' \in [Levels -> [Decodes -> Nat]] /\ returning' \in Nat
       /\ produced' \in Nat /\ failures' \in 0 .. MaxFailures
       /\ c.buffer[Top] + Cardinality(served) = fac.initial + produced'
  BY <1>6, <1>7, CountersNow
<1> QED BY <1>3, <1>4, <1>5, <1>6, <1>7, <1>8, <1>9, <1>10, SupplyStep

\* A request less leaves the demand met.
LEMMA CancelKeeps ==
  ASSUME SupplyInv, NEW o \in Ops, Cancel(o)
  PROVE  SupplyInv'
<1>1. /\ fac' = fac /\ asked' = asked /\ served' = served /\ off' = off /\ buffer' = buffer
      /\ busy' = busy /\ inFlight' = inFlight /\ making' = making
      /\ correcting' = correcting /\ returning' = returning /\ produced' = produced
      /\ failures' = failures /\ withdrawn' = withdrawn \cup {o}
      /\ waiting' = RemoveFirst(waiting, o)
      /\ o \in ToSet(waiting) /\ waiting # <<>>
  BY DEF Cancel, ToSet
<1>2. /\ Levels' = Levels /\ Decodes' = Decodes /\ Top' = Top /\ Ops' = Ops
      /\ Counters' = Counters
  BY <1>1 DEF Levels, Decodes, Top, Ops, Counters
<1>3. /\ waiting' \in Seq(Ops) /\ IsInjective(waiting')
      /\ ToSet(waiting') = ToSet(waiting) \ {o}
  BY <1>1, CountersNow, RemoveFirstElements
<1>4. Len(waiting') \in Nat /\ Len(waiting) \in Nat /\ Len(waiting') <= Len(waiting)
  <2>1. Len(waiting') = Cardinality(ToSet(waiting')) /\ Len(waiting) = Cardinality(ToSet(waiting))
    BY <1>3, CountersNow, ElementsCounted
  <2>2. IsFiniteSet(ToSet(waiting)) /\ ToSet(waiting') \subseteq ToSet(waiting)
    BY <1>3, CountersNow, ElementsFinite
  <2> QED BY <2>1, <2>2, PartOfFinite
<1>5. RequestInv'
  BY <1>1, <1>2, <1>3, CountersNow DEF RequestInv
<1>6. WorkInv' /\ ExactInv'
  BY <1>1, <1>2 DEF SupplyInv, WorkInv, ExactInv, InRange, CounterSet, Correcting
<1>7. ASSUME ~ off PROVE Settled(Counters, Len(waiting'))
  <2>1. Settled(Counters, Len(waiting)) /\ InRange(Counters) /\ fac \in Factories
    BY <1>7, CountersNow DEF SupplyInv, DemandInv
  <2>2. CASE fac.multi
    <3>1. PICK c, r, w : c = Counters /\ r = Len(waiting) /\ w = Len(waiting')
      OBVIOUS
    <3>2. /\ InRange(c) /\ r \in Nat /\ w \in Nat /\ w <= r
          /\ \A level \in Levels : Starts(c, r)[level] = 0
      BY <1>4, <2>1, <2>2, <3>1 DEF Settled
    <3>3. \A level \in Levels : Starts(c, w)[level] = 0
      BY <2>1, <3>2, StillSettled
    <3> QED BY <2>2, <3>1, <3>3 DEF Settled
  <2>3. CASE ~ fac.multi
    <3>1. PICK units, r, w : units = fac.units[1] /\ r = Len(waiting) /\ w = Len(waiting')
      OBVIOUS
    <3>2. units \in Int /\ r \in Int /\ w \in Int /\ w <= r
      BY <1>4, <2>1, <2>3, <3>1, FactoryFacts
    <3>3. /\ Min({units, r}) = (IF units <= r THEN units ELSE r)
          /\ Min({units, w}) = (IF units <= w THEN units ELSE w)
      BY <3>2, MinOfTwo
    <3>4. PICK s : s = Counters.busy[1] + Counters.inFlight
      OBVIOUS
    <3>5. s \in Int
      <4>1. 1 \in Levels
        BY <2>1, <2>3, FactoryFacts
      <4>2. Counters.busy \in [Levels -> Nat] /\ Counters.inFlight \in Nat
        BY <2>1 DEF InRange, CounterSet
      <4> QED BY <3>4, <4>1, <4>2
    <3>6. Min({units, r}) <= s
      BY <2>1, <2>3, <3>1, <3>4 DEF Settled
    <3>7. Min({units, w}) <= s
      BY <3>2, <3>3, <3>5, <3>6
    <3> QED BY <2>3, <3>1, <3>4, <3>7 DEF Settled
  <2> QED BY <2>2, <2>3
<1>8. DemandInv'
  <2>1. Settled(Counters, Len(waiting))' = Settled(Counters, Len(waiting'))
    BY <1>1, <1>2 DEF Settled, Starts, Need, RoundsWanted
  <2> QED BY <1>1, <1>2, <1>7, <2>1 DEF SupplyInv, DemandInv
<1> QED BY <1>5, <1>6, <1>8 DEF SupplyInv

\* Shutdown changes no counter, and no demand is claimed after it.
LEMMA ShutdownKeeps ==
  ASSUME SupplyInv, Shutdown
  PROVE  SupplyInv'
<1>1. /\ fac' = fac /\ asked' = asked /\ served' = served /\ off' = TRUE /\ buffer' = buffer
      /\ busy' = busy /\ inFlight' = inFlight /\ making' = making /\ waiting' = waiting
      /\ correcting' = correcting /\ returning' = returning /\ produced' = produced
      /\ failures' = failures /\ withdrawn' = withdrawn
  BY DEF Shutdown
<1>2. /\ Levels' = Levels /\ Decodes' = Decodes /\ Top' = Top /\ Ops' = Ops
      /\ Counters' = Counters
  BY <1>1 DEF Levels, Decodes, Top, Ops, Counters
<1>3. RequestInv' /\ WorkInv' /\ ExactInv'
  BY <1>1, <1>2
     DEF SupplyInv, RequestInv, WorkInv, ExactInv, InRange, CounterSet, Correcting
<1> QED BY <1>1, <1>3 DEF SupplyInv, DemandInv

\* A step that changes nothing.
LEMMA StutterKeeps ==
  ASSUME SupplyInv, UNCHANGED vars
  PROVE  SupplyInv'
<1>1. /\ fac' = fac /\ asked' = asked /\ served' = served /\ off' = off /\ buffer' = buffer
      /\ busy' = busy /\ inFlight' = inFlight /\ making' = making /\ waiting' = waiting
      /\ correcting' = correcting /\ returning' = returning /\ produced' = produced
      /\ failures' = failures /\ withdrawn' = withdrawn
  BY DEF vars
<1>2. making' \in [Levels -> Nat] /\ correcting' \in [Levels -> [Decodes -> Nat]]
      /\ returning' \in Nat
  BY <1>1, CountersNow
<1>3. IF fac.multi
      THEN /\ returning' = 0
           /\ \A level \in Levels :
                busy[level] = making'[level] + Total(correcting'[level], fac.corr)
      ELSE /\ busy[1] = making'[1]
           /\ inFlight = Total(correcting'[1], fac.corr) + returning'
  BY <1>1 DEF SupplyInv, ExactInv, Correcting
<1> QED BY <1>1, <1>2, <1>3, QuietStep

\* Failures are only counted up to their bound.
LEMMA FailsKept ==
  ASSUME failures \in 0 .. MaxFailures, NEW ok \in BOOLEAN,
         ok \/ failures < MaxFailures, Fails(ok)
  PROVE  failures' \in 0 .. MaxFailures
BY SupplyAssumption DEF Fails

\* Single level: the end of an attempt gives the unit back, and the state of
\* one that succeeded is in flight.
LEMMA AttemptDoneKeeps ==
  ASSUME SupplyInv, NEW ok \in BOOLEAN, AttemptDone(ok)
  PROVE  SupplyInv'
<1>1. /\ ~ fac.multi /\ making[1] > 0 /\ (ok \/ failures < MaxFailures) /\ Fails(ok)
      /\ fac' = fac /\ asked' = asked /\ withdrawn' = withdrawn /\ off' = off
      /\ produced' = produced
      /\ correcting' = IF ok /\ fac.corr > 0
                       THEN [correcting EXCEPT ![1][fac.corr] = @ + 1] ELSE correcting
      /\ returning' = returning + IF ok /\ fac.corr = 0 THEN 1 ELSE 0
  BY DEF AttemptDone
<1>2. /\ Top = 1 /\ 1 \in Levels /\ fac.corr \in Nat /\ Decodes = 1 .. fac.corr
  BY <1>1, CountersNow, FactoryFacts
<1>3. busy[1] = making[1] /\ inFlight = Correcting(1) + returning
  BY <1>1 DEF SupplyInv, ExactInv
<1>4. PICK u, f, m : /\ u = [busy EXCEPT ![1] = @ - 1] /\ m = [making EXCEPT ![1] = @ - 1]
                     /\ f = inFlight + IF ok THEN 1 ELSE 0
  OBVIOUS
<1>5. PICK c : /\ c = [buffer |-> buffer, busy |-> u, inFlight |-> f, making |-> m]
               /\ Supply(c, waiting)
  <2>1. PICK now, x, y : /\ now = Counters /\ x = busy[1] - 1 /\ y = making[1] - 1
    OBVIOUS
  <2>2. /\ now = [buffer |-> buffer, busy |-> busy, inFlight |-> inFlight, making |-> making]
        /\ now.busy = busy /\ now.making = making /\ now.inFlight = inFlight
    BY <2>1 DEF Counters
  <2>3. Supply([now EXCEPT !.busy[1] = x, !.making[1] = y, !.inFlight = f], waiting)
    BY <1>4, <2>1, <2>2 DEF AttemptDone
  <2>4. PICK d, e : d = [now EXCEPT !.busy[1] = x] /\ e = [d EXCEPT !.making[1] = y]
    OBVIOUS
  <2>5. d = [buffer |-> buffer, busy |-> u, inFlight |-> inFlight, making |-> making]
    BY <1>4, <2>1, <2>2, <2>4
  <2>6. e = [buffer |-> buffer, busy |-> u, inFlight |-> inFlight, making |-> m]
    <3>1. m = [making EXCEPT ![1] = y]
      BY <1>4, <2>1
    <3>2. e = [d EXCEPT !.making[1] = y]
      BY <2>4
    <3> QED BY <2>5, <3>1, <3>2
  <2>7. [now EXCEPT !.busy[1] = x, !.making[1] = y, !.inFlight = f] = [e EXCEPT !.inFlight = f]
    BY <2>4
  <2>8. [e EXCEPT !.inFlight = f]
          = [buffer |-> buffer, busy |-> u, inFlight |-> f, making |-> m]
    BY <2>6
  <2> QED BY <2>3, <2>7, <2>8
<1>6. /\ c.buffer = buffer /\ c.busy = u /\ c.inFlight = f /\ c.making = m
  BY <1>5
<1>7. busy[1] - 1 \in Nat
  BY SMTT(30), <1>1, <1>2, <1>3, CountersNow
<1>8. /\ u \in [Levels -> Nat] /\ m \in [Levels -> Nat] /\ f \in Nat /\ u[1] = m[1]
      /\ \A level \in Levels : u[level] <= fac.units[level]
  <2>1. /\ busy \in [Levels -> Nat] /\ making \in [Levels -> Nat] /\ inFlight \in Nat
        /\ fac \in Factories
    BY CountersNow
  <2>2. u \in [Levels -> Nat] /\ m \in [Levels -> Nat] /\ u[1] = m[1] /\ f \in Nat
    BY <1>2, <1>3, <1>4, <1>7, <2>1
  <2>3. ASSUME NEW level \in Levels PROVE u[level] <= fac.units[level]
    <3>1. /\ busy[level] \in Nat /\ fac.units[level] \in Nat
          /\ busy[level] <= fac.units[level]
      BY <2>1, CountersNow, FactoryFacts
    <3>2. u[level] = busy[level] \/ u[level] = busy[level] - 1
      BY <1>4, <2>1
    <3> QED BY <3>1, <3>2
  <2> QED BY <2>2, <2>3
<1>9. InRange(c)
  <2>1. buffer \in [Levels -> Nat]
    BY CountersNow
  <2> QED BY <1>5, <1>8, <2>1, CountersInRange
<1>10. /\ correcting' \in [Levels -> [Decodes -> Nat]] /\ returning' \in Nat
       /\ f = Total(correcting'[1], fac.corr) + returning'
  <2>1. /\ inFlight \in Nat /\ returning \in Nat /\ Correcting(1) \in Nat
        /\ correcting \in [Levels -> [Decodes -> Nat]] /\ fac \in Factories
    BY <1>2, CountersNow
  <2>2. CASE ok /\ fac.corr > 0
    <3>1. PICK k : k = fac.corr
      OBVIOUS
    <3>2. k \in Decodes /\ correcting' = [correcting EXCEPT ![1][k] = @ + 1]
      BY <1>1, <1>2, <2>2, <3>1
    <3>3. /\ correcting' \in [Levels -> [Decodes -> Nat]]
          /\ Total(correcting'[1], fac.corr) = Correcting(1) + 1
      BY <1>2, <2>1, <3>2, CorrectingMoves
    <3>4. returning' = returning /\ f = inFlight + 1
      BY <1>1, <1>4, <2>1, <2>2
    <3> QED BY <1>3, <2>1, <3>3, <3>4
  <2>3. CASE ~ (ok /\ fac.corr > 0)
    <3>1. correcting' = correcting /\ Total(correcting'[1], fac.corr) = Correcting(1)
      BY <1>1, <2>3 DEF Correcting
    <3>2. returning' = returning + IF ok THEN 1 ELSE 0
      BY <1>1, <1>2, <2>3
    <3> QED BY <1>3, <1>4, <2>1, <3>1, <3>2
  <2> QED BY <2>2, <2>3
<1>11. failures' \in 0 .. MaxFailures
  BY <1>1, CountersNow, FailsKept
<1>12. /\ \E k \in 0 .. NumOps : asked' = 1 .. k
       /\ asked' = served \cup withdrawn \cup ToSet(waiting)
       /\ produced' \in Nat
       /\ c.buffer[Top] + Cardinality(served) = fac.initial + produced'
       /\ waiting \in Seq(Ops) /\ IsInjective(waiting) /\ ToSet(waiting) \cap served = {}
  BY <1>1, <1>6, CountersNow
<1> QED BY <1>1, <1>5, <1>6, <1>8, <1>9, <1>10, <1>11, <1>12, SupplyStep

\* Single level: one correction decode is back; the state stays in flight.
LEMMA StateCorrectedKeeps ==
  ASSUME SupplyInv, NEW n \in Decodes, StateCorrected(n)
  PROVE  SupplyInv'
<1>1. /\ ~ fac.multi /\ correcting[1][n] > 0
      /\ correcting' = IF n = 1 THEN [correcting EXCEPT ![1][1] = @ - 1]
                       ELSE [correcting EXCEPT ![1][n] = @ - 1, ![1][n - 1] = @ + 1]
      /\ returning' = returning + IF n = 1 THEN 1 ELSE 0
      /\ UNCHANGED <<fac, asked, waiting, served, withdrawn, off, buffer, busy, inFlight,
                     making, produced, failures>>
  BY DEF StateCorrected
<1>2. /\ 1 \in Levels /\ fac \in Factories
      /\ correcting \in [Levels -> [Decodes -> Nat]]
  BY <1>1, CountersNow, FactoryFacts
<1>3. /\ busy[1] = making[1] /\ inFlight = Correcting(1) + returning
      /\ Correcting(1) \in Nat /\ returning \in Nat
  BY <1>1, <1>2, CountersNow DEF SupplyInv, ExactInv
<1>4. /\ correcting' \in [Levels -> [Decodes -> Nat]] /\ returning' \in Nat
      /\ inFlight = Total(correcting'[1], fac.corr) + returning'
  <2>1. CASE n = 1
    <3>1. correcting' = [correcting EXCEPT ![1][n] = @ - 1]
      BY <1>1, <2>1
    <3>2. /\ correcting' \in [Levels -> [Decodes -> Nat]]
          /\ Total(correcting'[1], fac.corr) = Correcting(1) - 1
      BY <1>1, <1>2, <3>1, CorrectingMoves
    <3> QED BY <1>1, <1>3, <2>1, <3>2
  <2>2. CASE n # 1
    <3>1. correcting' = [correcting EXCEPT ![1][n] = @ - 1, ![1][n - 1] = @ + 1]
      BY <1>1, <2>2
    <3>2. /\ correcting' \in [Levels -> [Decodes -> Nat]]
          /\ Total(correcting'[1], fac.corr) = Correcting(1)
      BY <1>1, <1>2, <2>2, <3>1, CorrectingMoves
    <3> QED BY <1>1, <1>3, <2>2, <3>2
  <2> QED BY <2>1, <2>2
<1>5. making' \in [Levels -> Nat] /\ busy[1] = making'[1]
  BY <1>1, <1>3, CountersNow
<1> QED BY <1>1, <1>4, <1>5, QuietStep

\* Single level: a state that is back enters the store and is no longer in flight.
LEMMA ReleaseKeeps ==
  ASSUME SupplyInv, Release
  PROVE  SupplyInv'
<1>1. /\ returning > 0 /\ returning' = returning - 1 /\ produced' = produced + 1
      /\ fac' = fac /\ asked' = asked /\ withdrawn' = withdrawn /\ off' = off
      /\ correcting' = correcting /\ failures' = failures
  BY DEF Release
<1>2. /\ ~ fac.multi /\ busy[1] = making[1] /\ inFlight = Correcting(1) + returning
  BY <1>1 DEF SupplyInv, ExactInv
<1>3. Top = 1 /\ 1 \in Levels
  BY <1>2, CountersNow, FactoryFacts
<1>4. PICK b, f : b = [buffer EXCEPT ![1] = @ + 1] /\ f = inFlight - 1
  OBVIOUS
<1>5. PICK c : /\ c = [buffer |-> b, busy |-> busy, inFlight |-> f, making |-> making]
               /\ Supply(c, waiting)
  <2>1. PICK now, z : now = Counters /\ z = buffer[1] + 1
    OBVIOUS
  <2>2. /\ now = [buffer |-> buffer, busy |-> busy, inFlight |-> inFlight, making |-> making]
        /\ now.buffer = buffer /\ now.inFlight = inFlight
    BY <2>1 DEF Counters
  <2>3. Supply([now EXCEPT !.inFlight = f, !.buffer[1] = z], waiting)
    BY <1>4, <2>1, <2>2 DEF Release
  <2>4. PICK d : d = [now EXCEPT !.inFlight = f]
    OBVIOUS
  <2>5. d = [buffer |-> buffer, busy |-> busy, inFlight |-> f, making |-> making]
    BY <2>2, <2>4
  <2>6. [now EXCEPT !.inFlight = f, !.buffer[1] = z] = [d EXCEPT !.buffer[1] = z]
    BY <2>4
  <2>7. [d EXCEPT !.buffer[1] = z]
          = [buffer |-> b, busy |-> busy, inFlight |-> f, making |-> making]
    BY <1>4, <2>1, <2>5
  <2> QED BY <2>3, <2>6, <2>7
<1>6. /\ c.buffer = b /\ c.busy = busy /\ c.inFlight = f /\ c.making = making
  BY <1>5
<1>7. /\ b \in [Levels -> Nat] /\ b[Top] = buffer[Top] + 1 /\ f \in Nat
      /\ f = Correcting(1) + returning' /\ returning' \in Nat
  <2>1. /\ buffer \in [Levels -> Nat] /\ Correcting(1) \in Nat /\ returning \in Nat
        /\ inFlight \in Nat
    BY <1>3, CountersNow
  <2> QED BY <1>1, <1>2, <1>3, <1>4, <2>1
<1>8. InRange(c)
  BY <1>5, <1>7, CountersNow, CountersInRange
<1>9. c.buffer[Top] + Cardinality(served) = fac.initial + produced' /\ produced' \in Nat
  <2>1. /\ buffer[Top] \in Nat /\ Cardinality(served) \in Nat /\ fac.initial \in Nat
        /\ produced \in Nat
        /\ buffer[Top] + Cardinality(served) = fac.initial + produced
    BY <1>3, CountersNow
  <2> QED BY <1>1, <1>6, <1>7, <2>1
<1>10. /\ \E k \in 0 .. NumOps : asked' = 1 .. k
       /\ asked' = served \cup withdrawn \cup ToSet(waiting)
       /\ correcting' \in [Levels -> [Decodes -> Nat]] /\ failures' \in 0 .. MaxFailures
       /\ waiting \in Seq(Ops) /\ IsInjective(waiting) /\ ToSet(waiting) \cap served = {}
  BY <1>1, CountersNow
<1>11. /\ c.busy[1] = c.making[1]
       /\ c.inFlight = Total(correcting'[1], fac.corr) + returning'
  BY <1>1, <1>2, <1>6, <1>7 DEF Correcting
<1> QED BY <1>1, <1>2, <1>5, <1>7, <1>8, <1>9, <1>10, <1>11, SupplyStep

\* Several levels: a unit is given back by a preparation, or by a round whose
\* corrections are all back; its states enter the store or are discarded.
LEMMA UnitGivenBack ==
  ASSUME SupplyInv, fac.multi, NEW level \in Levels, NEW ok \in BOOLEAN,
         ok \/ failures < MaxFailures, Fails(ok),
         UNCHANGED <<fac, asked, withdrawn, off, returning>>,
         NEW states \in Nat, NEW m \in [Levels -> Nat],
         produced' = produced + IF level = Top THEN states ELSE 0,
         correcting' \in [Levels -> [Decodes -> Nat]], busy[level] > 0,
         \A l \in Levels : busy[l] - (IF l = level THEN 1 ELSE 0)
                             = m[l] + Total(correcting'[l], fac.corr),
         NEW b, b = [buffer EXCEPT ![level] = @ + states],
         NEW u, u = [busy EXCEPT ![level] = @ - 1],
         NEW c, c = [buffer |-> b, busy |-> u, inFlight |-> inFlight, making |-> m],
         Supply(c, waiting)
  PROVE  SupplyInv'
<1>1. /\ b = [buffer EXCEPT ![level] = @ + states]
      /\ u = [busy EXCEPT ![level] = @ - 1]
  OBVIOUS
<1>2. /\ c = [buffer |-> b, busy |-> u, inFlight |-> inFlight, making |-> m]
      /\ Supply(c, waiting)
  OBVIOUS
<1>3. c.buffer = b /\ c.busy = u /\ c.inFlight = inFlight /\ c.making = m
  BY <1>2
<1>4. /\ Top \in Levels /\ buffer \in [Levels -> Nat] /\ busy \in [Levels -> Nat]
      /\ fac \in Factories
  <2>1. fac \in Factories
    BY CountersNow
  <2> QED BY <2>1, CountersNow, FactoryFacts
<1>5. /\ b \in [Levels -> Nat] /\ u \in [Levels -> Nat]
      /\ \A l \in Levels : u[l] = busy[l] - IF l = level THEN 1 ELSE 0
      /\ b[Top] = buffer[Top] + IF level = Top THEN states ELSE 0
  <2>1. buffer[level] + states \in Nat /\ busy[level] - 1 \in Nat /\ buffer[Top] \in Nat
    BY <1>4
  <2>2. b \in [Levels -> Nat] /\ u \in [Levels -> Nat]
    BY <1>1, <1>4, <2>1
  <2>3. ASSUME NEW l \in Levels PROVE u[l] = busy[l] - IF l = level THEN 1 ELSE 0
    <3>1. busy[l] \in Nat
      BY <1>4
    <3>2. CASE l = level
      BY <1>1, <1>4, <3>2
    <3>3. CASE l # level
      BY <1>1, <1>4, <3>1, <3>3
    <3> QED BY <3>2, <3>3
  <2>4. b[Top] = buffer[Top] + IF level = Top THEN states ELSE 0
    <3>1. CASE level = Top
      BY <1>1, <1>4, <3>1
    <3>2. CASE level # Top
      BY <1>1, <1>4, <2>1, <3>2
    <3> QED BY <3>1, <3>2
  <2> QED BY <2>2, <2>3, <2>4
<1>6. ASSUME NEW l \in Levels PROVE u[l] <= fac.units[l]
  <2>1. /\ busy[l] \in Nat /\ fac.units[l] \in Nat /\ busy[l] <= fac.units[l]
    BY CountersNow, FactoryFacts
  <2> QED BY <1>5, <2>1
<1>7. InRange(c)
  <2>1. inFlight \in Nat
    BY CountersNow
  <2>2. InRange([buffer |-> b, busy |-> u, inFlight |-> inFlight, making |-> m])
    BY <1>5, <1>6, <2>1, CountersInRange
  <2> QED BY <1>2, <2>2
<1>8. failures' \in 0 .. MaxFailures
  BY CountersNow, FailsKept
<1>9. c.buffer[Top] + Cardinality(served) = fac.initial + produced' /\ produced' \in Nat
  <2>1. /\ buffer[Top] \in Nat /\ Cardinality(served) \in Nat /\ fac.initial \in Nat
        /\ produced \in Nat
        /\ buffer[Top] + Cardinality(served) = fac.initial + produced
    BY <1>4, CountersNow
  <2>2. CASE level = Top
    <3>1. c.buffer[Top] = buffer[Top] + states /\ produced' = produced + states
      BY <1>3, <1>5, <2>2
    <3>2. PICK x, y, i, p : /\ x = buffer[Top] /\ y = Cardinality(served)
                            /\ i = fac.initial /\ p = produced
      OBVIOUS
    <3>3. x \in Nat /\ y \in Nat /\ i \in Nat /\ p \in Nat /\ x + y = i + p
      BY <2>1, <3>2
    <3>4. x + states + y = i + (p + states) /\ p + states \in Nat
      BY <3>3
    <3> QED BY <3>1, <3>2, <3>4
  <2>3. CASE level # Top
    BY <1>3, <1>5, <2>1, <2>3
  <2> QED BY <2>2, <2>3
<1>10. /\ \E k \in 0 .. NumOps : asked' = 1 .. k
       /\ asked' = served \cup withdrawn \cup ToSet(waiting)
       /\ waiting \in Seq(Ops) /\ IsInjective(waiting) /\ ToSet(waiting) \cap served = {}
  BY CountersNow
<1>11. /\ returning' = 0 /\ returning' \in Nat
       /\ \A l \in Levels : c.busy[l] = c.making[l] + Total(correcting'[l], fac.corr)
  BY <1>3, <1>5, CountersNow DEF SupplyInv, ExactInv
<1> QED BY <1>2, <1>7, <1>8, <1>9, <1>10, <1>11, SupplyStep

\* Several levels: an input is prepared, or its preparation failed.
LEMMA PrepDoneKeeps ==
  ASSUME SupplyInv, NEW ok \in BOOLEAN, PrepDone(ok)
  PROVE  SupplyInv'
<1>1. /\ fac.multi /\ making[0] > 0 /\ (ok \/ failures < MaxFailures) /\ Fails(ok)
      /\ UNCHANGED <<fac, asked, withdrawn, off, correcting, returning, produced>>
  BY DEF PrepDone
<1>2. fac \in Factories /\ buffer \in [Levels -> Nat] /\ busy \in [Levels -> Nat]
      /\ making \in [Levels -> Nat] /\ produced \in Nat
      /\ correcting \in [Levels -> [Decodes -> Nat]]
      /\ \A level \in Levels : Correcting(level) \in Nat
  BY CountersNow
<1>3. 0 \in Levels /\ 0 # Top
  BY <1>2, FactoryFacts
<1>4. \A level \in Levels : busy[level] = making[level] + Correcting(level)
  BY <1>1 DEF SupplyInv, ExactInv
<1>5. PICK states, b, u, m :
        /\ states = (IF ok THEN 1 ELSE 0) /\ b = [buffer EXCEPT ![0] = @ + states]
        /\ u = [busy EXCEPT ![0] = @ - 1] /\ m = [making EXCEPT ![0] = @ - 1]
  OBVIOUS
<1>6. Supply([buffer |-> b, busy |-> u, inFlight |-> inFlight, making |-> m], waiting)
  <2>1. PICK now, x, y, z : /\ now = Counters /\ x = busy[0] - 1 /\ y = making[0] - 1
                            /\ z = buffer[0] + states
    OBVIOUS
  <2>2. /\ now = [buffer |-> buffer, busy |-> busy, inFlight |-> inFlight, making |-> making]
        /\ now.buffer = buffer /\ now.busy = busy /\ now.making = making
    BY <2>1 DEF Counters
  <2>3. Supply([now EXCEPT !.busy[0] = x, !.making[0] = y, !.buffer[0] = z], waiting)
    BY <1>5, <2>1, <2>2 DEF PrepDone
  <2>4. PICK d, e : d = [now EXCEPT !.busy[0] = x] /\ e = [d EXCEPT !.making[0] = y]
    OBVIOUS
  <2>5. /\ u = [busy EXCEPT ![0] = x] /\ m = [making EXCEPT ![0] = y]
        /\ b = [buffer EXCEPT ![0] = z]
    BY <1>5, <2>1
  <2>6. d = [buffer |-> buffer, busy |-> u, inFlight |-> inFlight, making |-> making]
    <3>1. d = [now EXCEPT !.busy[0] = x]
      BY <2>4
    <3> QED BY <2>2, <2>5, <3>1
  <2>7. e = [buffer |-> buffer, busy |-> u, inFlight |-> inFlight, making |-> m]
    <3>1. e = [d EXCEPT !.making[0] = y] /\ m = [making EXCEPT ![0] = y]
      BY <2>4, <2>5
    <3> QED BY <2>6, <3>1
  <2>8. [now EXCEPT !.busy[0] = x, !.making[0] = y, !.buffer[0] = z] = [e EXCEPT !.buffer[0] = z]
    BY <2>4
  <2>9. [e EXCEPT !.buffer[0] = z]
          = [buffer |-> b, busy |-> u, inFlight |-> inFlight, making |-> m]
    <3>1. b = [buffer EXCEPT ![0] = z]
      BY <2>5
    <3> QED BY <2>7, <3>1
  <2> QED BY <2>3, <2>8, <2>9
<1>7. states \in Nat /\ m \in [Levels -> Nat] /\ busy[0] > 0
  BY <1>1, <1>2, <1>3, <1>4, <1>5
<1>8. ASSUME NEW l \in Levels
      PROVE  busy[l] - (IF l = 0 THEN 1 ELSE 0) = m[l] + Total(correcting'[l], fac.corr)
  <2>1. Total(correcting'[l], fac.corr) = Correcting(l)
    BY <1>1 DEF Correcting
  <2>2. busy[l] = making[l] + Correcting(l) /\ Correcting(l) \in Nat /\ making[l] \in Nat
    BY <1>2, <1>4
  <2>3. m[l] = making[l] - IF l = 0 THEN 1 ELSE 0
    <3>1. m = [making EXCEPT ![0] = making[0] - 1]
      BY <1>5
    <3>2. CASE l = 0
      BY <1>2, <3>1, <3>2
    <3>3. CASE l # 0
      BY <1>2, <2>2, <3>1, <3>3
    <3> QED BY <3>2, <3>3
  <2> QED BY <2>1, <2>2, <2>3
<1>9. produced' = produced + (IF 0 = Top THEN states ELSE 0)
      /\ correcting' \in [Levels -> [Decodes -> Nat]]
  BY <1>1, <1>2, <1>3
<1>10. PICK c : /\ c = [buffer |-> b, busy |-> u, inFlight |-> inFlight, making |-> m]
                /\ Supply(c, waiting)
  BY <1>6
<1>11. UNCHANGED <<fac, asked, withdrawn, off, returning>>
  BY <1>1
<1> QED BY <1>1, <1>3, <1>5, <1>7, <1>8, <1>9, <1>10, <1>11, UnitGivenBack

\* Several levels: the end of a round, whose decodes are all back.
LEMMA FinishRoundKeeps ==
  ASSUME SupplyInv, fac.multi, NEW level \in 1 .. Top, NEW ok \in BOOLEAN,
         ok \/ failures < MaxFailures,
         UNCHANGED <<fac, asked, withdrawn, off, returning>>,
         NEW m \in [Levels -> Nat], NEW c,
         c = [buffer |-> buffer, busy |-> busy, inFlight |-> inFlight, making |-> m],
         correcting' \in [Levels -> [Decodes -> Nat]], busy[level] > 0,
         \A l \in Levels : busy[l] - (IF l = level THEN 1 ELSE 0)
                             = m[l] + Total(correcting'[l], fac.corr),
         FinishRound(c, level, ok)
  PROVE  SupplyInv'
<1>1. fac \in Factories /\ produced \in Nat
  BY CountersNow
<1>2. level \in Levels /\ fac.N \in Nat
  BY <1>1, FactoryFacts
<1>3. PICK states, b, u : /\ states = (IF ok THEN fac.N ELSE 0)
                          /\ b = [buffer EXCEPT ![level] = @ + states]
                          /\ u = [busy EXCEPT ![level] = @ - 1]
  OBVIOUS
<1>4. Fails(ok) /\ produced' = produced + IF ok /\ level = Top THEN fac.N ELSE 0
  BY DEF FinishRound
<1>5. Supply([buffer |-> b, busy |-> u, inFlight |-> inFlight, making |-> m], waiting)
  <2>1. PICK x, z : x = busy[level] - 1 /\ z = buffer[level] + states
    OBVIOUS
  <2>2. c.buffer = buffer /\ c.busy = busy
    OBVIOUS
  <2>3. Supply([c EXCEPT !.busy[level] = x, !.buffer[level] = z], waiting)
    BY <1>3, <2>1, <2>2 DEF FinishRound
  <2>4. PICK d : d = [c EXCEPT !.busy[level] = x]
    OBVIOUS
  <2>5. u = [busy EXCEPT ![level] = x] /\ b = [buffer EXCEPT ![level] = z]
    BY <1>3, <2>1
  <2>6. d = [buffer |-> buffer, busy |-> u, inFlight |-> inFlight, making |-> m]
    BY <2>4, <2>5
  <2>7. [c EXCEPT !.busy[level] = x, !.buffer[level] = z] = [d EXCEPT !.buffer[level] = z]
    BY <2>4
  <2>8. [d EXCEPT !.buffer[level] = z]
          = [buffer |-> b, busy |-> u, inFlight |-> inFlight, making |-> m]
    <3>1. b = [buffer EXCEPT ![level] = z]
      BY <2>5
    <3> QED BY <2>6, <3>1
  <2> QED BY <2>3, <2>7, <2>8
<1>6. states \in Nat /\ produced' = produced + (IF level = Top THEN states ELSE 0)
  BY <1>1, <1>2, <1>3, <1>4
<1>7. PICK d : /\ d = [buffer |-> b, busy |-> u, inFlight |-> inFlight, making |-> m]
               /\ Supply(d, waiting)
  BY <1>5
<1>8. b = [buffer EXCEPT ![level] = @ + states] /\ u = [busy EXCEPT ![level] = @ - 1]
  BY <1>3
<1> QED BY <1>2, <1>4, <1>6, <1>7, <1>8, UnitGivenBack

\* Several levels: the physical time of a round is over.
LEMMA PhysDoneKeeps ==
  ASSUME SupplyInv, NEW level \in 1 .. Top, NEW ok \in BOOLEAN, PhysDone(level, ok)
  PROVE  SupplyInv'
<1>1. /\ fac.multi /\ making[level] > 0 /\ (ok \/ failures < MaxFailures)
      /\ UNCHANGED <<fac, asked, withdrawn, off, returning>>
  BY DEF PhysDone
<1>2. /\ fac \in Factories /\ busy \in [Levels -> Nat] /\ making \in [Levels -> Nat]
      /\ correcting \in [Levels -> [Decodes -> Nat]] /\ returning \in Nat
      /\ \A l \in Levels : Correcting(l) \in Nat
  BY CountersNow
<1>3. level \in Levels /\ fac.corr \in Nat /\ Decodes = 1 .. fac.corr
  BY <1>2, FactoryFacts
<1>4. returning = 0 /\ \A l \in Levels : busy[l] = making[l] + Correcting(l)
  BY <1>1 DEF SupplyInv, ExactInv
<1>5. PICK m, c : /\ m = [making EXCEPT ![level] = @ - 1]
                  /\ c = [Counters EXCEPT !.making[level] = @ - 1]
  OBVIOUS
<1>6. c = [buffer |-> buffer, busy |-> busy, inFlight |-> inFlight, making |-> m]
  <2>1. PICK now, y : now = Counters /\ y = making[level] - 1
    OBVIOUS
  <2>2. /\ now = [buffer |-> buffer, busy |-> busy, inFlight |-> inFlight, making |-> making]
        /\ now.making = making
    BY <2>1 DEF Counters
  <2>3. c = [now EXCEPT !.making[level] = y] /\ m = [making EXCEPT ![level] = y]
    BY <1>5, <2>1, <2>2
  <2> QED BY <2>2, <2>3
<1>7. /\ m \in [Levels -> Nat]
      /\ \A l \in Levels : m[l] = making[l] - IF l = level THEN 1 ELSE 0
  BY <1>1, <1>2, <1>3, <1>5
<1>8. CASE fac.corr = 0
  <2>1. FinishRound(c, level, ok) /\ correcting' = correcting
    BY <1>5, <1>8 DEF PhysDone
  <2>2. busy[level] > 0
    BY <1>1, <1>2, <1>3, <1>4
  <2>3. ASSUME NEW l \in Levels
        PROVE  busy[l] - (IF l = level THEN 1 ELSE 0) = m[l] + Total(correcting'[l], fac.corr)
    <3>1. Total(correcting'[l], fac.corr) = Correcting(l)
      BY <2>1 DEF Correcting
    <3>2. /\ busy[l] = making[l] + Correcting(l) /\ Correcting(l) \in Nat
          /\ making[l] \in Nat /\ m[l] = making[l] - IF l = level THEN 1 ELSE 0
      BY <1>2, <1>4, <1>7
    <3> QED BY <3>1, <3>2
  <2>4. correcting' \in [Levels -> [Decodes -> Nat]]
    BY <1>2, <2>1
  <2> QED BY <1>1, <1>6, <1>7, <2>1, <2>2, <2>3, <2>4, FinishRoundKeeps
<1>9. CASE fac.corr # 0
  <2>1. /\ correcting' = [correcting EXCEPT ![level][fac.corr] = @ + 1]
        /\ making' = c.making
        /\ UNCHANGED <<waiting, served, buffer, busy, inFlight, produced, failures>>
    BY <1>5, <1>9 DEF PhysDone
  <2>2. making' = m
    BY <1>6, <2>1
  <2>3. PICK k : k = fac.corr
    OBVIOUS
  <2>4. k \in Decodes /\ correcting' = [correcting EXCEPT ![level][k] = @ + 1]
    BY <1>3, <1>9, <2>1, <2>3
  <2>5. /\ correcting' \in [Levels -> [Decodes -> Nat]]
        /\ \A l \in Levels : Total(correcting'[l], fac.corr)
                               = Correcting(l) + IF l = level THEN 1 ELSE 0
    BY <1>2, <1>3, <2>4, CorrectingMoves
  <2>6. ASSUME NEW l \in Levels
        PROVE  busy[l] = making'[l] + Total(correcting'[l], fac.corr)
    <3>1. /\ busy[l] = making[l] + Correcting(l) /\ Correcting(l) \in Nat
          /\ making[l] \in Nat /\ making'[l] = making[l] - IF l = level THEN 1 ELSE 0
      BY <1>2, <1>4, <1>7, <2>2
    <3>2. Total(correcting'[l], fac.corr) = Correcting(l) + IF l = level THEN 1 ELSE 0
      BY <2>5
    <3> QED BY <3>1, <3>2
  <2>7. returning' = 0 /\ returning' \in Nat /\ making' \in [Levels -> Nat]
    BY <1>1, <1>4, <1>7, <2>2
  <2> QED BY <1>1, <2>1, <2>5, <2>6, <2>7, QuietStep
<1> QED BY <1>8, <1>9

\* Several levels: one correction decode is back; the last one ends the round.
LEMMA CorrDoneKeeps ==
  ASSUME SupplyInv, NEW level \in 1 .. Top, NEW n \in Decodes, NEW ok \in BOOLEAN,
         CorrDone(level, n, ok)
  PROVE  SupplyInv'
<1>1. /\ fac.multi /\ correcting[level][n] > 0 /\ (ok \/ failures < MaxFailures)
      /\ UNCHANGED <<fac, asked, withdrawn, off, returning>>
  BY DEF CorrDone
<1>2. /\ fac \in Factories /\ busy \in [Levels -> Nat] /\ making \in [Levels -> Nat]
      /\ correcting \in [Levels -> [Decodes -> Nat]] /\ returning \in Nat
      /\ \A l \in Levels : Correcting(l) \in Nat
  BY CountersNow
<1>3. level \in Levels
  BY <1>2, FactoryFacts
<1>4. returning = 0 /\ \A l \in Levels : busy[l] = making[l] + Correcting(l)
  BY <1>1 DEF SupplyInv, ExactInv
<1>5. CASE n = 1
  <2>1. /\ correcting' = [correcting EXCEPT ![level][n] = @ - 1]
        /\ FinishRound(Counters, level, ok)
    BY <1>5 DEF CorrDone
  <2>2. /\ correcting' \in [Levels -> [Decodes -> Nat]] /\ Correcting(level) > 0
        /\ \A l \in Levels : Total(correcting'[l], fac.corr)
                               = Correcting(l) - IF l = level THEN 1 ELSE 0
    BY <1>1, <1>2, <1>3, <2>1, CorrectingMoves
  <2>3. busy[level] > 0
    BY <1>2, <1>3, <1>4, <2>2
  <2>4. ASSUME NEW l \in Levels
        PROVE  busy[l] - (IF l = level THEN 1 ELSE 0)
                 = making[l] + Total(correcting'[l], fac.corr)
    <3>1. /\ busy[l] = making[l] + Correcting(l) /\ Correcting(l) \in Nat
          /\ making[l] \in Nat
      BY <1>2, <1>4
    <3>2. Total(correcting'[l], fac.corr) = Correcting(l) - IF l = level THEN 1 ELSE 0
      BY <2>2
    <3> QED BY <3>1, <3>2
  <2>5. PICK c : c = Counters
    OBVIOUS
  <2>6. c = [buffer |-> buffer, busy |-> busy, inFlight |-> inFlight, making |-> making]
        /\ FinishRound(c, level, ok)
    BY <2>1, <2>5 DEF Counters
  <2> QED BY <1>1, <1>2, <2>2, <2>3, <2>4, <2>6, FinishRoundKeeps
<1>6. CASE n # 1
  <2>1. /\ correcting' = [correcting EXCEPT ![level][n] = @ - 1, ![level][n - 1] = @ + 1]
        /\ UNCHANGED <<waiting, served, buffer, busy, inFlight, making, produced, failures>>
    BY <1>6 DEF CorrDone
  <2>2. /\ correcting' \in [Levels -> [Decodes -> Nat]]
        /\ \A l \in Levels : Total(correcting'[l], fac.corr) = Correcting(l)
    BY <1>1, <1>2, <1>3, <1>6, <2>1, CorrectingMoves
  <2>3. \A l \in Levels : busy[l] = making'[l] + Total(correcting'[l], fac.corr)
    BY <1>4, <2>1, <2>2
  <2>4. returning' = 0 /\ returning' \in Nat /\ making' \in [Levels -> Nat]
    BY <1>1, <1>2, <1>4, <2>1
  <2> QED BY <1>1, <2>1, <2>2, <2>3, <2>4, QuietStep
<1> QED BY <1>5, <1>6

\* The invariant holds in every state of every factory.
LEMMA SupplyInvariance == Spec => []SupplyInv
<1>1. Init => SupplyInv
  BY InitialSupply
<1>2. SupplyInv /\ [Next]_vars => SupplyInv'
  <2> SUFFICES ASSUME SupplyInv, [Next]_vars PROVE SupplyInv'
    OBVIOUS
  <2>1. CASE Release
    BY <2>1, ReleaseKeeps
  <2>2. ASSUME NEW n \in Decodes, StateCorrected(n) PROVE SupplyInv'
    BY <2>2, StateCorrectedKeeps
  <2>3. ASSUME NEW ok \in BOOLEAN, AttemptDone(ok) PROVE SupplyInv'
    BY <2>3, AttemptDoneKeeps
  <2>4. ASSUME NEW ok \in BOOLEAN, PrepDone(ok) PROVE SupplyInv'
    BY <2>4, PrepDoneKeeps
  <2>5. ASSUME NEW ok \in BOOLEAN, NEW level \in 1 .. Top, PhysDone(level, ok)
        PROVE  SupplyInv'
    BY <2>5, PhysDoneKeeps
  <2>6. ASSUME NEW ok \in BOOLEAN, NEW level \in 1 .. Top, NEW n \in Decodes,
               CorrDone(level, n, ok)
        PROVE  SupplyInv'
    BY <2>6, CorrDoneKeeps
  <2>7. CASE Shutdown
    BY <2>7, ShutdownKeeps
  <2>8. ASSUME NEW o \in Ops, Request(o) PROVE SupplyInv'
    BY <2>8, RequestKeeps
  <2>9. ASSUME NEW o \in Ops, Cancel(o) PROVE SupplyInv'
    BY <2>9, CancelKeeps
  <2>10. CASE UNCHANGED vars
    BY <2>10, StutterKeeps
  <2> QED BY <2>1, <2>2, <2>3, <2>4, <2>5, <2>6, <2>7, <2>8, <2>9, <2>10 DEF Next, Work
<1> QED BY <1>1, <1>2, PTL DEF Spec

-----------------------------------------------------------------------------
(* The theorems *)

\* For every factory, however its attempts, decodes and trips end and
\* whatever is cancelled: the counters demand is computed from agree with the
\* work that runs, no state is made and lost, none is counted twice, and every
\* operation that asked has its state, withdrew, or waits.
THEOREM CountersStaySound == Spec => []CountersSound
<1>1. SupplyInv => CountersSound
  BY InvariantGives
<1> QED BY <1>1, SupplyInvariance, PTL

\* For every factory that was not shut down: a request waits only while the
\* store is empty and work runs, in the single-level factory as many attempts
\* as requests and units allow, and one more pass of the pull engine would
\* start nothing at any level.
THEOREM DemandStaysMet == Spec => []DemandHasWork
<1>1. SupplyInv => DemandHasWork
  BY InvariantGives
<1> QED BY <1>1, SupplyInvariance, PTL

=============================================================================
