---------------------------- MODULE SequenceFacts ----------------------------
(***************************************************************************)
(* Facts about the sequence operators the modules build their queues from, *)
(* stated once for the proofs: what Append, a prefix and a suffix, and     *)
(* RemoveFirst do to the elements of a queue and to its being free of      *)
(* repetitions; and what the recursive function Those returns, by an       *)
(* induction over sequences that is stated for sets.                       *)
(***************************************************************************)
EXTENDS Subsequences, FiniteSets, SequencesExt, SequenceTheorems,
        FiniteSetTheorems, WellFoundedInduction, TLAPS

\* The elements of a sequence are those at its positions.
LEMMA ToSetOfSeq ==
  ASSUME NEW S, NEW s \in Seq(S)
  PROVE  /\ ToSet(s) = {s[i] : i \in 1 .. Len(s)}
         /\ ToSet(s) \subseteq S
BY LenProperties, ElementOfSeq DEF ToSet

\* Appending adds one element, and keeps a sequence free of repetitions when
\* the element is new.
LEMMA AppendElements ==
  ASSUME NEW S, NEW s \in Seq(S), NEW e \in S
  PROVE  /\ Append(s, e) \in Seq(S)
         /\ ToSet(Append(s, e)) = ToSet(s) \cup {e}
         /\ IsInjective(s) /\ e \notin ToSet(s) => IsInjective(Append(s, e))
<1> DEFINE t == Append(s, e)
<1>1. /\ t \in Seq(S)
      /\ Len(t) = Len(s) + 1
      /\ \A i \in 1 .. Len(s) : t[i] = s[i]
      /\ t[Len(s) + 1] = e
  BY AppendProperties
<1>2. Len(s) \in Nat /\ DOMAIN s = 1 .. Len(s) /\ DOMAIN t = 1 .. Len(s) + 1
  BY <1>1, LenProperties
<1>3. DOMAIN t = DOMAIN s \cup {Len(s) + 1}
  BY <1>2
<1>4. ToSet(t) = ToSet(s) \cup {e}
  BY <1>1, <1>2, <1>3 DEF ToSet
<1>5. ASSUME IsInjective(s), e \notin ToSet(s)
      PROVE  IsInjective(t)
  BY <1>1, <1>2, <1>3, <1>5 DEF IsInjective, ToSet
<1> QED BY <1>1, <1>4, <1>5

\* A sequence is cut in two at n: the parts hold its elements, and none twice
\* when the sequence has no repetitions.
LEMMA CutElements ==
  ASSUME NEW S, NEW s \in Seq(S), NEW n \in 0 .. Len(s)
  PROVE  LET first == SubSeq(s, 1, n)
             rest == SubSeq(s, n + 1, Len(s))
         IN /\ first \in Seq(S) /\ rest \in Seq(S)
            /\ Len(first) = n /\ Len(rest) = Len(s) - n
            /\ ToSet(s) = ToSet(first) \cup ToSet(rest)
            /\ IsInjective(s) =>
                 /\ IsInjective(first) /\ IsInjective(rest)
                 /\ ToSet(first) \cap ToSet(rest) = {}
<1> DEFINE first == SubSeq(s, 1, n)
           rest == SubSeq(s, n + 1, Len(s))
<1>1. Len(s) \in Nat /\ DOMAIN s = 1 .. Len(s) /\ n \in Nat /\ n <= Len(s)
  BY LenProperties
<1>2. \A i \in 1 .. Len(s) : s[i] \in S
  BY ElementOfSeq
<1>3. /\ first \in Seq(S) /\ Len(first) = n
      /\ \A i \in 1 .. n : first[i] = s[i]
  BY <1>1, <1>2, SubSeqProperties
<1>4. /\ rest \in Seq(S) /\ Len(rest) = Len(s) - n
      /\ \A i \in 1 .. Len(s) - n : rest[i] = s[n + i]
  <2>1. \A i \in n + 1 .. Len(s) : s[i] \in S
    BY <1>1, <1>2
  <2>2. /\ rest \in Seq(S)
        /\ Len(rest) = IF n + 1 <= Len(s) THEN Len(s) - (n + 1) + 1 ELSE 0
        /\ \A i \in 1 .. Len(s) - (n + 1) + 1 : rest[i] = s[(n + 1) + i - 1]
    BY <1>1, <2>1, SubSeqProperties
  <2> QED BY <1>1, <2>2
<1>5. DOMAIN first = 1 .. n /\ DOMAIN rest = 1 .. Len(s) - n
  BY <1>3, <1>4, LenProperties
<1> HIDE DEF first, rest
<1>6. ToSet(s) = ToSet(first) \cup ToSet(rest)
  <2>1. ToSet(first) \cup ToSet(rest) \subseteq ToSet(s)
    <3>1. \A i \in 1 .. n : first[i] = s[i] /\ i \in DOMAIN s
      BY <1>1, <1>3
    <3>2. \A i \in 1 .. Len(s) - n : rest[i] = s[n + i] /\ n + i \in DOMAIN s
      BY <1>1, <1>4
    <3> QED BY <1>5, <3>1, <3>2 DEF ToSet
  <2>2. ASSUME NEW i \in 1 .. Len(s)
        PROVE  s[i] \in ToSet(first) \cup ToSet(rest)
    <3>1. CASE i <= n
      BY <1>1, <1>3, <1>5, <3>1 DEF ToSet
    <3>2. CASE i > n
      <4>1. i - n \in 1 .. Len(s) - n /\ rest[i - n] = s[n + (i - n)]
        BY <1>1, <1>4, <3>2
      <4> QED BY <1>1, <1>5, <4>1 DEF ToSet
    <3> QED BY <1>1, <3>1, <3>2
  <2> QED BY <1>1, <2>1, <2>2 DEF ToSet
<1>7. ASSUME IsInjective(s)
      PROVE  /\ IsInjective(first) /\ IsInjective(rest)
             /\ ToSet(first) \cap ToSet(rest) = {}
  <2>1. IsInjective(first)
    BY <1>1, <1>3, <1>5, <1>7 DEF IsInjective
  <2>2. IsInjective(rest)
    <3> SUFFICES ASSUME NEW i \in 1 .. Len(s) - n, NEW j \in 1 .. Len(s) - n,
                        rest[i] = rest[j]
                 PROVE  i = j
      BY <1>5 DEF IsInjective
    <3>1. n + i \in DOMAIN s /\ n + j \in DOMAIN s /\ s[n + i] = s[n + j]
      BY <1>1, <1>4
    <3>2. n + i = n + j
      BY <1>7, <3>1 DEF IsInjective
    <3> QED BY <1>1, <3>2
  <2>3. ASSUME NEW i \in 1 .. n, NEW j \in 1 .. Len(s) - n, first[i] = rest[j]
        PROVE  FALSE
    <3>1. i \in DOMAIN s /\ n + j \in DOMAIN s /\ s[i] = s[n + j]
      BY <1>1, <1>3, <1>4, <2>3
    <3>2. i = n + j
      BY <1>7, <3>1 DEF IsInjective
    <3> QED BY <1>1, <3>2
  <2> QED BY <1>5, <2>1, <2>2, <2>3 DEF ToSet
<1> QED BY <1>3, <1>4, <1>6, <1>7 DEF first, rest

\* The elements of a sequence are finitely many, at most its length.
LEMMA ElementsFinite ==
  ASSUME NEW S, NEW s \in Seq(S)
  PROVE  /\ IsFiniteSet(ToSet(s))
         /\ Cardinality(ToSet(s)) \in Nat
         /\ Cardinality(ToSet(s)) <= Len(s)
<1>1. Len(s) \in Nat /\ s \in [1 .. Len(s) -> S] /\ DOMAIN s = 1 .. Len(s)
  BY LenProperties
<1>2. ToSet(s) = {s[i] : i \in 1 .. Len(s)}
  BY <1>1 DEF ToSet
<1>3. s \in Surjection(1 .. Len(s), ToSet(s))
  BY <1>1, <1>2 DEF Surjection
<1>4. IsFiniteSet(1 .. Len(s)) /\ Cardinality(1 .. Len(s)) = Len(s)
  BY <1>1, FS_Interval
<1>5. IsFiniteSet(ToSet(s)) /\ Cardinality(ToSet(s)) <= Cardinality(1 .. Len(s))
  BY <1>3, <1>4, FS_Surjection
<1> QED BY <1>4, <1>5, FS_CardinalityType

\* A sequence free of repetitions has as many elements as it is long.
LEMMA ElementsCounted ==
  ASSUME NEW S, NEW s \in Seq(S), IsInjective(s)
  PROVE  Cardinality(ToSet(s)) = Len(s)
<1>1. Len(s) \in Nat /\ s \in [1 .. Len(s) -> S] /\ DOMAIN s = 1 .. Len(s)
  BY LenProperties
<1>2. ToSet(s) = {s[i] : i \in 1 .. Len(s)}
  BY <1>1 DEF ToSet
<1>3. s \in Surjection(1 .. Len(s), ToSet(s))
  BY <1>1, <1>2 DEF Surjection
<1>4. s \in Injection(1 .. Len(s), ToSet(s))
  BY <1>1, <1>2 DEF Injection
<1>5. IsFiniteSet(1 .. Len(s)) /\ Cardinality(1 .. Len(s)) = Len(s)
  BY <1>1, FS_Interval
<1> QED BY <1>3, <1>4, <1>5, FS_Surjection

\* RemoveAt takes out the element at a position, and the ones behind it move
\* up.
LEMMA RemoveAtPositions ==
  ASSUME NEW S, NEW s \in Seq(S), NEW k \in 1 .. Len(s)
  PROVE  /\ RemoveAt(s, k) \in Seq(S)
         /\ Len(RemoveAt(s, k)) = Len(s) - 1
         /\ \A i \in 1 .. Len(s) - 1 :
              RemoveAt(s, k)[i] = s[IF i < k THEN i ELSE i + 1]
<1> DEFINE before == SubSeq(s, 1, k - 1)
           after == SubSeq(s, k + 1, Len(s))
           t == RemoveAt(s, k)
<1>1. Len(s) \in Nat /\ DOMAIN s = 1 .. Len(s) /\ k \in Nat /\ k >= 1
      /\ k <= Len(s)
  BY LenProperties
<1>2. \A i \in 1 .. Len(s) : s[i] \in S
  BY ElementOfSeq
<1> HIDE DEF before, after, t
<1>3. /\ before \in Seq(S) /\ Len(before) = k - 1
      /\ \A i \in 1 .. k - 1 : before[i] = s[i]
  <2>1. /\ before \in Seq(S)
        /\ Len(before) = IF 1 <= k - 1 THEN (k - 1) - 1 + 1 ELSE 0
        /\ \A i \in 1 .. (k - 1) - 1 + 1 : before[i] = s[1 + i - 1]
    BY <1>1, <1>2, SubSeqProperties DEF before
  <2> QED BY <1>1, <2>1
<1>4. /\ after \in Seq(S) /\ Len(after) = Len(s) - k
      /\ \A i \in 1 .. Len(s) - k : after[i] = s[k + i]
  <2>1. /\ after \in Seq(S)
        /\ Len(after) = IF k + 1 <= Len(s) THEN Len(s) - (k + 1) + 1 ELSE 0
        /\ \A i \in 1 .. Len(s) - (k + 1) + 1 : after[i] = s[(k + 1) + i - 1]
    BY <1>1, <1>2, SubSeqProperties DEF after
  <2>2. ASSUME NEW i \in 1 .. Len(s) - k PROVE after[i] = s[k + i]
    <3>1. (k + 1) + i - 1 = k + i /\ i \in 1 .. Len(s) - (k + 1) + 1
      BY <1>1
    <3> QED BY <2>1, <3>1
  <2>3. Len(after) = Len(s) - k
    <3>1. Len(after) = IF k + 1 <= Len(s) THEN Len(s) - (k + 1) + 1 ELSE 0
      BY <2>1
    <3>2. \A m, n \in Nat :
            n <= m => (IF n + 1 <= m THEN m - (n + 1) + 1 ELSE 0) = m - n
      OBVIOUS
    <3> QED BY <1>1, <3>1, <3>2
  <2> QED BY <2>1, <2>2, <2>3
<1>5. t = before \o after
  BY DEF RemoveAt, before, after, t
<1>6. /\ t \in Seq(S)
      /\ Len(t) = Len(s) - 1
      /\ \A i \in 1 .. Len(s) - 1 :
           t[i] = IF i <= k - 1 THEN before[i] ELSE after[i - (k - 1)]
  <2>1. /\ before \o after \in Seq(S)
        /\ Len(before \o after) = Len(before) + Len(after)
        /\ \A i \in 1 .. Len(before) + Len(after) : (before \o after)[i] =
             IF i <= Len(before) THEN before[i] ELSE after[i - Len(before)]
    BY <1>3, <1>4, ConcatProperties
  <2>2. Len(before) + Len(after) = Len(s) - 1
    BY <1>1, <1>3, <1>4
  <2> QED BY <1>1, <1>3, <1>5, <2>1, <2>2
<1>7. \A i \in 1 .. Len(s) - 1 : t[i] = s[IF i < k THEN i ELSE i + 1]
  <2> TAKE i \in 1 .. Len(s) - 1
  <2>1. CASE i < k
    BY <1>1, <1>3, <1>6, <2>1
  <2>2. CASE i >= k
    <3>1. t[i] = after[i - (k - 1)] /\ i - (k - 1) \in 1 .. Len(s) - k
      BY SMTT(30), <1>1, <1>6, <2>2
    <3>2. after[i - (k - 1)] = s[k + (i - (k - 1))]
      BY <1>4, <3>1
    <3>3. k + (i - (k - 1)) = i + 1
      BY <1>1
    <3> QED BY <1>1, <2>2, <3>1, <3>2, <3>3
  <2> QED BY <1>1, <2>1, <2>2
<1> QED BY <1>6, <1>7 DEF t

\* In a sequence free of repetitions the element is gone.
LEMMA RemoveAtElements ==
  ASSUME NEW S, NEW s \in Seq(S), NEW k \in 1 .. Len(s), IsInjective(s)
  PROVE  /\ RemoveAt(s, k) \in Seq(S)
         /\ ToSet(RemoveAt(s, k)) = ToSet(s) \ {s[k]}
         /\ IsInjective(RemoveAt(s, k))
<1> DEFINE t == RemoveAt(s, k)
<1>1. Len(s) \in Nat /\ DOMAIN s = 1 .. Len(s) /\ k \in Nat /\ k >= 1
      /\ k <= Len(s)
  BY LenProperties
<1>6. /\ t \in Seq(S)
      /\ Len(t) = Len(s) - 1
      /\ \A i \in 1 .. Len(s) - 1 : t[i] = s[IF i < k THEN i ELSE i + 1]
  BY RemoveAtPositions
<1>7. \A i \in 1 .. Len(s) - 1 : t[i] = s[IF i < k THEN i ELSE i + 1]
  BY <1>6
<1> HIDE DEF t
<1>8. DOMAIN t = 1 .. Len(s) - 1
  BY <1>6, LenProperties
<1>9. ToSet(t) = ToSet(s) \ {s[k]}
  <2>1. ASSUME NEW i \in 1 .. Len(s) - 1
        PROVE  t[i] \in ToSet(s) \ {s[k]}
    <3> DEFINE j == IF i < k THEN i ELSE i + 1
    <3>1. j \in DOMAIN s /\ j # k /\ t[i] = s[j] /\ k \in DOMAIN s
      BY <1>1, <1>7
    <3> HIDE DEF j
    <3>2. s[j] # s[k]
      BY <3>1 DEF IsInjective
    <3> QED BY <3>1, <3>2 DEF ToSet
  <2>2. ASSUME NEW j \in 1 .. Len(s), s[j] # s[k]
        PROVE  s[j] \in ToSet(t)
    <3> DEFINE i == IF j < k THEN j ELSE j - 1
    <3>1. i \in 1 .. Len(s) - 1 /\ (IF i < k THEN i ELSE i + 1) = j
      BY <1>1, <2>2
    <3> HIDE DEF i
    <3>2. t[i] = s[j]
      BY <1>7, <3>1
    <3> QED BY <1>8, <3>1, <3>2 DEF ToSet
  <2>3. \A e \in ToSet(t) : e \in ToSet(s) \ {s[k]}
    BY <1>8, <2>1 DEF ToSet
  <2>4. \A e \in ToSet(s) \ {s[k]} : e \in ToSet(t)
    BY <1>1, <2>2 DEF ToSet
  <2> QED BY <2>3, <2>4
<1>10. IsInjective(t)
  <2> SUFFICES ASSUME NEW i \in 1 .. Len(s) - 1, NEW j \in 1 .. Len(s) - 1,
                      t[i] = t[j]
               PROVE  i = j
    BY <1>8 DEF IsInjective
  <2> DEFINE p(x) == IF x < k THEN x ELSE x + 1
  <2>1. p(i) \in DOMAIN s /\ p(j) \in DOMAIN s /\ s[p(i)] = s[p(j)]
    BY <1>1, <1>7
  <2>2. p(i) = p(j)
    BY <2>1 DEF IsInjective
  <2> QED BY <1>1, <2>2
<1> QED BY <1>6, <1>9, <1>10 DEF t

\* The positions of an element, in a sequence free of repetitions.
LEMMA PositionOf ==
  ASSUME NEW S, NEW s \in Seq(S), IsInjective(s),
         NEW k \in 1 .. Len(s), NEW e, s[k] = e
  PROVE  Min({i \in 1 .. Len(s) : s[i] = e}) = k
<1>1. Len(s) \in Nat /\ DOMAIN s = 1 .. Len(s)
  BY LenProperties
<1>2. {i \in 1 .. Len(s) : s[i] = e} = {k}
  BY <1>1 DEF IsInjective
<1>3. Min({k}) = k
  BY DEF Min
<1> QED BY <1>2, <1>3

\* RemoveFirst takes an element out of a sequence free of repetitions.
LEMMA RemoveFirstElements ==
  ASSUME NEW S, NEW s \in Seq(S), IsInjective(s), NEW e
  PROVE  /\ RemoveFirst(s, e) \in Seq(S)
         /\ ToSet(RemoveFirst(s, e)) = ToSet(s) \ {e}
         /\ IsInjective(RemoveFirst(s, e))
<1>1. Len(s) \in Nat /\ DOMAIN s = 1 .. Len(s)
  BY LenProperties
<1>2. CASE ~ \E i \in 1 .. Len(s) : s[i] = e
  <2>1. RemoveFirst(s, e) = s
    BY <1>2 DEF RemoveFirst
  <2> QED BY <1>1, <1>2, <2>1 DEF ToSet
<1>3. ASSUME NEW k \in 1 .. Len(s), s[k] = e
      PROVE  /\ RemoveFirst(s, e) \in Seq(S)
             /\ ToSet(RemoveFirst(s, e)) = ToSet(s) \ {e}
             /\ IsInjective(RemoveFirst(s, e))
  <2>1. RemoveFirst(s, e) = RemoveAt(s, Min({i \in 1 .. Len(s) : s[i] = e}))
    BY <1>3 DEF RemoveFirst, SelectInSeq
  <2>2. Min({i \in 1 .. Len(s) : s[i] = e}) = k
    BY <1>3, PositionOf
  <2>3. RemoveFirst(s, e) = RemoveAt(s, k)
    BY <2>1, <2>2
  <2> QED BY <1>3, <2>3, RemoveAtElements
<1> QED BY <1>2, <1>3

\* Disjoint finite sets: the number of elements of their union.
LEMMA DisjointUnion ==
  ASSUME NEW S, NEW T, IsFiniteSet(S), IsFiniteSet(T), S \cap T = {}
  PROVE  /\ IsFiniteSet(S \cup T)
         /\ Cardinality(S \cup T) = Cardinality(S) + Cardinality(T)
<1>1. /\ IsFiniteSet(S \cup T)
      /\ Cardinality(S \cup T) =
           Cardinality(S) + Cardinality(T) - Cardinality(S \cap T)
  BY FS_Union
<1>2. Cardinality(S \cap T) = 0
  BY FS_EmptySet
<1>3. Cardinality(S) \in Nat /\ Cardinality(T) \in Nat
  BY FS_CardinalityType
<1> QED BY <1>1, <1>2, <1>3

\* A part of a finite set is finite and no larger.
LEMMA PartOfFinite ==
  ASSUME NEW S, NEW T, IsFiniteSet(T), S \subseteq T
  PROVE  /\ IsFiniteSet(S)
         /\ Cardinality(S) \in Nat /\ Cardinality(T) \in Nat
         /\ Cardinality(S) <= Cardinality(T)
<1>1. IsFiniteSet(S) /\ Cardinality(S) <= Cardinality(T)
  BY FS_Subset, Zenon
<1> QED BY <1>1, FS_CardinalityType

\* The elements of two sequences behind each other.
LEMMA ConcatElements ==
  ASSUME NEW S, NEW s \in Seq(S), NEW t \in Seq(S)
  PROVE  /\ s \o t \in Seq(S)
         /\ ToSet(s \o t) = ToSet(s) \cup ToSet(t)
<1> DEFINE u == s \o t
<1>1. /\ u \in Seq(S) /\ Len(u) = Len(s) + Len(t)
      /\ \A i \in 1 .. Len(s) + Len(t) :
           u[i] = IF i <= Len(s) THEN s[i] ELSE t[i - Len(s)]
  BY ConcatProperties
<1>2. /\ Len(s) \in Nat /\ Len(t) \in Nat
      /\ DOMAIN s = 1 .. Len(s) /\ DOMAIN t = 1 .. Len(t)
      /\ DOMAIN u = 1 .. Len(s) + Len(t)
  BY <1>1, LenProperties
<1> HIDE DEF u
<1>3. \A i \in DOMAIN s : i \in DOMAIN u /\ u[i] = s[i]
  BY <1>1, <1>2
<1>4. \A i \in DOMAIN t : Len(s) + i \in DOMAIN u /\ u[Len(s) + i] = t[i]
  <2> TAKE i \in DOMAIN t
  <2>1. i \in Nat /\ i > 0 /\ Len(s) + i \in 1 .. Len(s) + Len(t)
        /\ (Len(s) + i) - Len(s) = i /\ ~(Len(s) + i <= Len(s))
    BY <1>2
  <2> QED BY <1>1, <1>2, <2>1
<1>5. \A i \in DOMAIN u : u[i] \in ToSet(s) \cup ToSet(t)
  <2> TAKE i \in DOMAIN u
  <2>1. CASE i <= Len(s)
    BY <1>1, <1>2, <2>1 DEF ToSet
  <2>2. CASE ~(i <= Len(s))
    <3>1. i - Len(s) \in DOMAIN t /\ u[i] = t[i - Len(s)]
      BY <1>1, <1>2, <2>2
    <3> QED BY <3>1 DEF ToSet
  <2> QED BY <2>1, <2>2
<1>6. ToSet(u) = ToSet(s) \cup ToSet(t)
  BY <1>3, <1>4, <1>5 DEF ToSet
<1> QED BY <1>1, <1>6 DEF u

\* A sequence that is not empty is its head and its tail.
LEMMA HeadAndTail ==
  ASSUME NEW S, NEW s \in Seq(S), s # <<>>
  PROVE  /\ Head(s) \in S /\ Head(s) = s[1] /\ Tail(s) \in Seq(S)
         /\ s = <<Head(s)>> \o Tail(s)
         /\ ToSet(s) = {Head(s)} \cup ToSet(Tail(s))
         /\ IsInjective(s) => Head(s) \notin ToSet(Tail(s))
<1>1. /\ Head(s) \in S /\ Tail(s) \in Seq(S) /\ Len(Tail(s)) = Len(s) - 1
      /\ \A i \in 1 .. Len(Tail(s)) : Tail(s)[i] = s[i + 1]
  BY HeadTailProperties
<1>2. Len(s) \in Nat /\ Len(s) >= 1 /\ DOMAIN s = 1 .. Len(s)
  BY EmptySeq, LenProperties
<1>3. Head(s) = s[1]
  BY <1>2
<1>4. DOMAIN Tail(s) = 1 .. Len(s) - 1
  BY <1>1, LenProperties
<1> DEFINE h == Head(s)  t == Tail(s)  u == <<h>> \o t
<1>5. <<h>> \in Seq(S) /\ Len(<<h>>) = 1 /\ <<h>>[1] = h
  BY <1>1
<1>6. u \in Seq(S) /\ Len(u) = 1 + Len(t)
      /\ \A i \in 1 .. 1 + Len(t) : u[i] = IF i <= 1 THEN <<h>>[i] ELSE t[i - 1]
  BY <1>1, <1>5, ConcatProperties
<1> HIDE DEF h, t, u
<1>7. \A i \in 1 .. Len(s) : s[i] = u[i]
  <2> TAKE i \in 1 .. Len(s)
  <2>1. CASE i = 1
    BY <1>1, <1>2, <1>3, <1>5, <1>6, <2>1 DEF h, t
  <2>2. CASE i # 1
    <3>1. i - 1 \in 1 .. Len(t) /\ (i - 1) + 1 = i /\ ~(i <= 1)
          /\ i \in 1 .. 1 + Len(t)
      BY <1>1, <1>2, <2>2 DEF t
    <3> QED BY <1>1, <1>6, <3>1 DEF t
  <2> QED BY <2>1, <2>2
<1>8. s = u
  BY <1>1, <1>2, <1>6, <1>7, SeqEqual DEF t
<1>9. ToSet(s) = {h} \cup ToSet(t)
  <2>1. \A i \in DOMAIN t : i + 1 \in DOMAIN s /\ t[i] = s[i + 1]
    BY <1>1, <1>2, <1>4 DEF t
  <2>2. \A i \in DOMAIN s : i # 1 => i - 1 \in DOMAIN t /\ t[i - 1] = s[i]
    <3> TAKE i \in DOMAIN s
    <3>1. i # 1 => i - 1 \in 1 .. Len(s) - 1 /\ (i - 1) + 1 = i
      BY <1>2
    <3> QED BY <1>1, <1>4, <3>1 DEF t
  <2>3. 1 \in DOMAIN s /\ s[1] = h
    BY <1>2, <1>3 DEF h
  <2> QED BY <2>1, <2>2, <2>3 DEF ToSet
<1>10. ASSUME IsInjective(s) PROVE h \notin ToSet(t)
  <2>1. \A i \in DOMAIN t : i + 1 \in DOMAIN s /\ t[i] = s[i + 1] /\ i + 1 # 1
    BY <1>1, <1>2, <1>4 DEF t
  <2>2. 1 \in DOMAIN s /\ s[1] = h
    BY <1>2, <1>3 DEF h
  <2> QED BY <1>10, <2>1, <2>2 DEF ToSet, IsInjective
<1> QED BY <1>1, <1>3, <1>8, <1>9, <1>10 DEF h, t, u

-----------------------------------------------------------------------------
(* Induction *)

\* Induction over the natural numbers, for a set: one that holds 0 and with
\* every number its successor holds them all.
LEMMA NatSetInduction ==
  ASSUME NEW S, 0 \in S, \A n \in Nat : n \in S => n + 1 \in S
  PROVE  Nat \subseteq S
<1> DEFINE T == Nat \ S
<1> SUFFICES ASSUME T # {} PROVE FALSE
  OBVIOUS
<1>1. IsWellFoundedOn(OpToRel(<, Nat), Nat)
  BY NatLessThanWellFounded, Zenon
<1>2. PICK m \in T : \A y \in T : ~(<<y, m>> \in OpToRel(<, Nat))
  BY <1>1, WFMin, T \subseteq Nat, Zenon
<1>3. \A y \in T : ~(y < m)
  BY <1>2, Zenon DEF OpToRel
<1>4. m - 1 \in Nat /\ m - 1 < m
  OBVIOUS
<1>5. m - 1 \in S
  BY <1>3, <1>4
<1> QED BY <1>4, <1>5

\* A non-empty set of natural numbers has a least element.
LEMMA LeastOfNat ==
  ASSUME NEW T, T \subseteq Nat, T # {}
  PROVE  \E m \in T : \A y \in T : m <= y
<1>1. IsWellFoundedOn(OpToRel(<, Nat), Nat)
  BY NatLessThanWellFounded, Zenon
<1>2. PICK m \in T : \A y \in T : ~(<<y, m>> \in OpToRel(<, Nat))
  BY <1>1, WFMin, Zenon
<1>3. \A y \in T : ~(y < m)
  BY <1>2, Zenon DEF OpToRel
<1> QED BY <1>3

\* Induction over the sequences of a set.
LEMMA SeqInduction ==
  ASSUME NEW A, NEW P, <<>> \in P,
         \A s \in Seq(A), e \in A : s \in P => Append(s, e) \in P
  PROVE  Seq(A) \subseteq P
<1> DEFINE S == {n \in Nat : \A s \in Seq(A) : Len(s) = n => s \in P}
<1>1. 0 \in S
  <2>1. \A s \in Seq(A) : Len(s) = 0 => s = <<>>
    BY EmptySeq
  <2> QED BY <2>1
<1>2. ASSUME NEW n \in Nat, n \in S, NEW s \in Seq(A), Len(s) = n + 1
      PROVE  s \in P
  <2>1. s # <<>>
    BY <1>2
  <2>2. PICK t \in Seq(A), e \in A : s = Append(t, e)
    BY <2>1, SequenceEmptyOrAppend
  <2>3. Len(t) = n
    BY <1>2, <2>2, AppendProperties, LenProperties
  <2> QED BY <1>2, <2>2, <2>3
<1>3. Nat \subseteq S
  <2> HIDE DEF S
  <2> SUFFICES ASSUME NEW n \in Nat, n \in S PROVE n + 1 \in S
    BY <1>1, NatSetInduction
  <2> QED BY <1>2 DEF S
<1> QED BY <1>3, LenProperties

-----------------------------------------------------------------------------
(* The part of a sequence that lies in a set (module Subsequences) *)

\* g computes the part of s in S up to position n.
PartUpTo(g, s, S, n) ==
  g = [i \in 0 .. n |-> IF i = 0 THEN <<>>
                        ELSE IF s[i] \in S THEN Append(g[i - 1], s[i])
                        ELSE g[i - 1]]

\* The recursion of Those has a solution.
LEMMA KeepsExists ==
  ASSUME NEW s, NEW S, NEW n \in Nat
  PROVE  \E g : PartUpTo(g, s, S, n)
<1> DEFINE T == {m \in Nat : \E g : PartUpTo(g, s, S, m)}
<1>1. 0 \in T
  <2>1. PartUpTo([i \in 0 .. 0 |-> <<>>], s, S, 0)
    BY DEF PartUpTo
  <2> QED BY <2>1
<1>2. ASSUME NEW m \in Nat, NEW g, PartUpTo(g, s, S, m)
      PROVE  \E h : PartUpTo(h, s, S, m + 1)
  <2> DEFINE last == IF s[m + 1] \in S THEN Append(g[m], s[m + 1]) ELSE g[m]
             h == [i \in 0 .. m + 1 |-> IF i = m + 1 THEN last ELSE g[i]]
  <2>1. \A i \in 0 .. m + 1 :
          h[i] = IF i = 0 THEN <<>>
                 ELSE IF s[i] \in S THEN Append(h[i - 1], s[i])
                 ELSE h[i - 1]
    <3> TAKE i \in 0 .. m + 1
    <3>1. CASE i = m + 1
      <4>1. h[i] = last /\ h[i - 1] = g[m] /\ i # 0
        BY <3>1
      <4> QED BY <3>1, <4>1
    <3>2. CASE i # m + 1
      <4>1. i \in 0 .. m /\ h[i] = g[i] /\ (i # 0 => h[i - 1] = g[i - 1])
        BY <3>2
      <4> QED BY <1>2, <4>1 DEF PartUpTo
    <3> QED BY <3>1, <3>2
  <2>2. h = [i \in 0 .. m + 1 |-> h[i]]
    OBVIOUS
  <2> HIDE DEF h
  <2>3. PartUpTo(h, s, S, m + 1)
    BY <2>1, <2>2 DEF PartUpTo
  <2> QED BY <2>3
<1>3. Nat \subseteq T
  <2> SUFFICES ASSUME NEW m \in Nat, m \in T PROVE m + 1 \in T
    BY <1>1, NatSetInduction
  <2> QED BY <1>2
<1> QED BY <1>3

\* One step of a solution.
LEMMA KeepsStep ==
  ASSUME NEW s, NEW S, NEW n \in Nat, NEW g, PartUpTo(g, s, S, n)
  PROVE  /\ g[0] = <<>>
         /\ \A k \in Nat : k + 1 <= n =>
              g[k + 1] = IF s[k + 1] \in S THEN Append(g[k], s[k + 1])
                                           ELSE g[k]
<1>1. \A i \in 0 .. n :
        g[i] = IF i = 0 THEN <<>>
               ELSE IF s[i] \in S THEN Append(g[i - 1], s[i])
               ELSE g[i - 1]
  BY DEF PartUpTo
<1>2. \A k \in Nat : k + 1 <= n =>
        k + 1 \in 0 .. n /\ k + 1 # 0 /\ (k + 1) - 1 = k
  OBVIOUS
<1> QED BY <1>1, <1>2

\* s and t agree up to position m.
AgreeUpTo(s, t, m) == \A i \in 1 .. m : s[i] = t[i]

\* Two solutions agree as far as their sequences do.
LEMMA KeepsUnique ==
  ASSUME NEW s, NEW t, NEW S, NEW g, NEW h, NEW m \in Nat, NEW n \in Nat,
         m <= n, AgreeUpTo(s, t, m),
         PartUpTo(g, s, S, m), PartUpTo(h, t, S, n)
  PROVE  g[m] = h[m]
<1> DEFINE T == {k \in Nat : k <= m => g[k] = h[k]}
<1>1. 0 \in T
  BY DEF PartUpTo
<1>2. ASSUME NEW k \in Nat, k \in T, k + 1 <= m
      PROVE  g[k + 1] = h[k + 1]
  <2>1. k + 1 <= n /\ s[k + 1] = t[k + 1] /\ g[k] = h[k]
    BY <1>2 DEF AgreeUpTo
  <2>2. g[k + 1] = IF s[k + 1] \in S THEN Append(g[k], s[k + 1]) ELSE g[k]
    <3>1. \A j \in Nat : j + 1 <= m =>
            g[j + 1] = IF s[j + 1] \in S THEN Append(g[j], s[j + 1]) ELSE g[j]
      BY KeepsStep
    <3> QED BY <1>2, <3>1
  <2>3. h[k + 1] = IF t[k + 1] \in S THEN Append(h[k], t[k + 1]) ELSE h[k]
    BY <2>1, KeepsStep
  <2> QED BY <2>1, <2>2, <2>3
<1>3. Nat \subseteq T
  <2> SUFFICES ASSUME NEW k \in Nat, k \in T PROVE k + 1 \in T
    BY <1>1, NatSetInduction
  <2> QED BY <1>2
<1> QED BY <1>3

\* What Those returns is what a solution ends in.
LEMMA ThoseKeeps ==
  ASSUME NEW s, NEW S, Len(s) \in Nat
  PROVE  \E g : PartUpTo(g, s, S, Len(s)) /\ Those(s, S) = g[Len(s)]
<1> DEFINE kept == CHOOSE g : PartUpTo(g, s, S, Len(s))
<1>1. PartUpTo(kept, s, S, Len(s))
  BY KeepsExists
<1>2. Those(s, S) = kept[Len(s)]
  BY DEF Those, PartUpTo
<1> QED BY <1>1, <1>2

\* The empty sequence has no part.
LEMMA ThoseEmpty == ASSUME NEW S PROVE Those(<<>>, S) = <<>>
<1>1. Len(<<>>) = 0
  OBVIOUS
<1>2. PICK g : PartUpTo(g, <<>>, S, 0) /\ Those(<<>>, S) = g[0]
  BY <1>1, ThoseKeeps
<1>3. g[0] = <<>>
  <2>1. 0 \in 0 .. 0
    OBVIOUS
  <2> QED BY <1>2, <2>1 DEF PartUpTo
<1> QED BY <1>2, <1>3

\* Appending to the second of two sequences appends to both.
LEMMA AppendOfConcat ==
  ASSUME NEW A, NEW s \in Seq(A), NEW t \in Seq(A), NEW e \in A
  PROVE  s \o Append(t, e) = Append(s \o t, e)
<1>1. Append(t, e) = t \o <<e>> /\ <<e>> \in Seq(A)
  BY AppendIsConcat
<1>2. s \o t \in Seq(A) /\ Append(s \o t, e) = (s \o t) \o <<e>>
  BY AppendIsConcat, ConcatProperties
<1> QED BY <1>1, <1>2, ConcatAssociative

\* The part of a sequence with an element more.
LEMMA ThoseAppend ==
  ASSUME NEW A, NEW s \in Seq(A), NEW e \in A, NEW S
  PROVE  Those(Append(s, e), S) =
           IF e \in S THEN Append(Those(s, S), e) ELSE Those(s, S)
<1> DEFINE t == Append(s, e)  n == Len(s)
<1>1. /\ n \in Nat /\ Len(t) = n + 1 /\ t[n + 1] = e
      /\ \A i \in 1 .. n : s[i] = t[i]
  BY AppendProperties, LenProperties
<1> HIDE DEF t, n
<1>2. PICK g : PartUpTo(g, s, S, n) /\ Those(s, S) = g[n]
  BY <1>1, ThoseKeeps DEF n
<1>3. PICK h : PartUpTo(h, t, S, n + 1) /\ Those(t, S) = h[n + 1]
  BY <1>1, ThoseKeeps
<1>4. g[n] = h[n]
  <2> DEFINE k == n + 1
  <2>1. n \in Nat /\ k \in Nat /\ n <= k
    BY <1>1
  <2>2. PartUpTo(h, t, S, k)
    BY <1>3
  <2>3. PartUpTo(g, s, S, n) /\ AgreeUpTo(s, t, n)
    BY <1>1, <1>2 DEF AgreeUpTo
  <2> HIDE DEF k
  <2> QED BY <2>1, <2>2, <2>3, KeepsUnique
<1>5. h[n + 1] = IF t[n + 1] \in S THEN Append(h[n], t[n + 1]) ELSE h[n]
  BY <1>1, <1>3, KeepsStep
<1> QED BY <1>1, <1>2, <1>3, <1>4, <1>5 DEF t

\* The part holds exactly the elements of the sequence that are in the set.
LEMMA ThoseElements ==
  ASSUME NEW A, NEW S, NEW s \in Seq(A)
  PROVE  /\ Those(s, S) \in Seq(A)
         /\ ToSet(Those(s, S)) = ToSet(s) \cap S
<1> DEFINE P == {q \in Seq(A) : /\ Those(q, S) \in Seq(A)
                                /\ ToSet(Those(q, S)) = ToSet(q) \cap S}
<1>1. <<>> \in P
  <2>1. ToSet(<<>>) = {} /\ <<>> \in Seq(A)
    BY EmptySeq DEF ToSet
  <2> QED BY <2>1, ThoseEmpty
<1>2. ASSUME NEW q \in Seq(A), NEW e \in A, q \in P
      PROVE  Append(q, e) \in P
  <2>1. Append(q, e) \in Seq(A) /\ ToSet(Append(q, e)) = ToSet(q) \cup {e}
    BY AppendElements
  <2>2. Those(q, S) \in Seq(A) /\ ToSet(Those(q, S)) = ToSet(q) \cap S
    BY <1>2
  <2> DEFINE kept == Those(q, S)
  <2> HIDE DEF kept
  <2>3. CASE e \in S
    <3>1. Those(Append(q, e), S) = Append(kept, e)
      BY <2>3, ThoseAppend DEF kept
    <3>2. Append(kept, e) \in Seq(A)
          /\ ToSet(Append(kept, e)) = ToSet(kept) \cup {e}
      BY <2>2, AppendElements DEF kept
    <3> QED BY <2>1, <2>2, <2>3, <3>1, <3>2 DEF kept
  <2>4. CASE e \notin S
    <3>1. Those(Append(q, e), S) = kept
      BY <2>4, ThoseAppend DEF kept
    <3> QED BY <2>1, <2>2, <2>4, <3>1 DEF kept
  <2> QED BY <2>3, <2>4
<1>3. Seq(A) \subseteq P
  <2> HIDE DEF P
  <2> QED BY <1>1, <1>2, SeqInduction
<1> QED BY <1>3

\* It is cut where the sequence is.
LEMMA ThoseConcat ==
  ASSUME NEW A, NEW S, NEW s \in Seq(A), NEW t \in Seq(A)
  PROVE  Those(s \o t, S) = Those(s, S) \o Those(t, S)
<1> DEFINE P == {q \in Seq(A) : Those(s \o q, S) = Those(s, S) \o Those(q, S)}
<1> DEFINE mine == Those(s, S)
<1>0. mine \in Seq(A)
  BY ThoseElements
<1>1. <<>> \in P
  <2>1. s \o <<>> = s /\ mine \o <<>> = mine /\ <<>> \in Seq(A)
    BY <1>0, EmptySeq, ConcatEmptySeq
  <2> QED BY <2>1, ThoseEmpty
<1>2. ASSUME NEW q \in Seq(A), NEW e \in A, q \in P
      PROVE  Append(q, e) \in P
  <2> DEFINE kept == Those(q, S)
  <2>1. kept \in Seq(A) /\ Append(q, e) \in Seq(A) /\ s \o q \in Seq(A)
        /\ Those(s \o q, S) = mine \o kept
    BY <1>2, ThoseElements, AppendProperties, ConcatProperties
  <2> HIDE DEF kept, mine, P
  <2>2. s \o Append(q, e) = Append(s \o q, e)
    BY <2>1, AppendOfConcat
  <2>3. mine \o Append(kept, e) = Append(mine \o kept, e)
    BY <2>1, <1>0, AppendOfConcat
  <2>4. Those(Append(s \o q, e), S) =
          IF e \in S THEN Append(mine \o kept, e) ELSE mine \o kept
    BY ZenonT(60), <2>1, ThoseAppend
  <2>5. Those(Append(q, e), S) = IF e \in S THEN Append(kept, e) ELSE kept
    BY ThoseAppend DEF kept
  <2>6. Those(s \o Append(q, e), S) = mine \o Those(Append(q, e), S)
    BY <2>2, <2>3, <2>4, <2>5
  <2> QED BY <2>1, <2>6 DEF P, mine
<1>3. Seq(A) \subseteq P
  <2> HIDE DEF P
  <2> QED BY <1>1, <1>2, SeqInduction
<1> QED BY <1>3

\* A sequence that lies in the set is its own part; one outside has none.
LEMMA ThoseAll ==
  ASSUME NEW A, NEW S, NEW s \in Seq(A)
  PROVE  /\ ToSet(s) \subseteq S => Those(s, S) = s
         /\ ToSet(s) \cap S = {} => Those(s, S) = <<>>
<1> DEFINE P == {q \in Seq(A) : /\ ToSet(q) \subseteq S => Those(q, S) = q
                                /\ ToSet(q) \cap S = {} => Those(q, S) = <<>>}
<1>1. <<>> \in P
  BY EmptySeq, ThoseEmpty
<1>2. ASSUME NEW q \in Seq(A), NEW e \in A, q \in P
      PROVE  Append(q, e) \in P
  <2>1. Append(q, e) \in Seq(A) /\ ToSet(Append(q, e)) = ToSet(q) \cup {e}
    BY AppendElements
  <2>2. Those(Append(q, e), S) =
          IF e \in S THEN Append(Those(q, S), e) ELSE Those(q, S)
    BY ThoseAppend
  <2> QED BY <1>2, <2>1, <2>2
<1>3. Seq(A) \subseteq P
  <2> HIDE DEF P
  <2> QED BY <1>1, <1>2, SeqInduction
<1> QED BY <1>3

-----------------------------------------------------------------------------
(* Fronts *)

\* A sequence with an element put in front.
LEMMA InFront ==
  ASSUME NEW S, NEW e \in S, NEW s \in Seq(S)
  PROVE  /\ <<e>> \in Seq(S) /\ <<e>> \o s \in Seq(S) /\ <<e>> \o s # <<>>
         /\ Head(<<e>> \o s) = e /\ Tail(<<e>> \o s) = s
         /\ ToSet(<<e>>) = {e}
         /\ ToSet(<<e>> \o s) = {e} \cup ToSet(s)
<1> DEFINE u == <<e>> \o s
<1>1. <<e>> \in Seq(S) /\ Len(<<e>>) = 1 /\ <<e>>[1] = e /\ ToSet(<<e>>) = {e}
  BY DEF ToSet
<1>2. /\ u \in Seq(S) /\ Len(u) = 1 + Len(s)
      /\ \A i \in 1 .. 1 + Len(s) : u[i] = IF i <= 1 THEN <<e>>[i] ELSE s[i - 1]
  BY <1>1, ConcatProperties
<1>3. ToSet(u) = {e} \cup ToSet(s)
  <2> DEFINE one == <<e>>
  <2>1. one \in Seq(S) /\ ToSet(one) = {e} /\ u = one \o s
    BY <1>1
  <2> HIDE DEF one, u
  <2>2. ToSet(one \o s) = ToSet(one) \cup ToSet(s)
    BY <2>1, ConcatElements
  <2> QED BY <2>1, <2>2
<1> HIDE DEF u
<1>4. Len(s) \in Nat /\ Len(u) # 0
  BY <1>2, LenProperties
<1>5. u # <<>>
  BY <1>4
<1>6. Head(u) = e
  <2>1. Head(u) = u[1]
    BY <1>2, <1>5, HeadAndTail
  <2> QED BY <1>1, <1>2, <1>4, <2>1
<1>7. Tail(u) = s
  <2>1. /\ Tail(u) \in Seq(S) /\ Len(Tail(u)) = Len(u) - 1
        /\ \A i \in 1 .. Len(Tail(u)) : Tail(u)[i] = u[i + 1]
    BY <1>2, <1>5, HeadTailProperties
  <2>2. Len(Tail(u)) = Len(s)
    BY <1>2, <1>4, <2>1
  <2>3. ASSUME NEW i \in 1 .. Len(s) PROVE Tail(u)[i] = s[i]
    <3>1. i + 1 \in 1 .. 1 + Len(s) /\ ~(i + 1 <= 1) /\ (i + 1) - 1 = i
      BY <1>4
    <3> QED BY <1>2, <2>1, <2>2, <3>1
  <2> QED BY <2>1, <2>2, <2>3, SeqEqual
<1> QED BY <1>1, <1>2, <1>3, <1>5, <1>6, <1>7 DEF u

\* Two sequences of a set.
Both(S, s, t) == s \in Seq(S) /\ t \in Seq(S)

\* What their concatenation is.
LEMMA Concatenated ==
  ASSUME NEW S, NEW s, NEW t, Both(S, s, t)
  PROVE  /\ s \o t \in Seq(S) /\ Len(s \o t) = Len(s) + Len(t)
         /\ \A i \in 1 .. Len(s) + Len(t) :
              (s \o t)[i] = IF i <= Len(s) THEN s[i] ELSE t[i - Len(s)]
         /\ ToSet(s \o t) = ToSet(s) \cup ToSet(t)
<1>1. s \in Seq(S) /\ t \in Seq(S)
  BY DEF Both
<1>2. /\ s \o t \in Seq(S) /\ Len(s \o t) = Len(s) + Len(t)
      /\ \A i \in 1 .. Len(s) + Len(t) :
           (s \o t)[i] = IF i <= Len(s) THEN s[i] ELSE t[i - Len(s)]
  BY <1>1, ConcatProperties
<1> QED BY <1>1, <1>2, ConcatElements

\* Two sequences of a set, and an element of it.
Around(S, s, e, t) == s \in Seq(S) /\ e \in S /\ t \in Seq(S)

\* An element between two sequences belongs to either.
LEMMA InBetween ==
  ASSUME NEW S, NEW s, NEW e, NEW t, Around(S, s, e, t)
  PROVE  /\ s \o <<e>> \in Seq(S) /\ s \o <<e>> = Append(s, e)
         /\ s \o (<<e>> \o t) = (s \o <<e>>) \o t
<1> USE DEF Around
<1>1. <<e>> \in Seq(S)
  OBVIOUS
<1>2. s \o <<e>> \in Seq(S) /\ s \o <<e>> = Append(s, e)
  BY AppendIsConcat, AppendProperties
<1>3. (s \o <<e>>) \o t = s \o (<<e>> \o t)
  BY <1>1, ConcatAssociative
<1> QED BY <1>2, <1>3

\* Two sequences with the same elements in front are equal behind them.
LEMMA SameFront ==
  ASSUME NEW S, NEW e \in S, NEW f \in S, NEW s \in Seq(S), NEW t \in Seq(S),
         <<e>> \o s = <<f>> \o t
  PROVE  e = f /\ s = t
<1>1. Head(<<e>> \o s) = e /\ Tail(<<e>> \o s) = s
  BY InFront
<1>2. Head(<<f>> \o t) = f /\ Tail(<<f>> \o t) = t
  BY InFront
<1> QED BY <1>1, <1>2

\* A concatenation cut where its second part begins.
LEMMA CutConcat ==
  ASSUME NEW S, NEW s \in Seq(S), NEW t \in Seq(S)
  PROVE  SubSeq(s \o t, 1, Len(s)) = s
<1> DEFINE u == s \o t
<1>1. /\ u \in Seq(S) /\ Len(u) = Len(s) + Len(t)
      /\ \A i \in 1 .. Len(s) + Len(t) :
           u[i] = IF i <= Len(s) THEN s[i] ELSE t[i - Len(s)]
  BY ConcatProperties
<1> HIDE DEF u
<1>2. Len(s) \in Nat /\ Len(t) \in Nat
  BY LenProperties
<1>3. \A i \in 1 .. Len(s) : u[i] = s[i] /\ u[i] \in S
  <2> TAKE i \in 1 .. Len(s)
  <2>1. s[i] \in S
    BY ElementOfSeq
  <2>2. i \in 1 .. Len(s) + Len(t) /\ i <= Len(s)
    BY <1>2
  <2> QED BY <1>1, <2>1, <2>2
<1>4. /\ SubSeq(u, 1, Len(s)) \in Seq(S)
      /\ Len(SubSeq(u, 1, Len(s))) = IF 1 <= Len(s) THEN Len(s) - 1 + 1 ELSE 0
      /\ \A i \in 1 .. Len(s) - 1 + 1 : SubSeq(u, 1, Len(s))[i] = u[1 + i - 1]
  BY <1>2, <1>3, SubSeqProperties
<1>5. Len(SubSeq(u, 1, Len(s))) = Len(s)
  BY <1>2, <1>4
<1>6. \A i \in 1 .. Len(s) : SubSeq(u, 1, Len(s))[i] = s[i]
  <2> TAKE i \in 1 .. Len(s)
  <2>1. i \in 1 .. Len(s) - 1 + 1 /\ 1 + i - 1 = i
    BY <1>2
  <2> QED BY <1>3, <1>4, <2>1
<1>7. SubSeq(u, 1, Len(s)) = s
  BY <1>4, <1>5, <1>6, SeqEqual
<1> QED BY <1>7 DEF u

\* A sequence starts with its front.
LEMMA FrontIsPrefix ==
  ASSUME NEW S, NEW s \in Seq(S), NEW t \in Seq(S)
  PROVE  IsPrefix(s, s \o t)
<1>1. Len(s) \in Nat /\ Len(t) \in Nat
  BY LenProperties
<1>2. Len(s \o t) = Len(s) + Len(t)
  BY ConcatProperties
<1>3. SubSeq(s \o t, 1, Len(s)) = s /\ SubSeq(s, 1, Len(s)) = s
  BY CutConcat, SubSeqFull
<1>4. Len(s) <= Len(s \o t)
  BY <1>1, <1>2
<1> QED BY <1>3, <1>4 DEF IsPrefix

\* Taking out the first e takes out nothing else, and adds nothing.
LEMMA RemoveFirstWithin ==
  ASSUME NEW S, NEW s \in Seq(S), NEW e
  PROVE  /\ RemoveFirst(s, e) \in Seq(S) /\ ToSet(RemoveFirst(s, e)) \subseteq ToSet(s)
         /\ ToSet(s) \ {e} \subseteq ToSet(RemoveFirst(s, e))
<1>1. Len(s) \in Nat /\ DOMAIN s = 1 .. Len(s)
  BY LenProperties
<1>2. CASE ~ \E i \in 1 .. Len(s) : s[i] = e
  BY <1>2 DEF RemoveFirst
<1>3. CASE \E i \in 1 .. Len(s) : s[i] = e
  <2> DEFINE at == {i \in 1 .. Len(s) : s[i] = e}
             k == Min(at)
             t == RemoveAt(s, k)
  <2>1. RemoveFirst(s, e) = t
    BY <1>3 DEF RemoveFirst, SelectInSeq
  <2>2. k \in 1 .. Len(s) /\ s[k] = e
    <3>1. at \subseteq Nat /\ at # {}
      BY <1>1, <1>3
    <3>2. k \in at
      <4> HIDE DEF at
      <4> QED BY <3>1, LeastOfNat DEF Min
    <3> QED BY <3>2
  <2> HIDE DEF k
  <2>3. /\ t \in Seq(S) /\ Len(t) = Len(s) - 1
        /\ \A i \in 1 .. Len(s) - 1 : t[i] = s[IF i < k THEN i ELSE i + 1]
    BY <2>2, RemoveAtPositions
  <2> HIDE DEF t
  <2>4. DOMAIN t = 1 .. Len(s) - 1
    BY <2>3, LenProperties
  <2>5. ASSUME NEW i \in DOMAIN t PROVE t[i] \in ToSet(s)
    <3>1. (IF i < k THEN i ELSE i + 1) \in DOMAIN s
      BY <1>1, <2>2, <2>4
    <3> QED BY <2>3, <2>4, <3>1 DEF ToSet
  <2>6. ASSUME NEW j \in 1 .. Len(s), s[j] # e PROVE s[j] \in ToSet(t)
    <3>1. PICK i : i = IF j < k THEN j ELSE j - 1
      OBVIOUS
    <3>2. i \in 1 .. Len(s) - 1 /\ (IF i < k THEN i ELSE i + 1) = j
      BY <1>1, <2>2, <2>6, <3>1
    <3>3. t[i] = s[j]
      BY <2>3, <3>2
    <3> QED BY <2>4, <3>2, <3>3 DEF ToSet
  <2>7. ToSet(s) \ {e} \subseteq ToSet(t)
    BY <1>1, <2>6 DEF ToSet
  <2> QED BY <2>1, <2>3, <2>5, <2>7 DEF ToSet
<1> QED BY <1>2, <1>3

\* Induction over the subsets of a finite set, stated for a set of subsets.
LEMMA SubsetInduction ==
  ASSUME NEW U, IsFiniteSet(U), NEW Good,
         \A s \in SUBSET U : (\A r \in SUBSET s : r # s => r \in Good) => s \in Good
  PROVE  SUBSET U \subseteq Good
<1> DEFINE Upto == {n \in Nat : \A s \in SUBSET U : Cardinality(s) <= n => s \in Good}
<1>1. \A s \in SUBSET U : IsFiniteSet(s) /\ Cardinality(s) \in Nat
  BY PartOfFinite
<1>2. \A s \in SUBSET U : \A r \in SUBSET s :
        r # s => r \in SUBSET U /\ Cardinality(r) \in Nat /\ Cardinality(r) < Cardinality(s)
  <2> SUFFICES ASSUME NEW s \in SUBSET U, NEW r \in SUBSET s, r # s
               PROVE  Cardinality(r) < Cardinality(s)
    BY <1>1
  <2>1. Cardinality(r) <= Cardinality(s) /\ Cardinality(s) # Cardinality(r)
    BY <1>1, FS_Subset
  <2> QED BY <1>1, <2>1
<1>3. 0 \in Upto
  <2> SUFFICES ASSUME NEW s \in SUBSET U, Cardinality(s) <= 0 PROVE s \in Good
    OBVIOUS
  <2>1. ASSUME NEW r \in SUBSET s, r # s PROVE FALSE
    <3>1. Cardinality(r) \in Nat /\ Cardinality(r) < Cardinality(s) /\ Cardinality(s) \in Nat
      BY <1>1, <1>2, <2>1
    <3> QED BY <3>1
  <2> QED BY <2>1
<1>4. ASSUME NEW n \in Nat, n \in Upto PROVE n + 1 \in Upto
  <2> SUFFICES ASSUME NEW s \in SUBSET U, Cardinality(s) <= n + 1 PROVE s \in Good
    OBVIOUS
  <2>1. \A r \in SUBSET s : r # s => r \in Good
    <3> SUFFICES ASSUME NEW r \in SUBSET s, r # s PROVE r \in Good
      OBVIOUS
    <3>1. r \in SUBSET U /\ Cardinality(r) \in Nat /\ Cardinality(r) < Cardinality(s)
      BY <1>2
    <3>2. Cardinality(s) \in Nat
      BY <1>1
    <3>3. Cardinality(r) <= n
      BY <3>1, <3>2
    <3> QED BY <1>4, <3>1, <3>3
  <2> QED BY <2>1
<1> HIDE DEF Upto
<1>5. Nat \subseteq Upto
  BY <1>3, <1>4, NatSetInduction
<1> QED BY <1>1, <1>5 DEF Upto

=============================================================================
