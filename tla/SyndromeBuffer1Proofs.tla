------------------------ MODULE SyndromeBuffer1Proofs ------------------------
(***************************************************************************)
(* Proofs about syndrome buffer 1, for every set of operations and their   *)
(* lengths, every plan of windows with what they read and would read, any  *)
(* capacity, with a csb lag or without.                                    *)
(*                                                                         *)
(* The safety properties are not inductive.  That the arrival counter is a *)
(* gate needs the csb to hold exactly the rounds between the counter and   *)
(* the last one written, in order; that no claimed round is gone and no    *)
(* kept round is unclaimed is one invariant of the store and the windows,  *)
(* and a retired operation needs that no claim on its rounds ever returns. *)
(***************************************************************************)
EXTENDS SyndromeBuffer1, SequenceFacts

Shape ==
  /\ written \in [Ops -> Nat] /\ landed \in [Ops -> Nat] /\ arrived \in [Ops -> Nat]
  /\ \A op \in Ops : /\ landed[op] <= written[op]
                     /\ arrived[op] <= written[op] /\ written[op] <= Length[op]
  /\ inFlight \in Seq(Rounds)
  /\ room \in [Rounds -> {"absent", "kept", "gone"}]
  /\ life \in [Windows -> Lives]
  /\ wdo \in Seq(Windows)
  /\ closed \subseteq Ops

\* The rounds of an operation cross the csb in the order they were written.
InOrder ==
  \A i, j \in DOMAIN inFlight :
    i < j /\ inFlight[i][1] = inFlight[j][1] => inFlight[i][2] < inFlight[j][2]

\* What crosses the csb is what was written and has not landed.
CsbInv ==
  /\ \A op \in Ops : \A k \in 1 .. Length[op] :
       <<op, k>> \in ToSet(inFlight) <=> landed[op] < k /\ k <= written[op]
  /\ ~ Lag => inFlight = <<>>

\* The arrival counter says which rounds have landed, and of those the claims
\* say which are kept.
RoomInv ==
  /\ \A op \in Ops : \A k \in 1 .. Length[op] :
       room[<<op, k>>] = "absent" <=> k > landed[op]
  /\ \A r \in Rounds : /\ room[r] = "kept" => Claimed(r, life)
                       /\ room[r] = "gone" => ~ Claimed(r, life)

SlotsInv == IsFiniteSet(Kept) /\ LandingHasSlot

\* The windows of a retired operation are final and nobody claims its rounds.
ClosedInv ==
  \A op \in closed :
    /\ \A w \in Windows : OpOf[w] = op => life[w] = "committed"
    /\ \A w \in Claiming(life) : \A r \in Context[w] : r[1] # op

IInv == Shape /\ InOrder /\ CsbInv /\ RoomInv /\ SlotsInv /\ ClosedInv

-----------------------------------------------------------------------------
(* Rounds *)

\* A round is an operation and a number within its length.
LEMMA RoundPairs ==
  /\ \A op \in Ops : \A k \in 1 .. Length[op] : <<op, k>> \in Rounds
  /\ \A r \in Rounds :
       r[1] \in Ops /\ r[2] \in 1 .. Length[r[1]] /\ r = <<r[1], r[2]>>
BY DEF Rounds

\* A subset of the kept rounds, or one round more, and the room it takes.
LEMMA RoomTaken ==
  ASSUME NEW S, NEW T, IsFiniteSet(S), NEW r, T \subseteq S \cup {r}
  PROVE  /\ IsFiniteSet(T) /\ Cardinality(T) \in Nat /\ Cardinality(S) \in Nat
         /\ Cardinality(T) <= Cardinality(S) + 1
         /\ T \subseteq S => Cardinality(T) <= Cardinality(S)
<1>1. IsFiniteSet(S \cup {r}) /\ Cardinality(S \cup {r}) <= Cardinality(S) + 1
  <2>1. CASE r \in S
    <3>1. S \cup {r} = S
      BY <2>1
    <3>2. Cardinality(S) \in Nat
      BY FS_CardinalityType
    <3> QED BY <3>1, <3>2
  <2>2. CASE r \notin S
    <3>1. Cardinality(S) \in Nat
      BY FS_CardinalityType
    <3>2. IsFiniteSet(S \cup {r}) /\ Cardinality(S \cup {r}) = Cardinality(S) + 1
      BY <2>2, FS_AddElement
    <3> QED BY <3>1, <3>2
  <2> QED BY <2>1, <2>2
<1>2. IsFiniteSet(T) /\ Cardinality(T) <= Cardinality(S \cup {r})
  BY <1>1, FS_Subset
<1>3. T \subseteq S => Cardinality(T) <= Cardinality(S)
  BY FS_Subset
<1>4. /\ Cardinality(T) \in Nat /\ Cardinality(S) \in Nat
      /\ Cardinality(S \cup {r}) \in Nat
  BY <1>1, <1>2, FS_CardinalityType
<1> QED BY <1>1, <1>2, <1>3, <1>4

\* The next round to land is the one after the arrival counter.
LEMMA NextIsFirst ==
  ASSUME Shape, InOrder, CsbInv, inFlight # <<>>
  PROVE  /\ 1 \in 1 .. Len(inFlight)
         /\ \E op \in Ops : /\ landed[op] < written[op]
                            /\ inFlight[1] = <<op, landed[op] + 1>>
<1>1. inFlight \in Seq(Rounds) /\ Len(inFlight) \in Nat
      /\ DOMAIN inFlight = 1 .. Len(inFlight)
  BY LenProperties DEF Shape
<1>2. 1 \in 1 .. Len(inFlight)
  BY <1>1, EmptySeq
<1> DEFINE op == inFlight[1][1]
           k == inFlight[1][2]
<1>3. op \in Ops /\ k \in 1 .. Length[op] /\ inFlight[1] = <<op, k>>
  BY <1>1, <1>2, ElementOfSeq, RoundPairs
<1>4. inFlight[1] \in ToSet(inFlight)
  BY <1>1, <1>2 DEF ToSet
<1> HIDE DEF op, k
<1>5. landed[op] < k /\ k <= written[op]
  BY <1>3, <1>4 DEF CsbInv
<1>6. landed[op] \in Nat /\ written[op] \in Nat /\ Length[op] \in Nat
      /\ written[op] <= Length[op] /\ k \in Nat
  BY <1>3, RoomAssumption DEF Shape
<1>7. <<op, landed[op] + 1>> \in ToSet(inFlight)
  BY <1>3, <1>5, <1>6 DEF CsbInv
<1>8. PICK j \in 1 .. Len(inFlight) : inFlight[j] = <<op, landed[op] + 1>>
  BY <1>1, <1>7 DEF ToSet
<1>9. j = 1 \/ k < landed[op] + 1
  BY <1>1, <1>2, <1>3, <1>8 DEF InOrder
<1>10. k = landed[op] + 1
  BY <1>3, <1>5, <1>6, <1>8, <1>9
<1> QED BY <1>2, <1>3, <1>5, <1>6, <1>10

\* A round is stored behind the ones before it: the counter moves by one, and
\* the round is kept exactly if somebody claims it.
LEMMA StoreStep ==
  ASSUME Shape, RoomInv, NEW op \in Ops, landed[op] < Length[op],
         Store(<<op, landed[op] + 1>>), UNCHANGED life
  PROVE  /\ room' \in [Rounds -> {"absent", "kept", "gone"}]
         /\ landed' = [landed EXCEPT ![op] = landed[op] + 1]
         /\ RoomInv'
         /\ Kept' \subseteq Kept \cup {<<op, landed[op] + 1>>}
<1> DEFINE r == <<op, landed[op] + 1>>
<1>1. landed \in [Ops -> Nat] /\ landed[op] \in Nat /\ Length[op] \in Nat
      /\ landed[op] + 1 \in 1 .. Length[op]
      /\ room \in [Rounds -> {"absent", "kept", "gone"}]
  BY RoomAssumption DEF Shape
<1>2. r \in Rounds
  BY <1>1, RoundPairs
<1>3. room' = [room EXCEPT ![r] = Stored(r)] /\ Stored(r) \in {"kept", "gone"}
  BY DEF Store, Stored
<1>4. landed' = [landed EXCEPT ![op] = landed[op] + 1]
  <2>1. r[1] = op /\ r[2] = landed[op] + 1
    OBVIOUS
  <2>2. landed' = [landed EXCEPT ![op] = Arrival(landed[op], landed[op] + 1)]
    BY <2>1 DEF Store
  <2>3. Arrival(landed[op], landed[op] + 1) = landed[op] + 1
    BY <1>1 DEF Arrival
  <2> QED BY <2>2, <2>3
<1>5. room' \in [Rounds -> {"absent", "kept", "gone"}]
  BY <1>1, <1>2, <1>3
<1>6. \A o \in Ops : \A k \in 1 .. Length[o] :
        room'[<<o, k>>] = "absent" <=> k > landed'[o]
  <2> SUFFICES ASSUME NEW o \in Ops, NEW k \in 1 .. Length[o]
               PROVE  room'[<<o, k>>] = "absent" <=> k > landed'[o]
    OBVIOUS
  <2>1. <<o, k>> \in Rounds /\ (room[<<o, k>>] = "absent" <=> k > landed[o])
    BY RoundPairs DEF RoomInv
  <2>2. CASE <<o, k>> = r
    <3>1. o = op /\ k = landed[op] + 1
      BY <2>2
    <3> QED BY <1>1, <1>2, <1>3, <1>4, <2>2, <3>1
  <2>3. CASE <<o, k>> # r
    <3>1. room'[<<o, k>>] = room[<<o, k>>]
      BY <1>1, <1>3, <2>1, <2>3
    <3>2. CASE o = op
      <4>1. k # landed[op] + 1
        BY <2>3, <3>2
      <4>2. landed'[o] = landed[op] + 1 /\ k \in Nat
        BY <1>1, <1>4, <3>2
      <4> QED BY <1>1, <2>1, <3>1, <3>2, <4>1, <4>2
    <3>3. CASE o # op
      BY <1>1, <1>4, <2>1, <3>1, <3>3
    <3> QED BY <3>2, <3>3
  <2> QED BY <2>2, <2>3
<1>7. ASSUME NEW q \in Rounds
      PROVE  /\ room'[q] = "kept" => Claimed(q, life')
             /\ room'[q] = "gone" => ~ Claimed(q, life')
  BY <1>1, <1>2, <1>3 DEF RoomInv, Stored
<1>8. Kept' \subseteq Kept \cup {r}
  BY <1>1, <1>3 DEF Kept
<1> QED BY <1>4, <1>5, <1>6, <1>7, <1>8 DEF RoomInv

\* A window moves on and lets go of claims: the store drops what nobody claims
\* any more, and an operation is retired only when nothing refers to it.
LEMMA MoveOnStep ==
  ASSUME IInv, NEW w \in Windows, NEW s \in Lives, NEW retires \in BOOLEAN,
         MoveOn(w, s, retires), UNCHANGED <<written, inFlight, landed, arrived>>,
         wdo' \in Seq(Windows),
         s \in {"planned", "final", "strong"} => w \in Claiming(life),
         life[w] = "committed" => s = "committed"
  PROVE  IInv'
<1> DEFINE lf == [life EXCEPT ![w] = s]
<1>1. /\ life' = lf /\ room' = Released(lf)
      /\ closed' = IF retires /\ MayFinish(OpOf[w], lf)
                   THEN closed \cup {OpOf[w]} ELSE closed
  BY DEF MoveOn
<1>2. life \in [Windows -> Lives] /\ lf \in [Windows -> Lives]
      /\ room \in [Rounds -> {"absent", "kept", "gone"}] /\ OpOf[w] \in Ops
  BY RoomAssumption DEF IInv, Shape
<1>3. Claiming(lf) \subseteq Claiming(life)
  BY <1>2 DEF Claiming
<1>4. \A v \in Windows : life[v] = "committed" => lf[v] = "committed"
  BY <1>2
<1> HIDE DEF lf
<1>5. Shape'
  BY <1>1, <1>2 DEF IInv, Shape, Released, MayFinish
<1>6. InOrder' /\ CsbInv'
  BY DEF IInv, InOrder, CsbInv
<1>7. \A r \in Rounds : /\ room'[r] = "absent" <=> room[r] = "absent"
                        /\ room'[r] = "kept" => room[r] = "kept" /\ Claimed(r, lf)
                        /\ room'[r] = "gone" =>
                             room[r] = "gone" \/ ~ Claimed(r, lf)
  BY <1>1, <1>2 DEF Released
<1>8. \A r \in Rounds : Claimed(r, lf) => Claimed(r, life)
  BY <1>3 DEF Claimed
<1>9. RoomInv'
  <2>1. \A op \in Ops : \A k \in 1 .. Length[op] :
          room'[<<op, k>>] = "absent" <=> k > landed'[op]
    BY <1>7, RoundPairs DEF IInv, RoomInv
  <2>2. \A r \in Rounds : /\ room'[r] = "kept" => Claimed(r, life')
                          /\ room'[r] = "gone" => ~ Claimed(r, life')
    BY <1>1, <1>7, <1>8 DEF IInv, RoomInv
  <2> QED BY <2>1, <2>2 DEF RoomInv
<1>10. SlotsInv'
  <2>1. Kept' \subseteq Kept
    BY <1>7 DEF Kept
  <2>2. IsFiniteSet(Kept) /\ LandingHasSlot
    BY DEF IInv, SlotsInv
  <2>3. IsFiniteSet(Kept') /\ Cardinality(Kept') \in Nat /\ Cardinality(Kept) \in Nat
        /\ Cardinality(Kept') <= Cardinality(Kept)
    BY <2>1, <2>2, FS_Subset, FS_CardinalityType
  <2>4. Len(inFlight) \in Nat
    BY LenProperties DEF IInv, Shape
  <2> QED BY <2>2, <2>3, <2>4, RoomAssumption DEF SlotsInv, LandingHasSlot
<1>11. ClosedInv'
  <2>1. ASSUME NEW op \in closed'
        PROVE  /\ \A v \in Windows : OpOf[v] = op => lf[v] = "committed"
               /\ \A v \in Claiming(lf) : \A r \in Context[v] : r[1] # op
    <3>1. CASE op \in closed
      BY <1>3, <1>4, <3>1 DEF IInv, ClosedInv
    <3>2. CASE op \notin closed
      <4>1. MayFinish(op, lf)
        BY <1>1, <2>1, <3>2
      <4> QED BY <4>1 DEF MayFinish, Referenced, Claiming
    <3> QED BY <3>1, <3>2
  <2> QED BY <1>1, <2>1 DEF ClosedInv
<1> QED BY <1>5, <1>6, <1>9, <1>10, <1>11 DEF IInv

-----------------------------------------------------------------------------
(* The steps *)

\* A round put on the csb hop: it is counted in the room before it lands.
LEMMA WriteStep ==
  ASSUME IInv, NEW op \in Ops, Write(op)
  PROVE  IInv'
<1> USE DEF IInv
<1> DEFINE n == written[op]
           r == <<op, n + 1>>
<1>1. /\ n < Length[op] /\ written' = [written EXCEPT ![op] = n + 1]
      /\ UNCHANGED <<arrived, life, wdo, closed>>
  BY DEF Write
<1>2. /\ written \in [Ops -> Nat] /\ n \in Nat /\ Length[op] \in Nat
      /\ landed[op] \in Nat /\ landed[op] <= n
      /\ inFlight \in Seq(Rounds) /\ Len(inFlight) \in Nat
      /\ DOMAIN inFlight = 1 .. Len(inFlight)
  BY RoomAssumption, LenProperties DEF Shape
<1>3. n + 1 \in 1 .. Length[op] /\ r \in Rounds
  BY SMTT(30), <1>1, <1>2, RoundPairs
<1>4. ClosedInv'
  BY <1>1 DEF ClosedInv, Claiming
<1>5. IsFiniteSet(Kept) /\ Cardinality(Kept) \in Nat
  BY FS_CardinalityType DEF SlotsInv
<1>6. CASE Lag
  <2>1. inFlight' = Append(inFlight, r) /\ UNCHANGED <<room, landed>> /\ HasRoom
    BY <1>6 DEF Write
  <2>2. /\ inFlight' \in Seq(Rounds) /\ ToSet(inFlight') = ToSet(inFlight) \cup {r}
        /\ Len(inFlight') = Len(inFlight) + 1
        /\ \A i \in 1 .. Len(inFlight) : inFlight'[i] = inFlight[i]
        /\ inFlight'[Len(inFlight) + 1] = r
        /\ DOMAIN inFlight' = 1 .. Len(inFlight) + 1
    <3>1. inFlight \in Seq(Rounds) /\ r \in Rounds
      BY <1>2, <1>3
    <3>2. inFlight' = Append(inFlight, r) /\ Len(inFlight) \in Nat
      BY <1>2, <2>1
    <3> HIDE DEF r
    <3>3. inFlight' \in Seq(Rounds) /\ ToSet(inFlight') = ToSet(inFlight) \cup {r}
      BY <3>1, <3>2, AppendElements
    <3>4. /\ Len(inFlight') = Len(inFlight) + 1
          /\ \A i \in 1 .. Len(inFlight) : inFlight'[i] = inFlight[i]
          /\ inFlight'[Len(inFlight) + 1] = r
      BY <3>1, <3>2, AppendProperties
    <3>5. DOMAIN inFlight' = 1 .. Len(inFlight')
      BY <3>3, LenProperties
    <3> QED BY <3>3, <3>4, <3>5
  <2>3. Shape'
    BY <1>1, <1>2, <1>3, <2>1, <2>2 DEF Shape
  <2>4. InOrder'
    <3>1. ASSUME NEW i \in 1 .. Len(inFlight), inFlight[i][1] = op
          PROVE  inFlight[i][2] < n + 1
      <4>1. inFlight[i] \in ToSet(inFlight) /\ inFlight[i] \in Rounds
        BY <1>2, ElementOfSeq DEF ToSet
      <4>2. /\ inFlight[i][2] \in 1 .. Length[op]
            /\ inFlight[i] = <<op, inFlight[i][2]>>
        BY <3>1, <4>1, RoundPairs
      <4>3. inFlight[i][2] <= n
        BY <4>1, <4>2 DEF CsbInv
      <4> QED BY <1>2, <4>2, <4>3
    <3>2. ASSUME NEW i \in DOMAIN inFlight', NEW j \in DOMAIN inFlight', i < j,
                 inFlight'[i][1] = inFlight'[j][1]
          PROVE  inFlight'[i][2] < inFlight'[j][2]
      <4>1. CASE j \in 1 .. Len(inFlight)
        <5>1. i \in 1 .. Len(inFlight)
          BY <1>2, <2>2, <3>2, <4>1
        <5> QED BY <1>2, <2>2, <3>2, <4>1, <5>1 DEF InOrder
      <4>2. CASE j = Len(inFlight) + 1
        <5>1. i \in 1 .. Len(inFlight)
          BY <1>2, <2>2, <3>2, <4>2
        <5> QED BY <2>2, <3>1, <3>2, <4>2, <5>1
      <4> QED BY <1>2, <2>2, <3>2, <4>1, <4>2
    <3> QED BY <3>2 DEF InOrder
  <2>5. CsbInv'
    <3>1. ASSUME NEW o \in Ops, NEW k \in 1 .. Length[o]
          PROVE  <<o, k>> \in ToSet(inFlight') <=> landed'[o] < k /\ k <= written'[o]
      <4>1. <<o, k>> \in ToSet(inFlight) <=> landed[o] < k /\ k <= written[o]
        BY DEF CsbInv
      <4>2. CASE o = op
        <5>1. <<o, k>> = r <=> k = n + 1
          BY <4>2
        <5>2. written'[o] = n + 1
          BY <1>1, <1>2, <4>2
        <5>3. landed[op] < k /\ k <= n + 1 <=>
                k = n + 1 \/ (landed[op] < k /\ k <= n)
          BY <1>2
        <5>4. <<o, k>> \in ToSet(inFlight') <=>
                k = n + 1 \/ <<o, k>> \in ToSet(inFlight)
          BY <2>2, <5>1
        <5> QED BY <2>1, <4>1, <4>2, <5>2, <5>3, <5>4
      <4>3. CASE o # op
        <5>1. <<o, k>> # r /\ written'[o] = written[o]
          BY <1>1, <1>2, <4>3
        <5> QED BY <2>1, <2>2, <4>1, <5>1
      <4> QED BY <4>2, <4>3
    <3> QED BY <1>6, <3>1 DEF CsbInv
  <2>6. RoomInv'
    BY <1>1, <2>1 DEF RoomInv, Claimed, Claiming
  <2>7. SlotsInv'
    <3>1. Kept' = Kept
      BY <2>1 DEF Kept
    <3> QED BY <1>2, <1>5, <2>1, <2>2, <3>1, RoomAssumption
            DEF SlotsInv, LandingHasSlot, HasRoom
  <2> QED BY <1>4, <2>3, <2>4, <2>5, <2>6, <2>7
<1>7. CASE ~ Lag
  <2>1. inFlight = <<>> /\ inFlight' = <<>> /\ HasRoom /\ Store(r)
    BY <1>7 DEF Write, CsbInv
  <2>2. ToSet(inFlight) = {} /\ Len(inFlight) = 0 /\ DOMAIN inFlight = {}
    BY <2>1 DEF ToSet
  <2>3. landed[op] = n
    <3>1. CASE landed[op] < n
      <4>1. n \in 1 .. Length[op] /\ <<op, n>> \in ToSet(inFlight)
        BY <1>1, <1>2, <3>1 DEF CsbInv
      <4> QED BY <2>2, <4>1
    <3> QED BY <1>2, <3>1
  <2>4. Store(<<op, landed[op] + 1>>) /\ r = <<op, landed[op] + 1>>
    BY <2>1, <2>3
  <2>5. /\ room' \in [Rounds -> {"absent", "kept", "gone"}]
        /\ landed' = [landed EXCEPT ![op] = landed[op] + 1]
        /\ RoomInv' /\ Kept' \subseteq Kept \cup {r}
    BY <1>1, <2>3, <2>4, StoreStep
  <2>6. Shape'
    BY <1>1, <1>2, <1>3, <2>1, <2>3, <2>5 DEF Shape
  <2>7. InOrder'
    BY <2>1, <2>2 DEF InOrder
  <2>8. CsbInv'
    <3>1. ASSUME NEW o \in Ops, NEW k \in 1 .. Length[o]
          PROVE  ~ (landed'[o] < k /\ k <= written'[o])
      <4>1. ~ (landed[o] < k /\ k <= written[o])
        BY <2>2 DEF CsbInv
      <4>2. landed \in [Ops -> Nat]
        BY DEF Shape
      <4> QED BY <1>1, <1>2, <2>3, <2>5, <4>1, <4>2
    <3>2. ToSet(inFlight') = {}
      BY <2>1, <2>2
    <3> QED BY <2>1, <3>1, <3>2 DEF CsbInv
  <2>9. SlotsInv'
    <3>1. /\ IsFiniteSet(Kept') /\ Cardinality(Kept') \in Nat
          /\ Cardinality(Kept') <= Cardinality(Kept) + 1
      BY <1>5, <2>5, RoomTaken
    <3>2. Len(inFlight') = 0
      BY <2>1, <2>2
    <3> QED BY <1>5, <2>1, <2>2, <3>1, <3>2, RoomAssumption
            DEF SlotsInv, LandingHasSlot, HasRoom
  <2> QED BY <1>4, <2>5, <2>6, <2>7, <2>8, <2>9
<1> QED BY <1>6, <1>7

\* A round that ends the hop: it is kept if a window claims it, and gone if not.
LEMMA LandStep ==
  ASSUME IInv, Land
  PROVE  IInv'
<1> USE DEF IInv
<1>1. inFlight # <<>> /\ inFlight' = RemoveAt(inFlight, 1) /\ Store(inFlight[1])
      /\ UNCHANGED <<written, arrived, life, wdo, closed>>
  BY DEF Land, NextLanding
<1>2. PICK op \in Ops : /\ landed[op] < written[op]
                        /\ inFlight[1] = <<op, landed[op] + 1>>
  BY <1>1, NextIsFirst
<1> DEFINE r == <<op, landed[op] + 1>>
<1>3. /\ inFlight \in Seq(Rounds) /\ Len(inFlight) \in Nat
      /\ DOMAIN inFlight = 1 .. Len(inFlight) /\ 1 \in 1 .. Len(inFlight)
  BY <1>1, NextIsFirst, LenProperties DEF Shape
<1>4. /\ room' \in [Rounds -> {"absent", "kept", "gone"}]
      /\ landed' = [landed EXCEPT ![op] = landed[op] + 1]
      /\ RoomInv' /\ Kept' \subseteq Kept \cup {r}
  <2>1. landed[op] < Length[op]
    BY <1>2, RoomAssumption DEF Shape
  <2> QED BY <1>1, <1>2, <2>1, StoreStep
<1>5. /\ landed \in [Ops -> Nat] /\ written \in [Ops -> Nat]
      /\ landed[op] \in Nat /\ written[op] \in Nat /\ Length[op] \in Nat
      /\ landed[op] + 1 <= written[op] /\ landed[op] + 1 \in 1 .. Length[op]
  BY <1>2, RoomAssumption DEF Shape
<1>6. /\ inFlight' \in Seq(Rounds)
      /\ Len(inFlight') = Len(inFlight) - 1
      /\ \A i \in 1 .. Len(inFlight) - 1 : inFlight'[i] = inFlight[i + 1]
  <2>1. /\ inFlight' \in Seq(Rounds) /\ Len(inFlight') = Len(inFlight) - 1
        /\ \A i \in 1 .. Len(inFlight) - 1 :
             inFlight'[i] = inFlight[IF i < 1 THEN i ELSE i + 1]
    BY <1>1, <1>3, RemoveAtPositions
  <2> QED BY <1>3, <2>1
<1>7. DOMAIN inFlight' = 1 .. Len(inFlight) - 1
  BY <1>6, LenProperties
<1>8. Shape'
  BY <1>1, <1>4, <1>5, <1>6 DEF Shape
<1>9. InOrder'
  <2> SUFFICES ASSUME NEW i \in DOMAIN inFlight', NEW j \in DOMAIN inFlight', i < j,
                      inFlight'[i][1] = inFlight'[j][1]
               PROVE  inFlight'[i][2] < inFlight'[j][2]
    BY DEF InOrder
  <2>1. i + 1 \in DOMAIN inFlight /\ j + 1 \in DOMAIN inFlight /\ i + 1 < j + 1
        /\ inFlight'[i] = inFlight[i + 1] /\ inFlight'[j] = inFlight[j + 1]
    BY <1>3, <1>6, <1>7
  <2> QED BY <2>1 DEF InOrder
<1>10. ToSet(inFlight') = ToSet(inFlight) \ {r}
  <2>1. IsInjective(inFlight)
    <3> SUFFICES ASSUME NEW i \in DOMAIN inFlight, NEW j \in DOMAIN inFlight,
                        inFlight[i] = inFlight[j], i < j
                 PROVE  FALSE
      BY <1>3 DEF IsInjective
    <3>1. inFlight[i][2] < inFlight[j][2] /\ inFlight[i] \in Rounds
      BY <1>3, ElementOfSeq DEF InOrder
    <3>2. inFlight[i][2] \in Nat
      <4>1. inFlight[i][1] \in Ops /\ inFlight[i][2] \in 1 .. Length[inFlight[i][1]]
        BY <3>1, RoundPairs
      <4> QED BY <4>1
    <3> QED BY <3>1, <3>2
  <2>2. ToSet(RemoveAt(inFlight, 1)) = ToSet(inFlight) \ {inFlight[1]}
    BY <1>3, <2>1, RemoveAtElements
  <2> QED BY <1>1, <1>2, <2>2
<1>11. CsbInv'
  <2>1. ASSUME NEW o \in Ops, NEW k \in 1 .. Length[o]
        PROVE  <<o, k>> \in ToSet(inFlight') <=> landed'[o] < k /\ k <= written'[o]
    <3>1. <<o, k>> \in ToSet(inFlight) <=> landed[o] < k /\ k <= written[o]
      BY DEF CsbInv
    <3>2. CASE o = op
      <4>1. <<o, k>> = r <=> k = landed[op] + 1
        BY <3>2
      <4>2. landed'[o] = landed[op] + 1
        BY <1>4, <1>5, <3>2
      <4> QED BY <1>1, <1>5, <1>10, <3>1, <3>2, <4>1, <4>2
    <3>3. CASE o # op
      <4>1. <<o, k>> # r /\ landed'[o] = landed[o]
        BY <1>4, <1>5, <3>3
      <4> QED BY <1>1, <1>10, <3>1, <4>1
    <3> QED BY <3>2, <3>3
  <2>2. Lag
    BY <1>1 DEF CsbInv
  <2> QED BY <2>1, <2>2 DEF CsbInv
<1>12. SlotsInv'
  <2>1. IsFiniteSet(Kept) /\ Cardinality(Kept) \in Nat
    BY FS_CardinalityType DEF SlotsInv
  <2>2. /\ IsFiniteSet(Kept') /\ Cardinality(Kept') \in Nat
        /\ Cardinality(Kept') <= Cardinality(Kept) + 1
    BY <1>4, <2>1, RoomTaken
  <2> QED BY <1>3, <1>6, <2>1, <2>2, RoomAssumption DEF SlotsInv, LandingHasSlot
<1>13. ClosedInv'
  BY <1>1 DEF ClosedInv, Claiming
<1> QED BY <1>4, <1>8, <1>9, <1>11, <1>12, <1>13

\* Buffer 0 hands a round to the window manager.
LEMMA PublishStep ==
  ASSUME IInv, NEW op \in Ops, Publish(op)
  PROVE  IInv'
<1>1. /\ arrived[op] < written[op] /\ arrived' = [arrived EXCEPT ![op] = @ + 1]
      /\ UNCHANGED <<written, inFlight, room, landed, life, wdo, closed>>
  BY DEF Publish
<1>2. Shape'
  BY <1>1 DEF IInv, Shape
<1> QED BY <1>1, <1>2 DEF IInv, InOrder, CsbInv, RoomInv, SlotsInv, ClosedInv, Kept,
                          Claimed, Claiming, LandingHasSlot

\* A window whose weak result is final goes on the WDO link with its claims.
LEMMA WeakFinalStep ==
  ASSUME IInv, NEW w \in Windows, WeakFinal(w)
  PROVE  IInv'
<1> USE DEF IInv
<1>1. /\ life[w] = "planned" /\ life' = [life EXCEPT ![w] = "final"]
      /\ wdo' = Append(wdo, w)
      /\ UNCHANGED <<written, inFlight, room, landed, arrived, closed>>
  BY DEF WeakFinal, Ready
<1>2. life \in [Windows -> Lives] /\ life' \in [Windows -> Lives]
  BY <1>1 DEF Shape, Lives
<1>3. Claiming(life') = Claiming(life)
  BY <1>1, <1>2 DEF Claiming
<1>4. Shape'
  <2>1. wdo' \in Seq(Windows)
    BY <1>1, AppendProperties DEF Shape
  <2> QED BY <1>1, <1>2, <2>1 DEF Shape
<1>5. \A r : Claimed(r, life') <=> Claimed(r, life)
  BY <1>3 DEF Claimed
<1>6. RoomInv'
  BY <1>1, <1>5 DEF RoomInv
<1>7. ClosedInv'
  BY <1>1, <1>2, <1>3 DEF ClosedInv
<1> QED BY <1>1, <1>4, <1>6, <1>7 DEF InOrder, CsbInv, SlotsInv, Kept, LandingHasSlot

\* An escalation, a commit, or the strong context taken over.
LEMMA WindowStep ==
  ASSUME IInv, CommitFinal \/ \E w \in Windows :
                 Escalate(w) \/ StrongLanded(w) \/ StrongCommit(w)
  PROVE  IInv'
<1>0. wdo \in Seq(Windows)
  BY DEF IInv, Shape
<1>1. CASE CommitFinal
  <2> DEFINE w == Head(wdo)
             s == "committed"
  <2>1. w \in Windows /\ wdo' \in Seq(Windows)
    BY <1>0, <1>1, HeadTailProperties DEF CommitFinal
  <2>2. /\ MoveOn(w, s, TRUE) /\ UNCHANGED <<written, inFlight, landed, arrived>>
        /\ s \in Lives /\ s \notin {"planned", "final", "strong"}
        /\ life[w] = "committed" => s = "committed"
    BY <1>1 DEF CommitFinal, Lives
  <2> HIDE DEF w, s
  <2> QED BY <2>1, <2>2, MoveOnStep
<1>2. ASSUME NEW w \in Windows, Escalate(w) PROVE IInv'
  <2> DEFINE s == "strong"
  <2>1. /\ MoveOn(w, s, FALSE) /\ UNCHANGED <<written, inFlight, landed, arrived>>
        /\ s \in Lives /\ w \in Claiming(life) /\ wdo' \in Seq(Windows)
        /\ life[w] # "committed"
    BY <1>0, <1>2 DEF Escalate, Ready, Lives, Claiming
  <2> HIDE DEF s
  <2> QED BY <2>1, MoveOnStep
<1>3. ASSUME NEW w \in Windows, StrongLanded(w) PROVE IInv'
  <2> DEFINE s == "redone"
  <2>1. /\ MoveOn(w, s, FALSE) /\ UNCHANGED <<written, inFlight, landed, arrived>>
        /\ s \in Lives /\ s \notin {"planned", "final", "strong"}
        /\ wdo' \in Seq(Windows) /\ life[w] # "committed"
    BY <1>0, <1>3 DEF StrongLanded, Lives
  <2> HIDE DEF s
  <2> QED BY <2>1, MoveOnStep
<1>4. ASSUME NEW w \in Windows, StrongCommit(w) PROVE IInv'
  <2> DEFINE s == "committed"
  <2>1. /\ MoveOn(w, s, TRUE) /\ UNCHANGED <<written, inFlight, landed, arrived>>
        /\ s \in Lives /\ s \notin {"planned", "final", "strong"}
        /\ wdo' \in Seq(Windows) /\ life[w] # "committed"
    BY <1>0, <1>4 DEF StrongCommit, Lives
  <2> HIDE DEF s
  <2> QED BY <2>1, MoveOnStep
<1> QED BY <1>1, <1>2, <1>3, <1>4

-----------------------------------------------------------------------------
(* The invariant and what it says *)

\* An empty room, nothing written, every window planned.
LEMMA InitIInv == Init => IInv
<1> SUFFICES ASSUME Init PROVE IInv
  OBVIOUS
<1> USE DEF Init
<1>1. Shape
  BY RoomAssumption DEF Shape, Lives
<1>2. inFlight = <<>> /\ DOMAIN inFlight = {} /\ ToSet(inFlight) = {} /\ Len(inFlight) = 0
  BY DEF ToSet
<1>3. InOrder /\ CsbInv
  BY <1>2 DEF InOrder, CsbInv
<1>4. Kept = {} /\ IsFiniteSet(Kept) /\ Cardinality(Kept) = 0
  BY FS_EmptySet DEF Kept
<1>5. RoomInv
  BY RoundPairs DEF RoomInv
<1> QED BY <1>1, <1>2, <1>3, <1>4, <1>5, RoomAssumption
        DEF IInv, SlotsInv, LandingHasSlot, ClosedInv

\* The invariant holds in every reachable state.
LEMMA Invariance == Spec => []IInv
<1>1. IInv /\ [Next]_vars => IInv'
  <2> SUFFICES ASSUME IInv, [Next]_vars PROVE IInv'
    OBVIOUS
  <2>1. CASE UNCHANGED vars
    BY <2>1 DEF vars, IInv, Shape, InOrder, CsbInv, RoomInv, SlotsInv, ClosedInv,
                Kept, Claimed, Claiming, LandingHasSlot
  <2>2. CASE Next
    BY <2>2, WriteStep, PublishStep, LandStep, WeakFinalStep, WindowStep DEF Next
  <2> QED BY <2>1, <2>2
<1> QED BY <1>1, InitIInv, PTL DEF Spec

\* What crosses the csb has a slot where it lands, whatever lands meanwhile,
\* and a round is kept only while a window claims it (RoomSound).
THEOREM RoomIsSound == Spec => []RoomSound
<1>1. IInv => RoomSound
  <2> SUFFICES ASSUME IInv PROVE RoomSound
    OBVIOUS
  <2>1. ToSet(inFlight) \subseteq Rounds /\ ToSet(wdo) \subseteq Windows
    BY ToSetOfSeq DEF IInv, Shape
  <2>2. TypeOK
    BY <2>1 DEF IInv, Shape, TypeOK
  <2>3. KeptIsClaimed
    BY DEF IInv, RoomInv, KeptIsClaimed, Kept
  <2> QED BY <2>2, <2>3 DEF IInv, SlotsInv, RoomSound
<1> QED BY <1>1, Invariance, PTL

\* A claimed round at or below the arrival counter is in the store
\* (GateIsSound): a strong decode that waits for the counter finds its context.
THEOREM GateSound == Spec => []GateIsSound
<1>1. IInv => GateIsSound
  <2> SUFFICES ASSUME IInv, NEW w \in Claiming(life), NEW r \in Context[w],
                      r[2] <= landed[r[1]]
               PROVE  room[r] = "kept"
    BY DEF GateIsSound
  <2>1. r \in Rounds
    BY RoomAssumption DEF Claiming
  <2>2. r[1] \in Ops /\ r[2] \in 1 .. Length[r[1]] /\ r = <<r[1], r[2]>>
    BY <2>1, RoundPairs
  <2>3. landed[r[1]] \in Nat
    BY <2>2 DEF IInv, Shape
  <2>4. room[r] # "absent"
    BY <2>2, <2>3 DEF IInv, RoomInv
  <2>5. room[r] # "gone"
    BY <2>1 DEF IInv, RoomInv, Claimed
  <2> QED BY <2>1, <2>4, <2>5 DEF IInv, Shape
<1> QED BY <1>1, Invariance, PTL

\* A retired operation has no round in the store and none of its windows has
\* anything left to do (RetiredIsFinal), whatever other operation's window
\* reads its rounds.
THEOREM RetirementIsFinal == Spec => []RetiredIsFinal
<1>1. IInv => RetiredIsFinal
  <2> SUFFICES ASSUME IInv, NEW op \in closed
               PROVE  /\ \A r \in Kept : r[1] # op
                      /\ \A w \in Windows : OpOf[w] = op => life[w] = "committed"
    BY DEF RetiredIsFinal
  <2>1. \A r \in Kept : \E w \in Claiming(life) : r \in Context[w]
    BY DEF IInv, RoomInv, Kept, Claimed
  <2> QED BY <2>1 DEF IInv, ClosedInv
<1> QED BY <1>1, Invariance, PTL

=============================================================================
