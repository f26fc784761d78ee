---------------------------- MODULE AlRingProofs ----------------------------
(***************************************************************************)
(* The ring of transactions of the activity log, for every size of the     *)
(* log, of the ring and of the window: when the size of the ring divides   *)
(* the range of the transaction number, a crash at any moment loses no     *)
(* label, and the ring implements a map that changes in one step with each *)
(* transaction.                                                            *)
(***************************************************************************)
EXTENDS AlRing, TLAPS, FiniteSetTheorems

------------------------------------------------------------------------------
(* Division and remainder.                                                 *)

\* A number with quotient q and remainder r has the remainder r.
LEMMA ModUnique ==
  ASSUME NEW m \in Nat \ {0}, NEW a \in Nat, NEW q \in Nat, NEW r \in 0 .. m - 1, a = q * m + r
  PROVE  a % m = r
  OBVIOUS

\* The remainder of the next number.
LEMMA ModNext ==
  ASSUME NEW m \in Nat \ {0}, NEW a \in Nat
  PROVE  (a + 1) % m = IF a % m = m - 1 THEN 0 ELSE (a % m) + 1
<1> DEFINE q == a \div m
           r == a % m
<1>1. q \in Nat /\ r \in 0 .. m - 1 /\ a = q * m + r
  OBVIOUS
<1> HIDE DEF q, r
<1>2. CASE r = m - 1
  <2>1. a + 1 = (q + 1) * m + 0 /\ q + 1 \in Nat /\ 0 \in 0 .. m - 1
    BY <1>1, <1>2
  <2>2. (a + 1) % m = 0
    BY <2>1, <1>1, ModUnique
  <2> QED BY <1>2, <2>2 DEF r
<1>3. CASE r # m - 1
  <2>1. a + 1 = q * m + (r + 1) /\ r + 1 \in 0 .. m - 1
    BY <1>1, <1>3
  <2>2. (a + 1) % m = r + 1
    BY <2>1, <1>1, ModUnique
  <2> QED BY <1>3, <2>2 DEF r
<1> QED BY <1>2, <1>3

\* Numbers below m, and below 2 m.
LEMMA ModTwice ==
  ASSUME NEW m \in Nat \ {0}, NEW a \in 0 .. 2 * m - 1
  PROVE  a % m = IF a < m THEN a ELSE a - m
  OBVIOUS

\* The quotient is where the multiples of w enclose a.
LEMMA DivUnique ==
  ASSUME NEW w \in Nat \ {0}, NEW a \in Nat, NEW q \in Nat, q * w <= a, a < q * w + w
  PROVE  a \div w = q
  OBVIOUS

LEMMA DivBounds ==
  ASSUME NEW w \in Nat \ {0}, NEW a \in Nat
  PROVE  a \div w \in Nat /\ (a \div w) * w <= a /\ a < (a \div w) * w + w
  OBVIOUS

LEMMA DivMonotonic ==
  ASSUME NEW w \in Nat \ {0}, NEW a \in Nat, NEW b \in Nat, a <= b
  PROVE  a \div w <= b \div w
  OBVIOUS

LEMMA DivLess ==
  ASSUME NEW w \in Nat \ {0}, NEW a \in Nat, NEW q \in Nat, a < q * w
  PROVE  a \div w < q
  OBVIOUS

------------------------------------------------------------------------------
(* The ring and the window.                                                *)

\* The ring has more blocks than the log has windows (drbd_al_extents_max).
LEMMA Sizes ==
  /\ RingSize \in Nat \ {0, 1} /\ TrNumbers \in Nat \ {0} /\ RingSize < TrNumbers
  /\ Window \in Nat \ {0} /\ NrElements \in Nat \ {0}
  /\ Win(NrElements - 1) \in 0 .. RingSize - 2
<1>1. RingSize \in Nat /\ TrNumbers \in Nat \ {0} /\ RingSize < TrNumbers
  BY RingAssumption
<1>2. Window \in Nat \ {0} /\ NrElements \in Nat \ {0} /\ NrElements <= (RingSize - 1) * Window
  BY RingAssumption
<1>3. RingSize \notin {0, 1}
  BY <1>1, <1>2
<1>4. NrElements - 1 < (RingSize - 1) * Window /\ NrElements - 1 \in Nat /\ RingSize - 1 \in Nat
  BY <1>1, <1>2, <1>3
<1>5. (NrElements - 1) \div Window < RingSize - 1
  BY <1>2, <1>4, DivLess
<1>6. (NrElements - 1) \div Window \in Nat
  BY <1>2, <1>4, DivBounds
<1> QED BY <1>1, <1>2, <1>3, <1>5, <1>6 DEF Win

LEMMA WinRange == ASSUME NEW s \in Slots PROVE Win(s) \in 0 .. Win(NrElements - 1)
<1>1. Window \in Nat \ {0} /\ s \in Nat /\ NrElements - 1 \in Nat /\ s <= NrElements - 1
  BY Sizes DEF Slots
<1> QED BY <1>1, DivMonotonic, DivBounds DEF Win

LEMMA BackRange ==
  ASSUME al_tr_cycle \in Slots, NEW s \in Slots PROVE Back(s) \in 1 .. RingSize - 1
<1>1. Win(s) \in 0 .. Win(NrElements - 1) /\ Win(al_tr_cycle) \in 0 .. Win(NrElements - 1)
  BY WinRange
<1> QED BY <1>1, Sizes DEF Back

\* Each block has a distance of its own, the one at the position of the next
\* transaction the largest.
LEMMA DistanceRange ==
  ASSUME al_tr_number \in 0 .. TrNumbers - 1
  PROVE  /\ Position(al_tr_number) \in 0 .. RingSize - 1
         /\ \A b \in 0 .. RingSize - 1 :
              /\ Distance(b) \in 1 .. RingSize
              /\ Distance(b) = RingSize <=> b = Position(al_tr_number)
         /\ \A b, c \in 0 .. RingSize - 1 : Distance(b) = Distance(c) => b = c
<1>1. Position(al_tr_number) \in 0 .. RingSize - 1
  BY Sizes DEF Position
<1> QED BY <1>1, Sizes DEF Distance

\* When the ring divides the range of the transaction number, the next position
\* is the next block, across the wrap as well.
LEMMA PositionNext ==
  ASSUME TrNumbers % RingSize = 0, NEW t \in 0 .. TrNumbers - 1
  PROVE  /\ (t + 1) % TrNumbers \in 0 .. TrNumbers - 1
         /\ (t + 1) % TrNumbers = IF t + 1 = TrNumbers THEN 0 ELSE t + 1
         /\ Position((t + 1) % TrNumbers) =
              IF Position(t) = RingSize - 1 THEN 0 ELSE Position(t) + 1
<1>1. TrNumbers \in Nat \ {0} /\ RingSize \in Nat \ {0} /\ t \in Nat
  BY Sizes
<1>2. (t + 1) % RingSize = IF t % RingSize = RingSize - 1 THEN 0 ELSE (t % RingSize) + 1
  BY <1>1, ModNext
<1>3. (t + 1) % TrNumbers = IF t + 1 = TrNumbers THEN 0 ELSE t + 1
  <2>1. t + 1 \in 0 .. 2 * TrNumbers - 1
    BY <1>1
  <2>2. (t + 1) % TrNumbers = IF t + 1 < TrNumbers THEN t + 1 ELSE t + 1 - TrNumbers
    BY <2>1, <1>1, ModTwice
  <2> QED BY <2>2, <1>1
<1>4. 0 % RingSize = 0
  BY <1>1, ModTwice
<1> QED BY <1>1, <1>2, <1>3, <1>4 DEF Position

\* The distances after a transaction.
LEMMA DistanceNext ==
  ASSUME TrNumbers % RingSize = 0, al_tr_number \in 0 .. TrNumbers - 1,
         al_tr_number' = (al_tr_number + 1) % TrNumbers, NEW b \in 0 .. RingSize - 1
  PROVE  Distance(b)' = IF b = Position(al_tr_number) THEN 1 ELSE Distance(b) + 1
<1>1. Position(al_tr_number) \in 0 .. RingSize - 1
  BY DistanceRange
<1>2. Position(al_tr_number') = IF Position(al_tr_number) = RingSize - 1 THEN 0 ELSE Position(al_tr_number) + 1
  BY PositionNext
<1>3. Distance(b)' = IF b < Position(al_tr_number') THEN Position(al_tr_number') - b
                     ELSE Position(al_tr_number') + RingSize - b
  BY DEF Distance, Position
<1> QED BY <1>1, <1>2, <1>3, Sizes DEF Distance

\* The window moves on to the next slots, or back to the first one.
LEMMA WindowNext ==
  ASSUME al_tr_cycle \in Slots, al_tr_cycle = Win(al_tr_cycle) * Window
  PROVE  /\ NextCycle \in Slots
         /\ NextCycle = Win(NextCycle) * Window
         /\ Win(NextCycle) = IF Win(al_tr_cycle) = Win(NrElements - 1) THEN 0 ELSE Win(al_tr_cycle) + 1
<1> DEFINE j == Win(al_tr_cycle)
<1>1. Window \in Nat \ {0} /\ NrElements \in Nat \ {0} /\ al_tr_cycle \in Nat /\ al_tr_cycle <= NrElements - 1
  BY Sizes DEF Slots
<1>2. j \in Nat /\ al_tr_cycle = j * Window
  BY <1>1, DivBounds DEF Win
<1> HIDE DEF j
<1>3. CASE al_tr_cycle + Window >= NrElements
  <2>1. j * Window <= NrElements - 1 /\ NrElements - 1 < j * Window + Window /\ NrElements - 1 \in Nat
    BY <1>1, <1>2, <1>3
  <2>2. Win(NrElements - 1) = j
    BY <2>1, <1>1, <1>2, DivUnique DEF Win
  <2>3. NextCycle = 0 /\ Win(0) = 0
    BY <1>1, <1>3 DEF NextCycle, Win
  <2> QED BY <2>2, <2>3, <1>1 DEF j, Slots
<1>4. CASE ~(al_tr_cycle + Window >= NrElements)
  <2>1. NextCycle = al_tr_cycle + Window /\ NextCycle \in Slots /\ NextCycle \in Nat
    BY <1>1, <1>4 DEF NextCycle, Slots
  <2>2. NextCycle = (j + 1) * Window /\ j + 1 \in Nat
    BY <2>1, <1>1, <1>2
  <2>3. (j + 1) * Window <= NextCycle /\ NextCycle < (j + 1) * Window + Window
    BY <2>2, <1>1
  <2>4. Win(NextCycle) = j + 1
    BY <2>1, <2>2, <2>3, <1>1, DivUnique DEF Win
  <2>5. Win(NextCycle) <= Win(NrElements - 1)
    BY <2>1, WinRange, Sizes
  <2>6. j # Win(NrElements - 1)
    BY <2>4, <2>5, <1>2, Sizes
  <2>7. NextCycle = Win(NextCycle) * Window
    BY <2>2, <2>4
  <2> QED BY <2>1, <2>4, <2>6, <2>7 DEF j
<1> QED BY <1>3, <1>4

\* The slots of the window.
WindowSlots == {s \in Slots : al_tr_cycle <= s /\ s < al_tr_cycle + Window}

LEMMA WindowSlotsAre ==
  ASSUME al_tr_cycle \in Slots, NEW u
  PROVE  /\ DOMAIN Block(u).context = WindowSlots
         /\ \A s \in WindowSlots : Block(u).context[s] = label[s]
  BY Sizes DEF Block, WindowSlots, Slots

LEMMA BackNext ==
  ASSUME al_tr_cycle \in Slots, al_tr_cycle = Win(al_tr_cycle) * Window, al_tr_cycle' = NextCycle,
         NEW s \in Slots, s \notin WindowSlots
  PROVE  Back(s)' = Back(s) + 1
<1> DEFINE j == Win(al_tr_cycle)
           m == Win(NrElements - 1)
<1>1. Win(s) \in 0 .. m /\ j \in 0 .. m /\ m \in Nat
  BY WinRange, Sizes
<1>2. Win(s) # j
  <2>1. Window \in Nat \ {0} /\ s \in Nat /\ al_tr_cycle \in Nat
    BY Sizes DEF Slots
  <2>2. (s \div Window) * Window <= s /\ s < (s \div Window) * Window + Window
    BY <2>1, DivBounds
  <2> QED BY <2>1, <2>2 DEF WindowSlots, Win
<1>3. Win(al_tr_cycle)' = IF j = m THEN 0 ELSE j + 1
  BY WindowNext DEF Win
<1>4. Back(s)' = IF Win(s) < Win(al_tr_cycle)' THEN Win(al_tr_cycle)' - Win(s)
                 ELSE Win(al_tr_cycle)' + m + 1 - Win(s)
  BY DEF Back, Win
<1>5. Back(s) = IF Win(s) < j THEN j - Win(s) ELSE j + m + 1 - Win(s)
  BY DEF Back
<1> HIDE DEF j, m
<1> QED BY <1>1, <1>2, <1>3, <1>4, <1>5

\* The age of a transaction, for numbers that have wrapped as well.
LEMMA AgeIs ==
  ASSUME NEW t \in 0 .. TrNumbers - 1, NEW u \in 0 .. TrNumbers - 1
  PROVE  (t + TrNumbers - u) % TrNumbers = IF u <= t THEN t - u ELSE t + TrNumbers - u
<1> DEFINE a == t + TrNumbers - u
<1>1. TrNumbers \in Nat \ {0} /\ a \in 0 .. 2 * TrNumbers - 1
  BY Sizes
<1>2. a < TrNumbers <=> ~(u <= t)
  BY Sizes
<1>3. a - TrNumbers = t - u
  BY Sizes
<1> HIDE DEF a
<1>4. a % TrNumbers = IF a < TrNumbers THEN a ELSE a - TrNumbers
  BY <1>1, ModTwice
<1> QED BY <1>1, <1>2, <1>3, <1>4 DEF a

LEMMA AgeNext ==
  ASSUME NEW t \in 0 .. TrNumbers - 1, NEW u \in 0 .. TrNumbers - 1, NEW v \in 0 .. TrNumbers - 1,
         v = IF t + 1 = TrNumbers THEN 0 ELSE t + 1,
         (t + TrNumbers - u) % TrNumbers < TrNumbers - 1
  PROVE  (v + TrNumbers - u) % TrNumbers = ((t + TrNumbers - u) % TrNumbers) + 1
<1>1. (t + TrNumbers - u) % TrNumbers = IF u <= t THEN t - u ELSE t + TrNumbers - u
  BY AgeIs
<1>2. (v + TrNumbers - u) % TrNumbers = IF u <= v THEN v - u ELSE v + TrNumbers - u
  BY AgeIs
<1> QED BY <1>1, <1>2, Sizes

\* What recovery finds is what the invariant says the newest blocks tell.
LEMMA Recovers == RingInv => Reconstructed
<1> SUFFICES ASSUME RingInv, ~failed PROVE Recovered = label
  BY DEF Reconstructed
<1> SUFFICES ASSUME NEW s \in Slots PROVE Recovered[s] = label[s]
  BY DEF Recovered, RingInv, TypeOK
<1>1. CASE label[s] = LcFree /\ Names(s) = {}
  BY <1>1 DEF Recovered
<1>2. ASSUME NEW b \in 0 .. RingSize - 1, Tells(b, s) PROVE Recovered[s] = label[s]
  <2>1. \A c \in Names(s) : c \in 0 .. RingSize - 1 /\ Age(c) = Distance(c)
    BY DEF Names, RingInv
  <2>2. b \in Names(s) /\ \A c \in Names(s) : Age(b) <= Age(c)
    BY <1>2, <2>1 DEF Tells
  <2>3. Newest(s) \in Names(s) /\ \A c \in Names(s) : Age(Newest(s)) <= Age(c)
    BY <2>2, Zenon DEF Newest
  <2>4. Distance(Newest(s)) = Distance(b)
    <3>1. \A c \in Names(s) : Distance(c) \in Nat
      <4>1. \A c \in 0 .. RingSize - 1 : Distance(c) \in Nat
        BY DistanceRange DEF RingInv, TypeOK
      <4> QED BY <4>1, <2>1
    <3>2. Distance(Newest(s)) <= Distance(b)
      BY <2>1, <2>2, <2>3
    <3>3. Distance(b) <= Distance(Newest(s))
      BY <2>1, <2>2, <2>3
    <3>4. Distance(b) \in Nat /\ Distance(Newest(s)) \in Nat
      BY <2>2, <2>3, <3>1
    <3> QED BY <3>2, <3>3, <3>4
  <2>5. Newest(s) = b
    BY <2>1, <2>3, <2>4, <1>2, DistanceRange DEF RingInv, TypeOK
  <2> QED BY <2>2, <2>5, <1>2 DEF Recovered, Tells
<1> QED BY <1>1, <1>2 DEF RingInv, Covered

------------------------------------------------------------------------------
(* The invariant is inductive.                                             *)

LEMMA BlankIsNone == \A t \in Blocks : t.valid /\ t # None
<1>1. \A t \in Blocks : t.valid = TRUE
  BY DEF Blocks
<1>2. None.valid = FALSE
  BY DEF None, Blank
<1> QED BY <1>1, <1>2

LEMMA InitInvariant == Init => RingInv
<1> SUFFICES ASSUME Init PROVE RingInv
  OBVIOUS
<1>1. \A b \in 0 .. RingSize - 1 : ~ring[b].valid
  BY DEF Init, Blank
<1>2. TypeOK
  <2>1. label \in [Slots -> Labels]
    BY DEF Init, Labels
  <2>2. ring \in [0 .. RingSize - 1 -> Blocks \cup {Blank}] /\ writing \in Blocks \cup {None}
    BY DEF Init
  <2>3. al_tr_number \in 0 .. TrNumbers - 1 /\ al_tr_cycle \in Slots
    BY Sizes DEF Init, Slots
  <2>4. failed \in BOOLEAN
    BY DEF Init
  <2> QED BY <2>1, <2>2, <2>3, <2>4 DEF TypeOK
<1>3. 0 = Win(0) * Window
  BY Sizes DEF Win
<1>4. \A s \in Slots : Covered(s)
  BY <1>1 DEF Covered, Names, Init
<1> QED BY <1>1, <1>2, <1>3, <1>4 DEF RingInv, WritingOK, Init

LEMMA BlockType ==
  ASSUME TypeOK, NEW u \in Maps
  PROVE  /\ Block(u) \in Blocks /\ Block(u).tr = al_tr_number /\ Block(u).updates = u
<1> DEFINE c == Block(u).context
<1>1. c \in Maps
  <2>1. c = [s \in DOMAIN c |-> c[s]] /\ DOMAIN c = WindowSlots
    BY WindowSlotsAre DEF TypeOK, Block
  <2>2. \A s \in WindowSlots : c[s] \in Labels
    BY WindowSlotsAre DEF TypeOK, WindowSlots
  <2>3. WindowSlots \in SUBSET Slots
    BY DEF WindowSlots
  <2> HIDE DEF c
  <2>4. c \in [WindowSlots -> Labels]
    BY <2>1, <2>2
  <2> QED BY <2>3, <2>4 DEF Maps
<1>2. Block(u) = [valid |-> TRUE, tr |-> al_tr_number, updates |-> u, context |-> c]
  BY DEF Block
<1> HIDE DEF c
<1> QED BY <1>1, <1>2 DEF Blocks, TypeOK

LEMMA WriteTransactionStep == RingInv /\ WriteTransaction => RingInv'
<1> SUFFICES ASSUME RingInv, WriteTransaction PROVE RingInv'
  OBVIOUS
<1> DEFINE p == Position(al_tr_number)
<1>0. TypeOK /\ al_tr_number \in 0 .. TrNumbers - 1 /\ al_tr_cycle \in Slots
  BY DEF RingInv, TypeOK
<1>a. PICK S \in SUBSET Slots :
        Cardinality(S) \in 1 .. MaxUpdates /\ \E u \in [S -> Extents] : writing' = Block(u)
  BY DEF WriteTransaction
<1>1. PICK u \in [S -> Extents] : writing' = Block(u)
  BY <1>a
<1>2. ~failed /\ ~failed' /\ writing = None /\ label' = label /\ al_tr_number' = al_tr_number
  BY DEF WriteTransaction
<1>3. al_tr_cycle' = NextCycle /\ ring' = [ring EXCEPT ![p] = Blank]
  BY DEF WriteTransaction
<1>4. u \in Maps
  <2>1. u \in [S -> Labels]
    BY <1>1 DEF Labels
  <2> QED BY <2>1 DEF Maps
<1>5. writing' \in Blocks /\ writing'.tr = al_tr_number /\ writing'.updates = u
  BY <1>0, <1>1, <1>4, BlockType
<1>6. DOMAIN writing'.context = WindowSlots /\ \A s \in WindowSlots : writing'.context[s] = label[s]
  BY <1>0, <1>1, WindowSlotsAre
<1>7. p \in 0 .. RingSize - 1
  BY <1>0, DistanceRange
<1>8. NextCycle \in Slots /\ NextCycle = Win(NextCycle) * Window
  BY <1>0, WindowNext DEF RingInv
<1> HIDE DEF p
<1>9. TypeOK'
  <2>1. ring' \in [0 .. RingSize - 1 -> Blocks \cup {Blank}]
    BY <1>0, <1>3 DEF TypeOK
  <2>2. failed' \in BOOLEAN
    BY <1>0 DEF WriteTransaction, TypeOK
  <2> QED BY <2>1, <2>2, <1>0, <1>2, <1>3, <1>5, <1>8 DEF TypeOK
<1>10. WritingOK'
  <2>1. IsFiniteSet(S)
    <3>1. IsFiniteSet(Slots)
      BY FS_Interval, Sizes DEF Slots
    <3> QED BY <3>1, FS_Subset
  <2>2. ring'[p] = Blank /\ p = Position(al_tr_number')
    BY <1>0, <1>2, <1>3, <1>7 DEF TypeOK, p
  <2>3. DOMAIN u = S /\ (\A s \in S : u[s] \in Extents) /\ Cardinality(S) <= MaxUpdates
    BY <1>a, RingAssumption
  <2> QED BY <2>1, <2>2, <2>3, <1>2, <1>5, <1>6 DEF WritingOK
<1>11. al_tr_cycle' = Win(al_tr_cycle') * Window
  BY <1>3, <1>8
<1>12. \A b \in 0 .. RingSize - 1 : ring[b]' = IF b = p THEN Blank ELSE ring[b]
  BY <1>0, <1>3, <1>7 DEF TypeOK
<1>13. \A b \in 0 .. RingSize - 1 : Distance(b)' = Distance(b)
  BY <1>2 DEF Distance
<1>14. \A b \in 0 .. RingSize - 1 : ring[b]'.valid => Age(b)' = Distance(b)'
  <2>1. ~Blank.valid
    BY DEF Blank
  <2>2. \A b \in 0 .. RingSize - 1 : b # p => Age(b)' = Age(b)
    BY <1>2, <1>12 DEF Age
  <2> QED BY <2>1, <2>2, <1>2, <1>12, <1>13 DEF RingInv
<1>15. ASSUME NEW s \in Slots PROVE Covered(s)'
  <2>1. Names(s)' = Names(s) \ {p}
    <3>1. ~Blank.valid
      BY DEF Blank
    <3> QED BY <3>1, <1>12 DEF Names
  <2>2. CASE label[s] = LcFree /\ Names(s) = {}
    BY <2>1, <2>2, <1>2 DEF Covered
  <2>3. ASSUME NEW b \in 0 .. RingSize - 1, Tells(b, s), Distance(b) <= Back(s) PROVE Covered(s)'
    <3>1. b # p
      BY <2>3, <1>0, BackRange, DistanceRange, Sizes DEF p
    <3>2. ring[b]' = ring[b] /\ label'[s] = label[s]
      BY <3>1, <1>2, <1>12
    <3>3. b \in Names(s)' /\ Says(ring[b]', s) = label'[s]
      BY <2>1, <2>3, <3>1, <3>2, Zenon DEF Tells
    <3>4. \A c \in Names(s)' : Distance(b)' <= Distance(c)'
      BY <2>1, <2>3, <1>13, Zenon DEF Tells, Names
    <3>5. Tells(b, s)'
      BY <3>3, <3>4 DEF Tells, Says
    <3>6. s \in DOMAIN writing'.context \/ Distance(b)' < Back(s)'
      <4>1. CASE s \in WindowSlots
        BY <4>1, <1>6
      <4>2. CASE s \notin WindowSlots
        <5>1. Back(s)' = Back(s) + 1
          BY <4>2, <1>0, <1>3, BackNext, Zenon DEF RingInv
        <5>2. Back(s) \in Nat /\ Distance(b) \in Nat
          BY <1>0, BackRange, DistanceRange
        <5> QED BY <5>1, <5>2, <2>3, <1>13
      <4> QED BY <4>1, <4>2
    <3>7. writing' # None
      BY <1>5, BlankIsNone
    <3> QED BY <3>5, <3>6, <3>7 DEF Covered, None, Blank
  <2> QED BY <2>2, <2>3, <1>2 DEF RingInv, Covered
<1> QED BY <1>9, <1>10, <1>11, <1>14, <1>15 DEF RingInv

LEMMA WriteDoneStep ==
  ASSUME TrNumbers % RingSize = 0, RingInv, WriteDone PROVE RingInv'
<1> DEFINE u == writing.updates
<1>0. TypeOK /\ WritingOK /\ al_tr_number \in 0 .. TrNumbers - 1 /\ al_tr_cycle \in Slots
  BY DEF RingInv, TypeOK
<1>p. PICK p \in 0 .. RingSize - 1 : p = Position(al_tr_number)
  BY <1>0, DistanceRange
<1>1. writing # None /\ writing' = None /\ al_tr_cycle' = al_tr_cycle /\ failed' = failed
  BY DEF WriteDone
<1>2. ring' = [ring EXCEPT ![p] = writing] /\ al_tr_number' = (al_tr_number + 1) % TrNumbers
  BY <1>p DEF WriteDone
<1>3. label' = Updated(u)
  BY DEF WriteDone
<1>4. ~failed /\ writing.tr = al_tr_number /\ ring[p] = Blank /\ writing \in Blocks
  BY <1>0, <1>1, <1>p DEF WritingOK, TypeOK
<1>5. writing.valid /\ u \in Maps
  BY <1>4, BlankIsNone DEF Blocks
<1>6. \A s \in DOMAIN u : u[s] \in Extents
  BY <1>0, <1>1 DEF WritingOK
<1>8. /\ al_tr_number' \in 0 .. TrNumbers - 1
      /\ al_tr_number' = IF al_tr_number + 1 = TrNumbers THEN 0 ELSE al_tr_number + 1
  BY <1>0, <1>2, PositionNext
<1>9. \A b \in 0 .. RingSize - 1 : Distance(b)' = IF b = p THEN 1 ELSE Distance(b) + 1
  BY <1>0, <1>2, <1>p, DistanceNext
<1>10. \A b \in 0 .. RingSize - 1 : Distance(b) \in 1 .. RingSize /\ (Distance(b) = RingSize => b = p)
  BY <1>0, <1>p, DistanceRange
<1> HIDE DEF u
<1>11. \A b \in 0 .. RingSize - 1 : ring[b]' = IF b = p THEN writing ELSE ring[b]
  BY <1>0, <1>2, <1>p DEF TypeOK
<1>12. \A s \in Slots : label'[s] = IF s \in DOMAIN u THEN u[s] ELSE label[s]
  BY <1>3 DEF Updated
<1>13. TypeOK'
  <2>1. label' \in [Slots -> Labels]
    <3>1. \A s \in Slots : label'[s] \in Labels
      BY <1>0, <1>6, <1>12 DEF TypeOK, Labels
    <3> QED BY <3>1, <1>3 DEF Updated
  <2>2. ring' \in [0 .. RingSize - 1 -> Blocks \cup {Blank}]
    BY <1>0, <1>2, <1>4 DEF TypeOK
  <2>3. failed' \in BOOLEAN
    BY <1>0, <1>1 DEF TypeOK
  <2> QED BY <2>1, <2>2, <2>3, <1>0, <1>1, <1>8 DEF TypeOK
<1>14. WritingOK'
  BY <1>1 DEF WritingOK, None, Blank
<1>15. al_tr_cycle' = Win(al_tr_cycle') * Window
  BY <1>1 DEF RingInv
<1>16. ASSUME NEW b \in 0 .. RingSize - 1, ring[b]'.valid PROVE Age(b)' = Distance(b)'
  <2>1. CASE b = p
    <3>1. ring[b]'.tr = al_tr_number
      BY <2>1, <1>4, <1>11, Zenon
    <3>2. Age(b)' = (al_tr_number' + TrNumbers - al_tr_number) % TrNumbers
      BY <3>1 DEF Age
    <3>3. Age(b)' = 1
      BY <3>2, <1>0, <1>8, AgeIs, Sizes
    <3> QED BY <3>3, <2>1, <1>9
  <2>2. CASE b # p
    <3>1. ring[b]' = ring[b] /\ ring[b].valid /\ ring[b].tr \in 0 .. TrNumbers - 1
      <4>1. ring[b]' = ring[b] /\ ring[b].valid
        BY <2>2, <1>11, <1>16
      <4>2. ring[b] \in Blocks
        BY <4>1, <1>0 DEF TypeOK, Blank
      <4> QED BY <4>1, <4>2 DEF Blocks
    <3>2. Age(b) = Distance(b) /\ Age(b) < TrNumbers - 1
      <4>1. Age(b) = Distance(b)
        BY <3>1, <1>4 DEF RingInv
      <4>2. Distance(b) < RingSize
        BY <2>2, <1>10, Sizes
      <4> QED BY <4>1, <4>2, <1>10, Sizes
    <3>3. Age(b)' = Age(b) + 1
      <4>1. (al_tr_number' + TrNumbers - ring[b].tr) % TrNumbers
              = ((al_tr_number + TrNumbers - ring[b].tr) % TrNumbers) + 1
        BY <3>1, <3>2, <1>0, <1>8, AgeNext DEF Age
      <4> QED BY <4>1, <3>1 DEF Age
    <3> QED BY <3>2, <3>3, <2>2, <1>9
  <2> QED BY <2>1, <2>2
<1>17. ASSUME NEW s \in Slots PROVE Covered(s)'
  <2>1. Back(s)' = Back(s) /\ Back(s) \in Nat /\ 1 <= Back(s)
    <3>1. Back(s)' = Back(s)
      BY <1>1 DEF Back, Win
    <3> QED BY <3>1, <1>0, BackRange
  <2>2. CASE s \in DOMAIN u \cup DOMAIN writing.context
    <3>1. Says(writing, s) = label'[s]
      <4>1. CASE s \in DOMAIN u
        BY <4>1, <1>12 DEF Says, u
      <4>2. CASE s \notin DOMAIN u
        BY <4>2, <2>2, <1>0, <1>1, <1>12 DEF Says, u, WritingOK
      <4> QED BY <4>1, <4>2
    <3>2. ring[p]' = writing /\ p \in Names(s)'
      BY <2>2, <1>5, <1>p, <1>11 DEF Names, u
    <3>3. \A c \in Names(s)' : Distance(p)' <= Distance(c)'
      <4>1. \A c \in 0 .. RingSize - 1 : 1 <= Distance(c)'
        BY <1>9, <1>10
      <4> QED BY <4>1, <1>p, <1>9 DEF Names
    <3>4. Tells(p, s)'
      BY <3>1, <3>2, <3>3 DEF Tells, Says
    <3>5. Distance(p)' <= Back(s)'
      BY <2>1, <1>p, <1>9, Zenon
    <3> QED BY <3>4, <3>5, <1>1, <1>p DEF Covered, None, Blank
  <2>3. CASE s \notin DOMAIN u \cup DOMAIN writing.context
    <3>1. Names(s)' = Names(s) /\ p \notin Names(s)
      <4>1. ~Blank.valid
        BY DEF Blank
      <4>2. p \notin Names(s)
        BY <4>1, <1>4 DEF Names
      <4>3. \A b \in 0 .. RingSize - 1 : b \in Names(s)' <=> b \in Names(s)
        BY <4>2, <2>3, <1>11 DEF Names, u
      <4> QED BY <4>2, <4>3 DEF Names
    <3>2. label'[s] = label[s]
      BY <2>3, <1>12
    <3>3. CASE label[s] = LcFree /\ Names(s) = {}
      BY <3>1, <3>2, <3>3 DEF Covered
    <3>4. ASSUME NEW b \in 0 .. RingSize - 1, Tells(b, s), Distance(b) < Back(s) PROVE Covered(s)'
      <4>1. b \in Names(s) /\ b # p /\ ring[b]' = ring[b]
        BY <3>1, <3>4, <1>11 DEF Tells
      <4>2. \A c \in Names(s)' : Distance(b)' <= Distance(c)'
        <5>1. \A c \in Names(s) : c \in 0 .. RingSize - 1 /\ c # p /\ Distance(b) <= Distance(c)
          BY <3>1, <3>4, Zenon DEF Tells, Names
        <5>2. \A c \in Names(s) : Distance(c)' = Distance(c) + 1 /\ Distance(c) \in Nat
          BY <5>1, <1>9, <1>10
        <5>3. \A c \in Names(s) : Distance(b)' <= Distance(c)'
          BY <5>1, <5>2, <4>1
        <5> QED BY <5>3, <3>1
      <4>3. Tells(b, s)'
        BY <4>1, <4>2, <3>1, <3>2, <3>4 DEF Tells, Says
      <4>4. Distance(b)' <= Back(s)'
        BY <4>1, <3>4, <2>1, <1>9, <1>10
      <4> QED BY <4>3, <4>4, <1>1 DEF Covered, None, Blank
    <3> QED BY <3>3, <3>4, <2>3, <1>1, <1>4 DEF RingInv, Covered
  <2> QED BY <2>2, <2>3
<1> QED BY <1>13, <1>14, <1>15, <1>16, <1>17 DEF RingInv

LEMMA WriteFailsStep == RingInv /\ WriteFails => RingInv'
<1> SUFFICES ASSUME RingInv, WriteFails PROVE RingInv'
  OBVIOUS
<1>1. failed' /\ writing' = None /\ label' = label /\ al_tr_number' = al_tr_number /\ al_tr_cycle' = al_tr_cycle
  BY DEF WriteFails
<1>2. PICK b \in {Blank, writing} : ring' = [ring EXCEPT ![Position(al_tr_number)] = b]
  BY DEF WriteFails
<1>3. b \in Blocks \cup {Blank}
  BY DEF RingInv, TypeOK, None
<1>4. ring' \in [0 .. RingSize - 1 -> Blocks \cup {Blank}]
  BY <1>2, <1>3 DEF RingInv, TypeOK
<1>5. TypeOK'
  <2>1. failed' \in BOOLEAN
    BY DEF WriteFails
  <2> QED BY <2>1, <1>1, <1>4 DEF RingInv, TypeOK
<1>6. WritingOK'
  BY <1>1 DEF WritingOK, None, Blank
<1> QED BY <1>1, <1>5, <1>6 DEF RingInv

\* The inductive invariant holds in every state of every run, if the size of the
\* ring divides the range of the transaction number.
THEOREM RingInvariance == TrNumbers % RingSize = 0 => (Spec => []RingInv)
<1> SUFFICES ASSUME TrNumbers % RingSize = 0 PROVE Spec => []RingInv
  OBVIOUS
<1>1. Init => RingInv
  BY InitInvariant
<1>2. RingInv /\ [Next]_vars => RingInv'
  <2> SUFFICES ASSUME RingInv, [Next]_vars PROVE RingInv'
    OBVIOUS
  <2>1. CASE WriteTransaction
    BY <2>1, WriteTransactionStep
  <2>2. CASE WriteDone
    BY <2>2, WriteDoneStep
  <2>3. CASE WriteFails
    BY <2>3, WriteFailsStep, Zenon
  <2>4. CASE UNCHANGED vars
    <3>1. TypeOK'
      BY <2>4, Zenon DEF vars, RingInv, TypeOK
    <3>2. WritingOK'
      BY <2>4, Zenon DEF vars, RingInv, WritingOK
    <3>3. \A b \in 0 .. RingSize - 1 : Age(b)' = Age(b) /\ Distance(b)' = Distance(b)
      BY <2>4, Zenon DEF vars, Age, Distance, Back, Win
    <3>4. \A s \in Slots : Covered(s)' = Covered(s)
      BY <2>4 DEF vars, Covered, Tells, Names, Says, Age, Distance, Back, Win
    <3> QED
      BY <2>4, <3>1, <3>2, <3>3, <3>4 DEF vars, RingInv, Win
  <2> QED BY <2>1, <2>2, <2>3, <2>4 DEF Next
<1> QED BY <1>1, <1>2, PTL DEF Spec

\* A crash at any moment, also in the middle of a block, loses no label.
THEOREM RingReconstructs == TrNumbers % RingSize = 0 => (Spec => []Reconstructed)
<1> SUFFICES ASSUME TrNumbers % RingSize = 0 PROVE Spec => []Reconstructed
  OBVIOUS
<1>1. RingInv => Reconstructed
  BY Recovers
<1> QED BY <1>1, RingInvariance, PTL

------------------------------------------------------------------------------
(* The ring implements AlStable.                                           *)

LEMMA UpdatedIsCommit ==
  ASSUME RingInv, writing # None, Recovered = label, Recovered' = Updated(writing.updates)
  PROVE  Stable!Commit
<1> DEFINE u == writing.updates
           changed == {s \in Slots : Recovered'[s] # Recovered[s]}
<1>1. label \in [Slots -> Labels] /\ (\A s \in DOMAIN u : u[s] \in Extents)
  BY DEF RingInv, TypeOK, WritingOK
<1>2. IsFiniteSet(DOMAIN u) /\ Cardinality(DOMAIN u) <= MaxUpdates
  BY DEF RingInv, WritingOK
<1> HIDE DEF u
<1>3. Recovered' = [s \in Slots |-> IF s \in DOMAIN u THEN u[s] ELSE label[s]]
  BY DEF Updated, u
<1>4. Recovered' \in [Slots -> Labels]
  BY <1>1, <1>3 DEF Labels
<1>5. \A s \in Slots : Recovered'[s] # Recovered[s] => s \in DOMAIN u /\ Recovered'[s] # LcFree
  BY <1>1, <1>3, RingAssumption
<1>6. Cardinality(changed) <= MaxUpdates
  <2>1. changed \subseteq DOMAIN u
    BY <1>5
  <2>2. IsFiniteSet(changed) /\ Cardinality(changed) <= Cardinality(DOMAIN u)
    BY <2>1, <1>2, FS_Subset
  <2>3. Cardinality(changed) \in Nat /\ Cardinality(DOMAIN u) \in Nat
    BY <2>2, <1>2, FS_CardinalityType
  <2> QED BY <2>2, <2>3, <1>2, RingAssumption
<1>7. changed \in {S \in SUBSET Slots : Cardinality(S) <= MaxUpdates}
  BY <1>6
<1> QED BY <1>4, <1>5, <1>7 DEF Stable!Commit

\* After an IO error the last transaction is on disk as a whole or not at all.
LEMMA FailedIsCommit ==
  ASSUME RingInv, WriteFails PROVE Stable!Commit \/ Recovered' = Recovered
<1> DEFINE u == writing.updates
<1>1. writing # None /\ label' = label /\ al_tr_number' = al_tr_number
  BY DEF WriteFails
<1>2. TypeOK /\ WritingOK /\ al_tr_number \in 0 .. TrNumbers - 1
  BY DEF RingInv, TypeOK
<1>3. PICK p \in 0 .. RingSize - 1 : p = Position(al_tr_number)
  BY <1>2, DistanceRange
<1>4. ~failed /\ writing.tr = al_tr_number /\ ring[p] = Blank /\ writing \in Blocks
  BY <1>1, <1>2, <1>3 DEF WritingOK, TypeOK
<1>5. Recovered = label
  BY <1>4, Recovers DEF Reconstructed
<1>6. CASE ring' = [ring EXCEPT ![p] = Blank]
  <2>1. ring' = ring
    BY <1>2, <1>4, <1>6 DEF TypeOK
  <2> QED BY <2>1, <1>1 DEF Recovered, Names, Says, Newest, Age
<1>7. CASE ring' = [ring EXCEPT ![p] = writing]
  <2>1. \A b \in 0 .. RingSize - 1 : ring[b]' = IF b = p THEN writing ELSE ring[b]
    BY <1>2, <1>7 DEF TypeOK
  <2>2. Age(p)' = 0
    <3>1. Age(p)' = (al_tr_number + TrNumbers - al_tr_number) % TrNumbers
      BY <2>1, <1>1, <1>4 DEF Age
    <3> QED BY <3>1, <1>2, AgeIs
  <2>3. \A b \in 0 .. RingSize - 1 : b # p /\ ring[b].valid => Age(b)' = Distance(b)
    BY <2>1, <1>1, <1>4 DEF Age, RingInv
  <2>4. \A b \in 0 .. RingSize - 1 : Distance(b) \in Nat \ {0}
    BY <1>2, DistanceRange
  <2>5. \A b, c \in 0 .. RingSize - 1 : Distance(b) = Distance(c) => b = c
    BY <1>2, DistanceRange
  <2>6. ASSUME NEW s \in Slots PROVE Recovered'[s] = IF s \in DOMAIN u THEN u[s] ELSE label[s]
    <3>1. \A b \in Names(s)' : b \in 0 .. RingSize - 1 /\ ring[b]'.valid
      BY DEF Names
    <3>2. ASSUME NEW b \in Names(s)', \A c \in Names(s)' : Age(b)' <= Age(c)',
                 \A c \in Names(s)' : Age(c)' <= Age(b)' => c = b
          PROVE  Recovered'[s] = Says(ring[b]', s)
      <4>1. PICK q : q = Newest(s)'
        OBVIOUS
      <4>2. q = CHOOSE x \in Names(s)' : \A c \in Names(s)' : Age(x)' <= Age(c)'
        BY <4>1 DEF Newest
      <4>3. q \in Names(s)' /\ \A c \in Names(s)' : Age(q)' <= Age(c)'
        BY <4>2, <3>2, Zenon
      <4>4. q = b
        BY <4>3, <3>2
      <4>5. Recovered'[s] = IF Names(s)' = {} THEN LcFree ELSE Says(ring[Newest(s)], s)'
        BY DEF Recovered
      <4>6. Says(ring[Newest(s)], s)' = Says(ring[q]', s)
        BY <4>1 DEF Says
      <4> QED BY <4>4, <4>5, <4>6, <3>2
    <3>3. CASE s \in DOMAIN u \cup DOMAIN writing.context
      <4>1. p \in Names(s)' /\ ring[p]' = writing
        BY <3>3, <2>1, <1>4, BlankIsNone DEF Names
      <4>2. \A c \in Names(s)' : c # p => Age(c)' \in Nat \ {0}
        BY <3>1, <2>1, <2>3, <2>4
      <4>3. Recovered'[s] = Says(writing, s)
        BY <4>1, <4>2, <3>2, <2>2
      <4>4. CASE s \in DOMAIN u
        BY <4>3, <4>4 DEF Says
      <4>5. CASE s \notin DOMAIN u
        BY <4>3, <4>5, <3>3, <1>1, <1>2, Zenon DEF Says, WritingOK
      <4> QED BY <4>4, <4>5
    <3>4. CASE s \notin DOMAIN u \cup DOMAIN writing.context
      <4>1. Names(s)' = Names(s) /\ p \notin Names(s)
        <5>1. p \notin Names(s)
          BY <1>4 DEF Names, Blank
        <5>2. \A b \in 0 .. RingSize - 1 : b \in Names(s)' <=> b \in Names(s)
          BY <5>1, <3>4, <2>1 DEF Names
        <5> QED BY <5>1, <5>2 DEF Names
      <4>2. CASE label[s] = LcFree /\ Names(s) = {}
        <5>1. Recovered'[s] = LcFree
          BY <4>1, <4>2 DEF Recovered
        <5> QED BY <5>1, <4>2, <3>4
      <4>3. ASSUME NEW b \in 0 .. RingSize - 1, Tells(b, s) PROVE Recovered'[s] = label[s]
        <5>1. b \in Names(s)' /\ b # p /\ ring[b]' = ring[b] /\ Says(ring[b], s) = label[s]
          BY <4>1, <4>3, <2>1 DEF Tells
        <5>2. \A c \in Names(s)' : Age(c)' = Distance(c) /\ Distance(c) \in Nat /\ c \in 0 .. RingSize - 1
          BY <4>1, <3>1, <2>1, <2>3, <2>4
        <5>3. \A c \in Names(s)' : Distance(b) <= Distance(c)
          BY <4>1, <4>3 DEF Tells
        <5>4. \A c \in Names(s)' : Distance(c) <= Distance(b) => c = b
          BY <5>1, <5>2, <5>3, <2>5
        <5>5. \A c \in Names(s)' : Age(b)' <= Age(c)'
          BY <5>1, <5>2, <5>3
        <5>6. \A c \in Names(s)' : Age(c)' <= Age(b)' => c = b
          BY <5>1, <5>2, <5>4
        <5> QED BY <5>1, <5>5, <5>6, <3>2
      <4>4. \E b \in 0 .. RingSize - 1 : Tells(b, s) \/ (label[s] = LcFree /\ Names(s) = {})
        BY <1>3, <1>4 DEF RingInv, Covered
      <4> QED BY <4>2, <4>3, <4>4, <3>4
    <3> QED BY <3>3, <3>4
  <2>7. Recovered' = Updated(u)
    <3>1. Recovered' = [s \in Slots |-> Recovered'[s]]
      BY DEF Recovered
    <3> HIDE DEF u
    <3> QED BY <3>1, <2>6 DEF Updated
  <2> QED BY <2>7, <1>1, <1>5, UpdatedIsCommit
<1> QED BY <1>3, <1>6, <1>7 DEF WriteFails

\* The ring of blocks, with crashes and IO errors in the middle of a block,
\* implements a map from slots to labels that changes in one step with each
\* transaction (al_write_transaction).
THEOREM RingImplementsStable == TrNumbers % RingSize = 0 => (Spec => RefinesStable)
<1> SUFFICES ASSUME TrNumbers % RingSize = 0 PROVE Spec => RefinesStable
  OBVIOUS
<1>1. Init => Stable!Init
  BY DEF Init, Stable!Init, Recovered, Names, Blank
<1>2. RingInv /\ RingInv' /\ [Next]_vars => [Stable!Commit]_Recovered
  <2> SUFFICES ASSUME RingInv, RingInv', [Next]_vars PROVE Stable!Commit \/ Recovered' = Recovered
    OBVIOUS
  <2>1. ~failed => Recovered = label
    BY Recovers DEF Reconstructed
  <2>2. ~failed' => Recovered' = label'
    <3>1. Reconstructed'
      BY Recovers, PTL
    <3> QED BY <3>1 DEF Reconstructed
  <2>3. CASE WriteTransaction
    BY <2>1, <2>2, <2>3 DEF WriteTransaction
  <2>4. CASE WriteDone
    <3>1. writing # None /\ ~failed /\ ~failed' /\ label' = Updated(writing.updates)
      BY <2>4 DEF WriteDone, RingInv, WritingOK
    <3> QED BY <3>1, <2>1, <2>2, UpdatedIsCommit
  <2>5. CASE WriteFails
    BY <2>5, FailedIsCommit
  <2>6. CASE UNCHANGED vars
    BY <2>6 DEF vars, Recovered, Names, Says, Newest, Age
  <2> QED BY <2>3, <2>4, <2>5, <2>6 DEF Next
<1>3. Spec => []RingInv
  BY RingInvariance
<1> QED BY <1>1, <1>2, <1>3, PTL DEF Spec, RefinesStable, Stable!Spec
=============================================================================
