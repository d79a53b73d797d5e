---- MODULE BackForwardListProofs ----
(***************************************************************************)
(* Proofs about BackForwardList, for every capacity and every set of item  *)
(* identifiers.                                                            *)
(***************************************************************************)
EXTENDS BackForwardList, SequenceTheorems, TLAPS

\* The inductive invariant.  Chronological alone is not inductive: that the new
\* item is greater than the ones in the list follows from their having been
\* added before, and that nothing is reported twice from their being distinct.
IInv ==
    /\ TypeOK
    /\ ListConsistent
    /\ Chronological
    /\ ItemConservation

-----------------------------------------------------------------------------
(* The operators addItem is built from.                                    *)

\* Vector::insert behind the last element appends.
LEMMA InsertAtEnd ==
    ASSUME NEW S, NEW s \in Seq(S), NEW e \in S
    PROVE  InsertAt(s, Len(s) + 1, e) = Append(s, e)
<1>1. SubSeq(s, 1, (Len(s) + 1) - 1) = s
  BY SubSeqFull
<1>2. SubSeq(s, Len(s) + 1, Len(s)) = << >>
  BY SubSeqEmpty
<1>3. /\ s \o <<e>> \in Seq(S)
      /\ s \o <<e>> = Append(s, e)
  BY AppendIsConcat, AppendProperties
<1>4. (s \o <<e>>) \o << >> = s \o <<e>>
  BY <1>3, ConcatEmptySeq
<1> QED
  BY <1>1, <1>2, <1>3, <1>4 DEF InsertAt

\* The list that addItem keeps is a stretch of the old one that ends with the
\* current item; there is room for one more item behind it.
LEMMA BaseIsStretch ==
    ASSUME TypeOK, ListConsistent
    PROVE  /\ Base \in Seq(ItemID)
           /\ Len(Base) + 1 <= m_capacity
           /\ NewIndex = Len(Base)
           /\ \E d \in {0, 1} :
                /\ \A i \in 1 .. Len(Base) : Base[i] = m_entries[i + d]
                /\ Len(Base) + d <= Len(m_entries)
                /\ m_hasCurrentIndex => Len(Base) + d = m_currentIndex + 1
                /\ d = 1 => Len(Base) + 1 = m_capacity
<1> USE CapacityAssumption
<1>1. CASE ~m_hasCurrentIndex
  <2>1. Base = << >> /\ ~TossFirst
    BY <1>1 DEF Base, TossFirst, WithoutForward
  <2> QED
    BY <1>1, <2>1 DEF NewIndex, ListConsistent, TypeOK
<1>2. CASE m_hasCurrentIndex
  <2> DEFINE kept == SubSeq(m_entries, 1, m_currentIndex + 1)
  <2>1. m_currentIndex + 1 \in 1 .. Len(m_entries) /\ WithoutForward = kept
    BY <1>2 DEF TypeOK, ListConsistent, WithoutForward
  <2>2. /\ kept \in Seq(ItemID)
        /\ Len(kept) = m_currentIndex + 1
        /\ \A i \in 1 .. Len(kept) : kept[i] = m_entries[i]
    <3>1. \A i \in 1 .. m_currentIndex + 1 : m_entries[i] \in ItemID
      BY <2>1 DEF TypeOK
    <3>2. /\ kept \in Seq(ItemID)
          /\ Len(kept) = IF 1 <= m_currentIndex + 1 THEN (m_currentIndex + 1) - 1 + 1 ELSE 0
          /\ \A i \in 1 .. (m_currentIndex + 1) - 1 + 1 : kept[i] = m_entries[1 + i - 1]
      <4>1. 1 \in Int /\ m_currentIndex + 1 \in Int
        BY <2>1
      <4> HIDE DEF kept
      <4> QED
        BY <3>1, <4>1, SubSeqProperties DEF kept
    <3> QED
      BY <2>1, <3>2
  <2>3. kept # << >>
    BY <2>1, <2>2
  <2> HIDE DEF kept
  <2>4. CASE TossFirst
    <3>1. Base = Tail(kept) /\ Len(kept) = m_capacity
      BY <2>1, <2>4 DEF Base, TossFirst
    <3>2. /\ Tail(kept) \in Seq(ItemID)
          /\ Len(Tail(kept)) = Len(kept) - 1
          /\ \A i \in 1 .. Len(Tail(kept)) : Tail(kept)[i] = kept[i + 1]
      BY <2>2, <2>3, HeadTailProperties
    <3>3. \A i \in 1 .. Len(Base) : Base[i] = m_entries[i + 1]
      BY <2>1, <2>2, <3>1, <3>2
    <3>4. NewIndex = Len(Base)
      <4>1. Len(Base) = m_currentIndex /\ Base \in Seq(ItemID) /\ m_currentIndex \in Nat
        BY <2>2, <3>1, <3>2 DEF TypeOK
      <4>2. NewIndex = IF Base = << >> THEN 0 ELSE (m_currentIndex - 1) + 1
        BY <1>2, <2>4 DEF NewIndex
      <4>3. CASE Base = << >>
        BY <4>2, <4>3
      <4>4. CASE Base # << >>
        BY <4>1, <4>2, <4>4
      <4> QED
        BY <4>3, <4>4
    <3> QED
      BY <2>1, <2>2, <3>1, <3>2, <3>3, <3>4
  <2>5. CASE ~TossFirst
    <3>1. Base = kept
      BY <2>1, <2>5 DEF Base
    <3>2. Len(kept) # m_capacity
      BY <1>2, <2>1, <2>2, <2>5 DEF TossFirst, TypeOK
    <3>3. Len(kept) + 1 <= m_capacity
      BY <2>1, <2>2, <3>2 DEF ListConsistent
    <3>4. NewIndex = Len(Base)
      BY <1>2, <2>1, <2>2, <2>3, <2>5, <3>1 DEF NewIndex
    <3> QED
      BY <2>1, <2>2, <3>1, <3>3, <3>4
  <2> QED
    BY <2>4, <2>5
<1> QED
  BY <1>1, <1>2

\* A stretch of a sequence, element by element.
LEMMA Stretch ==
    ASSUME NEW S, NEW s \in Seq(S), NEW a \in 1 .. Len(s) + 1, NEW b \in a - 1 .. Len(s)
    PROVE  /\ SubSeq(s, a, b) \in Seq(S)
           /\ Len(SubSeq(s, a, b)) = b - a + 1
           /\ \A i \in 1 .. b - a + 1 : SubSeq(s, a, b)[i] = s[a + i - 1]
<1>1. \A i \in a .. b : s[i] \in S
  OBVIOUS
<1>2. a \in Int /\ b \in Int
  OBVIOUS
<1> QED
  BY <1>1, <1>2, SubSeqProperties

\* What addItem reports is what it does not keep.
LEMMA DroppedIsRest ==
    ASSUME TypeOK, ListConsistent, Chronological
    PROVE  /\ Dropped \in Seq(ItemID)
           /\ Items(Dropped) = Items(m_entries) \ Items(Base)
<1> DEFINE w == Len(WithoutForward)
           ahead == SubSeq(m_entries, w + 1, Len(m_entries))
           first == IF TossFirst THEN <<Head(WithoutForward)>> ELSE << >>
<1>1. m_entries \in Seq(ItemID) /\ Len(m_entries) \in Nat
  BY DEF TypeOK
<1>0. \A i, k \in 1 .. Len(m_entries) : i < k => m_entries[i] # m_entries[k]
  <2> SUFFICES ASSUME NEW i \in 1 .. Len(m_entries), NEW k \in 1 .. Len(m_entries), i < k
               PROVE  m_entries[i] # m_entries[k]
    OBVIOUS
  <2>0. m_entries[i] \in ItemID /\ m_entries[k] \in ItemID
    BY <1>1
  <2>1. m_entries[i] \in Nat /\ m_entries[k] \in Nat
    BY <2>0, ItemAssumption
  <2>2. m_entries[i] < m_entries[k]
    BY DEF Chronological
  <2>3. \A a, b \in Nat : a < b => a # b
    OBVIOUS
  <2> QED
    BY <2>1, <2>2, <2>3
<1>2. /\ WithoutForward \in Seq(ItemID)
      /\ w \in 0 .. Len(m_entries)
      /\ \A i \in 1 .. w : WithoutForward[i] = m_entries[i]
  <2>1. CASE ~m_hasCurrentIndex
    BY <1>1, <2>1 DEF WithoutForward
  <2>2. CASE m_hasCurrentIndex
    <3>1. WithoutForward = SubSeq(m_entries, 1, m_currentIndex + 1)
      BY <2>2 DEF WithoutForward
    <3>2. 1 \in 1 .. Len(m_entries) + 1 /\ m_currentIndex + 1 \in 1 - 1 .. Len(m_entries)
      BY <1>1, <2>2 DEF TypeOK, ListConsistent
    <3>3. /\ WithoutForward \in Seq(ItemID) /\ w = (m_currentIndex + 1) - 1 + 1
          /\ \A i \in 1 .. (m_currentIndex + 1) - 1 + 1 : WithoutForward[i] = m_entries[1 + i - 1]
      BY <1>1, <3>1, <3>2, Stretch
    <3> QED
      BY <1>1, <3>2, <3>3
  <2> QED
    BY <2>1, <2>2
<1>3. TossFirst => w >= 1
  BY <1>2, CapacityAssumption DEF TossFirst
<1>4. /\ Base \in Seq(ItemID)
      /\ TossFirst => Len(Base) = w - 1 /\ \A i \in 1 .. w - 1 : Base[i] = m_entries[i + 1]
      /\ ~TossFirst => Len(Base) = w /\ \A i \in 1 .. w : Base[i] = m_entries[i]
  <2>1. CASE ~TossFirst
    BY <1>2, <2>1 DEF Base
  <2>2. CASE TossFirst
    <3>1. WithoutForward # << >> /\ Base = Tail(WithoutForward)
      BY <1>2, <1>3, <2>2 DEF Base
    <3>2. /\ Base \in Seq(ItemID) /\ Len(Base) = w - 1
          /\ \A i \in 1 .. Len(Base) : Base[i] = WithoutForward[i + 1]
      BY <1>2, <3>1, HeadTailProperties
    <3> QED
      BY <1>2, <2>2, <3>2
  <2> QED
    BY <2>1, <2>2
<1>5. /\ ahead \in Seq(ItemID) /\ Len(ahead) = Len(m_entries) - w
      /\ \A i \in 1 .. Len(m_entries) - w : ahead[i] = m_entries[w + i]
  <2>1. w + 1 \in 1 .. Len(m_entries) + 1 /\ Len(m_entries) \in (w + 1) - 1 .. Len(m_entries)
    BY <1>1, <1>2
  <2> HIDE DEF ahead, w
  <2>2. /\ ahead \in Seq(ItemID) /\ Len(ahead) = Len(m_entries) - (w + 1) + 1
        /\ \A i \in 1 .. Len(m_entries) - (w + 1) + 1 : ahead[i] = m_entries[w + 1 + i - 1]
    BY <1>1, <2>1, Stretch DEF ahead
  <2> QED
    BY <1>1, <1>2, <2>2 DEF w
<1> DEFINE back == Reverse(ahead)
<1>6. /\ back \in Seq(ItemID) /\ Len(back) = Len(m_entries) - w
      /\ \A i \in 1 .. Len(m_entries) - w : back[i] = m_entries[Len(m_entries) + 1 - i]
  <2>1. back = [i \in 1 .. Len(ahead) |-> ahead[(Len(ahead) - i) + 1]]
    BY DEF Reverse
  <2> HIDE DEF ahead, w, back
  <2>2. \A i \in 1 .. Len(ahead) : /\ (Len(ahead) - i) + 1 \in 1 .. Len(ahead)
                                   /\ w + ((Len(ahead) - i) + 1) = Len(m_entries) + 1 - i
    BY <1>1, <1>2, <1>5 DEF w
  <2>3. \A i \in 1 .. Len(ahead) : ahead[(Len(ahead) - i) + 1] \in ItemID
    BY <1>5, <2>2
  <2>4. Len(ahead) \in Nat
    BY <1>5
  <2>5. back \in Seq(ItemID) /\ Len(back) = Len(ahead)
    BY <2>1, <2>3, <2>4
  <2>6. \A i \in 1 .. Len(ahead) : back[i] = ahead[(Len(ahead) - i) + 1]
    BY <2>1
  <2> QED
    BY <1>5, <2>2, <2>5, <2>6
<1>7. /\ first \in Seq(ItemID)
      /\ TossFirst => Len(first) = 1 /\ first[1] = m_entries[1]
      /\ ~TossFirst => Len(first) = 0
  <2>1. CASE ~TossFirst
    BY <2>1
  <2>2. CASE TossFirst
    <3>1. Head(WithoutForward) = m_entries[1] /\ Head(WithoutForward) \in ItemID
      BY <1>2, <1>3, <2>2
    <3> QED
      BY <2>2, <3>1
  <2> QED
    BY <2>1, <2>2
<1>8. Dropped = back \o first
  BY DEF Dropped
<1> HIDE DEF ahead, back, first
<1>9. /\ Dropped \in Seq(ItemID)
      /\ Len(Dropped) = Len(back) + Len(first)
      /\ \A i \in 1 .. Len(back) + Len(first) :
           Dropped[i] = IF i <= Len(back) THEN back[i] ELSE first[i - Len(back)]
  <2>1. back \in Seq(ItemID) /\ first \in Seq(ItemID)
    BY <1>6, <1>7
  <2>2. /\ back \o first \in Seq(ItemID)
        /\ Len(back \o first) = Len(back) + Len(first)
        /\ \A i \in 1 .. Len(back) + Len(first) :
             (back \o first)[i] = IF i <= Len(back) THEN back[i] ELSE first[i - Len(back)]
    BY <2>1, ConcatProperties
  <2> QED
    BY <1>8, <2>2
<1>10. ASSUME NEW k \in 1 .. Len(Dropped)
       PROVE  Dropped[k] \in Items(m_entries) /\ Dropped[k] \notin Items(Base)
  <2>1. CASE k <= Len(back)
    <3> DEFINE p == Len(m_entries) + 1 - k
    <3>1. p \in w + 1 .. Len(m_entries) /\ p \in 1 .. Len(m_entries) /\ Dropped[k] = m_entries[p]
      BY <1>1, <1>2, <1>6, <1>7, <1>9, <2>1
    <3> HIDE DEF p
    <3>2. ASSUME NEW j \in 1 .. Len(Base) PROVE Base[j] # m_entries[p]
      <4> DEFINE i == IF TossFirst THEN j + 1 ELSE j
      <4>1. i \in 1 .. w /\ Base[j] = m_entries[i]
        <5>1. CASE TossFirst
          BY <1>2, <1>3, <1>4, <5>1
        <5>2. CASE ~TossFirst
          BY <1>2, <1>4, <5>2
        <5> QED
          BY <5>1, <5>2
      <4> HIDE DEF i
      <4>2. i \in 1 .. Len(m_entries) /\ i < p
        BY <1>1, <1>2, <3>1, <4>1
      <4> QED
        BY <1>0, <3>1, <4>1, <4>2
    <3> QED
      BY <3>1, <3>2 DEF Items
  <2>2. CASE ~(k <= Len(back))
    <3>1. TossFirst /\ Dropped[k] = m_entries[1] /\ 1 \in 1 .. Len(m_entries)
      BY <1>1, <1>2, <1>3, <1>6, <1>7, <1>9, <2>2
    <3>2. ASSUME NEW j \in 1 .. Len(Base) PROVE Base[j] # m_entries[1]
      <4>1. j + 1 \in 1 .. Len(m_entries) /\ 1 < j + 1 /\ Base[j] = m_entries[j + 1]
        BY <1>1, <1>2, <1>4, <3>1
      <4> QED
        BY <1>0, <3>1, <4>1
    <3> QED
      BY <3>1, <3>2 DEF Items
  <2> QED
    BY <2>1, <2>2
<1>11. ASSUME NEW i \in 1 .. Len(m_entries), m_entries[i] \notin Items(Base)
       PROVE  m_entries[i] \in Items(Dropped)
  <2>1. CASE i > w
    <3> DEFINE k == Len(m_entries) + 1 - i
    <3>1. k \in 1 .. Len(Dropped) /\ k <= Len(back) /\ k \in 1 .. Len(m_entries) - w
          /\ Len(m_entries) + 1 - k = i
      BY <1>1, <1>2, <1>6, <1>7, <1>9, <2>1
    <3> HIDE DEF k
    <3>2. Dropped[k] = m_entries[i]
      BY <1>6, <1>7, <1>9, <3>1
    <3> QED
      BY <3>1, <3>2 DEF Items
  <2>2. CASE ~(i > w)
    <3>1. TossFirst
      <4> SUFFICES ASSUME ~TossFirst PROVE FALSE
        OBVIOUS
      <4>1. i \in 1 .. Len(Base) /\ Base[i] = m_entries[i]
        BY <1>2, <1>4, <2>2
      <4> QED
        BY <1>11, <4>1 DEF Items
    <3>2. i = 1
      <4> SUFFICES ASSUME i # 1 PROVE FALSE
        OBVIOUS
      <4>1. i - 1 \in 1 .. Len(Base) /\ Base[i - 1] = m_entries[(i - 1) + 1] /\ (i - 1) + 1 = i
        BY <1>2, <1>4, <2>2, <3>1
      <4> QED
        BY <1>11, <4>1 DEF Items
    <3>3. Len(back) + 1 \in 1 .. Len(Dropped) /\ Dropped[Len(back) + 1] = m_entries[1]
      <4>1. Len(first) = 1 /\ first[1] = m_entries[1] /\ Len(back) \in Nat
        BY <1>6, <1>7, <3>1
      <4>2. Len(back) + 1 \in 1 .. Len(back) + Len(first) /\ ~(Len(back) + 1 <= Len(back))
        BY <4>1
      <4>3. Dropped[Len(back) + 1] = first[Len(back) + 1 - Len(back)]
        BY <1>9, <4>2
      <4>4. Len(back) + 1 - Len(back) = 1
        BY <4>1
      <4> QED
        BY <1>9, <4>1, <4>2, <4>3, <4>4
    <3> QED
      BY <3>2, <3>3 DEF Items
  <2> QED
    BY <1>1, <1>2, <2>1, <2>2
<1> QED
  BY <1>9, <1>10, <1>11 DEF Items

-----------------------------------------------------------------------------
(* The invariant.                                                          *)

\* The empty list has no items.
LEMMA ItemsOfEmpty == Items(<< >>) = {}
<1>1. 1 .. Len(<< >>) = {}
  OBVIOUS
<1> QED
  BY <1>1 DEF Items

\* The invariant holds for the empty list of a new page.
LEMMA InitIInv == Init => IInv
<1> SUFFICES ASSUME Init PROVE IInv
  OBVIOUS
<1>1. TypeOK
  <2>1. m_entries \in Seq(ItemID)
    BY DEF Init
  <2>2. removed \in [ItemID -> Nat]
    BY DEF Init
  <2>3. m_currentIndex \in 0 .. m_capacity - 1
    BY CapacityAssumption DEF Init
  <2>4. m_page \in BOOLEAN /\ m_hasCurrentIndex \in BOOLEAN /\ added \subseteq ItemID
    BY DEF Init
  <2> QED
    BY <2>1, <2>2, <2>3, <2>4 DEF TypeOK
<1>2. Len(m_entries) = 0 /\ Items(m_entries) = {}
  BY ItemsOfEmpty DEF Init
<1> QED
  BY <1>1, <1>2, CapacityAssumption
  DEF Init, IInv, ListConsistent, Chronological, ItemConservation

\* addItem preserves the invariant.
LEMMA AddItemIInv ==
    ASSUME IInv, NEW item \in ItemID, AddItem(item)
    PROVE  IInv'
<1> USE ItemAssumption, CapacityAssumption
<1>1. PICK d \in {0, 1} :
        /\ \A i \in 1 .. Len(Base) : Base[i] = m_entries[i + d]
        /\ Len(Base) + d <= Len(m_entries)
  BY BaseIsStretch DEF IInv
<1>2. Base \in Seq(ItemID) /\ Len(Base) + 1 <= m_capacity /\ NewIndex = Len(Base)
  BY BaseIsStretch DEF IInv
<1>3. m_entries' = Append(Base, item)
  BY <1>2, InsertAtEnd DEF AddItem
<1>4. /\ m_entries' \in Seq(ItemID)
      /\ Len(m_entries') = Len(Base) + 1
      /\ \A i \in 1 .. Len(Base) : m_entries'[i] = Base[i]
      /\ m_entries'[Len(Base) + 1] = item
  BY <1>2, <1>3, AppendProperties
<1>5. m_entries \in Seq(ItemID) /\ Len(m_entries) \in Nat /\ Len(Base) \in Nat
  BY <1>2 DEF IInv, TypeOK
<1>6. Items(Base) \subseteq Items(m_entries)
  <2> SUFFICES ASSUME NEW k \in 1 .. Len(Base) PROVE Base[k] \in Items(m_entries)
    BY DEF Items
  <2>1. Base[k] = m_entries[k + d] /\ k + d \in 1 .. Len(m_entries)
    BY <1>1, <1>5
  <2> QED
    BY <2>1 DEF Items
<1>7. Items(m_entries') = Items(Base) \cup {item}
  BY <1>4, <1>5 DEF Items
<1>8. item \notin added
  BY DEF AddItem, Fresh, IInv, TypeOK
<1>9. TypeOK'
  BY <1>2, <1>4, <1>5 DEF IInv, TypeOK, AddItem, SendRemoved
<1>10. ListConsistent'
  BY <1>2, <1>4, <1>5 DEF AddItem, ListConsistent
<1>11. Chronological'
  <2>1. ASSUME NEW j \in 1 .. Len(m_entries'), NEW k \in 1 .. Len(m_entries'), j < k
        PROVE  m_entries'[j] < m_entries'[k]
    <3>1. j \in 1 .. Len(Base) /\ m_entries'[j] = m_entries[j + d] /\ j + d \in 1 .. Len(m_entries)
      BY <1>1, <1>4, <1>5, <2>1
    <3>2. CASE k \in 1 .. Len(Base)
      <4>1. m_entries'[k] = m_entries[k + d] /\ k + d \in 1 .. Len(m_entries) /\ j + d < k + d
        BY <1>1, <1>4, <1>5, <2>1, <3>2
      <4> QED
        BY <3>1, <4>1 DEF IInv, Chronological
    <3>3. CASE k = Len(Base) + 1
      <4>1. m_entries[j + d] \in added
        BY <3>1 DEF IInv, Chronological, Items
      <4> QED
        BY <1>4, <3>1, <3>3, <4>1 DEF AddItem, Fresh
    <3> QED
      BY <1>4, <1>5, <3>2, <3>3
  <2>2. Items(m_entries') \subseteq added'
    BY <1>6, <1>7 DEF IInv, Chronological, AddItem
  <2>3. Items(m_entries)' = Items(m_entries')
    BY DEF Items
  <2> QED
    BY <2>1, <2>2, <2>3 DEF Chronological
<1>12. ItemConservation'
  <2>1. Items(m_entries)' = Items(Base) \cup {item}
    BY <1>7 DEF Items
  <2>2. ASSUME NEW i \in ItemID
        PROVE  removed'[i] = IF i \in added' /\ i \notin Items(m_entries)' THEN 1 ELSE 0
    <3>1. removed'[i] = IF i \in Items(m_entries) \ Items(Base) THEN removed[i] + 1 ELSE removed[i]
      BY DroppedIsRest DEF IInv, AddItem, SendRemoved
    <3>2. removed[i] = IF i \in added /\ i \notin Items(m_entries) THEN 1 ELSE 0
      BY DEF IInv, ItemConservation
    <3>3. added' = added \cup {item} /\ Items(m_entries) \subseteq added
      BY DEF AddItem, IInv, Chronological
    <3> QED
      BY <1>6, <1>8, <2>1, <3>1, <3>2, <3>3
  <2> QED
    BY <2>2 DEF ItemConservation
<1> QED
  BY <1>9, <1>10, <1>11, <1>12 DEF IInv

\* goToItem preserves the invariant.
LEMMA GoToItemIInv ==
    ASSUME IInv, NEW item \in ItemID, GoToItem(item)
    PROVE  IInv'
<1>1. PICK index \in 0 .. Len(m_entries) - 1 : m_currentIndex' = index
  BY DEF GoToItem
<1>2. m_entries \in Seq(ItemID) /\ Len(m_entries) \in Nat
  BY DEF IInv, TypeOK
<1>3. TypeOK'
  <2>1. m_currentIndex' \in 0 .. m_capacity - 1
    BY <1>1, <1>2, CapacityAssumption DEF IInv, ListConsistent
  <2> QED
    BY <2>1 DEF IInv, TypeOK, GoToItem
<1>4. ListConsistent'
  BY <1>1, <1>2 DEF IInv, ListConsistent, GoToItem
<1>5. Chronological' /\ ItemConservation'
  BY DEF IInv, Chronological, ItemConservation, Items, GoToItem
<1> QED
  BY <1>3, <1>4, <1>5 DEF IInv

\* clear preserves the invariant.
LEMMA ClearIInv ==
    ASSUME IInv, Clear
    PROVE  IInv'
<1> DEFINE item == m_entries[m_currentIndex + 1]
<1>1. m_entries \in Seq(ItemID) /\ Len(m_entries) \in Nat /\ m_currentIndex + 1 \in 1 .. Len(m_entries)
  BY DEF IInv, TypeOK, ListConsistent, Clear
<1>2. item \in ItemID /\ item \in Items(m_entries)
  BY <1>1 DEF Items
<1>3. m_entries' = <<item>> /\ Items(m_entries)' = {item}
  BY DEF Clear, Items
<1> HIDE DEF item
<1>4. TypeOK'
  <2>1. m_entries' \in Seq(ItemID) /\ m_currentIndex' \in 0 .. m_capacity - 1
    BY <1>2, <1>3, CapacityAssumption DEF Clear
  <2> QED
    BY <2>1 DEF IInv, TypeOK, Clear, SendRemoved
<1>5. ListConsistent'
  BY <1>3, CapacityAssumption DEF IInv, ListConsistent, Clear
<1>6. Chronological'
  BY <1>2, <1>3 DEF IInv, Chronological, Clear
<1>7. ItemConservation'
  <2>1. removed' = [i \in ItemID |->
                      IF i \in Items(m_entries) \ {item} THEN removed[i] + 1 ELSE removed[i]]
    BY DEF Clear, SendRemoved, item
  <2>2. added' = added
    BY DEF Clear
  <2> QED
    BY <1>2, <1>3, <2>1, <2>2 DEF IInv, Chronological, ItemConservation
<1> QED
  BY <1>4, <1>5, <1>6, <1>7 DEF IInv

\* pageClosed preserves the invariant.
LEMMA PageClosedIInv ==
    ASSUME IInv, PageClosed
    PROVE  IInv'
<1>1. m_entries' = << >> /\ Items(m_entries)' = {}
  BY ItemsOfEmpty DEF PageClosed, Items
<1>2. TypeOK'
  <2>1. m_entries' \in Seq(ItemID)
    BY <1>1
  <2>2. removed' \in [ItemID -> Nat]
    BY DEF IInv, TypeOK, PageClosed, SendRemoved
  <2> QED
    BY <2>1, <2>2 DEF IInv, TypeOK, PageClosed
<1>3. ListConsistent'
  BY <1>1, CapacityAssumption DEF PageClosed, ListConsistent
<1>4. Chronological'
  BY <1>1 DEF Chronological
<1>5. ItemConservation'
  BY <1>1 DEF IInv, Chronological, ItemConservation, PageClosed, SendRemoved
<1> QED
  BY <1>2, <1>3, <1>4, <1>5 DEF IInv

\* Every step preserves the invariant.
LEMMA NextIInv == IInv /\ [Next]_vars => IInv'
<1> SUFFICES ASSUME IInv, [Next]_vars PROVE IInv'
  OBVIOUS
<1>1. ASSUME NEW item \in ItemID, AddItem(item) PROVE IInv'
  BY <1>1, AddItemIInv
<1>2. ASSUME NEW item \in ItemID, GoToItem(item) PROVE IInv'
  BY <1>2, GoToItemIInv
<1>3. CASE Clear
  BY <1>3, ClearIInv
<1>4. CASE PageClosed
  BY <1>4, PageClosedIInv
<1>5. CASE UNCHANGED vars
  BY <1>5 DEF vars, IInv, TypeOK, ListConsistent, Chronological, ItemConservation, Items
<1> QED
  BY <1>1, <1>2, <1>3, <1>4, <1>5 DEF Next

\* The list invariant holds in every reachable state, for every capacity.
THEOREM ListInvariance == Spec => []IInv
<1> QED
  BY InitIInv, NextIInv, PTL DEF Spec

\* Type correctness of the list, with the bound of the current index.
THEOREM ListTypeCorrect == Spec => []TypeOK
<1>1. IInv => TypeOK
  BY DEF IInv
<1> QED
  BY <1>1, ListInvariance, PTL

\* The assertions in WebBackForwardList.cpp never fail.
THEOREM AssertionsHold == Spec => []ListConsistent
<1>1. IInv => ListConsistent
  BY DEF IInv
<1> QED
  BY <1>1, ListInvariance, PTL

\* The list stays in the order of the visits, without repetition.
THEOREM OrderOfVisits == Spec => []Chronological
<1>1. IInv => Chronological
  BY DEF IInv
<1> QED
  BY <1>1, ListInvariance, PTL

\* Each item is reported to the web process once, when it leaves the list.
THEOREM RemovedOnce == Spec => []ItemConservation
<1>1. IInv => ItemConservation
  BY DEF IInv
<1> QED
  BY <1>1, ListInvariance, PTL

\* No addition and no clear drops the item of the page on display.
THEOREM CurrentItemKept == Spec => CurrentKept
<1> DEFINE Kept == m_hasCurrentIndex /\ m_page' /\ m_capacity > 1
                     => m_entries[m_currentIndex + 1] \in Items(m_entries')
<1> USE CapacityAssumption
<1>1. IInv /\ [Next]_vars => [Kept]_vars
  <2> SUFFICES ASSUME IInv, Next, m_hasCurrentIndex, m_page', m_capacity > 1
               PROVE  m_entries[m_currentIndex + 1] \in Items(m_entries')
    OBVIOUS
  <2>1. m_entries \in Seq(ItemID) /\ m_currentIndex + 1 \in 1 .. Len(m_entries)
    BY DEF IInv, TypeOK, ListConsistent
  <2>2. ASSUME NEW item \in ItemID, AddItem(item)
        PROVE  m_entries[m_currentIndex + 1] \in Items(m_entries')
    <3>1. PICK d \in {0, 1} :
            /\ \A i \in 1 .. Len(Base) : Base[i] = m_entries[i + d]
            /\ Len(Base) + d = m_currentIndex + 1
            /\ d = 1 => Len(Base) + 1 = m_capacity
      BY BaseIsStretch DEF IInv
    <3>2. Base \in Seq(ItemID) /\ NewIndex = Len(Base)
      BY BaseIsStretch DEF IInv
    <3>3. m_entries' = Append(Base, item)
      BY <2>2, <3>2, InsertAtEnd DEF AddItem
    <3>4. /\ Len(m_entries') = Len(Base) + 1
          /\ \A i \in 1 .. Len(Base) : m_entries'[i] = Base[i]
      BY <3>2, <3>3, AppendProperties
    <3>5. Len(Base) \in Nat /\ Len(Base) >= 1
      BY <2>1, <3>1, <3>2
    <3>6. m_entries'[Len(Base)] = m_entries[m_currentIndex + 1]
      BY <3>1, <3>4, <3>5
    <3> QED
      BY <3>4, <3>5, <3>6 DEF Items
  <2>3. ASSUME m_entries' = m_entries
        PROVE  m_entries[m_currentIndex + 1] \in Items(m_entries')
    BY <2>1, <2>3 DEF Items
  <2>4. ASSUME m_entries' = <<m_entries[m_currentIndex + 1]>>
        PROVE  m_entries[m_currentIndex + 1] \in Items(m_entries')
    BY <2>4 DEF Items
  <2> QED
    BY <2>2, <2>3, <2>4 DEF Next, GoToItem, Clear, PageClosed
<1> QED
  BY <1>1, ListInvariance, PTL DEF Spec, CurrentKept

-----------------------------------------------------------------------------
(* The list implements BackForward.                                        *)

\* The three parts of the list as the user sees it, with a page on display.
LEMMA Parts ==
    ASSUME IInv, m_hasCurrentIndex
    PROVE  /\ m_entries \in Seq(ItemID) /\ Len(m_entries) \in Nat
           /\ m_currentIndex \in Nat /\ m_currentIndex + 1 \in 1 .. Len(m_entries)
           /\ Len(m_entries) <= m_capacity
           /\ m_entries[m_currentIndex + 1] \in ItemID
           /\ backListCount = m_currentIndex
           /\ currentItem = m_entries[m_currentIndex + 1]
           /\ Len(m_entries) - forwardListCount + 1 = m_currentIndex + 2
<1>1. m_entries \in Seq(ItemID) /\ Len(m_entries) \in Nat /\ m_currentIndex \in Nat
  BY DEF IInv, TypeOK
<1>2. m_currentIndex + 1 \in 1 .. Len(m_entries) /\ Len(m_entries) <= m_capacity /\ m_page
  BY <1>1 DEF IInv, TypeOK, ListConsistent
<1>3. m_entries[m_currentIndex + 1] \in ItemID
  BY <1>1, <1>2
<1>4. /\ backListCount = m_currentIndex
      /\ currentItem = m_entries[m_currentIndex + 1]
  BY <1>2 DEF backListCount, currentItem
<1>5. forwardListCount = Len(m_entries) - (m_currentIndex + 1)
  BY <1>2 DEF forwardListCount
<1> QED
  BY <1>1, <1>2, <1>3, <1>4, <1>5

\* Without a page on display all three parts are empty.
LEMMA NoParts ==
    ASSUME ListConsistent, ~m_hasCurrentIndex
    PROVE  /\ SubSeq(m_entries, 1, backListCount) = << >>
           /\ currentItem = NoItem
           /\ SubSeq(m_entries, Len(m_entries) - forwardListCount + 1, Len(m_entries)) = << >>
<1>1. m_entries = << >> /\ Len(m_entries) = 0
  BY DEF ListConsistent
<1>2. backListCount = 0 /\ forwardListCount = 0 /\ currentItem = NoItem
  BY DEF backListCount, forwardListCount, currentItem
<1>3. SubSeq(m_entries, 1, 0) = << >>
  BY SubSeqEmpty
<1> QED
  BY <1>1, <1>2, <1>3

\* What addItem keeps is what BackForward keeps behind a new page: the pages
\* behind the displayed one and that one itself, without the oldest if there are
\* too many.
LEMMA BaseIsLastN ==
    ASSUME IInv
    PROVE  Base = Abstract!LastN(IF currentItem = NoItem THEN << >>
                                 ELSE Append(SubSeq(m_entries, 1, backListCount), currentItem),
                                 m_capacity - 1)
<1> USE CapacityAssumption
<1>1. CASE ~m_hasCurrentIndex
  <2>1. Base = << >>
    BY <1>1 DEF Base, TossFirst, WithoutForward
  <2>2. currentItem = NoItem
    BY <1>1 DEF currentItem
  <2>3. Abstract!LastN(<< >>, m_capacity - 1) = << >>
    BY DEF Abstract!LastN
  <2> QED
    BY <2>1, <2>2, <2>3
<1>2. CASE m_hasCurrentIndex
  <2> DEFINE kept == SubSeq(m_entries, 1, m_currentIndex + 1)
  <2>1. /\ m_entries \in Seq(ItemID) /\ Len(m_entries) \in Nat
        /\ m_currentIndex \in Nat /\ m_currentIndex + 1 \in 1 .. Len(m_entries)
        /\ Len(m_entries) <= m_capacity
        /\ m_entries[m_currentIndex + 1] \in ItemID
        /\ backListCount = m_currentIndex
        /\ currentItem = m_entries[m_currentIndex + 1]
    BY <1>2, Parts
  <2>2. currentItem # NoItem
    BY <2>1, ItemAssumption DEF NoItem
  <2>3. kept \in Seq(ItemID) /\ Len(kept) = m_currentIndex + 1
    <3>1. 1 \in 1 .. Len(m_entries) + 1 /\ m_currentIndex + 1 \in 1 - 1 .. Len(m_entries)
      BY <2>1
    <3> HIDE DEF kept
    <3>2. /\ kept \in Seq(ItemID)
          /\ Len(kept) = (m_currentIndex + 1) - 1 + 1
      BY <2>1, <3>1, Stretch DEF kept
    <3> QED
      BY <2>1, <3>2
  <2>4. kept = Append(SubSeq(m_entries, 1, m_currentIndex), m_entries[m_currentIndex + 1])
    <3>1. kept = SubSeq(m_entries, 1, (m_currentIndex + 1) - 1) \o <<m_entries[m_currentIndex + 1]>>
      BY <2>1, SubSeqRecursiveSecond
    <3>2. (m_currentIndex + 1) - 1 = m_currentIndex
      BY <2>1
    <3>3. SubSeq(m_entries, 1, m_currentIndex) \in Seq(ItemID)
      BY <2>1, Stretch
    <3> QED
      BY <2>1, <3>1, <3>2, <3>3, AppendIsConcat
  <2>5. WithoutForward = kept
    BY <1>2 DEF WithoutForward
  <2> HIDE DEF kept
  <2>6. Base = Abstract!LastN(kept, m_capacity - 1)
    <3>1. CASE Len(kept) = m_capacity
      <4>1. TossFirst
        BY <1>2, <2>1, <2>3, <2>5, <3>1 DEF TossFirst
      <4>2. Base = Tail(kept)
        BY <2>5, <4>1 DEF Base
      <4>3. kept # << >>
        BY <2>1, <2>3
      <4>4. Tail(kept) = SubSeq(kept, 2, Len(kept))
        BY <2>3, <4>3, TailIsSubSeq
      <4>5. ~(Len(kept) <= m_capacity - 1) /\ Len(kept) - (m_capacity - 1) + 1 = 2
        BY <3>1
      <4> QED
        BY <4>2, <4>4, <4>5 DEF Abstract!LastN
    <3>2. CASE Len(kept) # m_capacity
      <4>1. Base = kept
        BY <2>5, <3>2 DEF Base, TossFirst
      <4>2. Len(kept) <= m_capacity - 1
        BY <2>1, <2>3, <3>2
      <4> QED
        BY <4>1, <4>2 DEF Abstract!LastN
    <3> QED
      BY <3>1, <3>2
  <2> QED
    BY <2>1, <2>2, <2>4, <2>6
<1> QED
  BY <1>1, <1>2

\* addItem displays a new page.
LEMMA AddItemVisits ==
    ASSUME IInv, NEW item \in ItemID, AddItem(item)
    PROVE  Abstract!Visit(item)
<1>1. /\ Base \in Seq(ItemID)
      /\ NewIndex = Len(Base)
  BY BaseIsStretch DEF IInv
<1>2. m_entries' = Append(Base, item)
  BY <1>1, InsertAtEnd DEF AddItem
<1>3. /\ m_entries' \in Seq(ItemID)
      /\ Len(m_entries') = Len(Base) + 1
      /\ \A i \in 1 .. Len(Base) : m_entries'[i] = Base[i]
      /\ m_entries'[Len(Base) + 1] = item
  BY <1>1, <1>2, AppendProperties
<1>4. m_page' /\ m_hasCurrentIndex' /\ m_currentIndex' = Len(Base) /\ Len(Base) \in Nat
  BY <1>1 DEF AddItem
<1>5. /\ backListCount' = Len(Base)
      /\ currentItem' = item
      /\ forwardListCount' = 0
  BY <1>3, <1>4 DEF backListCount, currentItem, forwardListCount
<1>6. SubSeq(m_entries', 1, Len(Base)) = Base
  <2>1. SubSeq(m_entries', 1, Len(Base)) \in Seq(ItemID)
    BY <1>3, <1>4, Stretch
  <2>2. /\ Len(SubSeq(m_entries', 1, Len(Base))) = Len(Base) - 1 + 1
        /\ \A i \in 1 .. Len(Base) - 1 + 1 : SubSeq(m_entries', 1, Len(Base))[i] = m_entries'[1 + i - 1]
    BY <1>3, <1>4, Stretch
  <2>3. \A i \in 1 .. Len(Base) : SubSeq(m_entries', 1, Len(Base))[i] = Base[i]
    BY <1>3, <1>4, <2>2
  <2>4. Len(SubSeq(m_entries', 1, Len(Base))) = Len(Base)
    BY <1>4, <2>2
  <2> HIDE DEF Base
  <2> QED
    BY <1>1, <2>1, <2>3, <2>4, SeqEqual
<1>7. SubSeq(m_entries', Len(m_entries') - 0 + 1, Len(m_entries')) = << >>
  BY <1>3, <1>4, SubSeqEmpty
<1>8. (SubSeq(m_entries, 1, backListCount))' = Base
  BY <1>5, <1>6
<1>9. (SubSeq(m_entries, Len(m_entries) - forwardListCount + 1, Len(m_entries)))' = << >>
  BY <1>5, <1>7
<1> QED
  BY <1>5, <1>8, <1>9, BaseIsLastN DEF Abstract!Visit

\* The lists behind and before a position of a sequence, seen from another one.
LEMMA MoveBack ==
    ASSUME NEW S, NEW s \in Seq(S), NEW x \in Nat, x < Len(s), NEW k \in 0 .. x - 1
    PROVE  /\ SubSeq(SubSeq(s, 1, x), 1, k) = SubSeq(s, 1, k)
           /\ SubSeq(s, 1, x)[k + 1] = s[k + 1]
           /\ SubSeq(SubSeq(s, 1, x), k + 2, x) \o <<s[x + 1]>> \o SubSeq(s, x + 2, Len(s))
                = SubSeq(s, k + 2, Len(s))
<1> DEFINE b == SubSeq(s, 1, x)
<1>0. Len(s) \in Nat
  OBVIOUS
<1>1. /\ b \in Seq(S) /\ Len(b) = x
      /\ \A i \in 1 .. x : b[i] = s[i]
  <2>1. /\ b \in Seq(S) /\ Len(b) = x - 1 + 1
        /\ \A i \in 1 .. x - 1 + 1 : b[i] = s[1 + i - 1]
    <3>1. 1 \in 1 .. Len(s) + 1 /\ x \in 1 - 1 .. Len(s)
      BY <1>0
    <3> HIDE DEF b
    <3> QED
      BY <3>1, Stretch DEF b
  <2> HIDE DEF b
  <2> QED
    BY <2>1
<1> HIDE DEF b
<1>2. SubSeq(b, 1, k) = SubSeq(s, 1, k)
  <2>1. /\ SubSeq(b, 1, k) \in Seq(S) /\ Len(SubSeq(b, 1, k)) = k - 1 + 1
        /\ \A i \in 1 .. k - 1 + 1 : SubSeq(b, 1, k)[i] = b[1 + i - 1]
    BY <1>0, <1>1, Stretch
  <2>2. /\ SubSeq(s, 1, k) \in Seq(S) /\ Len(SubSeq(s, 1, k)) = k - 1 + 1
        /\ \A i \in 1 .. k - 1 + 1 : SubSeq(s, 1, k)[i] = s[1 + i - 1]
    BY <1>0, Stretch
  <2>3. \A i \in 1 .. Len(SubSeq(b, 1, k)) : SubSeq(b, 1, k)[i] = SubSeq(s, 1, k)[i]
    BY <1>0, <1>1, <2>1, <2>2
  <2>4. Len(SubSeq(b, 1, k)) = Len(SubSeq(s, 1, k))
    BY <2>1, <2>2
  <2> QED
    BY <2>1, <2>2, <2>3, <2>4, SeqEqual
<1>3. SubSeq(b, k + 2, x) = SubSeq(s, k + 2, x)
  <2>1. /\ SubSeq(b, k + 2, x) \in Seq(S) /\ Len(SubSeq(b, k + 2, x)) = x - (k + 2) + 1
        /\ \A i \in 1 .. x - (k + 2) + 1 : SubSeq(b, k + 2, x)[i] = b[k + 2 + i - 1]
    BY <1>0, <1>1, Stretch
  <2>2. /\ SubSeq(s, k + 2, x) \in Seq(S) /\ Len(SubSeq(s, k + 2, x)) = x - (k + 2) + 1
        /\ \A i \in 1 .. x - (k + 2) + 1 : SubSeq(s, k + 2, x)[i] = s[k + 2 + i - 1]
    BY <1>0, Stretch
  <2>3. \A i \in 1 .. Len(SubSeq(b, k + 2, x)) : SubSeq(b, k + 2, x)[i] = SubSeq(s, k + 2, x)[i]
    <3>1. \A i \in 1 .. x - (k + 2) + 1 : b[k + 2 + i - 1] = s[k + 2 + i - 1]
      BY <1>0, <1>1
    <3> QED
      BY <2>1, <2>2, <3>1
  <2>4. Len(SubSeq(b, k + 2, x)) = Len(SubSeq(s, k + 2, x))
    BY <2>1, <2>2
  <2> QED
    BY <2>1, <2>2, <2>3, <2>4, SeqEqual
<1>4. SubSeq(s, k + 2, x) \o <<s[x + 1]>> = SubSeq(s, k + 2, x + 1)
  <2>1. SubSeq(s, k + 2, x + 1) = SubSeq(s, k + 2, (x + 1) - 1) \o <<s[x + 1]>>
    BY <1>0, SubSeqRecursiveSecond
  <2>2. (x + 1) - 1 = x
    OBVIOUS
  <2> QED
    BY <2>1, <2>2
<1>5. SubSeq(s, k + 2, x + 1) \o SubSeq(s, (x + 1) + 1, Len(s)) = SubSeq(s, k + 2, Len(s))
  <2>1. /\ k + 2 \in 1 .. Len(s) + 1
        /\ x + 1 \in (k + 2) - 1 .. Len(s)
        /\ Len(s) \in x + 1 .. Len(s)
    BY <1>0
  <2> QED
    BY <2>1, ConcatAdjacentSubSeq
<1>6. (x + 1) + 1 = x + 2
  OBVIOUS
<1>7. b[k + 1] = s[k + 1]
  BY <1>1
<1> QED
  BY <1>2, <1>3, <1>4, <1>5, <1>6, <1>7 DEF b

\* The same from an earlier position.
LEMMA MoveForward ==
    ASSUME NEW S, NEW s \in Seq(S), NEW x \in Nat, NEW n \in 1 .. Len(s) - (x + 1), x < Len(s)
    PROVE  /\ SubSeq(s, 1, x) \o <<s[x + 1]>> \o SubSeq(SubSeq(s, x + 2, Len(s)), 1, n - 1)
                = SubSeq(s, 1, x + n)
           /\ Len(SubSeq(s, x + 2, Len(s))) = Len(s) - (x + 1)
           /\ SubSeq(s, x + 2, Len(s))[n] = s[x + n + 1]
           /\ SubSeq(SubSeq(s, x + 2, Len(s)), n + 1, Len(SubSeq(s, x + 2, Len(s))))
                = SubSeq(s, x + n + 2, Len(s))
<1> DEFINE f == SubSeq(s, x + 2, Len(s))
<1>0. Len(s) \in Nat
  OBVIOUS
<1>1. /\ f \in Seq(S) /\ Len(f) = Len(s) - (x + 1)
      /\ \A i \in 1 .. Len(s) - (x + 1) : f[i] = s[x + i + 1]
  <2>1. /\ f \in Seq(S) /\ Len(f) = Len(s) - (x + 2) + 1
        /\ \A i \in 1 .. Len(s) - (x + 2) + 1 : f[i] = s[x + 2 + i - 1]
    <3>1. x + 2 \in 1 .. Len(s) + 1 /\ Len(s) \in (x + 2) - 1 .. Len(s)
      BY <1>0
    <3> HIDE DEF f
    <3> QED
      BY <3>1, Stretch DEF f
  <2> HIDE DEF f
  <2>2. \A i \in 1 .. Len(s) - (x + 1) : x + 2 + i - 1 = x + i + 1
    BY <1>0
  <2> QED
    BY <1>0, <2>1, <2>2
<1> HIDE DEF f
<1>2. SubSeq(f, 1, n - 1) = SubSeq(s, x + 2, x + n)
  <2>1. /\ SubSeq(f, 1, n - 1) \in Seq(S) /\ Len(SubSeq(f, 1, n - 1)) = (n - 1) - 1 + 1
        /\ \A i \in 1 .. (n - 1) - 1 + 1 : SubSeq(f, 1, n - 1)[i] = f[1 + i - 1]
    BY <1>0, <1>1, Stretch
  <2>2. /\ SubSeq(s, x + 2, x + n) \in Seq(S) /\ Len(SubSeq(s, x + 2, x + n)) = (x + n) - (x + 2) + 1
        /\ \A i \in 1 .. (x + n) - (x + 2) + 1 : SubSeq(s, x + 2, x + n)[i] = s[x + 2 + i - 1]
    BY <1>0, Stretch
  <2>3. \A i \in 1 .. Len(SubSeq(f, 1, n - 1)) : SubSeq(f, 1, n - 1)[i] = SubSeq(s, x + 2, x + n)[i]
    BY <1>0, <1>1, <2>1, <2>2
  <2>4. Len(SubSeq(f, 1, n - 1)) = Len(SubSeq(s, x + 2, x + n))
    BY <2>1, <2>2
  <2> QED
    BY <2>1, <2>2, <2>3, <2>4, SeqEqual
<1>3. SubSeq(f, n + 1, Len(f)) = SubSeq(s, x + n + 2, Len(s))
  <2>1. /\ SubSeq(f, n + 1, Len(f)) \in Seq(S) /\ Len(SubSeq(f, n + 1, Len(f))) = Len(f) - (n + 1) + 1
        /\ \A i \in 1 .. Len(f) - (n + 1) + 1 : SubSeq(f, n + 1, Len(f))[i] = f[n + 1 + i - 1]
    <3>1. n + 1 \in 1 .. Len(f) + 1 /\ Len(f) \in (n + 1) - 1 .. Len(f)
      BY <1>0, <1>1
    <3> QED
      BY <1>1, <3>1, Stretch
  <2>2. /\ SubSeq(s, x + n + 2, Len(s)) \in Seq(S)
        /\ Len(SubSeq(s, x + n + 2, Len(s))) = Len(s) - (x + n + 2) + 1
        /\ \A i \in 1 .. Len(s) - (x + n + 2) + 1 : SubSeq(s, x + n + 2, Len(s))[i] = s[x + n + 2 + i - 1]
    BY <1>0, Stretch
  <2>3. \A i \in 1 .. Len(SubSeq(f, n + 1, Len(f))) :
          SubSeq(f, n + 1, Len(f))[i] = SubSeq(s, x + n + 2, Len(s))[i]
    BY <1>0, <1>1, <2>1, <2>2
  <2>4. Len(SubSeq(f, n + 1, Len(f))) = Len(SubSeq(s, x + n + 2, Len(s)))
    BY <1>0, <1>1, <2>1, <2>2
  <2> QED
    BY <2>1, <2>2, <2>3, <2>4, SeqEqual
<1>4. SubSeq(s, 1, x) \o <<s[x + 1]>> = SubSeq(s, 1, x + 1)
  <2>1. SubSeq(s, 1, x + 1) = SubSeq(s, 1, (x + 1) - 1) \o <<s[x + 1]>>
    BY <1>0, SubSeqRecursiveSecond
  <2>2. (x + 1) - 1 = x
    OBVIOUS
  <2> QED
    BY <2>1, <2>2
<1>5. SubSeq(s, 1, x + 1) \o SubSeq(s, (x + 1) + 1, x + n) = SubSeq(s, 1, x + n)
  BY <1>0, ConcatAdjacentSubSeq
<1>6. (x + 1) + 1 = x + 2 /\ f[n] = s[x + n + 1]
  BY <1>1
<1> QED
  BY <1>1, <1>2, <1>3, <1>4, <1>5, <1>6 DEF f

\* goToItem goes back or forward, or stays.
LEMMA GoToItemMoves ==
    ASSUME IInv, NEW item \in ItemID, GoToItem(item)
    PROVE  \/ \E n \in 1 .. m_capacity : Abstract!Back(n) \/ Abstract!Forward(n)
           \/ UNCHANGED Abstract!history
<1> DEFINE x == m_currentIndex
           L == Len(m_entries)
<1>1. /\ m_entries \in Seq(ItemID) /\ L \in Nat
      /\ x \in Nat /\ x + 1 \in 1 .. L
      /\ L <= m_capacity
      /\ backListCount = x
      /\ currentItem = m_entries[x + 1]
      /\ L - forwardListCount + 1 = x + 2
  BY Parts DEF GoToItem
<1>2. PICK index \in 0 .. L - 1 : m_currentIndex' = index
  BY DEF GoToItem
<1>3. m_entries' = m_entries /\ m_page' /\ m_hasCurrentIndex'
  BY DEF GoToItem
<1>4. /\ backListCount' = index
      /\ currentItem' = m_entries[index + 1]
      /\ forwardListCount' = L - (index + 1)
  BY <1>2, <1>3 DEF backListCount, currentItem, forwardListCount
<1>5. L - forwardListCount' + 1 = index + 2
  BY <1>1, <1>2, <1>4
<1>6. /\ (SubSeq(m_entries, 1, backListCount))' = SubSeq(m_entries, 1, index)
      /\ (SubSeq(m_entries, Len(m_entries) - forwardListCount + 1, Len(m_entries)))'
           = SubSeq(m_entries, index + 2, L)
  BY <1>3, <1>4, <1>5
<1>7. Len(SubSeq(m_entries, 1, x)) = x
  <2>1. Len(SubSeq(m_entries, 1, x)) = x - 1 + 1
    BY <1>1, Stretch
  <2> QED
    BY <1>1, <2>1
<1> USE CapacityAssumption
<1>8. CASE index < x
  <2> DEFINE n == x - index
  <2>1. n \in 1 .. x /\ n \in 1 .. m_capacity /\ x - n = index
    BY <1>1, <1>2, <1>8
  <2>2. x < Len(m_entries) /\ index \in 0 .. x - 1
    BY <1>1, <1>2, <1>8
  <2>3. /\ SubSeq(SubSeq(m_entries, 1, x), 1, index) = SubSeq(m_entries, 1, index)
        /\ SubSeq(m_entries, 1, x)[index + 1] = m_entries[index + 1]
        /\ SubSeq(SubSeq(m_entries, 1, x), index + 2, x) \o <<m_entries[x + 1]>>
             \o SubSeq(m_entries, x + 2, Len(m_entries))
           = SubSeq(m_entries, index + 2, Len(m_entries))
    BY <1>1, <2>2, MoveBack
  <2> HIDE DEF n
  <2>4. Abstract!Back(n)
    BY <1>1, <1>4, <1>6, <1>7, <2>1, <2>3 DEF Abstract!Back
  <2> QED
    BY <2>1, <2>4
<1>9. CASE index = x
  BY <1>1, <1>4, <1>6, <1>9 DEF Abstract!history
<1>10. CASE index > x
  <2> DEFINE n == index - x
  <2>1. n \in 1 .. L - (x + 1) /\ n \in 1 .. m_capacity /\ x + n = index /\ x < Len(m_entries)
    BY <1>1, <1>2, <1>10
  <2> HIDE DEF n
  <2>2. /\ SubSeq(m_entries, 1, x) \o <<m_entries[x + 1]>>
             \o SubSeq(SubSeq(m_entries, x + 2, Len(m_entries)), 1, n - 1)
           = SubSeq(m_entries, 1, x + n)
        /\ Len(SubSeq(m_entries, x + 2, Len(m_entries))) = Len(m_entries) - (x + 1)
        /\ SubSeq(m_entries, x + 2, Len(m_entries))[n] = m_entries[x + n + 1]
        /\ SubSeq(SubSeq(m_entries, x + 2, Len(m_entries)), n + 1,
                  Len(SubSeq(m_entries, x + 2, Len(m_entries))))
           = SubSeq(m_entries, x + n + 2, Len(m_entries))
    BY <1>1, <2>1, MoveForward
  <2>3. Abstract!Forward(n)
    BY <1>1, <1>4, <1>6, <2>1, <2>2 DEF Abstract!Forward
  <2> QED
    BY <2>1, <2>3
<1> QED
  BY <1>1, <1>2, <1>8, <1>9, <1>10

\* clear forgets everything but the displayed page.
LEMMA ClearForgets ==
    ASSUME IInv, Clear
    PROVE  Abstract!Forget
<1>1. /\ m_entries' = <<m_entries[m_currentIndex + 1]>> /\ m_currentIndex' = 0
      /\ m_page /\ m_page' /\ m_hasCurrentIndex /\ m_hasCurrentIndex'
  BY DEF Clear
<1>2. /\ backListCount' = 0
      /\ forwardListCount' = 0
      /\ currentItem' = currentItem
      /\ Len(m_entries') = 1
  BY <1>1 DEF backListCount, forwardListCount, currentItem
<1>3. SubSeq(m_entries', 1, 0) = << >> /\ SubSeq(m_entries', 1 - 0 + 1, 1) = << >>
  BY SubSeqEmpty
<1> QED
  BY <1>2, <1>3 DEF Abstract!Forget

\* pageClosed leaves the page.
LEMMA PageClosedLeaves ==
    ASSUME PageClosed
    PROVE  Abstract!Leave
<1>1. m_entries' = << >> /\ ~m_page'
  BY DEF PageClosed
<1>2. backListCount' = 0 /\ forwardListCount' = 0 /\ currentItem' = NoItem /\ Len(m_entries') = 0
  BY <1>1 DEF backListCount, forwardListCount, currentItem
<1>3. SubSeq(m_entries', 1, 0) = << >> /\ SubSeq(m_entries', 0 - 0 + 1, 0) = << >>
  BY SubSeqEmpty
<1> QED
  BY <1>2, <1>3 DEF Abstract!Leave

\* WebBackForwardList implements the back/forward history: for every capacity and
\* every set of identifiers, each of its operations is one step of the user's view
\* of the history, or none.
THEOREM ListIsHistory == Spec => ImplementsHistory
<1>1. Init => Abstract!Start
  <2> SUFFICES ASSUME Init PROVE Abstract!Start
    OBVIOUS
  <2>1. ListConsistent /\ ~m_hasCurrentIndex
    BY InitIInv DEF IInv, Init
  <2> QED
    BY <2>1, NoParts DEF Abstract!Start
<1>2. IInv /\ [Next]_vars => [Abstract!Step]_Abstract!history
  <2> SUFFICES ASSUME IInv, [Next]_vars PROVE [Abstract!Step]_Abstract!history
    OBVIOUS
  <2>1. ASSUME NEW item \in ItemID, AddItem(item) PROVE Abstract!Step
    BY <2>1, AddItemVisits DEF Abstract!Step
  <2>2. ASSUME NEW item \in ItemID, GoToItem(item) PROVE [Abstract!Step]_Abstract!history
    BY <2>2, GoToItemMoves DEF Abstract!Step
  <2>3. CASE Clear
    BY <2>3, ClearForgets DEF Abstract!Step
  <2>4. CASE PageClosed
    BY <2>4, PageClosedLeaves DEF Abstract!Step
  <2>5. CASE UNCHANGED vars
    BY <2>5 DEF vars, Abstract!history, backListCount, forwardListCount, currentItem
  <2> QED
    BY <2>1, <2>2, <2>3, <2>4, <2>5 DEF Next
<1> QED
  BY <1>1, <1>2, ListInvariance, PTL DEF Spec, ImplementsHistory, Abstract!History
====
