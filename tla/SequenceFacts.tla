--------------------------- MODULE SequenceFacts ---------------------------
(***************************************************************************)
(* Lemmas about the operators on sequences that the models use for queues, *)
(* lists and message streams: how many elements of a kind a sequence       *)
(* holds, and what Append, Tail, \o and list_remove do to that number.     *)
(***************************************************************************)
EXTENDS Integers, Sequences, FiniteSets, SequencesExt, FiniteSetTheorems,
        FunctionTheorems, SequenceTheorems, WellFoundedInduction, TLAPS

-----------------------------------------------------------------------------
(* What is where.                                                          *)

\* A list of several requests is not empty after its first one is removed.
LEMMA TailNotEmpty ==
    ASSUME NEW S, NEW s \in Seq(S), Len(s) > 1
    PROVE  Tail(s) # <<>>
<1>1. s # <<>>
  OBVIOUS
<1>2. Len(Tail(s)) = Len(s) - 1
  BY <1>1, HeadTailProperties
<1>3. Len(Tail(s)) # 0
  <2> DEFINE l == Len(s)
             k == Len(Tail(s))
  <2>1. l \in Nat /\ l > 1 /\ k = l - 1
    BY <1>2, LenProperties
  <2> HIDE DEF l, k
  <2>2. k # 0
    BY <2>1
  <2> QED BY <2>2 DEF k
<1>4. Len(<<>>) = 0
  OBVIOUS
<1> QED BY <1>3, <1>4, Zenon

\* What is at each place of a sequence after an Append and after a Tail.
LEMMA AppendAt ==
    ASSUME NEW S, NEW s \in Seq(S), NEW e \in S
    PROVE  \A i \in DOMAIN Append(s, e) :
              \/ i \in DOMAIN s /\ Append(s, e)[i] = s[i]
              \/ i = Len(s) + 1 /\ Append(s, e)[i] = e
BY AppendProperties, LenProperties

\* See AppendAt.
LEMMA TailAt ==
    ASSUME NEW S, NEW s \in Seq(S), s # <<>>
    PROVE  \A i \in DOMAIN Tail(s) : i + 1 \in DOMAIN s /\ Tail(s)[i] = s[i + 1]
BY HeadTailProperties, LenProperties

-----------------------------------------------------------------------------
(* How much of it.                                                         *)

\* The number of elements of the sequence s that are in the set T.
Count(s, T) == Cardinality({i \in DOMAIN s : s[i] \in T})

\* The places of those elements are a finite set of positions.
LEMMA PlacesFinite ==
    ASSUME NEW S, NEW s \in Seq(S), NEW T
    PROVE  IsFiniteSet({i \in DOMAIN s : s[i] \in T})
<1>1. IsFiniteSet(1..Len(s))
  BY FS_Interval, LenProperties
<1>2. {i \in DOMAIN s : s[i] \in T} \in SUBSET (1..Len(s))
  BY LenProperties
<1> QED BY <1>1, <1>2, FS_Subset

\* A count is a natural number, and it is 0 exactly when no element counts.
LEMMA CountNat ==
    ASSUME NEW S, NEW s \in Seq(S), NEW T
    PROVE  /\ Count(s, T) \in Nat
           /\ Count(s, T) = 0 <=> \A i \in DOMAIN s : s[i] \notin T
<1> DEFINE I == {i \in DOMAIN s : s[i] \in T}
<1>1. IsFiniteSet(I)
  BY PlacesFinite
<1>2. Cardinality(I) \in Nat /\ (Cardinality(I) = 0 <=> I = {})
  BY <1>1, FS_CardinalityType, FS_EmptySet
<1> QED BY <1>2 DEF Count

\* The models count the places that hold one element.
LEMMA CountEqual ==
    ASSUME NEW s, NEW e
    PROVE  Cardinality({i \in DOMAIN s : s[i] = e}) = Count(s, {e})
<1>1. {i \in DOMAIN s : s[i] = e} = {i \in DOMAIN s : s[i] \in {e}}
  OBVIOUS
<1> QED BY <1>1 DEF Count

\* An empty sequence holds nothing.
LEMMA CountEmpty ==
    ASSUME NEW T
    PROVE  Count(<<>>, T) = 0
<1>1. {i \in DOMAIN <<>> : <<>>[i] \in T} = {}
  OBVIOUS
<1> QED BY <1>1, FS_EmptySet DEF Count

\* The counts of two sequences add up in their concatenation.
LEMMA CountConcat ==
    ASSUME NEW S, NEW s \in Seq(S), NEW t \in Seq(S), NEW T
    PROVE  Count(s \o t, T) = Count(s, T) + Count(t, T)
<1> DEFINE l == Len(s)
           A == {i \in DOMAIN s : s[i] \in T}
           B == {i \in DOMAIN t : t[i] \in T}
           C == {i \in DOMAIN (s \o t) : (s \o t)[i] \in T}
           D == {j \in C : j > l}
           f == [i \in B |-> i + l]
<1>1. /\ l \in Nat /\ DOMAIN s = 1..l /\ DOMAIN t = 1..Len(t) /\ Len(t) \in Nat
      /\ DOMAIN (s \o t) = 1..(l + Len(t))
      /\ \A i \in 1..l : (s \o t)[i] = s[i]
      /\ \A i \in 1..Len(t) : (s \o t)[i + l] = t[i]
  BY ConcatProperties, LenProperties
<1>2. IsFiniteSet(A) /\ IsFiniteSet(B)
  BY PlacesFinite
<1>3. A \cap D = {}
  BY <1>1
<1>4. C = A \cup D
  <2>1. C \subseteq A \cup D
    BY <1>1
  <2>2. A \subseteq C
    BY <1>1
  <2> QED BY <2>1, <2>2
<1>5. f \in Bijection(B, D)
  <2>1. f \in [B -> D]
    BY <1>1
  <2>2. \A i, j \in B : f[i] = f[j] => i = j
    BY <1>1
  <2>3. \A j \in D : \E i \in B : f[i] = j
    <3> SUFFICES ASSUME NEW j \in D PROVE j - l \in B /\ f[j - l] = j
      OBVIOUS
    <3>1. j \in 1..(l + Len(t)) /\ j > l /\ (s \o t)[j] \in T
      BY <1>1
    <3>2. j - l \in 1..Len(t) /\ (j - l) + l = j
      BY <1>1, <3>1
    <3>3. t[j - l] \in T
      BY <1>1, <3>1, <3>2
    <3> QED BY <1>1, <3>2, <3>3
  <2> QED BY <2>1, <2>2, <2>3, Fun_IsBij
<1>6. IsFiniteSet(D) /\ Cardinality(D) = Cardinality(B)
  BY <1>2, <1>5, FS_Bijection, Fun_ExistsBij
<1> HIDE DEF A, B, C, D
<1>7. Cardinality(C) = Cardinality(A) + Cardinality(D) - Cardinality({})
  BY <1>2, <1>3, <1>4, <1>6, FS_Union
<1>8. Cardinality(C) = Cardinality(A) + Cardinality(B)
  BY <1>2, <1>6, <1>7, FS_CardinalityType, FS_EmptySet
<1> QED BY <1>8 DEF A, B, C, Count

\* A sequence of one element.
LEMMA CountOne ==
    ASSUME NEW e, NEW T
    PROVE  Count(<<e>>, T) = IF e \in T THEN 1 ELSE 0
<1>1. {i \in DOMAIN <<e>> : <<e>>[i] \in T} = IF e \in T THEN {1} ELSE {}
  OBVIOUS
<1> QED BY <1>1, FS_EmptySet, FS_Singleton DEF Count

\* Append (dsm_send, list_add) adds one if the element counts.
LEMMA CountAppend ==
    ASSUME NEW S, NEW s \in Seq(S), NEW e \in S, NEW T
    PROVE  Count(Append(s, e), T) = Count(s, T) + IF e \in T THEN 1 ELSE 0
<1>1. Append(s, e) = s \o <<e>>
  BY AppendIsConcat
<1>2. <<e>> \in Seq(S)
  OBVIOUS
<1>3. Count(s \o <<e>>, T) = Count(s, T) + Count(<<e>>, T)
  BY <1>2, CountConcat
<1> QED BY <1>1, <1>3, CountOne

\* Tail (dsm_receive) takes one away if the head counts.
LEMMA CountTail ==
    ASSUME NEW S, NEW s \in Seq(S), s # <<>>, NEW T
    PROVE  /\ Count(Tail(s), T) = Count(s, T) - IF Head(s) \in T THEN 1 ELSE 0
           /\ Head(s) \in T => Count(s, T) > 0
<1>1. Tail(s) \in Seq(S) /\ Head(s) \in S /\ <<Head(s)>> \in Seq(S)
  BY HeadTailProperties
<1>2. s = <<Head(s)>> \o Tail(s)
  <2>1. Len(s) \in Nat /\ Len(s) >= 1
    BY EmptySeq
  <2>2. 1 \in 1..Len(s) /\ Len(s) \in 1..Len(s)
    BY <2>1
  <2>3. SubSeq(s, 1, Len(s)) = <<s[1]>> \o SubSeq(s, 1 + 1, Len(s))
    BY <2>2, SubSeqRecursiveFirst
  <2>4. Tail(s) = SubSeq(s, 2, Len(s)) /\ s = SubSeq(s, 1, Len(s))
    BY TailIsSubSeq, SubSeqFull
  <2> QED BY <2>3, <2>4
<1>3. Count(s, T) = Count(<<Head(s)>>, T) + Count(Tail(s), T)
  <2>1. Count(<<Head(s)>> \o Tail(s), T) = Count(<<Head(s)>>, T) + Count(Tail(s), T)
    BY <1>1, CountConcat, Zenon
  <2> QED BY <1>2, <2>1, Zenon
<1>4. Count(Tail(s), T) \in Nat
  BY <1>1, CountNat
<1> QED BY <1>3, <1>4, CountOne
\* A sequence of k equal elements.
LEMMA CountRepeated ==
    ASSUME NEW S, NEW e \in S, NEW k \in Nat, NEW T
    PROVE  Count([i \in 1..k |-> e], T) = IF e \in T THEN k ELSE 0
<1> DEFINE s == [i \in 1..k |-> e]
           I == {i \in DOMAIN s : s[i] \in T}
<1>1. DOMAIN s = 1..k /\ \A i \in 1..k : s[i] = e
  OBVIOUS
<1>2. CASE e \in T
  <2>1. I = 1..k
    BY <1>1, <1>2
  <2>2. Cardinality(1..k) = k
    BY FS_Interval
  <2> HIDE DEF I
  <2> QED BY <1>2, <2>1, <2>2 DEF Count, I
<1>3. CASE e \notin T
  <2>1. I = {}
    BY <1>1, <1>3
  <2> HIDE DEF I
  <2> QED BY <1>3, <2>1, FS_EmptySet DEF Count, I
<1> QED BY <1>2, <1>3

\* The message streams of the processes in N.
Streams(N, S) == [N -> Seq(S)]

\* The streams change from f to g: a message m is sent on the
\* one of a, or the first message of that one is received.
SentOn(f, g, a, m) == g = [f EXCEPT ![a] = Append(@, m)]
ReceivedOn(f, g, a) == f[a] # <<>> /\ g = [f EXCEPT ![a] = Tail(@)]

\* What the streams count before and after a message is sent ...
LEMMA SendCounts ==
    ASSUME NEW N, NEW S, NEW f \in Streams(N, S), NEW a \in N, NEW m \in S,
           NEW g, SentOn(f, g, a, m), NEW n \in N, NEW T
    PROVE  /\ Count(g[n], T) = Count(f[n], T) + IF n = a /\ m \in T THEN 1 ELSE 0
           /\ Count(f[n], T) \in Nat
<1>1. f[a] \in Seq(S) /\ f[n] \in Seq(S)
  BY DEF Streams
<1>2. g[n] = IF n = a THEN Append(f[a], m) ELSE f[n]
  BY DEF SentOn, Streams
<1>3. Count(Append(f[a], m), T) = Count(f[a], T) + IF m \in T THEN 1 ELSE 0
  BY <1>1, CountAppend
<1>4. Count(f[n], T) \in Nat
  BY <1>1, CountNat
<1> QED BY <1>2, <1>3, <1>4

\* ... and before and after the first one is received.
LEMMA ReceiveCounts ==
    ASSUME NEW N, NEW S, NEW f \in Streams(N, S), NEW a \in N,
           NEW g, ReceivedOn(f, g, a), NEW n \in N, NEW T
    PROVE  /\ Count(f[n], T) = Count(g[n], T) + IF n = a /\ Head(f[a]) \in T THEN 1 ELSE 0
           /\ Count(f[n], T) \in Nat /\ Count(g[n], T) \in Nat
<1>1. f[a] \in Seq(S) /\ f[n] \in Seq(S) /\ Tail(f[a]) \in Seq(S)
  BY HeadTailProperties DEF ReceivedOn, Streams
<1>2. g[n] = IF n = a THEN Tail(f[a]) ELSE f[n]
  BY DEF ReceivedOn, Streams
<1>3. Count(Tail(f[a]), T) = Count(f[a], T) - IF Head(f[a]) \in T THEN 1 ELSE 0
  BY <1>1, CountTail DEF ReceivedOn
<1>4. Count(f[n], T) \in Nat /\ Count(g[n], T) \in Nat
  BY <1>1, <1>2, CountNat
<1> QED BY <1>2, <1>3, <1>4

-----------------------------------------------------------------------------
(* RemoveFirst, the list_remove of an INVALIDATE_ACK.                      *)

\* A non-empty set of naturals has the minimum that Min chooses.
LEMMA MinInSet ==
    ASSUME NEW I \in SUBSET Nat, I # {}
    PROVE  Min(I) \in I /\ \A y \in I : Min(I) =< y
<1> DEFINE R == {ss \in Nat \X Nat : ss[1] < ss[2]}
<1>1. IsWellFoundedOn(R, Nat)
  BY NatLessThanWellFounded, Zenon DEF OpToRel
<1>2. PICK x \in I : \A y \in I : ~ (<<y, x>> \in R)
  BY <1>1, WFMin, Zenon
<1>3. ASSUME NEW y \in I PROVE x =< y
  <2>1. y < x => <<y, x>> \in R
    OBVIOUS
  <2> QED BY <1>2, <2>1
<1> QED BY <1>3 DEF Min

\* b follows a and e in the sequence s, and is all that is left after a when e
\* has been removed.
CutOut(s, e, a, b) == s = a \o (<<e>> \o b) /\ RemoveFirst(s, e) = a \o b

\* An element that is in the sequence is cut out at one place.
LEMMA RemoveFirstCuts ==
    ASSUME NEW S, NEW s \in Seq(S), NEW e, \E i \in 1..Len(s) : s[i] = e
    PROVE  \E a, b \in Seq(S) : CutOut(s, e, a, b)
<1> DEFINE I == {i \in 1..Len(s) : s[i] = e}
           k == SelectInSeq(s, LAMBDA v : v = e)
<1>1. k \in 1..Len(s) /\ s[k] = e
  <2>1. I # {} /\ I \subseteq Nat /\ k = Min(I)
    BY DEF SelectInSeq
  <2>2. Min(I) \in I
    BY <2>1, MinInSet
  <2> QED BY <2>1, <2>2
<1>2. RemoveFirst(s, e) = SubSeq(s, 1, k - 1) \o SubSeq(s, k + 1, Len(s))
  BY DEF RemoveFirst, RemoveAt
<1> HIDE DEF k
<1>3. SubSeq(s, 1, k - 1) \in Seq(S) /\ SubSeq(s, k + 1, Len(s)) \in Seq(S)
  BY <1>1, SubSeqProperties
<1>4. s = SubSeq(s, 1, k - 1) \o (<<e>> \o SubSeq(s, k + 1, Len(s)))
  <2>1. Len(s) \in Nat /\ Len(s) \in k..Len(s) /\ k - 1 \in 0..Len(s) /\ (k - 1) + 1 = k
    BY <1>1, LenProperties
  <2>2. SubSeq(s, k, Len(s)) = <<s[k]>> \o SubSeq(s, k + 1, Len(s))
    BY <1>1, <2>1, SubSeqRecursiveFirst
  <2>3. SubSeq(s, 1, k - 1) \o SubSeq(s, (k - 1) + 1, Len(s)) = SubSeq(s, 1, Len(s))
    <3> DEFINE j == k - 1
    <3>1. /\ 1 \in 1..Len(s) + 1 /\ j \in 1 - 1..Len(s)
          /\ Len(s) \in j..Len(s)
      BY <2>1
    <3> HIDE DEF j
    <3>2. SubSeq(s, 1, j) \o SubSeq(s, j + 1, Len(s)) = SubSeq(s, 1, Len(s))
      BY <3>1, ConcatAdjacentSubSeq
    <3> QED BY <3>2 DEF j
  <2> QED BY <1>1, <2>1, <2>2, <2>3, SubSeqFull
<1> QED BY <1>2, <1>3, <1>4 DEF CutOut

\* RemoveFirst returns a sequence over the same set.
LEMMA RemoveFirstType ==
    ASSUME NEW S, NEW s \in Seq(S), NEW e
    PROVE  RemoveFirst(s, e) \in Seq(S)
<1>1. CASE ~ \E i \in 1..Len(s) : s[i] = e
  BY <1>1 DEF RemoveFirst
<1>2. CASE \E i \in 1..Len(s) : s[i] = e
  <2>1. PICK a, b \in Seq(S) : CutOut(s, e, a, b)
    BY <1>2, RemoveFirstCuts
  <2> QED BY <2>1, ConcatProperties DEF CutOut
<1> QED BY <1>1, <1>2

\* RemoveFirst makes no sequence longer.
LEMMA RemoveFirstLen ==
    ASSUME NEW S, NEW s \in Seq(S), NEW e
    PROVE  Len(RemoveFirst(s, e)) =< Len(s)
<1>1. CASE ~ \E i \in 1..Len(s) : s[i] = e
  BY <1>1, LenProperties DEF RemoveFirst
<1>2. CASE \E i \in 1..Len(s) : s[i] = e
  <2>1. PICK a, b \in Seq(S) : CutOut(s, e, a, b)
    BY <1>2, RemoveFirstCuts
  <2>2. e \in S /\ <<e>> \in Seq(S)
    BY <1>2, ElementOfSeq
  <2>3. <<e>> \o b \in Seq(S) /\ Len(<<e>> \o b) = 1 + Len(b)
    BY <2>2, ConcatProperties
  <2>4. Len(s) = Len(a) + Len(<<e>> \o b) /\ Len(RemoveFirst(s, e)) = Len(a) + Len(b)
    BY <2>1, <2>3, ConcatProperties DEF CutOut
  <2>5. Len(a) \in Nat /\ Len(b) \in Nat
    BY LenProperties
  <2> QED BY <2>3, <2>4, <2>5
<1> QED BY <1>1, <1>2

\* RemoveFirst takes one element away if there is one, and no other.
LEMMA CountRemoveFirst ==
    ASSUME NEW S, NEW s \in Seq(S), NEW e \in S, Count(s, {e}) > 0, NEW T
    PROVE  Count(RemoveFirst(s, e), T) = Count(s, T) - IF e \in T THEN 1 ELSE 0
<1>1. \E i \in 1..Len(s) : s[i] = e
  <2>1. Count(s, {e}) # 0
    BY CountNat
  <2>2. \E i \in DOMAIN s : s[i] \in {e}
    BY <2>1, CountNat
  <2> QED BY <2>2, LenProperties
<1>2. PICK a, b \in Seq(S) : CutOut(s, e, a, b)
  BY <1>1, RemoveFirstCuts
<1>3. <<e>> \in Seq(S)
  OBVIOUS
<1>4. <<e>> \o b \in Seq(S)
  BY <1>3, ConcatProperties
<1>5. Count(a \o (<<e>> \o b), T) = Count(a, T) + Count(<<e>> \o b, T)
  <2>1. ASSUME NEW c \in Seq(S) PROVE Count(a \o c, T) = Count(a, T) + Count(c, T)
    BY <2>1, CountConcat
  <2> QED BY <1>4, <2>1
<1>6. Count(<<e>> \o b, T) = Count(<<e>>, T) + Count(b, T)
  BY <1>2, <1>3, CountConcat, Zenon
<1>7. Count(a \o b, T) = Count(a, T) + Count(b, T)
  BY <1>2, CountConcat, Zenon
<1>8. Count(a, T) \in Nat /\ Count(b, T) \in Nat
  BY CountNat
<1>9. Count(<<e>>, T) = IF e \in T THEN 1 ELSE 0
  BY CountOne
<1>10. /\ Count(s, T) = Count(a, T) + (Count(<<e>>, T) + Count(b, T))
       /\ Count(RemoveFirst(s, e), T) = Count(a, T) + Count(b, T)
  BY <1>2, <1>5, <1>6, <1>7 DEF CutOut
<1> QED BY <1>8, <1>9, <1>10
-----------------------------------------------------------------------------
(* What is further back in a message stream.                               *)

\* The element e is in the sequence s at some place after i.
After(s, e, i) == \E j \in DOMAIN s : j > i /\ s[j] = e

\* An element that is somewhere counts.
LEMMA AfterCounts ==
    ASSUME NEW S, NEW s \in Seq(S), NEW e, NEW i, After(s, e, i)
    PROVE  Count(s, {e}) # 0
BY CountNat DEF After

\* Append leaves what is in the sequence, and puts its element after it.
LEMMA AfterAppend ==
    ASSUME NEW S, NEW s \in Seq(S), NEW m \in S, NEW e, NEW i
    PROVE  /\ After(s, e, i) => After(Append(s, m), e, i)
           /\ i \in 0..Len(s) => After(Append(s, m), m, i)
<1>1. /\ Len(s) \in Nat /\ DOMAIN s = 1..Len(s)
      /\ DOMAIN Append(s, m) = 1..(Len(s) + 1)
      /\ \A j \in DOMAIN s : Append(s, m)[j] = s[j]
      /\ Append(s, m)[Len(s) + 1] = m
  BY AppendProperties, LenProperties
<1>2. After(s, e, i) => After(Append(s, m), e, i)
  BY <1>1 DEF After
<1>3. ASSUME i \in 0..Len(s) PROVE After(Append(s, m), m, i)
  <2>1. Len(s) + 1 \in DOMAIN Append(s, m) /\ Len(s) + 1 > i
    BY <1>1, <1>3
  <2> QED BY <1>1, <2>1 DEF After
<1> QED BY <1>2, <1>3

\* The same for the elements of a sequence that is appended.
LEMMA AfterConcat ==
    ASSUME NEW S, NEW s \in Seq(S), NEW t \in Seq(S), NEW e, NEW i
    PROVE  /\ After(s, e, i) => After(s \o t, e, i)
           /\ i \in 0..Len(s) /\ 1 \in DOMAIN t => After(s \o t, t[1], i)
<1>1. /\ Len(s) \in Nat /\ DOMAIN s = 1..Len(s) /\ Len(t) \in Nat /\ DOMAIN t = 1..Len(t)
      /\ DOMAIN (s \o t) = 1..(Len(s) + Len(t))
      /\ \A j \in DOMAIN s : (s \o t)[j] = s[j]
  BY ConcatProperties, LenProperties
<1>2. After(s, e, i) => After(s \o t, e, i)
  <2> SUFFICES ASSUME NEW j \in DOMAIN s, j > i, s[j] = e PROVE After(s \o t, e, i)
    BY DEF After
  <2>1. j \in DOMAIN (s \o t) /\ (s \o t)[j] = e
    BY <1>1
  <2> QED BY <2>1 DEF After
<1>3. ASSUME i \in 0..Len(s), 1 \in DOMAIN t PROVE After(s \o t, t[1], i)
  <2>1. Len(s) + 1 \in DOMAIN (s \o t) /\ Len(s) + 1 > i
    BY <1>1, <1>3
  <2>2. (s \o t)[Len(s) + 1] = t[1]
    <3>1. \A j \in 1..(Len(s) + Len(t)) :
              (s \o t)[j] = IF j <= Len(s) THEN s[j] ELSE t[j - Len(s)]
      BY ConcatProperties
    <3>2. ~ (Len(s) + 1 <= Len(s)) /\ (Len(s) + 1) - Len(s) = 1
      BY <1>1
    <3> QED BY <1>1, <2>1, <3>1, <3>2
  <2> QED BY <2>1, <2>2 DEF After
<1> QED BY <1>2, <1>3

\* Taking the first element moves the others one place forward.
LEMMA AfterTail ==
    ASSUME NEW S, NEW s \in Seq(S), s # <<>>, NEW e, NEW i \in Nat
    PROVE  /\ After(s, e, i + 1) => After(Tail(s), e, i)
           /\ After(s, e, 0) /\ Head(s) # e => After(Tail(s), e, 0)
<1>1. /\ Len(s) \in Nat /\ DOMAIN s = 1..Len(s) /\ Head(s) = s[1]
      /\ DOMAIN Tail(s) = 1..(Len(s) - 1)
      /\ \A j \in 1..(Len(s) - 1) : Tail(s)[j] = s[j + 1]
  BY HeadTailProperties, LenProperties
<1>2. ASSUME NEW j \in DOMAIN s, NEW k \in Nat, j > k + 1, s[j] = e
      PROVE  After(Tail(s), e, k)
  <2>1. j - 1 \in DOMAIN Tail(s) /\ j - 1 > k /\ (j - 1) + 1 = j
    BY <1>1, <1>2
  <2> QED BY <1>1, <1>2, <2>1 DEF After
<1>3. After(s, e, i + 1) => After(Tail(s), e, i)
  BY <1>2 DEF After
<1>4. ASSUME After(s, e, 0), Head(s) # e PROVE After(Tail(s), e, 0)
  <2>1. PICK j \in DOMAIN s : j > 0 /\ s[j] = e
    BY <1>4 DEF After
  <2>2. j > 0 + 1
    BY <1>1, <1>4, <2>1
  <2> QED BY <1>2, <2>1, <2>2
<1> QED BY <1>3, <1>4
\* A sequence without repetition that is as long as its set is large holds every
\* element of the set.
LEMMA EverybodyOnce ==
    ASSUME NEW S, IsFiniteSet(S), NEW s \in Seq(S), \A e \in S : Count(s, {e}) =< 1,
           Len(s) >= Cardinality(S)
    PROVE  \A e \in S : Count(s, {e}) = 1
<1>1. /\ Len(s) \in Nat /\ DOMAIN s = 1..Len(s) /\ s \in [1..Len(s) -> S]
  BY LenProperties
<1>2. ASSUME NEW e \in S PROVE Count(s, {e}) \in {0, 1}
  BY <1>2, CountNat
<1>3. ASSUME NEW i \in 1..Len(s), NEW j \in 1..Len(s), s[i] = s[j] PROVE i = j
  <2> DEFINE e == s[i]
             I == {k \in DOMAIN s : s[k] \in {e}}
  <2>1. e \in S /\ i \in I /\ j \in I
    BY <1>1, <1>3
  <2>2. Count(s, {e}) # 0
    BY <1>1, <2>1, CountNat
  <2>3. IsFiniteSet(I) /\ Cardinality(I) = Count(s, {e})
    BY PlacesFinite DEF Count
  <2> HIDE DEF e, I
  <2>4. Cardinality(I) = 1
    BY <1>2, <2>1, <2>2, <2>3
  <2>5. PICK k : I = {k}
    BY <2>3, <2>4, FS_Singleton
  <2> QED BY <2>1, <2>5
<1>4. s \in Injection(1..Len(s), S)
  BY <1>1, <1>3 DEF Injection, IsInjective
<1>5. Cardinality(1..Len(s)) = Len(s) /\ Cardinality(S) \in Nat
  <2>1. Cardinality(1..Len(s)) = IF 1 > Len(s) THEN 0 ELSE Len(s) - 1 + 1
    BY <1>1, FS_Interval
  <2>2. Cardinality(S) \in Nat
    BY FS_CardinalityType
  <2> QED BY <1>1, <2>1, <2>2
<1>6. /\ Cardinality(1..Len(s)) =< Cardinality(S)
      /\ Cardinality(1..Len(s)) = Cardinality(S) => s \in Surjection(1..Len(s), S)
  BY <1>4, FS_Injection
<1>7. s \in Surjection(1..Len(s), S)
  BY <1>1, <1>5, <1>6
<1>8. ASSUME NEW e \in S PROVE Count(s, {e}) # 0
  <2>1. PICK i \in 1..Len(s) : s[i] = e
    BY <1>7 DEF Surjection
  <2> QED BY <1>1, <2>1, CountNat
<1> QED BY <1>2, <1>8
-----------------------------------------------------------------------------
(* Sequences whose elements need not be of one kind.                       *)

\* A sequence of anything.
IsSeq(s) == \E T : s \in Seq(T)

\* The empty sequence.
LEMMA SeqEmpty ==
    IsSeq(<<>>) /\ Len(<<>>) = 0
<1>1. <<>> \in Seq({})
  OBVIOUS
<1> QED BY <1>1 DEF IsSeq

\* Its length and its places.
LEMMA SeqLen ==
    ASSUME NEW s, IsSeq(s)
    PROVE  Len(s) \in Nat /\ DOMAIN s = 1..Len(s) /\ (s = <<>> <=> Len(s) = 0)
<1>1. PICK T : s \in Seq(T)
  BY DEF IsSeq
<1>2. Len(s) \in Nat /\ DOMAIN s = 1..Len(s)
  BY <1>1, LenProperties
<1>3. s = <<>> <=> Len(s) = 0
  BY <1>1, EmptySeq
<1> QED BY <1>2, <1>3

\* What Append makes of it.
LEMMA SeqAppend ==
    ASSUME NEW s, IsSeq(s), NEW e
    PROVE  /\ IsSeq(Append(s, e)) /\ Len(Append(s, e)) = Len(s) + 1
           /\ \A i \in 1..Len(s) : Append(s, e)[i] = s[i]
           /\ Append(s, e)[Len(s) + 1] = e
<1>1. PICK T : s \in Seq(T)
  BY DEF IsSeq
<1> DEFINE U == T \cup {e}
<1>2. s \in Seq(U) /\ e \in U
  BY <1>1, SeqMonotonic
<1> HIDE DEF U
<1>3. Append(s, e) \in Seq(U)
  BY <1>2, AppendProperties
<1>4. /\ Len(Append(s, e)) = Len(s) + 1
      /\ \A i \in 1..Len(s) : Append(s, e)[i] = s[i]
      /\ Append(s, e)[Len(s) + 1] = e
  BY <1>2, AppendProperties
<1> QED BY <1>3, <1>4 DEF IsSeq

\* What Tail makes of it.
LEMMA SeqTail ==
    ASSUME NEW s, IsSeq(s), s # <<>>
    PROVE  /\ IsSeq(Tail(s)) /\ Len(Tail(s)) = Len(s) - 1 /\ Head(s) = s[1] /\ 1 \in DOMAIN s
           /\ \A i \in 1..Len(Tail(s)) : Tail(s)[i] = s[i + 1]
<1>1. PICK T : s \in Seq(T)
  BY DEF IsSeq
<1>2. Len(s) \in Nat \ {0} /\ DOMAIN s = 1..Len(s)
  BY SeqLen
<1>3. /\ Tail(s) \in Seq(T) /\ Len(Tail(s)) = Len(s) - 1 /\ Head(s) = s[1]
      /\ \A i \in 1..Len(Tail(s)) : Tail(s)[i] = s[i + 1]
  BY <1>1, HeadTailProperties
<1> QED BY <1>2, <1>3 DEF IsSeq

-----------------------------------------------------------------------------
(* Induction, with the claim given as the set of the numbers it holds for. *)

\* A set of numbers that holds 0 and with each number the next one holds them all.
LEMMA Induction ==
    ASSUME NEW I \in SUBSET Nat, 0 \in I, \A n \in I : n + 1 \in I
    PROVE  I = Nat
<1> SUFFICES ASSUME I # Nat PROVE FALSE
  OBVIOUS
<1>1. Nat \ I # {} /\ Nat \ I \in SUBSET Nat
  OBVIOUS
<1>2. PICK m \in Nat \ I : \A k \in Nat \ I : m <= k
  BY <1>1, MinInSet
<1>3. m # 0 /\ m \in Nat
  BY <1>2
<1>4. m - 1 \in Nat /\ m - 1 \in I
  BY <1>2, <1>3
<1>5. (m - 1) + 1 \in I
  BY <1>4
<1> QED BY <1>2, <1>3, <1>5
-----------------------------------------------------------------------------
(* Powers of two, which count the subsets of a set.                        *)

\* The subsets of 1..n.
LEMMA PowerCounts ==
    ASSUME NEW n \in Nat
    PROVE  IsFiniteSet(SUBSET (1..n)) /\ Cardinality(SUBSET (1..n)) = 2 ^ n /\ 2 ^ n \in Nat
<1>1. IsFiniteSet(1..n) /\ Cardinality(1..n) = n
  BY FS_Interval
<1>2. IsFiniteSet(SUBSET (1..n)) /\ Cardinality(SUBSET (1..n)) = 2 ^ n
  BY <1>1, FS_SUBSET
<1>3. Cardinality(SUBSET (1..n)) \in Nat
  BY <1>2, FS_CardinalityType
<1> QED BY <1>2, <1>3

\* One more element doubles the number: each subset may have it or not.
LEMMA PowerDouble ==
    ASSUME NEW n \in Nat
    PROVE  2 ^ (n + 1) = 2 * 2 ^ n
<1> DEFINE A == SUBSET (1..n)
           B == {X \cup {n + 1} : X \in A}
           f == [X \in A |-> X \cup {n + 1}]
<1>1. n + 1 \in Nat /\ n + 1 \notin 1..n /\ 1..(n + 1) = (1..n) \cup {n + 1}
  OBVIOUS
<1>2. IsFiniteSet(A) /\ Cardinality(A) = 2 ^ n /\ 2 ^ n \in Nat
  BY PowerCounts
<1>3. f \in Bijection(A, B)
  <2>1. f \in [A -> B]
    OBVIOUS
  <2>2. \A X, Y \in A : f[X] = f[Y] => X = Y
    <3> SUFFICES ASSUME NEW X \in A, NEW Y \in A, f[X] = f[Y] PROVE X = Y
      OBVIOUS
    <3>1. X \cup {n + 1} = Y \cup {n + 1} /\ n + 1 \notin X /\ n + 1 \notin Y
      BY <1>1
    <3> QED BY <3>1
  <2>3. \A Z \in B : \E X \in A : f[X] = Z
    OBVIOUS
  <2> QED BY <2>1, <2>2, <2>3, Fun_IsBij
<1>4. IsFiniteSet(B) /\ Cardinality(B) = 2 ^ n
  BY <1>2, <1>3, FS_Bijection DEF ExistsBijection
<1>5. A \cap B = {}
  <2> SUFFICES ASSUME NEW X \in A, X \in B PROVE FALSE
    OBVIOUS
  <2>1. n + 1 \in X
    OBVIOUS
  <2> QED BY <1>1, <2>1
<1>6. SUBSET (1..(n + 1)) = A \cup B
  <2>1. ASSUME NEW X \in SUBSET (1..(n + 1)) PROVE X \in A \cup B
    <3>1. CASE n + 1 \in X
      <4>1. X \ {n + 1} \in A /\ X = (X \ {n + 1}) \cup {n + 1}
        BY <1>1, <3>1
      <4> QED BY <4>1
    <3>2. CASE n + 1 \notin X
      BY <1>1, <3>2
    <3> QED BY <3>1, <3>2
  <2>2. ASSUME NEW X \in A \cup B PROVE X \in SUBSET (1..(n + 1))
    BY <1>1
  <2> QED BY <2>1, <2>2
<1>7. Cardinality(A \cap B) = 0
  BY <1>5, FS_EmptySet
<1> HIDE DEF A, B, f
<1>8. Cardinality(A \cup B) = 2 ^ n + 2 ^ n - 0
  BY <1>2, <1>4, <1>7, FS_Union
<1>9. Cardinality(SUBSET (1..(n + 1))) = 2 ^ (n + 1)
  BY <1>1, PowerCounts
<1>10. 2 ^ (n + 1) = Cardinality(A \cup B)
  BY <1>6, <1>9
<1> DEFINE p == 2 ^ n
           q == 2 ^ (n + 1)
<1>11. p \in Nat /\ q = p + p - 0
  BY <1>2, <1>8, <1>10
<1> HIDE DEF p, q
<1>12. q = 2 * p
  BY <1>11
<1> QED BY <1>12 DEF p, q

\* A power of two is larger than its exponent.
LEMMA PowerAbove ==
    ASSUME NEW n \in Nat
    PROVE  2 ^ n \in Nat /\ 2 ^ n > n
<1> DEFINE I == {k \in Nat : 2 ^ k > k}
<1>1. 0 \in I
  <2>1. 2 ^ 0 = 1
    OBVIOUS
  <2> QED BY <2>1
<1>2. ASSUME NEW k \in I PROVE k + 1 \in I
  <2>1. k \in Nat /\ 2 ^ k \in Nat /\ 2 ^ k > k /\ 2 ^ (k + 1) = 2 * 2 ^ k
    BY PowerCounts, PowerDouble
  <2> DEFINE p == 2 ^ k
             q == 2 ^ (k + 1)
  <2> HIDE DEF p, q
  <2>2. p \in Nat /\ p > k /\ q = 2 * p
    BY <2>1 DEF p, q
  <2>3. q > k + 1
    BY <2>1, <2>2
  <2> QED BY <2>1, <2>3 DEF q
<1>3. I = Nat
  <2>1. I \in SUBSET Nat
    OBVIOUS
  <2> HIDE DEF I
  <2> QED BY <1>1, <1>2, <2>1, Induction
<1> QED BY <1>3, PowerCounts

\* Powers of two grow with their exponent.
LEMMA PowerGrows ==
    ASSUME NEW m \in Nat, NEW n \in Nat, m <= n
    PROVE  2 ^ m <= 2 ^ n
<1> DEFINE I == {k \in Nat : 2 ^ m <= 2 ^ (m + k)}
<1>1. 0 \in I
  <2> DEFINE p == 2 ^ m
  <2>1. p \in Nat
    BY PowerCounts
  <2> HIDE DEF p
  <2>2. p <= p
    BY <2>1
  <2>3. m + 0 = m
    OBVIOUS
  <2> QED BY <2>2, <2>3 DEF p
<1>2. ASSUME NEW k \in I PROVE k + 1 \in I
  <2> DEFINE p == 2 ^ m
             q == 2 ^ (m + k)
             r == 2 ^ (m + (k + 1))
  <2>1. m + k \in Nat /\ m + (k + 1) = (m + k) + 1
    OBVIOUS
  <2>2. p \in Nat /\ q \in Nat /\ p <= q /\ r = 2 * q
    BY <2>1, PowerCounts, PowerDouble
  <2> HIDE DEF p, q, r
  <2>3. p <= r
    BY <2>2
  <2> QED BY <2>3 DEF p, r
<1>3. I = Nat
  <2>1. I \in SUBSET Nat
    OBVIOUS
  <2> HIDE DEF I
  <2> QED BY <1>1, <1>2, <2>1, Induction
<1>4. n - m \in Nat /\ m + (n - m) = n
  OBVIOUS
<1> QED BY <1>3, <1>4
=============================================================================
