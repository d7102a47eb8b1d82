-------------------------- MODULE LinkedListProofs --------------------------
(***************************************************************************)
(* Theorems about list.c for any heap and any elements: used the way the   *)
(* program uses it, the pointer structure is the queue of list.h.          *)
(***************************************************************************)
EXTENDS LinkedList, SequenceFacts

-----------------------------------------------------------------------------
(* The path of the list and what a loop from head meets.                   *)

\* The pointer at place k of the path p: NULL behind its end.
At(p, k) == IF k \in DOMAIN p THEN p[k] ELSE Null

\* The nodes of the list are those of p, in that order, and no others are
\* allocated.
Path(p) ==
    /\ \A i, j \in DOMAIN p : p[i] = p[j] => i = j
    /\ head = At(p, 1) /\ \A i \in DOMAIN p : next[p[i]] = At(p, i + 1)
    /\ allocated = {p[i] : i \in DOMAIN p}
    /\ length = Len(p)
    /\ (length # 0 /\ MayAdd) => tail = p[Len(p)]

ListInv == TypeOK /\ \E p \in Seq(Addr) : Path(p)

\* A path meets every node once, so it is not longer than the heap.
LEMMA PathFits ==
    ASSUME NEW p \in Seq(Addr), Path(p)
    PROVE  Len(p) \in Nat /\ Cardinality(Addr) \in Nat /\ Len(p) <= Cardinality(Addr)
<1>1. Len(p) \in Nat /\ p \in [1..Len(p) -> Addr] /\ DOMAIN p = 1..Len(p)
  BY LenProperties
<1>2. p \in Injection(1..Len(p), Addr)
  BY <1>1 DEF Path, Injection, IsInjective
<1>3. IsFiniteSet(Addr) /\ Cardinality(Addr) \in Nat
  BY HeapAssumption, FS_CardinalityType
<1>4. Cardinality(1..Len(p)) <= Cardinality(Addr)
  BY <1>2, <1>3, FS_Injection
<1>5. Cardinality(1..Len(p)) = Len(p)
  <2>1. Cardinality(1..Len(p)) = IF 1 > Len(p) THEN 0 ELSE Len(p) - 1 + 1
    BY <1>1, FS_Interval
  <2> QED BY <1>1, <2>1
<1> QED BY <1>1, <1>3, <1>4, <1>5

\* One step of the loop.
Follow(x) == IF x = Null THEN Null ELSE next[x]

\* A loop from head meets the nodes of the path and then NULL.
LEMMA WalkIsPath ==
    ASSUME NEW p \in Seq(Addr), Path(p)
    PROVE  Walk = [k \in 0..Cardinality(Addr) |-> At(p, k + 1)]
<1> DEFINE N == Cardinality(Addr)
           v == [k \in 0..N |-> At(p, k + 1)]
           G(w) == [k \in 0..N |-> IF k = 0 THEN head
                                   ELSE IF w[k - 1] = Null THEN Null ELSE next[w[k - 1]]]
<1>1. Len(p) \in Nat /\ N \in Nat /\ Len(p) <= N /\ DOMAIN p = 1..Len(p) /\ p \in [1..Len(p) -> Addr]
  BY PathFits, LenProperties
<1>2. v = G(v)
  <2>1. ASSUME NEW k \in 0..N, k # 0
        PROVE  At(p, k + 1) = IF v[k - 1] = Null THEN Null ELSE next[v[k - 1]]
    <3>1. k - 1 \in 0..N /\ (k - 1) + 1 = k
      BY <1>1, <2>1
    <3>2. v[k - 1] = At(p, k)
      BY <3>1
    <3>3. CASE k \in 1..Len(p)
      <4>1. At(p, k) = p[k] /\ p[k] # Null /\ next[p[k]] = At(p, k + 1)
        BY <1>1, <3>3, HeapAssumption DEF At, Path
      <4> QED BY <3>2, <4>1
    <3>4. CASE k \notin 1..Len(p)
      <4>1. k + 1 \notin 1..Len(p)
        BY <1>1, <2>1, <3>4
      <4> QED BY <1>1, <3>2, <3>4, <4>1 DEF At
    <3> QED BY <3>3, <3>4
  <2>2. At(p, 0 + 1) = head
    BY DEF Path
  <2> QED BY <2>1, <2>2
<1>3. Walk = CHOOSE w : w = G(w)
  BY DEF Walk
<1>4. Walk = G(Walk)
  BY <1>2, <1>3
<1> DEFINE w == Walk
           D == {k \in 0..N : w[k] # v[k]}
<1>5. /\ w = [k \in 0..N |-> w[k]] /\ w[0] = head
      /\ \A k \in 0..N : k # 0 => w[k] = IF w[k - 1] = Null THEN Null ELSE next[w[k - 1]]
  <2> HIDE DEF w
  <2>1. w = G(w)
    BY <1>4 DEF w
  <2>2. w[0] = head /\ \A k \in 0..N : k # 0 => w[k] = IF w[k - 1] = Null THEN Null ELSE next[w[k - 1]]
    BY <1>1, <2>1
  <2> QED BY <2>1, <2>2
<1>6. /\ v[0] = head
      /\ \A k \in 0..N : k # 0 => v[k] = IF v[k - 1] = Null THEN Null ELSE next[v[k - 1]]
  <2> HIDE DEF v
  <2> QED BY <1>1, <1>2
<1> HIDE DEF w
<1>7. D = {}
  <2> SUFFICES ASSUME D # {} PROVE FALSE
    OBVIOUS
  <2>1. D \in SUBSET Nat
    BY <1>1
  <2>2. PICK k \in D : \A j \in D : k <= j
    <3>1. Min(D) \in D /\ \A j \in D : Min(D) <= j
      BY <2>1, MinInSet
    <3> QED BY <3>1
  <2>3. k \in 0..N /\ w[k] # v[k]
    OBVIOUS
  <2>4. k # 0
    BY <1>5, <1>6, <2>3
  <2>5. k - 1 \in 0..N /\ k - 1 \notin D
    BY <1>1, <2>2, <2>3, <2>4
  <2>6. w[k - 1] = v[k - 1]
    BY <2>5
  <2> HIDE DEF v
  <2> QED BY <1>5, <1>6, <2>3, <2>4, <2>6
<1>8. \A k \in 0..N : w[k] = v[k]
  BY <1>7
<1>9. w = v
  BY <1>5, <1>8
<1> QED BY <1>9 DEF w
\* What the loop visits, and what it reads there.
LEMMA ContentsOfPath ==
    ASSUME NEW p \in Seq(Addr), Path(p), TypeOK
    PROVE  /\ Len(p) \in Nat /\ DOMAIN p = 1..Len(p) /\ \A i \in DOMAIN p : p[i] \in Addr
           /\ \A k \in 0..Len(p) - 1 : Walk[k] = p[k + 1]
           /\ Visited = 0..Len(p) - 1 /\ Cardinality(Visited) = Len(p)
           /\ {Walk[k] : k \in Visited} = {p[i] : i \in DOMAIN p}
           /\ Contents = [i \in 1..Len(p) |-> data[p[i]]]
           /\ Contents \in Seq(Elem) /\ Len(Contents) = Len(p)
<1> DEFINE N == Cardinality(Addr)
           l == Len(p)
<1>1. l \in Nat /\ N \in Nat /\ l <= N /\ DOMAIN p = 1..l /\ p \in [1..l -> Addr]
  BY PathFits, LenProperties
<1>2. Walk = [k \in 0..N |-> At(p, k + 1)]
  BY WalkIsPath
<1> HIDE DEF N, l
<1>3. /\ DOMAIN Walk = 0..N /\ \A k \in 0..N : Walk[k] = At(p, k + 1)
      /\ \A k \in 0..l - 1 : k \in 0..N /\ k + 1 \in 1..l
  BY <1>1, <1>2 DEF N
<1>4. \A k \in 0..l - 1 : Walk[k] = p[k + 1] /\ p[k + 1] \in Addr
  BY <1>1, <1>3 DEF At
<1>5. Visited = 0..l - 1
  <2>1. ASSUME NEW k \in 0..N PROVE Walk[k] # Null <=> k \in 0..l - 1
    <3>1. CASE k \in 0..l - 1
      BY <1>4, <3>1, HeapAssumption
    <3>2. CASE k \notin 0..l - 1
      <4>1. k + 1 \notin 1..l
        BY <1>1, <3>2
      <4> QED BY <1>1, <1>3, <3>2, <4>1 DEF At
    <3> QED BY <3>1, <3>2
  <2>2. Visited \subseteq 0..l - 1
    BY <1>3, <2>1 DEF Visited
  <2>3. 0..l - 1 \subseteq Visited
    BY <1>3, <2>1 DEF Visited
  <2> QED BY <2>2, <2>3
<1>6. Cardinality(Visited) = l
  <2>1. Cardinality(0..l - 1) = IF 0 > l - 1 THEN 0 ELSE (l - 1) - 0 + 1
    BY <1>1, FS_Interval
  <2> QED BY <1>1, <1>5, <2>1
<1>7. {Walk[k] : k \in Visited} = {p[i] : i \in DOMAIN p}
  <2>1. ASSUME NEW i \in 1..l PROVE i - 1 \in 0..l - 1 /\ (i - 1) + 1 = i
    BY <1>1
  <2>2. \A i \in 1..l : p[i] = Walk[i - 1] /\ i - 1 \in 0..l - 1
    BY <1>4, <2>1
  <2>3. ASSUME NEW k \in 0..l - 1 PROVE Walk[k] \in {p[i] : i \in DOMAIN p}
    BY <1>1, <1>3, <1>4
  <2>4. ASSUME NEW i \in 1..l PROVE p[i] \in {Walk[k] : k \in Visited}
    BY <1>5, <2>2
  <2> QED BY <1>1, <1>5, <2>3, <2>4
<1>8. Contents = [i \in 1..l |-> data[p[i]]]
  <2>1. ASSUME NEW i \in 1..l PROVE Walk[i - 1] = p[i]
    <3>1. i - 1 \in 0..l - 1 /\ (i - 1) + 1 = i
      BY <1>1
    <3> QED BY <1>4, <3>1
  <2> QED BY <1>6, <2>1 DEF Contents
<1>9. Contents \in Seq(Elem) /\ Len(Contents) = l
  <2>1. \A i \in 1..l : data[p[i]] \in Elem
    BY <1>1 DEF TypeOK
  <2> QED BY <1>1, <1>8, <2>1
<1> QED BY <1>1, <1>4, <1>5, <1>6, <1>7, <1>8, <1>9 DEF l

\* A path shows that nothing leaks and that tail is where list_add needs it.
LEMMA PathIsSafe ==
    ASSUME NEW p \in Seq(Addr), Path(p), TypeOK
    PROVE  NoLeak /\ TailIsLast
<1>1. NoLeak
  BY ContentsOfPath DEF NoLeak, Path
<1>2. TailIsLast
  <2> SUFFICES ASSUME length # 0, MayAdd PROVE tail \in allocated /\ next[tail] = Null
    BY DEF TailIsLast
  <2> DEFINE l == Len(p)
  <2>1. l \in Nat /\ l # 0 /\ DOMAIN p = 1..l
    BY ContentsOfPath DEF Path
  <2>2. tail = p[l]
    BY DEF Path
  <2> HIDE DEF l
  <2>3. l \in DOMAIN p /\ l + 1 \notin DOMAIN p
    BY <2>1
  <2>4. next[p[l]] = At(p, l + 1) /\ p[l] \in allocated
    BY <2>3 DEF Path
  <2> QED BY <2>2, <2>3, <2>4 DEF At
<1> QED BY <1>1, <1>2
-----------------------------------------------------------------------------
(* list_add.                                                               *)

\* The elements on the path p.
Read(p) == [i \in 1..Len(p) |-> data[p[i]]]

\* list_add puts a new node behind the last one.
LEMMA AddStep ==
    ASSUME TypeOK, NEW p \in Seq(Addr), Path(p), NEW e \in Elem, list_add(e)
    PROVE  /\ TypeOK'
           /\ \E q \in Seq(Addr) : Path(q)' /\ Read(q)' = Append(Read(p), e)
           /\ length' = length + 1
<1> DEFINE l == Len(p)
<1>1. /\ l \in Nat /\ DOMAIN p = 1..l /\ \A i \in 1..l : p[i] \in Addr
      /\ length = l /\ allocated = {p[i] : i \in 1..l}
  BY ContentsOfPath DEF Path
<1>2. PICK a \in Addr \ allocated :
        /\ allocated' = allocated \cup {a} /\ data' = [data EXCEPT ![a] = e]
        /\ next' = [x \in Addr |-> IF length # 0 /\ x = tail THEN a
                                   ELSE IF x = a THEN Null ELSE next[x]]
        /\ head' = (IF length = 0 THEN a ELSE head) /\ tail' = a
  BY DEF list_add
<1>3. MayAdd /\ length' = length + 1 /\ UNCHANGED <<usage, draining>>
  BY DEF list_add
<1> DEFINE q == Append(p, a)
<1>4. /\ q \in Seq(Addr) /\ Len(q) = l + 1 /\ DOMAIN q = 1..(l + 1) /\ q[l + 1] = a
      /\ \A i \in 1..l : q[i] = p[i]
  BY <1>1, AppendProperties
<1> HIDE DEF l, q
<1>5. l # 0 => tail = p[l] /\ l \in 1..l
  BY <1>1, <1>3 DEF Path, l
<1>6. TypeOK'
  BY <1>1, <1>2, <1>3 DEF TypeOK, Pointer
<1>7. Path(q)'
  <2>1. \A i, j \in 1..(l + 1) : q[i] = q[j] => i = j
    <3>1. \A i \in 1..l : p[i] # a
      BY <1>1, <1>2
    <3>2. \A i, j \in 1..l : p[i] = p[j] => i = j
      BY <1>1 DEF Path
    <3>3. \A i \in 1..(l + 1) : i \in 1..l \/ i = l + 1
      BY <1>1
    <3> QED BY <1>4, <3>1, <3>2, <3>3
  <2>2. head' = At(q, 1)
    <3>1. CASE l = 0
      BY <1>1, <1>2, <1>4, <3>1 DEF At
    <3>2. CASE l # 0
      <4>1. 1 \in 1..l /\ 1 \in 1..(l + 1)
        BY <1>1, <3>2
      <4> QED BY <1>1, <1>2, <1>4, <3>2, <4>1 DEF At, Path
    <3> QED BY <3>1, <3>2
  <2>3. ASSUME NEW i \in 1..(l + 1) PROVE next'[q[i]] = At(q, i + 1)
    <3>1. CASE i = l + 1
      <4>1. (l + 1) + 1 \notin 1..(l + 1)
        BY <1>1
      <4>2. l # 0 => a # tail
        BY <1>1, <1>2, <1>5
      <4> QED BY <1>1, <1>2, <1>4, <3>1, <4>1, <4>2 DEF At
    <3>2. CASE i = l
      <4>1. l # 0 /\ l + 1 \in 1..(l + 1) /\ l \in 1..l
        BY <1>1, <3>2
      <4>2. q[l] = tail /\ tail \in Addr
        BY <1>1, <1>4, <1>5, <4>1
      <4> QED BY <1>1, <1>2, <1>4, <3>2, <4>1, <4>2 DEF At
    <3>3. CASE i \in 1..l /\ i # l
      <4>1. i + 1 \in 1..l /\ i + 1 \in 1..(l + 1) /\ l # 0
        BY <1>1, <3>3
      <4>2. q[i] = p[i] /\ p[i] # tail /\ p[i] # a /\ p[i] \in Addr
        BY <1>1, <1>2, <1>4, <1>5, <3>3, <4>1 DEF Path
      <4>3. next[p[i]] = p[i + 1] /\ q[i + 1] = p[i + 1]
        BY <1>1, <1>4, <3>3, <4>1 DEF Path, At
      <4> QED BY <1>2, <1>4, <4>1, <4>2, <4>3 DEF At
    <3> QED BY <1>1, <3>1, <3>2, <3>3
  <2>4. allocated' = {q[i] : i \in 1..(l + 1)}
    <3>1. ASSUME NEW x \in allocated' PROVE x \in {q[i] : i \in 1..(l + 1)}
      <4>1. CASE x = a
        <5>1. l + 1 \in 1..(l + 1)
          BY <1>1
        <5> QED BY <1>4, <4>1, <5>1
      <4>2. CASE x # a
        <5>1. PICK i \in 1..l : x = p[i]
          BY <1>1, <1>2, <4>2
        <5>2. i \in 1..(l + 1) /\ q[i] = x
          BY <1>1, <1>4, <5>1
        <5> QED BY <5>2
      <4> QED BY <4>1, <4>2
    <3>2. ASSUME NEW i \in 1..(l + 1) PROVE q[i] \in allocated'
      BY <1>1, <1>2, <1>4
    <3> QED BY <3>1, <3>2
  <2>5. length' = l + 1 /\ tail' = q[l + 1]
    BY <1>1, <1>2, <1>3, <1>4
  <2> QED BY <1>4, <2>1, <2>2, <2>3, <2>4, <2>5 DEF Path
<1>8. Read(q)' = Append(Read(p), e)
  <2>1. Read(p) \in Seq(Elem) /\ Len(Read(p)) = l
    BY ContentsOfPath DEF Read, l
  <2>2. /\ Append(Read(p), e) = [i \in 1..(l + 1) |-> Append(Read(p), e)[i]]
        /\ Append(Read(p), e)[l + 1] = e
        /\ \A i \in 1..l : Append(Read(p), e)[i] = Read(p)[i]
    <3> DEFINE r == Read(p)
    <3> HIDE DEF r
    <3>1. r \in Seq(Elem) /\ Len(r) = l
      BY <2>1 DEF r
    <3>2. /\ Append(r, e) \in Seq(Elem) /\ Len(Append(r, e)) = l + 1
          /\ Append(r, e)[l + 1] = e /\ \A i \in 1..l : Append(r, e)[i] = r[i]
      BY <3>1, AppendProperties
    <3>3. Append(r, e) \in [1..(l + 1) -> Elem]
      BY <3>2, LenProperties
    <3>4. Append(r, e) = [i \in 1..(l + 1) |-> Append(r, e)[i]]
      BY <3>3
    <3> QED BY <3>2, <3>4 DEF r
  <2>3. \A i \in 1..l : data'[q[i]] = data[p[i]] /\ Read(p)[i] = data[p[i]]
    BY <1>1, <1>2, <1>4 DEF Read, TypeOK, l
  <2>4. data'[q[l + 1]] = e
    BY <1>2, <1>4 DEF TypeOK
  <2>5. \A i \in 1..(l + 1) : data'[q[i]] = Append(Read(p), e)[i]
    BY <1>1, <2>2, <2>3, <2>4
  <2>6. Read(q)' = [i \in 1..(l + 1) |-> data'[q[i]]]
    BY <1>4 DEF Read
  <2> HIDE DEF Read
  <2> QED BY <2>2, <2>5, <2>6
<1> QED BY <1>3, <1>4, <1>6, <1>7, <1>8
-----------------------------------------------------------------------------
(* list_remove.                                                            *)

\* The sequence s without its place m.
Cut(s, m) == [i \in 1..(Len(s) - 1) |-> IF i < m THEN s[i] ELSE s[i + 1]]

\* What is where in it.
LEMMA CutAt ==
    ASSUME NEW S, NEW s \in Seq(S), NEW m \in 1..Len(s)
    PROVE  /\ Cut(s, m) \in Seq(S) /\ Len(Cut(s, m)) = Len(s) - 1 /\ Len(s) - 1 \in Nat
           /\ DOMAIN Cut(s, m) = 1..(Len(s) - 1)
           /\ \A i \in 1..(Len(s) - 1) : Cut(s, m)[i] = IF i < m THEN s[i] ELSE s[i + 1]
<1> DEFINE l == Len(s)
<1>1. l \in Nat /\ l >= 1 /\ s \in [1..l -> S] /\ l - 1 \in Nat
  BY LenProperties
<1>2. \A i \in 1..(l - 1) : i \in 1..l /\ i + 1 \in 1..l
  BY <1>1
<1>3. \A i \in 1..(l - 1) : (IF i < m THEN s[i] ELSE s[i + 1]) \in S
  BY <1>1, <1>2
<1> QED BY <1>1, <1>3 DEF Cut

\* RemoveAt and RemoveFirst cut.
LEMMA RemoveFirstIsCut ==
    ASSUME NEW S, NEW s \in Seq(S), NEW e, NEW m \in 1..Len(s), s[m] = e,
           \A i \in 1..Len(s) : s[i] = e => m <= i
    PROVE  RemoveFirst(s, e) = Cut(s, m)
<1> DEFINE l == Len(s)
           I == {i \in 1..Len(s) : s[i] = e}
           k == SelectInSeq(s, LAMBDA v : v = e)
<1>1. l \in Nat /\ l >= 1 /\ m \in 1..l
  BY LenProperties
<1>2. k = m
  <2>1. I # {} /\ I \in SUBSET Nat /\ k = Min(I) /\ m \in I
    BY DEF SelectInSeq
  <2>2. Min(I) \in I /\ \A y \in I : Min(I) <= y
    BY <2>1, MinInSet
  <2> DEFINE n == Min(I)
  <2>3. n \in 1..l /\ m <= n /\ n <= m
    BY <2>1, <2>2
  <2> HIDE DEF n
  <2>4. n = m
    BY <1>1, <2>3
  <2> QED BY <2>1, <2>4 DEF n
<1>3. RemoveFirst(s, e) = SubSeq(s, 1, m - 1) \o SubSeq(s, m + 1, Len(s))
  <2>1. \E i \in 1..Len(s) : s[i] = e
    OBVIOUS
  <2>2. RemoveFirst(s, e) = SubSeq(s, 1, k - 1) \o SubSeq(s, k + 1, Len(s))
    BY <2>1 DEF RemoveFirst, RemoveAt
  <2> HIDE DEF k
  <2> QED BY <1>2, <2>2
<1> HIDE DEF k, l
<1> DEFINE a == SubSeq(s, 1, m - 1)
           b == SubSeq(s, m + 1, l)
<1>4. /\ a \in Seq(S) /\ Len(a) = m - 1 /\ \A i \in 1..(m - 1) : a[i] = s[i]
      /\ b \in Seq(S) /\ Len(b) = l - m /\ \A i \in 1..(l - m) : b[i] = s[m + i]
  <2>1. a \in Seq(S) /\ Len(a) = m - 1 /\ \A i \in 1..(m - 1) : a[i] = s[i]
    BY <1>1 DEF l
  <2>2. b \in Seq(S) /\ Len(b) = l - m /\ \A i \in 1..(l - m) : b[i] = s[m + i]
    BY <1>1 DEF l
  <2> QED BY <2>1, <2>2
<1> HIDE DEF a, b
<1>5. /\ a \o b \in Seq(S) /\ Len(a \o b) = l - 1
      /\ \A i \in 1..(l - 1) : (a \o b)[i] = IF i <= m - 1 THEN a[i] ELSE b[i - (m - 1)]
  <2>1. /\ a \o b \in Seq(S) /\ Len(a \o b) = Len(a) + Len(b)
        /\ \A i \in 1..(Len(a) + Len(b)) : (a \o b)[i] = IF i <= Len(a) THEN a[i] ELSE b[i - Len(a)]
    BY <1>4, ConcatProperties
  <2>2. Len(a) + Len(b) = l - 1
    BY <1>1, <1>4
  <2> QED BY <1>4, <2>1, <2>2
<1>6. ASSUME NEW i \in 1..(l - 1) PROVE (a \o b)[i] = Cut(s, m)[i]
  <2>1. Cut(s, m)[i] = IF i < m THEN s[i] ELSE s[i + 1]
    BY CutAt DEF l
  <2>2. CASE i < m
    <3>1. i \in 1..(m - 1) /\ i <= m - 1
      BY <1>1, <2>2
    <3> QED BY <1>4, <1>5, <2>1, <2>2, <3>1
  <2>3. CASE ~(i < m)
    <3>1. ~(i <= m - 1) /\ i - (m - 1) \in 1..(l - m) /\ m + (i - (m - 1)) = i + 1
      BY <1>1, <2>3
    <3>2. b[i - (m - 1)] = s[m + (i - (m - 1))]
      BY <1>4, <3>1
    <3> QED BY <1>5, <2>1, <2>3, <3>1, <3>2
  <2> QED BY <2>2, <2>3
<1>7. a \o b = Cut(s, m)
  <2> DEFINE x == a \o b
             y == Cut(s, m)
  <2>1. x \in [1..(l - 1) -> S] /\ y \in [1..(l - 1) -> S]
    <3>1. y \in Seq(S) /\ Len(y) = l - 1 /\ x \in Seq(S) /\ Len(x) = l - 1
      BY <1>5, CutAt DEF l
    <3> HIDE DEF x, y
    <3> QED BY <3>1, LenProperties
  <2> HIDE DEF x, y
  <2>2. \A i \in 1..(l - 1) : x[i] = y[i]
    BY <1>6 DEF x, y
  <2>3. x = [i \in 1..(l - 1) |-> x[i]] /\ y = [i \in 1..(l - 1) |-> y[i]]
    BY <2>1
  <2>4. x = y
    BY <2>2, <2>3
  <2> QED BY <2>4 DEF x, y
<1> QED BY <1>3, <1>7 DEF a, b, l
\* The node that list_remove finds is the first one on the path that has e.
LEMMA MatchAt ==
    ASSUME TypeOK, NEW p \in Seq(Addr), Path(p), NEW e, Matches(e) # {}
    PROVE  /\ Min(Matches(e)) \in 0..Len(p) - 1 /\ Min(Matches(e)) + 1 \in 1..Len(p)
           /\ Walk[Min(Matches(e))] = p[Min(Matches(e)) + 1]
           /\ Min(Matches(e)) > 0 => Walk[Min(Matches(e)) - 1] = p[Min(Matches(e))]
           /\ data[p[Min(Matches(e)) + 1]] = e
           /\ \A i \in 1..Len(p) : data[p[i]] = e => Min(Matches(e)) + 1 <= i
           /\ usage # "waiters" /\ (usage = "requests" => Min(Matches(e)) = 0)
<1> DEFINE l == Len(p)
           M == Matches(e)
           k == Min(M)
<1>1. l \in Nat /\ Visited = 0..l - 1 /\ \A j \in 0..l - 1 : Walk[j] = p[j + 1]
  BY ContentsOfPath
<1>2. /\ usage = "requests" => M = {j \in Visited : j = 0 /\ data[Walk[0]] = e}
      /\ usage = "readers" => M = {j \in Visited : data[Walk[j]] = e}
      /\ usage = "waiters" => M = {}
      /\ usage \in {"requests", "readers", "waiters"}
  BY DEF Matches, TypeOK, Usages
<1>3. M \subseteq Visited /\ M \in SUBSET Nat /\ M # {}
  BY <1>1, <1>2
<1>4. k \in M /\ \A j \in M : k <= j
  BY <1>3, MinInSet
<1> HIDE DEF k, M, l
<1>5. k \in 0..l - 1 /\ k + 1 \in 1..l /\ (k > 0 => k - 1 \in 0..l - 1 /\ (k - 1) + 1 = k)
  BY <1>1, <1>3, <1>4
<1>6. Walk[k] = p[k + 1] /\ (k > 0 => Walk[k - 1] = p[k])
  BY <1>1, <1>5
<1>7. usage # "waiters" /\ (usage = "requests" => k = 0)
  <2>1. usage # "waiters"
    BY <1>2, <1>3
  <2>2. usage = "requests" => k = 0
    BY <1>2, <1>4
  <2> QED BY <2>1, <2>2
<1>8. data[p[k + 1]] = e
  BY <1>2, <1>4, <1>6, <1>7
<1>9. ASSUME NEW i \in 1..l, data[p[i]] = e PROVE k + 1 <= i
  <2>1. i - 1 \in 0..l - 1 /\ (i - 1) + 1 = i
    BY <1>1
  <2>2. Walk[i - 1] = p[i] /\ i - 1 \in Visited
    BY <1>1, <2>1
  <2>3. CASE usage = "requests"
    BY <1>1, <1>7, <2>3
  <2>4. CASE usage = "readers"
    <3>1. i - 1 \in M
      BY <1>2, <1>9, <2>2, <2>4
    <3>2. k <= i - 1
      BY <1>4, <3>1
    <3> QED BY <1>1, <1>5, <3>2
  <2> QED BY <1>2, <1>7, <2>3, <2>4
<1> QED BY <1>5, <1>6, <1>7, <1>8, <1>9 DEF k, M, l

\* list_remove takes the first node with e out of the path.
LEMMA RemoveStep ==
    ASSUME TypeOK, NEW p \in Seq(Addr), Path(p), NEW e \in Elem, list_remove(e)
    PROVE  /\ TypeOK'
           /\ \E q \in Seq(Addr) : Path(q)' /\ Read(q)' = RemoveFirst(Read(p), e)
           /\ \E i \in 1..Len(p) : data[p[i]] = e
           /\ length' = length - 1
<1> DEFINE l == Len(p)
<1>1. /\ l \in Nat /\ DOMAIN p = 1..l /\ \A i \in 1..l : p[i] \in Addr
      /\ length = l /\ allocated = {p[i] : i \in 1..l}
  BY ContentsOfPath DEF Path
<1>2. PICK k : k = Min(Matches(e))
  OBVIOUS
<1>3. PICK m : m = k + 1
  OBVIOUS
<1>4. /\ k \in 0..l - 1 /\ m \in 1..l /\ Walk[k] = p[m] /\ (k > 0 => Walk[k - 1] = p[k])
      /\ data[p[m]] = e /\ \A i \in 1..l : data[p[i]] = e => m <= i
      /\ usage # "waiters" /\ (usage = "requests" => k = 0)
  <2>1. Matches(e) # {}
    BY DEF list_remove
  <2> QED BY <1>2, <1>3, <2>1, MatchAt
<1>5. PICK junk \in Pointer :
        next' = [x \in Addr |-> IF x = p[m] THEN junk
                                ELSE IF k > 0 /\ x = p[k] THEN next[p[m]] ELSE next[x]]
  <2>1. PICK junk \in Pointer :
          next' = [x \in Addr |-> IF x = Walk[k] THEN junk
                                  ELSE IF k > 0 /\ x = Walk[k - 1] THEN next[Walk[k]] ELSE next[x]]
    BY <1>2 DEF list_remove
  <2> QED BY <1>4, <2>1
<1>6. /\ allocated' = allocated \ {p[m]} /\ head' = IF k = 0 THEN next[p[m]] ELSE head
      /\ length' = length - 1 /\ draining' = (length # 1) /\ UNCHANGED <<tail, data, usage>>
  BY <1>2, <1>4 DEF list_remove
<1> DEFINE q == Cut(p, m)
<1>7. /\ q \in Seq(Addr) /\ Len(q) = l - 1 /\ l - 1 \in Nat /\ DOMAIN q = 1..(l - 1)
      /\ \A i \in 1..(l - 1) : q[i] = IF i < m THEN p[i] ELSE p[i + 1]
  BY <1>1, <1>4, CutAt
<1> HIDE DEF l, q
<1>8. /\ \A i, j \in 1..l : p[i] = p[j] => i = j
      /\ \A i \in 1..l : next[p[i]] = At(p, i + 1)
      /\ head = At(p, 1)
  BY <1>1 DEF Path
<1>9. \A i \in 1..(l - 1) : i \in 1..l /\ i + 1 \in 1..l /\ i + 1 # i
  BY <1>1
<1>10. TypeOK'
  BY <1>1, <1>4, <1>5, <1>6 DEF TypeOK, Pointer
<1>11. Path(q)'
  <2>0. At(p, m + 1) = At(q, m)
    <3>1. m + 1 \in 1..l <=> m \in 1..(l - 1)
      BY <1>1, <1>4
    <3>2. m \in 1..(l - 1) => q[m] = p[m + 1]
      BY <1>4, <1>7
    <3> QED BY <1>1, <1>7, <3>1, <3>2 DEF At
  <2>1. ASSUME NEW i \in 1..(l - 1), NEW j \in 1..(l - 1), q[i] = q[j] PROVE i = j
    <3>1. PICK x \in 1..l : q[i] = p[x] /\ x = IF i < m THEN i ELSE i + 1
      BY <1>7, <1>9
    <3>2. PICK y \in 1..l : q[j] = p[y] /\ y = IF j < m THEN j ELSE j + 1
      BY <1>7, <1>9
    <3>3. x = y
      BY <1>8, <2>1, <3>1, <3>2
    <3> QED BY <1>1, <1>4, <3>1, <3>2, <3>3
  <2>2. head' = At(q, 1)
    <3>1. CASE k = 0
      <4>1. m = 1 /\ head' = At(p, m + 1)
        BY <1>3, <1>4, <1>6, <1>8, <3>1
      <4>2. At(p, m + 1) = At(q, m)
        BY <2>0
      <4> QED BY <4>1, <4>2
    <3>2. CASE k # 0
      <4>1. 1 < m /\ 1 \in 1..(l - 1) /\ 1 \in 1..l
        BY <1>1, <1>3, <1>4, <3>2
      <4> QED BY <1>1, <1>6, <1>7, <1>8, <3>2, <4>1 DEF At
    <3> QED BY <3>1, <3>2
  <2>3. ASSUME NEW i \in 1..(l - 1) PROVE next'[q[i]] = At(q, i + 1)
    <3>1. CASE i + 1 < m
      <4>1. /\ i < m /\ i # m /\ (k > 0 => i # k) /\ i \in 1..l /\ i + 1 \in 1..l
            /\ i + 1 \in 1..(l - 1) /\ k \in 1..l
        BY <1>1, <1>3, <1>4, <3>1
      <4>2. p[i] # p[m] /\ p[i] # p[k] /\ p[i] \in Addr
        BY <1>1, <1>3, <1>4, <1>8, <4>1
      <4>3. q[i] = p[i] /\ q[i + 1] = p[i + 1]
        BY <1>7, <3>1, <4>1
      <4>4. next'[p[i]] = next[p[i]]
        BY <1>5, <4>2
      <4> QED BY <1>1, <1>7, <1>8, <4>1, <4>3, <4>4 DEF At
    <3>2. CASE i + 1 = m
      <4>1. i = k /\ k > 0 /\ i < m /\ i \in 1..l /\ m # k
        BY <1>1, <1>3, <1>4, <3>2
      <4>2. q[i] = p[k] /\ p[k] # p[m] /\ p[k] \in Addr
        BY <1>1, <1>4, <1>7, <1>8, <4>1
      <4>3. next'[p[k]] = next[p[m]]
        BY <1>5, <4>1, <4>2
      <4>4. next[p[m]] = At(p, m + 1)
        BY <1>4, <1>8
      <4> QED BY <2>0, <3>2, <4>2, <4>3, <4>4
    <3>3. CASE i + 1 > m
      <4>1. /\ ~(i < m) /\ i + 1 # m /\ i + 1 # k /\ i + 1 \in 1..l /\ (k > 0 => k \in 1..l)
            /\ ~(i + 1 < m)
        BY <1>1, <1>3, <1>4, <3>3
      <4>2. q[i] = p[i + 1] /\ p[i + 1] # p[m] /\ (k > 0 => p[i + 1] # p[k]) /\ p[i + 1] \in Addr
        BY <1>1, <1>4, <1>7, <1>8, <4>1
      <4>3. next'[p[i + 1]] = next[p[i + 1]]
        BY <1>5, <4>2
      <4>4. next[p[i + 1]] = At(p, (i + 1) + 1)
        BY <1>8, <4>1
      <4>5. (i + 1) + 1 \in 1..l <=> i + 1 \in 1..(l - 1)
        BY <1>1, <4>1
      <4>6. i + 1 \in 1..(l - 1) => q[i + 1] = p[(i + 1) + 1]
        BY <1>7, <4>1
      <4> QED BY <1>1, <1>7, <4>2, <4>3, <4>4, <4>5, <4>6 DEF At
    <3> QED BY <1>1, <1>4, <3>1, <3>2, <3>3
  <2>4. allocated' = {q[i] : i \in 1..(l - 1)}
    <3>1. ASSUME NEW x \in allocated' PROVE x \in {q[i] : i \in 1..(l - 1)}
      <4>1. PICK i \in 1..l : x = p[i] /\ i # m
        BY <1>1, <1>6, <3>1
      <4>2. CASE i < m
        <5>1. i \in 1..(l - 1)
          BY <1>1, <1>4, <4>2
        <5> QED BY <1>7, <4>1, <4>2, <5>1
      <4>3. CASE i > m
        <5>1. i - 1 \in 1..(l - 1) /\ ~(i - 1 < m) /\ (i - 1) + 1 = i
          BY <1>1, <1>4, <4>3
        <5>2. q[i - 1] = p[i]
          BY <1>7, <5>1
        <5> QED BY <4>1, <5>1, <5>2
      <4> QED BY <1>1, <1>4, <4>1, <4>2, <4>3
    <3>2. ASSUME NEW i \in 1..(l - 1) PROVE q[i] \in allocated'
      <4>1. PICK x \in 1..l : q[i] = p[x] /\ x # m
        <5>1. CASE i < m
          BY <1>4, <1>7, <1>9, <5>1
        <5>2. CASE ~(i < m)
          <6>1. i + 1 # m
            BY <1>1, <1>4, <5>2
          <6> QED BY <1>7, <1>9, <5>2, <6>1
        <5> QED BY <5>1, <5>2
      <4>2. p[x] # p[m]
        BY <1>4, <1>8, <4>1
      <4> QED BY <1>1, <1>6, <4>1, <4>2
    <3> QED BY <3>1, <3>2
  <2>5. length' = l - 1
    BY <1>1, <1>6
  <2>6. ASSUME l - 1 # 0, MayAdd' PROVE tail' = q[l - 1]
    <3>1. usage = "requests" /\ k = 0 /\ m = 1
      <4>1. length # 1
        BY <1>1, <2>6
      <4>2. draining'
        BY <1>6, <4>1, Zenon
      <4>3. usage' # "readers"
        BY <2>6, <4>2, Zenon DEF MayAdd
      <4>4. usage = "requests"
        BY <1>4, <1>6, <4>3 DEF TypeOK, Usages
      <4> QED BY <1>3, <1>4, <4>4
    <3>2. tail = p[l]
      BY <1>1, <1>4, <3>1 DEF Path, MayAdd, l
    <3>3. l - 1 \in 1..(l - 1) /\ ~(l - 1 < 1) /\ (l - 1) + 1 = l
      BY <1>1, <1>7, <2>6
    <3>4. q[l - 1] = p[l]
      BY <1>7, <3>1, <3>3
    <3> QED BY <1>6, <3>2, <3>4
  <2> QED BY <1>7, <2>1, <2>2, <2>3, <2>4, <2>5, <2>6 DEF Path
<1>12. Read(q)' = RemoveFirst(Read(p), e)
  <2> DEFINE r == Read(p)
  <2>1. r \in Seq(Elem) /\ Len(r) = l /\ \A i \in 1..l : r[i] = data[p[i]]
    BY ContentsOfPath DEF Read, l
  <2> HIDE DEF r
  <2>2. RemoveFirst(r, e) = Cut(r, m)
    <3>1. m \in 1..Len(r) /\ r[m] = e
      BY <1>4, <2>1
    <3>2. ASSUME NEW i \in 1..Len(r), r[i] = e PROVE m <= i
      BY <1>4, <2>1, <3>2
    <3> QED BY <2>1, <3>1, <3>2, RemoveFirstIsCut
  <2>3. Read(q)' = [i \in 1..(l - 1) |-> data[q[i]]]
    BY <1>6, <1>7 DEF Read
  <2>4. Cut(r, m) = [i \in 1..(l - 1) |-> IF i < m THEN r[i] ELSE r[i + 1]]
    BY <2>1 DEF Cut
  <2>5. ASSUME NEW i \in 1..(l - 1) PROVE data[q[i]] = IF i < m THEN r[i] ELSE r[i + 1]
    BY <1>7, <1>9, <2>1
  <2>6. Read(q)' = Cut(r, m)
    BY <2>3, <2>4, <2>5
  <2> QED BY <2>2, <2>6 DEF r
<1> QED BY <1>4, <1>6, <1>7, <1>10, <1>11, <1>12 DEF l
-----------------------------------------------------------------------------
(* list_init and list_destroy.                                             *)

\* An empty path.
LEMMA EmptyPath ==
    ASSUME head = Null, allocated = {}, length = 0
    PROVE  <<>> \in Seq(Addr) /\ Path(<<>>) /\ Read(<<>>) = <<>>
<1>1. <<>> \in Seq(Addr) /\ Len(<<>>) = 0 /\ DOMAIN <<>> = {}
  OBVIOUS
<1>2. Path(<<>>)
  BY <1>1 DEF Path, At
<1>3. Read(<<>>) = <<>>
  BY DEF Read
<1> QED BY <1>1, <1>2, <1>3

\* The list that list_init makes.
LEMMA ListInit ==
    ASSUME Init
    PROVE  TypeOK /\ Path(<<>>) /\ Read(<<>>) = <<>> /\ length = 0
<1>1. head = Null /\ tail = Null /\ length = 0 /\ allocated = {}
  BY DEF Init, list_init
<1>2. PICK e \in Elem : data = [a \in Addr |-> e]
  <2>1. (CHOOSE e \in Elem : TRUE) \in Elem
    BY HeapAssumption
  <2> QED BY <2>1 DEF Init
<1>3. TypeOK
  <2>1. next = [a \in Addr |-> Null] /\ usage \in Usages
    BY DEF Init
  <2>2. draining \in BOOLEAN
    BY Zenon DEF Init
  <2> QED BY <1>1, <1>2, <2>1, <2>2 DEF TypeOK, Pointer
<1> QED BY <1>1, <1>3, EmptyPath

\* list_destroy frees every node.
LEMMA DestroyStep ==
    ASSUME TypeOK, NEW p \in Seq(Addr), Path(p), list_destroy
    PROVE  TypeOK' /\ Path(<<>>)' /\ Read(<<>>)' = <<>> /\ length' = 0
<1>1. /\ allocated = {Walk[k] : k \in Visited} /\ Cardinality(Visited) = Len(p) /\ length = Len(p)
      /\ Len(p) \in Nat
  BY ContentsOfPath DEF Path
<1>2. allocated' = {}
  BY <1>1 DEF list_destroy
<1>3. length' = 0 /\ head' = Null
  BY <1>1 DEF list_destroy
<1>4. Path(<<>>)' /\ Read(<<>>)' = <<>>
  <2>1. Len(<<>>) = 0 /\ DOMAIN <<>> = {}
    OBVIOUS
  <2>2. Path(<<>>)'
    BY <1>2, <1>3, <2>1 DEF Path, At
  <2>3. Read(<<>>)' = <<>>
    BY DEF Read
  <2> QED BY <2>2, <2>3
<1>5. TypeOK'
  <2>1. tail' = Null /\ UNCHANGED <<data, next, usage>>
    BY DEF list_destroy
  <2>2. draining' \in BOOLEAN
    BY Zenon DEF list_destroy
  <2> QED BY <1>2, <1>3, <2>1, <2>2 DEF TypeOK, Pointer
<1> QED BY <1>3, <1>4, <1>5
-----------------------------------------------------------------------------
(* The theorems.                                                           *)

\* A loop from head reads the elements on the path, whatever the path.
ReadsPath == TypeOK => \A p \in Seq(Addr) : Path(p) => Contents = Read(p)

\* It does.
LEMMA ContentsRead == ReadsPath
BY ContentsOfPath DEF Read, ReadsPath

\* A step of the list: the path changes, and with it what a loop from head reads.
LEMMA ListStep ==
    ASSUME ListInv, [Next]_vars
    PROVE  /\ ListInv'
           /\ \/ \E e \in Elem : Contents' = Append(Contents, e) /\ length' = length + 1
              \/ \E e \in Elem : /\ \E i \in 1..Len(Contents) : Contents[i] = e
                                 /\ Contents' = RemoveFirst(Contents, e) /\ length' = length - 1
              \/ Contents' = <<>> /\ length' = 0
              \/ Contents' = Contents /\ length' = length
<1>1. PICK p \in Seq(Addr) : Path(p)
  BY DEF ListInv
<1>2. /\ TypeOK /\ Contents = Read(p) /\ Len(Contents) = Len(p)
      /\ \A i \in 1..Len(p) : Contents[i] = data[p[i]]
  <2>1. TypeOK
    BY DEF ListInv
  <2> QED BY <1>1, <2>1, ContentsOfPath DEF Read
<1>3. ReadsPath'
  BY ContentsRead, PTL
<1>4. ASSUME NEW e \in Elem, list_add(e)
      PROVE  ListInv' /\ Contents' = Append(Contents, e) /\ length' = length + 1
  <2>1. PICK q \in Seq(Addr) : Path(q)' /\ Read(q)' = Append(Read(p), e)
    BY <1>1, <1>2, <1>4, AddStep
  <2>2. TypeOK' /\ length' = length + 1
    BY <1>1, <1>2, <1>4, AddStep
  <2> QED BY <1>2, <1>3, <2>1, <2>2 DEF ListInv, ReadsPath
<1>5. ASSUME NEW e \in Elem, list_remove(e)
      PROVE  /\ ListInv' /\ Contents' = RemoveFirst(Contents, e) /\ length' = length - 1
             /\ \E i \in 1..Len(Contents) : Contents[i] = e
  <2>1. PICK q \in Seq(Addr) : Path(q)' /\ Read(q)' = RemoveFirst(Read(p), e)
    BY <1>1, <1>2, <1>5, RemoveStep
  <2>2. TypeOK' /\ length' = length - 1 /\ \E i \in 1..Len(p) : data[p[i]] = e
    BY <1>1, <1>2, <1>5, RemoveStep
  <2> QED BY <1>2, <1>3, <2>1, <2>2 DEF ListInv, ReadsPath
<1>6. ASSUME list_destroy PROVE ListInv' /\ Contents' = <<>> /\ length' = 0
  <2>1. TypeOK' /\ Path(<<>>)' /\ Read(<<>>)' = <<>> /\ length' = 0
    BY <1>1, <1>2, <1>6, DestroyStep
  <2>2. <<>> \in Seq(Addr)
    OBVIOUS
  <2> QED BY <1>3, <2>1, <2>2 DEF ListInv, ReadsPath
<1>7. ASSUME UNCHANGED vars PROVE ListInv' /\ Contents' = Contents /\ length' = length
  <2>1. TypeOK' /\ Path(p)' /\ Read(p)' = Read(p) /\ length' = length
    BY <1>1, <1>2, <1>7 DEF vars, TypeOK, Path, MayAdd, Read
  <2> QED BY <1>1, <1>2, <1>3, <2>1 DEF ListInv, ReadsPath
<1> QED BY <1>4, <1>5, <1>6, <1>7 DEF Next

\* The list is a path through its nodes at any time.
THEOREM ListCorrect == Spec => []ListInv
<1>1. Init => ListInv
  <2>1. <<>> \in Seq(Addr)
    OBVIOUS
  <2> QED BY <2>1, ListInit DEF ListInv
<1>2. ListInv /\ [Next]_vars => ListInv'
  BY ListStep
<1> QED BY <1>1, <1>2, PTL DEF Spec

\* No reachable node has been freed and no allocated node is out of reach.
THEOREM NothingLeaks == Spec => []NoLeak
<1>1. ListInv => NoLeak
  BY PathIsSafe DEF ListInv
<1> QED BY <1>1, ListCorrect, PTL

\* list_add writes through tail only when tail is the last node.
THEOREM TailStaysLast == Spec => []TailIsLast
<1>1. ListInv => TailIsLast
  BY PathIsSafe DEF ListInv
<1> QED BY <1>1, ListCorrect, PTL

\* list.c implements the queue of list.h.
THEOREM ListIsQueue == Spec => ImplementsQueue
<1>1. Init => Queue!Init
  <2> SUFFICES ASSUME Init PROVE Queue!Init
    OBVIOUS
  <2>1. TypeOK /\ Path(<<>>) /\ Read(<<>>) = <<>> /\ length = 0 /\ <<>> \in Seq(Addr)
    BY ListInit
  <2>2. Contents = <<>>
    BY <2>1, ContentsRead DEF ReadsPath
  <2> QED BY <2>1, <2>2 DEF Queue!Init
<1>2. ListInv /\ [Next]_vars => [Queue!Next]_<<Contents, length>>
  <2> SUFFICES ASSUME ListInv, [Next]_vars PROVE [Queue!Next]_<<Contents, length>>
    OBVIOUS
  <2>1. CASE \E e \in Elem : Contents' = Append(Contents, e) /\ length' = length + 1
    BY <2>1 DEF Queue!Next, Queue!Add
  <2>2. CASE \E e \in Elem : /\ \E i \in 1..Len(Contents) : Contents[i] = e
                             /\ Contents' = RemoveFirst(Contents, e) /\ length' = length - 1
    <3>1. PICK e \in Elem : /\ \E i \in 1..Len(Contents) : Contents[i] = e
                            /\ Contents' = RemoveFirst(Contents, e) /\ length' = length - 1
      BY <2>2
    <3>2. e \in Queue!ToSet(Contents)
      BY <3>1 DEF Queue!ToSet
    <3>3. Queue!RemoveFirst(Contents, e) = RemoveFirst(Contents, e)
      BY DEF Queue!RemoveFirst, RemoveFirst, Queue!RemoveAt, RemoveAt, Queue!SelectInSeq,
             SelectInSeq, Queue!Min, Min
    <3>4. Queue!Drop(e)
      BY <3>1, <3>2, <3>3 DEF Queue!Drop
    <3> QED BY <3>4 DEF Queue!Next
  <2>3. CASE Contents' = <<>> /\ length' = 0
    BY <2>3 DEF Queue!Next, Queue!Destroy
  <2>4. CASE Contents' = Contents /\ length' = length
    BY <2>4
  <2> QED BY <2>1, <2>2, <2>3, <2>4, ListStep
<1> QED BY <1>1, <1>2, ListCorrect, PTL DEF Spec, ImplementsQueue, Queue!Spec
=============================================================================
