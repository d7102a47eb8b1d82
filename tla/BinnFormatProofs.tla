-------------------------- MODULE BinnFormatProofs --------------------------
(***************************************************************************)
(* Lemmas on the containers of binn.c: what the setters and binn_ptr       *)
(* write into a block, and what the readers find in it.                    *)
(***************************************************************************)
EXTENDS BinnFormat, SequenceFacts

-----------------------------------------------------------------------------
(* Structures and their blocks.                                            *)

ItemFields == {"type", "writable", "dirty", "pbuf", "alloc_size", "used_size", "count", "size", "ptr", "mem"}

\* Every field of a buffer starts at an offset, has a byte, and ends by n.
EndsBy(mem, n) == \A o \in DOMAIN mem : o \in Nat /\ mem[o].w \in Nat \ {0} /\ o + mem[o].w <= n

\* No field lies across n: one that starts before it ends by it.
SplitAt(mem, n) == \A o \in DOMAIN mem : o \in Nat /\ mem[o].w \in Nat \ {0} /\ (o < n => o + mem[o].w <= n)

\* A field of more that was not in mem ends by n.
Fresh(mem, more, n) == \A o \in DOMAIN more : o + more[o].w <= n \/ (o \in DOMAIN mem /\ more[o] = mem[o])

\* A binn structure, and what it and its block agree on.
Struct(item) ==
  /\ DOMAIN item = ItemFields
  /\ item.pbuf \in Nat /\ item.alloc_size \in Nat \ {0} /\ item.used_size \in Nat /\ item.count \in Nat
  /\ MAX_BINN_HEADER <= item.used_size /\ SplitAt(item.mem, item.used_size)

\* r is item in a block with room for n bytes more, which may be a new one.
Roomier(item, r, n) ==
  /\ DOMAIN r = DOMAIN item /\ r.type = item.type /\ r.writable = item.writable /\ r.dirty = item.dirty
  /\ r.used_size = item.used_size /\ r.count = item.count /\ r.size = item.size /\ r.ptr = item.ptr
  /\ r.mem = item.mem /\ r.alloc_size \in Nat \ {0} /\ item.used_size + n <= r.alloc_size
  /\ item.alloc_size <= r.alloc_size
  /\ (r.pbuf = item.pbuf /\ r.alloc_size = item.alloc_size) \/ r.pbuf = item.pbuf + 1

\* CalcAllocation finds a size that is large enough.
LEMMA CalcAllocationEnough ==
    ASSUME NEW needed \in Nat, NEW alloc \in Nat \ {0}
    PROVE  CalcAllocation(needed, alloc) \in Nat /\ CalcAllocation(needed, alloc) >= needed
<1> DEFINE Enough(k) == alloc * 2 ^ k >= needed
           I == {k \in Nat : Enough(k)}
           least == CHOOSE k \in 0..needed : Enough(k) /\ \A j \in 0..(k - 1) : alloc * 2 ^ j < needed
<1>1. \A k \in Nat : 2 ^ k \in Nat /\ alloc * 2 ^ k \in Nat
  <2> SUFFICES ASSUME NEW k \in Nat PROVE 2 ^ k \in Nat /\ alloc * 2 ^ k \in Nat
    OBVIOUS
  <2> DEFINE p == 2 ^ k
  <2>1. p \in Nat
    BY PowerCounts
  <2> HIDE DEF p
  <2>2. alloc * p \in Nat
    BY <2>1
  <2> QED BY <2>1, <2>2 DEF p
<1>2. needed \in I
  <2> DEFINE p == 2 ^ needed
  <2>1. p \in Nat /\ p > needed
    BY PowerAbove
  <2> HIDE DEF p
  <2>2. alloc * p >= p
    BY <2>1
  <2>3. alloc * p >= needed
    BY <2>1, <2>2
  <2> QED BY <2>3 DEF p
<1>3. I \in SUBSET Nat /\ I # {}
  BY <1>2
<1>4. PICK m \in I : \A y \in I : m <= y
  <2> HIDE DEF I
  <2> QED BY <1>3, MinInSet
<1>5. m \in 0..needed /\ Enough(m)
  BY <1>2, <1>4
<1>6. \A j \in 0..(m - 1) : alloc * 2 ^ j < needed
  <2> SUFFICES ASSUME NEW j \in 0..(m - 1), ~(alloc * 2 ^ j < needed) PROVE FALSE
    OBVIOUS
  <2>1. j \in Nat /\ j < m
    BY <1>5
  <2>2. alloc * 2 ^ j \in Nat
    BY <1>1, <2>1
  <2>3. j \in I
    BY <2>1, <2>2
  <2> QED BY <1>4, <1>5, <2>1, <2>3
<1>7. least \in 0..needed /\ Enough(least)
  <2> HIDE DEF Enough
  <2> QED BY <1>5, <1>6
<1>8. CalcAllocation(needed, alloc) = alloc * 2 ^ least
  BY DEF CalcAllocation
<1> HIDE DEF least
<1>9. least \in Nat
  BY <1>7
<1> QED BY <1>1, <1>7, <1>8, <1>9

\* CheckAllocation makes room, in the block or in a new one.
LEMMA CheckAllocationRoom ==
    ASSUME NEW item, Struct(item), NEW n \in Nat
    PROVE  Roomier(item, CheckAllocation(item, n), n)
<1> DEFINE r == CheckAllocation(item, n)
           needed == item.used_size + n
           c == CalcAllocation(needed, item.alloc_size)
           q == [item EXCEPT !.alloc_size = c]
           p == item.pbuf + 1
<1>1. needed \in Nat /\ item.alloc_size \in Nat \ {0}
  BY DEF Struct, MAX_BINN_HEADER
<1>2. CASE needed <= item.alloc_size
  BY <1>2 DEF CheckAllocation, Roomier, Struct
<1>3. CASE ~(needed <= item.alloc_size)
  <2>1. c \in Nat /\ c >= needed
    BY <1>1, CalcAllocationEnough
  <2>2. r = [q EXCEPT !.pbuf = p]
    BY <1>3 DEF CheckAllocation
  <2> HIDE DEF c, p, r
  <2>3. /\ DOMAIN q = DOMAIN item /\ q.type = item.type /\ q.writable = item.writable /\ q.dirty = item.dirty
        /\ q.used_size = item.used_size /\ q.count = item.count /\ q.size = item.size /\ q.ptr = item.ptr
        /\ q.mem = item.mem /\ q.alloc_size = c
    BY DEF Struct, ItemFields
  <2>4. DOMAIN q = ItemFields
    BY <2>3 DEF Struct
  <2> HIDE DEF q
  <2>5. /\ DOMAIN r = DOMAIN q /\ r.type = q.type /\ r.writable = q.writable /\ r.dirty = q.dirty
        /\ r.used_size = q.used_size /\ r.count = q.count /\ r.size = q.size /\ r.ptr = q.ptr
        /\ r.mem = q.mem /\ r.alloc_size = q.alloc_size /\ r.pbuf = p
    BY <2>2, <2>4 DEF ItemFields
  <2>6. r.alloc_size \in Nat \ {0} /\ item.used_size + n <= r.alloc_size /\ item.alloc_size <= r.alloc_size
    <3>1. c > item.alloc_size
      BY <1>1, <1>3, <2>1 DEF needed
    <3> QED BY <1>1, <2>1, <2>3, <2>5, <3>1 DEF needed
  <2> QED BY <2>3, <2>5, <2>6 DEF Roomier, p, r
<1> QED BY <1>2, <1>3

\* More room changes nothing in the structure.
LEMMA RoomierStruct ==
    ASSUME NEW item, Struct(item), NEW n \in Nat, NEW r, Roomier(item, r, n)
    PROVE  Struct(r)
BY DEF Struct, Roomier, MAX_BINN_HEADER

-----------------------------------------------------------------------------
(* Appending fields.                                                       *)

\* The bytes of mem below n are the same in more.
Keeps(mem, more, n) ==
  \A o \in 0..(n - 1) : (o \in DOMAIN more <=> o \in DOMAIN mem) /\ (o \in DOMAIN mem => more[o] = mem[o])

\* r is item with n bytes more at its end.
Grown(item, r, n) ==
  /\ n \in Nat /\ DOMAIN r = DOMAIN item /\ r.type = item.type /\ r.writable = item.writable
  /\ r.pbuf = item.pbuf /\ r.alloc_size = item.alloc_size /\ r.count = item.count
  /\ r.size = item.size /\ r.ptr = item.ptr /\ r.used_size = item.used_size + n
  /\ SplitAt(r.mem, r.used_size) /\ Keeps(item.mem, r.mem, item.used_size)
  /\ Fresh(item.mem, r.mem, r.used_size)

\* What is kept or fresh over two steps.
LEMMA KeptAgain ==
    ASSUME NEW m, NEW m1, NEW m2, NEW u \in Nat, NEW x \in Nat, u <= x, Keeps(m, m1, u), Keeps(m1, m2, x)
    PROVE  Keeps(m, m2, u)
<1>1. \A o \in 0..(u - 1) : o \in 0..(x - 1)
  OBVIOUS
<1> QED BY <1>1 DEF Keeps

LEMMA FreshAgain ==
    ASSUME NEW m, NEW m1, NEW m2, NEW x \in Nat, NEW y \in Nat, x <= y, Fresh(m, m1, x), Fresh(m1, m2, y),
           \A o \in DOMAIN m1 : o \in Nat /\ m1[o].w \in Nat
    PROVE  Fresh(m, m2, y)
BY DEF Fresh

\* Bytes written at the end leave those before alone.
LEMMA PutAtEnd ==
    ASSUME NEW mem, NEW n \in Nat, SplitAt(mem, n), NEW f, f.w \in Nat \ {0}
    PROVE  /\ SplitAt(Put(mem, n, f), n + f.w) /\ Keeps(mem, Put(mem, n, f), n) /\ Fresh(mem, Put(mem, n, f), n + f.w)
           /\ n \in DOMAIN Put(mem, n, f) /\ Put(mem, n, f)[n] = f
<1> DEFINE more == Put(mem, n, f)
           D == (DOMAIN mem \ (n..(n + f.w - 1))) \cup {n}
<1>1. more = [o \in D |-> IF o = n THEN f ELSE mem[o]]
  BY DEF Put
<1>2. \A o \in DOMAIN mem : o \in Nat /\ mem[o].w \in Nat \ {0} /\ (o < n => o + mem[o].w <= n)
  BY DEF SplitAt
<1> HIDE DEF more
<1>3. DOMAIN more = D /\ more[n] = f /\ \A o \in D : o # n => o \in DOMAIN mem /\ more[o] = mem[o]
  BY <1>1
<1>4. \A o \in D : o = n \/ (o \in DOMAIN mem /\ ~(n <= o /\ o < n + f.w))
  BY <1>2
<1>5. \A o \in DOMAIN mem : o < n => o \in D
  BY <1>2
<1> HIDE DEF D
<1>6. SplitAt(more, n + f.w)
  <2> SUFFICES ASSUME NEW o \in DOMAIN more
               PROVE  o \in Nat /\ more[o].w \in Nat \ {0} /\ (o < n + f.w => o + more[o].w <= n + f.w)
    BY DEF SplitAt
  <2>1. CASE o = n
    BY <1>3, <2>1
  <2>2. CASE o # n
    BY <1>2, <1>3, <1>4, <2>2
  <2> QED BY <2>1, <2>2
<1>7. Keeps(mem, more, n)
  <2> SUFFICES ASSUME NEW o \in 0..(n - 1)
               PROVE  (o \in DOMAIN more <=> o \in DOMAIN mem) /\ (o \in DOMAIN mem => more[o] = mem[o])
    BY DEF Keeps
  <2>1. o # n /\ o < n
    OBVIOUS
  <2> QED BY <1>3, <1>4, <1>5, <2>1
<1>8. Fresh(mem, more, n + f.w)
  <2> SUFFICES ASSUME NEW o \in DOMAIN more PROVE o + more[o].w <= n + f.w \/ (o \in DOMAIN mem /\ more[o] = mem[o])
    BY DEF Fresh
  <2>1. CASE o = n
    BY <1>3, <2>1
  <2>2. CASE o # n
    BY <1>3, <2>2
  <2> QED BY <2>1, <2>2
<1>9. n \in DOMAIN more
  BY <1>1 DEF D
<1> QED BY <1>3, <1>6, <1>7, <1>8, <1>9 DEF more

\* One field more.
LEMMA AppendFieldGrown ==
    ASSUME NEW item, Struct(item), NEW f, f.w \in Nat
    PROVE  LET r == AppendField(item, f)
           IN  /\ Grown(item, r, f.w) /\ Struct(r) /\ r.dirty = item.dirty
               /\ f.w # 0 => item.used_size \in DOMAIN r.mem /\ r.mem[item.used_size] = f
<1> DEFINE r == AppendField(item, f)
           u == item.used_size
           m == Put(item.mem, u, f)
           q == [item EXCEPT !.mem = m]
<1>1. u \in Nat /\ SplitAt(item.mem, u)
  BY DEF Struct
<1>2. CASE f.w = 0
  <2>1. r = item
    BY <1>2 DEF AppendField
  <2>2. item.used_size + 0 = item.used_size
    BY <1>1
  <2> HIDE DEF r
  <2>3. Grown(item, r, 0)
    BY <1>1, <2>1, <2>2 DEF Grown, Keeps, Fresh
  <2> QED BY <1>2, <2>1, <2>3 DEF r
<1>3. CASE f.w # 0
  <2>1. SplitAt(m, u + f.w) /\ Keeps(item.mem, m, u) /\ Fresh(item.mem, m, u + f.w) /\ u \in DOMAIN m /\ m[u] = f
    BY <1>1, <1>3, PutAtEnd
  <2>2. r = [q EXCEPT !.used_size = u + f.w]
    <3>1. r = [item EXCEPT !.mem = m, !.used_size = item.used_size + f.w]
      BY <1>3, Zenon DEF AppendField
    <3> HIDE DEF m, r
    <3> QED BY <3>1
  <2> HIDE DEF m, r, u
  <2>3. /\ DOMAIN q = DOMAIN item /\ q.type = item.type /\ q.writable = item.writable /\ q.dirty = item.dirty
        /\ q.pbuf = item.pbuf /\ q.alloc_size = item.alloc_size /\ q.count = item.count /\ q.size = item.size
        /\ q.ptr = item.ptr /\ q.mem = m
    BY DEF Struct, ItemFields
  <2>4. DOMAIN q = ItemFields
    BY <2>3 DEF Struct
  <2> HIDE DEF q
  <2>5. /\ DOMAIN r = DOMAIN q /\ r.type = q.type /\ r.writable = q.writable /\ r.dirty = q.dirty
        /\ r.pbuf = q.pbuf /\ r.alloc_size = q.alloc_size /\ r.count = q.count /\ r.size = q.size
        /\ r.ptr = q.ptr /\ r.mem = q.mem /\ r.used_size = u + f.w
    BY <2>2, <2>4 DEF ItemFields
  <2>6. Grown(item, r, f.w) /\ r.dirty = item.dirty /\ r.mem = m
    BY <2>1, <2>3, <2>5 DEF Grown, u
  <2>7. u + f.w \in Nat /\ MAX_BINN_HEADER <= u + f.w
    BY <1>1 DEF Struct, u, MAX_BINN_HEADER
  <2>8. Struct(r)
    BY <2>1, <2>3, <2>4, <2>5, <2>7 DEF Struct
  <2> QED BY <2>1, <2>6, <2>8 DEF r, u
<1> QED BY <1>2, <1>3

\* The recursive function of AppendFields exists, and computes it field by field.
LEMMA AppendFieldsRun ==
    ASSUME NEW item, NEW fields, Len(fields) \in Nat
    PROVE  \E f : /\ f[0] = item /\ \A i \in 1..Len(fields) : f[i] = AppendField(f[i - 1], fields[i])
                  /\ AppendFields(item, fields) = f[Len(fields)]
<1> DEFINE Run(f, n) == f = [i \in 0..n |-> IF i = 0 THEN item ELSE AppendField(f[i - 1], fields[i])]
           I == {n \in Nat : \E f : Run(f, n)}
<1>1. 0 \in I
  <2> DEFINE f == [i \in 0..0 |-> item]
  <2>1. f = [i \in 0..0 |-> IF i = 0 THEN item ELSE AppendField(f[i - 1], fields[i])]
    OBVIOUS
  <2> QED BY <2>1
<1>2. ASSUME NEW n \in I PROVE n + 1 \in I
  <2>1. n \in Nat
    OBVIOUS
  <2>2. PICK f : Run(f, n)
    OBVIOUS
  <2> DEFINE g == [i \in 0..(n + 1) |-> IF i = n + 1 THEN AppendField(f[n], fields[n + 1]) ELSE f[i]]
  <2>3. \A i \in 0..(n + 1) : g[i] = IF i = 0 THEN item ELSE AppendField(g[i - 1], fields[i])
    <3> SUFFICES ASSUME NEW i \in 0..(n + 1)
                 PROVE  g[i] = IF i = 0 THEN item ELSE AppendField(g[i - 1], fields[i])
      OBVIOUS
    <3>1. CASE i = n + 1
      <4>1. i # 0 /\ i - 1 = n /\ n \in 0..(n + 1) /\ n # n + 1
        BY <2>1, <3>1
      <4>2. g[n] = f[n]
        BY <4>1
      <4> QED BY <3>1, <4>1, <4>2
    <3>2. CASE i # n + 1
      <4>1. i \in 0..n /\ (i # 0 => i - 1 \in 0..(n + 1) /\ i - 1 # n + 1)
        BY <2>1, <3>2
      <4>2. g[i] = f[i] /\ (i # 0 => g[i - 1] = f[i - 1])
        BY <3>2, <4>1
      <4>3. f[i] = IF i = 0 THEN item ELSE AppendField(f[i - 1], fields[i])
        BY <2>2, <4>1
      <4> QED BY <4>2, <4>3
    <3> QED BY <3>1, <3>2
  <2> DEFINE h == [i \in 0..(n + 1) |-> IF i = 0 THEN item ELSE AppendField(g[i - 1], fields[i])]
  <2>4. g = h
    <3>1. \A i \in 0..(n + 1) : g[i] = h[i]
      BY <2>3
    <3> HIDE <2>3
    <3> QED BY <3>1
  <2>5. Run(g, n + 1)
    BY <2>4
  <2>6. n + 1 \in Nat
    BY <2>1
  <2> HIDE DEF g, h, Run
  <2> QED BY <2>5, <2>6
<1>3. I = Nat
  <2> HIDE DEF Run
  <2>1. I \in SUBSET Nat
    OBVIOUS
  <2> HIDE DEF I
  <2> QED BY <1>1, <1>2, <2>1, Induction
<1> DEFINE n == Len(fields)
           after == CHOOSE f : Run(f, n)
<1>4. Run(after, n)
  BY <1>3
<1>5. AppendFields(item, fields) = after[n]
  BY DEF AppendFields
<1>6. after[0] = item /\ \A i \in 1..n : after[i] = AppendField(after[i - 1], fields[i])
  <2> HIDE DEF after
  <2> QED BY <1>4
<1> QED BY <1>5, <1>6

\* The fields are in mem one behind the other: the i-th starts at off[i - 1].
Laid(mem, fields, off) ==
  \A i \in 1..Len(fields) : /\ off[i] = off[i - 1] + fields[i].w
                            /\ fields[i].w # 0 => off[i - 1] \in DOMAIN mem /\ mem[off[i - 1]] = fields[i]

\* Appended fields lie one behind the other from used_size on, and end at the new one.
LEMMA AppendFieldsGrown ==
    ASSUME NEW item, Struct(item), NEW fields, Len(fields) \in Nat, \A i \in 1..Len(fields) : fields[i].w \in Nat
    PROVE  LET r == AppendFields(item, fields)
           IN  /\ Struct(r) /\ r.dirty = item.dirty
               /\ \E off : /\ off[0] = item.used_size /\ Laid(r.mem, fields, off)
                           /\ off[Len(fields)] = r.used_size
                           /\ Grown(item, r, off[Len(fields)] - off[0])
<1> DEFINE n == Len(fields)
           r == AppendFields(item, fields)
<1>1. PICK f : f[0] = item /\ (\A i \in 1..n : f[i] = AppendField(f[i - 1], fields[i])) /\ r = f[n]
  BY AppendFieldsRun
<1> DEFINE Good(k) == /\ Struct(f[k]) /\ f[k].dirty = item.dirty
                      /\ Grown(item, f[k], f[k].used_size - item.used_size)
                      /\ \A i \in 1..k : /\ f[i].used_size = f[i - 1].used_size + fields[i].w
                                         /\ f[i - 1].used_size \in Nat /\ f[i].used_size <= f[k].used_size
                                         /\ fields[i].w # 0 => /\ f[i - 1].used_size \in DOMAIN f[k].mem
                                                               /\ f[k].mem[f[i - 1].used_size] = fields[i]
           I == {k \in Nat : k <= n => Good(k)}
<1>2. 0 \in I
  <2>1. item.used_size \in Nat /\ SplitAt(item.mem, item.used_size)
    BY DEF Struct
  <2>2. item.used_size = item.used_size + (item.used_size - item.used_size) /\ item.used_size - item.used_size \in Nat
    BY <2>1
  <2>3. Grown(item, item, item.used_size - item.used_size)
    BY <2>1, <2>2 DEF Grown, Keeps, Fresh
  <2> QED BY <1>1, <2>3
<1>3. ASSUME NEW k \in I PROVE k + 1 \in I
  <2>1. k \in Nat /\ k + 1 \in Nat /\ (k + 1) - 1 = k
    OBVIOUS
  <2> SUFFICES ASSUME k + 1 <= n PROVE Good(k + 1)
    BY <2>1
  <2>2. Good(k) /\ k + 1 \in 1..n
    BY <2>1
  <2>3. f[k + 1] = AppendField(f[k], fields[k + 1]) /\ fields[k + 1].w \in Nat
    BY <1>1, <2>1, <2>2
  <2>4. /\ Grown(f[k], f[k + 1], fields[k + 1].w) /\ Struct(f[k + 1]) /\ f[k + 1].dirty = f[k].dirty
        /\ fields[k + 1].w # 0 => /\ f[k].used_size \in DOMAIN f[k + 1].mem
                                  /\ f[k + 1].mem[f[k].used_size] = fields[k + 1]
    BY <2>2, <2>3, AppendFieldGrown
  <2> DEFINE a == f[k].used_size
             b == f[k + 1].used_size
             u == item.used_size
  <2>5. a \in Nat /\ u \in Nat /\ b = a + fields[k + 1].w
    BY <2>2, <2>4 DEF Struct, Grown
  <2>6. Grown(item, f[k + 1], b - u)
    <3>1. Grown(item, f[k], a - u) /\ Grown(f[k], f[k + 1], fields[k + 1].w)
      BY <2>2, <2>4
    <3>2. a - u \in Nat
      BY <3>1 DEF Grown
    <3>3. b = u + (b - u) /\ b - u \in Nat /\ u <= a
      BY <2>3, <2>5, <3>2
    <3>4. Keeps(item.mem, f[k].mem, u) /\ Keeps(f[k].mem, f[k + 1].mem, a)
      BY <3>1 DEF Grown
    <3> DEFINE m == item.mem
               m1 == f[k].mem
               m2 == f[k + 1].mem
    <3>5. /\ Fresh(m, m1, a) /\ Fresh(m1, m2, b) /\ a <= b /\ b \in Nat
          /\ \A o \in DOMAIN m1 : o \in Nat /\ m1[o].w \in Nat
      BY <2>3, <2>5, <3>1 DEF Grown, SplitAt
    <3>6. Keeps(m, m2, u) /\ Fresh(m, m2, b)
      <4> HIDE DEF a, b, u, m, m1, m2
      <4>1. Keeps(m, m1, u) /\ Keeps(m1, m2, a)
        BY <3>4 DEF a, u, m, m1, m2
      <4> QED BY <2>5, <3>3, <3>5, <4>1, KeptAgain, FreshAgain
    <3> QED BY <3>1, <3>3, <3>6 DEF Grown
  <2>7. ASSUME NEW i \in 1..(k + 1)
        PROVE  /\ f[i].used_size = f[i - 1].used_size + fields[i].w
               /\ f[i - 1].used_size \in Nat /\ f[i].used_size <= f[k + 1].used_size
               /\ fields[i].w # 0 => /\ f[i - 1].used_size \in DOMAIN f[k + 1].mem
                                     /\ f[k + 1].mem[f[i - 1].used_size] = fields[i]
    <3>1. CASE i = k + 1
      <4>1. i - 1 = k
        BY <2>1, <3>1
      <4> QED BY <2>4, <2>5, <3>1, <4>1
    <3>2. CASE i # k + 1
      <4>1. i \in 1..k
        BY <2>1, <3>2
      <4>2. Keeps(f[k].mem, f[k + 1].mem, a)
        BY <2>4 DEF Grown
      <4>3. /\ f[i].used_size = f[i - 1].used_size + fields[i].w
            /\ f[i - 1].used_size \in Nat /\ f[i].used_size <= a
            /\ fields[i].w # 0 => /\ f[i - 1].used_size \in DOMAIN f[k].mem
                                  /\ f[k].mem[f[i - 1].used_size] = fields[i]
        BY <2>2, <4>1
      <4>4. fields[i].w \in Nat /\ i \in 1..n
        BY <2>2, <4>1
      <4>5. fields[i].w # 0 => f[i - 1].used_size \in 0..(a - 1)
        <5> DEFINE y == f[i - 1].used_size
                   z == f[i].used_size
                   w == fields[i].w
        <5>1. y \in Nat /\ z = y + w /\ z <= a /\ w \in Nat /\ a \in Nat
          BY <2>5, <4>3, <4>4
        <5> HIDE DEF y, z, w, a
        <5>2. w # 0 => y \in 0..(a - 1)
          BY <5>1
        <5> QED BY <5>2 DEF y, w
      <4>6. f[i].used_size <= b
        <5> DEFINE y == f[i - 1].used_size
                   z == f[i].used_size
        <5>1. y \in Nat /\ z = y + fields[i].w /\ z <= a /\ a <= b
          BY <2>3, <2>5, <4>3
        <5> HIDE DEF y, z, a, b
        <5> QED BY <2>5, <4>4, <5>1 DEF z, b
      <4> HIDE DEF a
      <4> QED BY <4>2, <4>3, <4>5, <4>6 DEF Keeps
    <3> QED BY <3>1, <3>2
  <2>8. Struct(f[k + 1]) /\ f[k + 1].dirty = item.dirty
    BY <2>2, <2>4
  <2> QED BY <2>6, <2>7, <2>8
<1>4. I = Nat
  <2> HIDE DEF Good
  <2>1. I \in SUBSET Nat
    OBVIOUS
  <2> HIDE DEF I
  <2> QED BY <1>2, <1>3, <2>1, Induction
<1>5. n \in Nat /\ n <= n
  OBVIOUS
<1>6. Good(n)
  <2> HIDE DEF Good
  <2> QED BY <1>4, <1>5
<1> DEFINE off == [i \in 0..n |-> f[i].used_size]
<1>7. off[0] = item.used_size /\ off[n] = r.used_size
  BY <1>1, <1>5
<1>8. Laid(r.mem, fields, off)
  <2> SUFFICES ASSUME NEW i \in 1..n
               PROVE  /\ off[i] = off[i - 1] + fields[i].w
                      /\ fields[i].w # 0 => off[i - 1] \in DOMAIN r.mem /\ r.mem[off[i - 1]] = fields[i]
    BY DEF Laid
  <2>1. i \in 0..n /\ i - 1 \in 0..n
    BY <1>5
  <2>2. off[i] = f[i].used_size /\ off[i - 1] = f[i - 1].used_size
    BY <2>1
  <2> HIDE DEF off
  <2> QED BY <1>1, <1>6, <2>2
<1>9. Struct(r) /\ r.dirty = item.dirty /\ Grown(item, r, off[n] - off[0])
  BY <1>1, <1>6, <1>7
<1> HIDE DEF r, off
<1> QED BY <1>7, <1>8, <1>9 DEF r
-----------------------------------------------------------------------------
(* Appending one field and more.                                           *)

Has(mem, o, f) == o \in DOMAIN mem /\ mem[o] = f

\* Appended fields, with their ends as numbers.
LEMMA AppendRun ==
    ASSUME NEW item, Struct(item), NEW fields, NEW n \in Nat, Len(fields) = n, \A i \in 1..n : fields[i].w \in Nat
    PROVE  LET r == AppendFields(item, fields)
           IN  /\ Struct(r) /\ r.dirty = item.dirty
               /\ \E off : /\ off[0] = item.used_size /\ off[n] = r.used_size /\ Grown(item, r, off[n] - off[0])
                           /\ \A i \in 1..n : /\ off[i] = off[i - 1] + fields[i].w
                                              /\ fields[i].w # 0 => Has(r.mem, off[i - 1], fields[i])
<1> DEFINE r == AppendFields(item, fields)
<1>1. /\ Struct(r) /\ r.dirty = item.dirty
      /\ \E off : /\ off[0] = item.used_size /\ Laid(r.mem, fields, off)
                  /\ off[n] = r.used_size /\ Grown(item, r, off[n] - off[0])
  BY AppendFieldsGrown
<1> HIDE DEF r
<1>2. PICK off : /\ off[0] = item.used_size /\ Laid(r.mem, fields, off)
                 /\ off[n] = r.used_size /\ Grown(item, r, off[n] - off[0])
  BY <1>1
<1>3. \A i \in 1..n : /\ off[i] = off[i - 1] + fields[i].w
                      /\ fields[i].w # 0 => Has(r.mem, off[i - 1], fields[i])
  BY <1>2 DEF Laid, Has
<1> QED BY <1>1, <1>2, <1>3 DEF r

\* Nothing to append.
LEMMA AppendNone ==
    ASSUME NEW item
    PROVE  AppendFields(item, <<>>) = item
<1>1. PICK f : f[0] = item /\ AppendFields(item, <<>>) = f[Len(<<>>)]
  <2>1. Len(<<>>) \in Nat
    OBVIOUS
  <2> QED BY <2>1, AppendFieldsRun
<1> QED BY <1>1

\* One field.
LEMMA AppendOne ==
    ASSUME NEW item, Struct(item), NEW fields, NEW a,
           Len(fields) = 1, fields[1] = a,
           a.w \in Nat \ {0}
    PROVE  LET r == AppendFields(item, fields)
           IN  /\ Struct(r) /\ r.dirty = item.dirty /\ Grown(item, r, a.w) /\ Has(r.mem, item.used_size, a)
<1> DEFINE r == AppendFields(item, fields)
<1>1. Len(fields) = 1 /\ fields[1] = a
  OBVIOUS
<1>2. 1 \in Nat /\ \A i \in 1..1 : fields[i].w \in Nat
  BY <1>1
<1>3. /\ Struct(r) /\ r.dirty = item.dirty
      /\ \E off : /\ off[0] = item.used_size /\ off[1] = r.used_size /\ Grown(item, r, off[1] - off[0])
                  /\ \A i \in 1..1 : /\ off[i] = off[i - 1] + fields[i].w
                                     /\ fields[i].w # 0 => Has(r.mem, off[i - 1], fields[i])
  BY <1>1, <1>2, AppendRun
<1> HIDE DEF r
<1>4. PICK off : /\ off[0] = item.used_size /\ Grown(item, r, off[1] - off[0])
                 /\ \A i \in 1..1 : /\ off[i] = off[i - 1] + fields[i].w
                                    /\ fields[i].w # 0 => Has(r.mem, off[i - 1], fields[i])
  BY <1>3
<1>5. off[1] = off[0] + a.w /\ Has(r.mem, off[0], a)
  BY <1>1, <1>4
<1>6. off[0] \in Nat /\ off[1] - off[0] = a.w
  BY <1>4, <1>5 DEF Struct
<1> QED BY <1>3, <1>4, <1>5, <1>6 DEF r

\* Two fields, the second of which may have no bytes.
LEMMA AppendTwo ==
    ASSUME NEW item, Struct(item), NEW fields, NEW a, NEW b,
           Len(fields) = 2, fields[1] = a, fields[2] = b,
           a.w \in Nat \ {0}, b.w \in Nat
    PROVE  LET r == AppendFields(item, fields)
               u == item.used_size
           IN  /\ Struct(r) /\ r.dirty = item.dirty /\ Grown(item, r, a.w + b.w) /\ Has(r.mem, u, a)
               /\ b.w # 0 => Has(r.mem, u + a.w, b)
<1> DEFINE r == AppendFields(item, fields)
<1>1. Len(fields) = 2 /\ fields[1] = a /\ fields[2] = b
  OBVIOUS
<1>2. 2 \in Nat /\ \A i \in 1..2 : fields[i].w \in Nat
  BY <1>1
<1>3. /\ Struct(r) /\ r.dirty = item.dirty
      /\ \E off : /\ off[0] = item.used_size /\ off[2] = r.used_size /\ Grown(item, r, off[2] - off[0])
                  /\ \A i \in 1..2 : /\ off[i] = off[i - 1] + fields[i].w
                                     /\ fields[i].w # 0 => Has(r.mem, off[i - 1], fields[i])
  BY <1>1, <1>2, AppendRun
<1> HIDE DEF r
<1>4. PICK off : /\ off[0] = item.used_size /\ Grown(item, r, off[2] - off[0])
                 /\ \A i \in 1..2 : /\ off[i] = off[i - 1] + fields[i].w
                                    /\ fields[i].w # 0 => Has(r.mem, off[i - 1], fields[i])
  BY <1>3
<1>5. off[1] = off[0] + a.w /\ Has(r.mem, off[0], a) /\ off[2] = off[1] + b.w /\ (b.w # 0 => Has(r.mem, off[1], b))
  BY <1>1, <1>4
<1>6. off[0] \in Nat /\ off[2] - off[0] = a.w + b.w
  BY <1>4, <1>5 DEF Struct
<1> QED BY <1>3, <1>4, <1>5, <1>6 DEF r

\* Three fields, the last of which may have no bytes.
LEMMA AppendThree ==
    ASSUME NEW item, Struct(item), NEW fields, NEW a, NEW b, NEW c,
           Len(fields) = 3, fields[1] = a, fields[2] = b, fields[3] = c,
           a.w \in Nat \ {0}, b.w \in Nat \ {0}, c.w \in Nat
    PROVE  LET r == AppendFields(item, fields)
               u == item.used_size
           IN  /\ Struct(r) /\ r.dirty = item.dirty /\ Grown(item, r, a.w + b.w + c.w) /\ Has(r.mem, u, a)
               /\ Has(r.mem, u + a.w, b) /\ (c.w # 0 => Has(r.mem, u + a.w + b.w, c))
<1> DEFINE r == AppendFields(item, fields)
<1>1. Len(fields) = 3 /\ fields[1] = a /\ fields[2] = b /\ fields[3] = c
  OBVIOUS
<1>2. 3 \in Nat /\ \A i \in 1..3 : fields[i].w \in Nat
  BY <1>1
<1>3. /\ Struct(r) /\ r.dirty = item.dirty
      /\ \E off : /\ off[0] = item.used_size /\ off[3] = r.used_size /\ Grown(item, r, off[3] - off[0])
                  /\ \A i \in 1..3 : /\ off[i] = off[i - 1] + fields[i].w
                                     /\ fields[i].w # 0 => Has(r.mem, off[i - 1], fields[i])
  BY <1>1, <1>2, AppendRun
<1> HIDE DEF r
<1>4. PICK off : /\ off[0] = item.used_size /\ Grown(item, r, off[3] - off[0])
                 /\ \A i \in 1..3 : /\ off[i] = off[i - 1] + fields[i].w
                                    /\ fields[i].w # 0 => Has(r.mem, off[i - 1], fields[i])
  BY <1>3
<1>5. /\ off[1] = off[0] + a.w /\ Has(r.mem, off[0], a) /\ off[2] = off[1] + b.w /\ Has(r.mem, off[1], b)
      /\ off[3] = off[2] + c.w /\ (c.w # 0 => Has(r.mem, off[2], c))
  BY <1>1, <1>4
<1>6. off[0] \in Nat /\ off[3] - off[0] = a.w + b.w + c.w
  BY <1>4, <1>5 DEF Struct
<1> QED BY <1>3, <1>4, <1>5, <1>6 DEF r

\* Four fields, the third of which may have no bytes.
LEMMA AppendFour ==
    ASSUME NEW item, Struct(item), NEW fields, NEW a, NEW b, NEW c, NEW d,
           Len(fields) = 4, fields[1] = a, fields[2] = b, fields[3] = c, fields[4] = d,
           a.w \in Nat \ {0}, b.w \in Nat \ {0}, c.w \in Nat, d.w \in Nat \ {0}
    PROVE  LET r == AppendFields(item, fields)
               u == item.used_size
           IN  /\ Struct(r) /\ r.dirty = item.dirty /\ Grown(item, r, a.w + b.w + c.w + d.w) /\ Has(r.mem, u, a)
               /\ Has(r.mem, u + a.w, b) /\ (c.w # 0 => Has(r.mem, u + a.w + b.w, c))
               /\ Has(r.mem, u + a.w + b.w + c.w, d)
<1> DEFINE r == AppendFields(item, fields)
<1>1. Len(fields) = 4 /\ fields[1] = a /\ fields[2] = b /\ fields[3] = c /\ fields[4] = d
  OBVIOUS
<1>2. 4 \in Nat /\ \A i \in 1..4 : fields[i].w \in Nat
  BY <1>1
<1>3. /\ Struct(r) /\ r.dirty = item.dirty
      /\ \E off : /\ off[0] = item.used_size /\ off[4] = r.used_size /\ Grown(item, r, off[4] - off[0])
                  /\ \A i \in 1..4 : /\ off[i] = off[i - 1] + fields[i].w
                                     /\ fields[i].w # 0 => Has(r.mem, off[i - 1], fields[i])
  BY <1>1, <1>2, AppendRun
<1> HIDE DEF r
<1>4. PICK off : /\ off[0] = item.used_size /\ Grown(item, r, off[4] - off[0])
                 /\ \A i \in 1..4 : /\ off[i] = off[i - 1] + fields[i].w
                                    /\ fields[i].w # 0 => Has(r.mem, off[i - 1], fields[i])
  BY <1>3
<1>5. /\ off[1] = off[0] + a.w /\ Has(r.mem, off[0], a) /\ off[2] = off[1] + b.w /\ Has(r.mem, off[1], b)
      /\ off[3] = off[2] + c.w /\ (c.w # 0 => Has(r.mem, off[2], c)) /\ off[4] = off[3] + d.w /\ Has(r.mem, off[3], d)
  BY <1>1, <1>4
<1>6. off[0] \in Nat /\ off[4] - off[0] = a.w + b.w + c.w + d.w
  BY <1>4, <1>5 DEF Struct
<1> QED BY <1>3, <1>4, <1>5, <1>6 DEF r
-----------------------------------------------------------------------------
(* Values.                                                                 *)

StorageTypes == {STORAGE_NOBYTES, STORAGE_BYTE, STORAGE_WORD, STORAGE_DWORD, STORAGE_QWORD,
                 STORAGE_STRING, STORAGE_BLOB, STORAGE_CONTAINER}
TypeBytes(t) == IF t > 255 THEN 2 ELSE 1

\* The size bytes of the buffer sub are in mem from v on.
BufferLaid(mem, sub, size, v) ==
  \A o \in 0..(size - 1) : (v + o \in DOMAIN mem <=> o \in DOMAIN sub) /\ (o \in DOMAIN sub => mem[v + o] = sub[o])

\* What AddValue writes behind the type is in mem from d up to q.
PayloadLaid(mem, storage, n, size, d, q) ==
  /\ FixedSize(storage) >= 0 => /\ q = d + FixedSize(storage)
                                /\ FixedSize(storage) # 0 => Has(mem, d, Field("data", FixedSize(storage), n))
  /\ storage = STORAGE_BLOB => /\ size \in Nat /\ q = d + 4 + size
                               /\ Has(mem, d, Field("int", 4, size))
                               /\ size # 0 => Has(mem, d + 4, Field("data", size, n))
  /\ storage = STORAGE_STRING => /\ size \in Nat /\ q = d + LenField(size).w + size + 1
                                 /\ Has(mem, d, LenField(size))
                                 /\ size # 0 => Has(mem, d + LenField(size).w, Field("data", size, n))
                                 /\ Has(mem, d + LenField(size).w + size, Field("data", 1, 0))

\* A value is in mem from v up to q: a container's own bytes, or a type and what follows.
ValueLaid(mem, t, storage, n, size, sub, v, q) ==
  /\ storage \in StorageTypes
  /\ storage = STORAGE_CONTAINER => size \in Nat \ {0} /\ q = v + size /\ BufferLaid(mem, sub, size, v)
  /\ storage # STORAGE_CONTAINER => /\ Has(mem, v, Field("type", TypeBytes(t), t))
                                    /\ PayloadLaid(mem, storage, n, size, v + TypeBytes(t), q)

\* The storages that CASE distinguishes.
LEMMA Storages ==
    ASSUME NEW storage
    PROVE  /\ FixedSize(storage) \in {-1, 0, 1, 2, 4, 8}
           /\ storage \in {STORAGE_BLOB, STORAGE_STRING, STORAGE_CONTAINER} => FixedSize(storage) = -1
           /\ STORAGE_BLOB # STORAGE_STRING /\ STORAGE_BLOB # STORAGE_CONTAINER
           /\ STORAGE_STRING # STORAGE_CONTAINER
           /\ storage \in StorageTypes => \/ FixedSize(storage) >= 0
                                          \/ storage \in {STORAGE_BLOB, STORAGE_STRING, STORAGE_CONTAINER}
BY DEF FixedSize, STORAGE_BLOB, STORAGE_STRING, STORAGE_CONTAINER, STORAGE_NOBYTES, STORAGE_BYTE,
       STORAGE_WORD, STORAGE_DWORD, STORAGE_QWORD, StorageTypes

\* The field of a length.
LEMMA LenFieldIs ==
    ASSUME NEW n \in Int
    PROVE  /\ LenField(n).w \in {1, 4} /\ LenField(n).n = n
           /\ LenField(n).w = 4 <=> n > ShortMax
           /\ LenField(n).hi <=> n > ShortMax
<1>1. CASE n > ShortMax
  <2> DEFINE g == Field("len", 4, n)
  <2>1. LenField(n) = [g EXCEPT !.hi = TRUE]
    BY <1>1 DEF LenField, FourBytes
  <2>2. g.w = 4 /\ g.n = n /\ "hi" \in DOMAIN g
    BY DEF Field
  <2> HIDE DEF g
  <2> QED BY <1>1, <2>1, <2>2
<1>2. CASE ~(n > ShortMax)
  <2> DEFINE g == Field("len", 1, n)
             b == (n > ShortMax)
             f == LenField(n)
  <2>1. f = [g EXCEPT !.hi = b]
    BY <1>2, Zenon DEF LenField, OneByte
  <2>2. g.w = 1 /\ g.n = n /\ DOMAIN g = {"kind", "w", "n", "hi"}
    BY DEF Field
  <2>3. b = FALSE
    BY <1>2
  <2> HIDE DEF g, b, f
  <2>4. f = [g EXCEPT !.hi = FALSE]
    BY <2>1, <2>3
  <2>5. f.w = 1 /\ f.n = n /\ f.hi = FALSE
    BY <2>2, <2>4
  <2> QED BY <1>2, <2>5 DEF f
<1> QED BY <1>1, <1>2

\* A buffer that is copied to the end leaves the bytes before alone.
LEMMA PutBufferAtEnd ==
    ASSUME NEW mem, NEW n \in Nat, SplitAt(mem, n), NEW sub, NEW size \in Nat, EndsBy(sub, size)
    PROVE  LET more == PutBuffer(mem, n, sub, size)
           IN  /\ SplitAt(more, n + size) /\ Keeps(mem, more, n) /\ Fresh(mem, more, n + size)
               /\ BufferLaid(more, sub, size, n)
<1> DEFINE there == {n + o : o \in DOMAIN sub}
           more == PutBuffer(mem, n, sub, size)
           left == DOMAIN mem \ (n..(n + size - 1))
<1>1. more = [o \in left \cup there |-> IF o \in there THEN sub[o - n] ELSE mem[o]]
  BY DEF PutBuffer
<1>2. \A o \in DOMAIN mem : o \in Nat /\ mem[o].w \in Nat \ {0} /\ (o < n => o + mem[o].w <= n)
  BY DEF SplitAt
<1>3. \A o \in DOMAIN sub : o \in Nat /\ o < size /\ sub[o].w \in Nat \ {0} /\ o + sub[o].w <= size
  BY DEF EndsBy
<1>4. \A o \in DOMAIN sub : n + o \in there /\ (n + o) - n = o
  BY <1>3
<1>5. \A p \in there : p \in Nat /\ p >= n /\ p < n + size /\ p - n \in DOMAIN sub /\ n + (p - n) = p
  BY <1>3
<1>6. \A o \in Int : n + o \in there => o \in DOMAIN sub
  BY <1>3
<1>7. \A o \in left : o \in DOMAIN mem /\ o \notin there /\ (o < n \/ o >= n + size)
  BY <1>2, <1>5
<1>8. \A o \in DOMAIN mem : o < n => o \in left
  BY <1>2
<1> HIDE DEF there, left
<1>9. DOMAIN more = left \cup there
  BY <1>1
<1>10. \A o \in left : more[o] = mem[o]
  BY <1>1, <1>7
<1>11. \A o \in DOMAIN sub : n + o \in DOMAIN more /\ more[n + o] = sub[o]
  BY <1>1, <1>4
<1>12. \A p \in there : more[p] = sub[p - n]
  BY <1>1
<1> HIDE DEF more
<1>13. ASSUME NEW o \in there PROVE o \in Nat /\ more[o].w \in Nat \ {0} /\ o + more[o].w <= n + size
  <2>1. o \in Nat /\ o - n \in DOMAIN sub /\ more[o] = sub[o - n]
    BY <1>5, <1>12
  <2> DEFINE x == sub[o - n].w
  <2>2. x \in Nat \ {0} /\ (o - n) + x <= size /\ more[o].w = x
    BY <1>3, <2>1
  <2> HIDE DEF x
  <2> QED BY <2>1, <2>2
<1>14. SplitAt(more, n + size)
  <2> SUFFICES ASSUME NEW o \in DOMAIN more
               PROVE  o \in Nat /\ more[o].w \in Nat \ {0} /\ (o < n + size => o + more[o].w <= n + size)
    BY DEF SplitAt
  <2>1. CASE o \in left
    BY <1>2, <1>7, <1>10, <2>1
  <2>2. CASE o \in there
    BY <1>13, <2>2
  <2> QED BY <1>9, <2>1, <2>2
<1>15. Keeps(mem, more, n)
  <2> SUFFICES ASSUME NEW o \in 0..(n - 1)
               PROVE  (o \in DOMAIN more <=> o \in DOMAIN mem) /\ (o \in DOMAIN mem => more[o] = mem[o])
    BY DEF Keeps
  <2>1. o \notin there
    BY <1>5
  <2> QED BY <1>7, <1>8, <1>9, <1>10, <2>1
<1>16. Fresh(mem, more, n + size)
  BY <1>7, <1>9, <1>10, <1>13 DEF Fresh
<1>17. BufferLaid(more, sub, size, n)
  <2> SUFFICES ASSUME NEW o \in 0..(size - 1)
               PROVE  (n + o \in DOMAIN more <=> o \in DOMAIN sub) /\ (o \in DOMAIN sub => more[n + o] = sub[o])
    BY DEF BufferLaid
  <2>1. n + o \notin left
    BY <1>7
  <2> QED BY <1>6, <1>9, <1>11, <2>1
<1> QED BY <1>14, <1>15, <1>16, <1>17 DEF more

\* The type and the value's fields are appended, in the bytes AddValue asks for.
LEMMA FieldsWritten ==
    ASSUME NEW item, Struct(item), NEW t, NEW storage \in StorageTypes \ {STORAGE_CONTAINER}, NEW n, NEW size,
           storage \in {STORAGE_BLOB, STORAGE_STRING} => size \in Nat
    PROVE  LET r == AppendFields(item, <<Field("type", IF t > 255 THEN 2 ELSE 1, t)>> \o Payload(storage, n, size))
           IN  /\ Struct(r) /\ r.dirty = item.dirty /\ Has(r.mem, item.used_size, Field("type", TypeBytes(t), t))
               /\ PayloadLaid(r.mem, storage, n, size, item.used_size + TypeBytes(t), r.used_size)
               /\ \E k \in 1..ArgSize(storage, size) : Grown(item, r, k)
<1> DEFINE u == item.used_size
           x == TypeBytes(t)
           a == Field("type", x, t)
           fixed == FixedSize(storage)
           args == ArgSize(storage, size)
           Good(r) == /\ Struct(r) /\ r.dirty = item.dirty /\ Has(r.mem, u, a)
                      /\ PayloadLaid(r.mem, storage, n, size, u + x, r.used_size)
                      /\ \E k \in 1..args : Grown(item, r, k)
           p == Payload(storage, n, size)
           r0 == AppendFields(item, <<a>> \o p)
<1> SUFFICES Good(r0)
  BY DEF TypeBytes
<1>1. x \in {1, 2} /\ u \in Nat /\ a.w = x
  BY DEF TypeBytes, Struct, Field
<1>2. /\ fixed \in {-1, 0, 1, 2, 4, 8}
      /\ storage \in {STORAGE_BLOB, STORAGE_STRING} => ~(fixed >= 0)
      /\ fixed >= 0 \/ storage \in {STORAGE_BLOB, STORAGE_STRING}
      /\ STORAGE_BLOB # STORAGE_STRING
  BY Storages
<1> HIDE DEF x, a
<1>3. CASE fixed >= 0
  <2> DEFINE b == Field("data", fixed, n)
             fields == <<a>> \o p
             r == AppendFields(item, fields)
  <2>1. p = <<b>> /\ args = 2 + fixed
    <3>1. p = <<b>>
      BY <1>2, <1>3 DEF Payload
    <3>2. args = 2 + fixed
      BY <1>2, <1>3 DEF ArgSize
    <3> QED BY <3>1, <3>2
  <2>2. b.w = fixed
    BY DEF Field
  <2> HIDE DEF b, p, fixed, args
  <2>4. Len(fields) = 2 /\ fields[1] = a /\ fields[2] = b
    BY <2>1
  <2> HIDE DEF fields
  <2>3. /\ Struct(r) /\ r.dirty = item.dirty /\ Grown(item, r, a.w + b.w) /\ Has(r.mem, u, a)
        /\ b.w # 0 => Has(r.mem, u + a.w, b)
    <3>1. a.w \in Nat \ {0} /\ b.w \in Nat
      BY <1>1, <1>2, <1>3, <2>2
    <3> QED BY <2>4, <3>1, AppendTwo
  <2> HIDE DEF r, u
  <2>5. r.used_size = u + (x + fixed) /\ Grown(item, r, x + fixed) /\ x + fixed \in 1..args
    BY <1>1, <1>2, <1>3, <2>1, <2>2, <2>3 DEF Grown, u
  <2>6. PayloadLaid(r.mem, storage, n, size, u + x, r.used_size)
    <3>1. r.used_size = u + x + fixed /\ (fixed # 0 => Has(r.mem, u + x, b))
      BY <1>1, <1>2, <2>2, <2>3, <2>5
    <3> QED BY <1>2, <1>3, <3>1 DEF PayloadLaid, fixed, b
  <2> QED BY <2>3, <2>5, <2>6 DEF r, fields, u
<1>4. CASE ~(fixed >= 0) /\ storage = STORAGE_BLOB
  <2> DEFINE b == Field("int", 4, size)
             c == Field("data", size, n)
             fields == <<a>> \o p
             r == AppendFields(item, fields)
  <2>0. size \in Nat
    BY <1>4
  <2>1. p = <<b, c>> /\ args = 2 + (size + 4)
    <3>1. p = <<b, c>>
      BY <1>2, <1>4 DEF Payload
    <3>2. args = 2 + (size + 4)
      BY <1>2, <1>4 DEF ArgSize
    <3> QED BY <3>1, <3>2
  <2>2. b.w = 4 /\ c.w = size
    BY DEF Field
  <2> HIDE DEF b, c, p, fixed, args
  <2>4. Len(fields) = 3 /\ fields[1] = a /\ fields[2] = b /\ fields[3] = c
    BY <2>1
  <2> HIDE DEF fields
  <2>3. /\ Struct(r) /\ r.dirty = item.dirty /\ Grown(item, r, a.w + b.w + c.w) /\ Has(r.mem, u, a)
        /\ Has(r.mem, u + a.w, b) /\ (c.w # 0 => Has(r.mem, u + a.w + b.w, c))
    <3>1. a.w \in Nat \ {0} /\ b.w \in Nat \ {0} /\ c.w \in Nat
      BY <1>1, <2>0, <2>2
    <3> QED BY <2>4, <3>1, AppendThree
  <2> HIDE DEF r, u
  <2>5. r.used_size = u + (x + 4 + size) /\ Grown(item, r, x + 4 + size) /\ x + 4 + size \in 1..args
    BY <1>1, <2>0, <2>1, <2>2, <2>3 DEF Grown, u
  <2>6. PayloadLaid(r.mem, storage, n, size, u + x, r.used_size)
    <3>1. /\ r.used_size = (u + x) + 4 + size /\ Has(r.mem, u + x, b)
          /\ size # 0 => Has(r.mem, (u + x) + 4, c)
      BY <1>1, <2>0, <2>2, <2>3, <2>5
    <3> QED BY <1>2, <1>4, <2>0, <3>1 DEF PayloadLaid, fixed, b, c
  <2> QED BY <2>3, <2>5, <2>6 DEF r, fields, u
<1>5. CASE ~(fixed >= 0) /\ storage = STORAGE_STRING
  <2> DEFINE b == LenField(size)
             c == Field("data", size, n)
             d == Field("data", 1, 0)
             fields == <<a>> \o p
             r == AppendFields(item, fields)
  <2>0. size \in Nat
    BY <1>5
  <2>1. p = <<b, c, d>> /\ args = 2 + (size + 5)
    <3>1. p = <<b, c, d>>
      BY <1>2, <1>5 DEF Payload
    <3>2. args = 2 + (size + 5)
      BY <1>2, <1>5 DEF ArgSize
    <3> QED BY <3>1, <3>2
  <2>2. b.w \in {1, 4} /\ c.w = size /\ d.w = 1
    BY <2>0, LenFieldIs DEF Field
  <2> HIDE DEF b, c, d, p, fixed, args
  <2>4. Len(fields) = 4 /\ fields[1] = a /\ fields[2] = b /\ fields[3] = c /\ fields[4] = d
    BY <2>1
  <2> HIDE DEF fields
  <2>3. /\ Struct(r) /\ r.dirty = item.dirty /\ Grown(item, r, a.w + b.w + c.w + d.w) /\ Has(r.mem, u, a)
        /\ Has(r.mem, u + a.w, b) /\ (c.w # 0 => Has(r.mem, u + a.w + b.w, c))
        /\ Has(r.mem, u + a.w + b.w + c.w, d)
    <3>1. a.w \in Nat \ {0} /\ b.w \in Nat \ {0} /\ c.w \in Nat /\ d.w \in Nat \ {0}
      BY <1>1, <2>0, <2>2
    <3> QED BY <2>4, <3>1, AppendFour
  <2> HIDE DEF r, u
  <2>5. /\ r.used_size = u + (x + b.w + size + 1) /\ Grown(item, r, x + b.w + size + 1)
        /\ x + b.w + size + 1 \in 1..args
    BY <1>1, <2>0, <2>1, <2>2, <2>3 DEF Grown, u
  <2>6. PayloadLaid(r.mem, storage, n, size, u + x, r.used_size)
    <3>1. /\ r.used_size = (u + x) + b.w + size + 1 /\ Has(r.mem, u + x, b)
          /\ size # 0 => Has(r.mem, (u + x) + b.w, c)
      BY <1>1, <2>0, <2>2, <2>3, <2>5
    <3>2. Has(r.mem, (u + x) + b.w + size, d)
      <4>1. a.w = x /\ c.w = size
        BY <1>1, <2>2
      <4>2. Has(r.mem, u + a.w + b.w + c.w, d)
        BY <2>3
      <4> QED BY <4>1, <4>2
    <3> QED BY <1>2, <1>5, <2>0, <3>1, <3>2 DEF PayloadLaid, fixed, b, c, d
  <2> QED BY <2>3, <2>5, <2>6 DEF r, fields, u
<1> QED BY <1>2, <1>3, <1>4, <1>5

\* What a value of a storage must be like: a size, and for a container that many bytes.
SizeFits(storage, v, size) ==
  /\ storage \in {STORAGE_BLOB, STORAGE_STRING} => size \in Nat
  /\ storage = STORAGE_CONTAINER => size \in Nat \ {0} /\ EndsBy(Slice(v.sub, 0, size), size)

\* Write appends a value in the bytes that AddValue asked for.
LEMMA WriteGrown ==
    ASSUME NEW item, Struct(item), NEW t, NEW storage \in StorageTypes, NEW v, NEW size, SizeFits(storage, v, size)
    PROVE  LET r == Write(item, t, storage, v, size)
           IN  /\ Struct(r) /\ r.dirty = TRUE
               /\ ValueLaid(r.mem, t, storage, v.n, size, Slice(v.sub, 0, size), item.used_size, r.used_size)
               /\ \E k \in 1..ArgSize(storage, size) : Grown(item, r, k)
<1> DEFINE r == Write(item, t, storage, v, size)
           u == item.used_size
<1>1. CASE storage = STORAGE_CONTAINER
  <2> DEFINE sub == Slice(v.sub, 0, size)
             m == PutBuffer(item.mem, u, sub, size)
             q == [item EXCEPT !.mem = m]
             q2 == [q EXCEPT !.used_size = u + size]
  <2>1. size \in Nat \ {0} /\ EndsBy(sub, size) /\ u \in Nat /\ SplitAt(item.mem, u)
    BY <1>1 DEF SizeFits, Struct
  <2>2. SplitAt(m, u + size) /\ Keeps(item.mem, m, u) /\ Fresh(item.mem, m, u + size) /\ BufferLaid(m, sub, size, u)
    <3> HIDE DEF sub
    <3>1. size \in Nat
      BY <2>1
    <3> QED BY <2>1, <3>1, PutBufferAtEnd
  <2>3. ArgSize(storage, size) = 2 + size
    <3>1. ~(FixedSize(storage) >= 0) /\ storage # STORAGE_BLOB /\ storage # STORAGE_STRING
      BY <1>1, Storages
    <3> QED BY <3>1 DEF ArgSize
  <2>4. r = [[item EXCEPT !.mem = m, !.used_size = u + size] EXCEPT !.dirty = TRUE]
    BY <1>1, Zenon DEF Write
  <2> HIDE DEF m, sub, r, u
  <2>5. r = [q2 EXCEPT !.dirty = TRUE]
    BY <2>4
  <2>6. DOMAIN item = ItemFields
    BY DEF Struct
  <2>7. /\ DOMAIN q = ItemFields /\ q.type = item.type /\ q.writable = item.writable
        /\ q.pbuf = item.pbuf /\ q.alloc_size = item.alloc_size /\ q.count = item.count /\ q.size = item.size
        /\ q.ptr = item.ptr /\ q.mem = m
    BY <2>6 DEF ItemFields
  <2> HIDE DEF q
  <2>8. /\ DOMAIN q2 = ItemFields /\ q2.type = q.type /\ q2.writable = q.writable
        /\ q2.pbuf = q.pbuf /\ q2.alloc_size = q.alloc_size /\ q2.count = q.count /\ q2.size = q.size
        /\ q2.ptr = q.ptr /\ q2.mem = q.mem /\ q2.used_size = u + size
    BY <2>7 DEF ItemFields
  <2> HIDE DEF q2
  <2>9. /\ DOMAIN r = ItemFields /\ r.type = q2.type /\ r.writable = q2.writable /\ r.dirty = TRUE
        /\ r.pbuf = q2.pbuf /\ r.alloc_size = q2.alloc_size /\ r.count = q2.count /\ r.size = q2.size
        /\ r.ptr = q2.ptr /\ r.mem = q2.mem /\ r.used_size = q2.used_size
    BY <2>5, <2>8 DEF ItemFields
  <2>10. Grown(item, r, size)
    BY <2>1, <2>2, <2>6, <2>7, <2>8, <2>9 DEF Grown, u
  <2>11. Struct(r)
    <3>1. u + size \in Nat /\ MAX_BINN_HEADER <= u + size
      BY <2>1 DEF Struct, u, MAX_BINN_HEADER
    <3> QED BY <2>2, <2>7, <2>8, <2>9, <3>1 DEF Struct
  <2>12. ValueLaid(r.mem, t, storage, v.n, size, sub, u, r.used_size)
    BY <1>1, <2>1, <2>2, <2>7, <2>8, <2>9 DEF ValueLaid
  <2>13. size \in 1..ArgSize(storage, size)
    BY <2>1, <2>3
  <2> QED BY <2>9, <2>10, <2>11, <2>12, <2>13 DEF r, u, sub
<1>2. CASE storage # STORAGE_CONTAINER
  <2> DEFINE g == AppendFields(item, <<Field("type", IF t > 255 THEN 2 ELSE 1, t)>> \o Payload(storage, v.n, size))
  <2>1. r = [g EXCEPT !.dirty = TRUE]
    BY <1>2 DEF Write
  <2>2. /\ Struct(g) /\ g.dirty = item.dirty /\ Has(g.mem, u, Field("type", TypeBytes(t), t))
        /\ PayloadLaid(g.mem, storage, v.n, size, u + TypeBytes(t), g.used_size)
        /\ \E k \in 1..ArgSize(storage, size) : Grown(item, g, k)
    BY <1>2, FieldsWritten DEF SizeFits
  <2> HIDE DEF g, r, u
  <2>3. /\ DOMAIN r = DOMAIN g /\ r.type = g.type /\ r.writable = g.writable /\ r.dirty = TRUE
        /\ r.pbuf = g.pbuf /\ r.alloc_size = g.alloc_size /\ r.count = g.count /\ r.size = g.size
        /\ r.ptr = g.ptr /\ r.mem = g.mem /\ r.used_size = g.used_size
    BY <2>1, <2>2 DEF Struct, ItemFields
  <2>4. Struct(r)
    BY <2>2, <2>3 DEF Struct
  <2>5. \A k : Grown(item, g, k) => Grown(item, r, k)
    BY <2>3 DEF Grown, Struct
  <2>6. ValueLaid(r.mem, t, storage, v.n, size, Slice(v.sub, 0, size), u, r.used_size)
    BY <1>2, <2>2, <2>3 DEF ValueLaid
  <2> QED BY <2>2, <2>3, <2>4, <2>5, <2>6 DEF r, u
<1> QED BY <1>1, <1>2
-----------------------------------------------------------------------------
(* AddValue: what is stored for a value of a type.                         *)

Kind(type, v) == IF type_family(type) = "INT" THEN compress_int(type, v.n) ELSE type
KindStorage(type, v) ==
  IF type_family(type) = "INT" THEN binn_get_write_storage(Kind(type, v)) ELSE binn_get_type_info(type)
KindNumber(type, v) == IF type_family(type) = "INT" THEN v.n % 2 ^ BitsOf(Kind(type, v)) ELSE v.n
KindSize(type, v) ==
  IF type_family(type) # "INT" /\ binn_get_type_info(type) = STORAGE_STRING /\ v.size = 0 /\ ~v.null
  THEN StrLen[v.n] ELSE v.size

\* The value is in mem from p up to q as AddValue writes it.
ValueAt(mem, type, v, p, q) ==
  ValueLaid(mem, Kind(type, v), KindStorage(type, v), KindNumber(type, v), KindSize(type, v),
            Slice(v.sub, 0, KindSize(type, v)), p, q)

\* What a caller must pass: a size, a text where strlen is taken, and a container's bytes.
ValueFits(type, v) ==
  /\ DOMAIN v = {"n", "size", "null", "sub"} /\ v.size \in Int
  /\ KindStorage(type, v) = STORAGE_STRING /\ v.size = 0 /\ ~v.null => v.n \in DOMAIN StrLen
  /\ KindStorage(type, v) = STORAGE_CONTAINER /\ v.size > 0 => EndsBy(Slice(v.sub, 0, v.size), v.size)

\* r is item with more at the end, in a block with room for it that may be new.
Longer(item, r) ==
  /\ Struct(r) /\ r.type = item.type /\ r.writable = item.writable /\ r.size = item.size /\ r.ptr = item.ptr
  /\ item.pbuf <= r.pbuf /\ item.used_size <= r.used_size /\ r.used_size <= r.alloc_size
  /\ item.alloc_size <= r.alloc_size
  /\ Keeps(item.mem, r.mem, item.used_size) /\ Fresh(item.mem, r.mem, r.used_size)

\* r is item with other bytes behind used_size, in a block that may be new.
Undone(item, r) ==
  /\ Struct(r) /\ r.type = item.type /\ r.writable = item.writable /\ r.dirty = item.dirty /\ r.size = item.size
  /\ r.ptr = item.ptr /\ r.count = item.count /\ r.used_size = item.used_size /\ r.used_size <= r.alloc_size
  /\ item.alloc_size <= r.alloc_size /\ item.pbuf <= r.pbuf
  /\ (r.pbuf = item.pbuf /\ r.alloc_size = item.alloc_size) \/ r.pbuf = item.pbuf + 1
  /\ Keeps(item.mem, r.mem, item.used_size) /\ Fresh(item.mem, r.mem, r.alloc_size)

IsShort(t) == 0 <= t /\ t < 65536

\* The storage of a type of one or two bytes is one of eight.
LEMMA ShortStorage ==
    ASSUME NEW t \in Int, IsShort(t)
    PROVE  ShortTypeStorage(t) \in StorageTypes
<1>1. CASE t < 256
  <2> DEFINE q == t \div 32
  <2>1. q \in 0..7
    BY <1>1, SMT DEF IsShort
  <2>2. ShortTypeStorage(t) = q * 32
    BY <1>1, SMT DEF ShortTypeStorage
  <2> HIDE DEF q
  <2>3. q = 0 \/ q = 1 \/ q = 2 \/ q = 3 \/ q = 4 \/ q = 5 \/ q = 6 \/ q = 7
    BY <2>1, SMT
  <2> QED BY <2>2, <2>3, SMT DEF StorageTypes, STORAGE_BLOB, STORAGE_STRING, STORAGE_CONTAINER, STORAGE_NOBYTES,
                                 STORAGE_BYTE, STORAGE_WORD, STORAGE_DWORD, STORAGE_QWORD
<1>2. CASE ~(t < 256)
  <2> DEFINE q == t \div 8192
  <2>1. q \in 0..7
    BY SMT DEF IsShort
  <2>2. ShortTypeStorage(t) = q * 32
    BY <1>2, SMT DEF ShortTypeStorage
  <2> HIDE DEF q
  <2>3. q = 0 \/ q = 1 \/ q = 2 \/ q = 3 \/ q = 4 \/ q = 5 \/ q = 6 \/ q = 7
    BY <2>1, SMT
  <2> QED BY <2>2, <2>3, SMT DEF StorageTypes, STORAGE_BLOB, STORAGE_STRING, STORAGE_CONTAINER, STORAGE_NOBYTES,
                                 STORAGE_BYTE, STORAGE_WORD, STORAGE_DWORD, STORAGE_QWORD
<1> QED BY <1>1, <1>2, SMT

\* A type of at most two bytes has its storage in its high bits.
LEMMA ShortInfo ==
    ASSUME NEW t \in Int, IsShort(t)
    PROVE  binn_get_type_info(t) = ShortTypeStorage(t)
<1>1. ~(65536 <= t /\ (t \div VIRTUAL) % 2 = 1)
  BY SMT DEF IsShort
<1> QED BY <1>1, SMT DEF binn_get_type_info, IsShort

\* A virtual type is looked up by its low bytes, any other is refused.
LEMMA LongInfo ==
    ASSUME NEW t \in Int, ~IsShort(t)
    PROVE  binn_get_type_info(t) = ShortTypeStorage(t % 65536) \/ binn_get_type_info(t) = -1
<1>1. CASE 65536 <= t /\ (t \div VIRTUAL) % 2 = 1
  BY <1>1, SMT DEF binn_get_type_info, IsShort
<1>2. CASE ~(65536 <= t /\ (t \div VIRTUAL) % 2 = 1)
  BY <1>2, SMT DEF binn_get_type_info, IsShort
<1> QED BY <1>1, <1>2, SMT

\* binn_get_type_info finds one of the storages, or refuses the type.
LEMMA TypeInfoStorage ==
    ASSUME NEW type \in Int
    PROVE  binn_get_type_info(type) \in StorageTypes \cup {-1}
<1> DEFINE short == type % 65536
<1>1. short \in Int /\ IsShort(short)
  BY SMT DEF IsShort
<1>2. CASE IsShort(type)
  BY <1>2, ShortStorage, ShortInfo, SMT
<1>3. CASE ~IsShort(type)
  <2>1. binn_get_type_info(type) = ShortTypeStorage(short) \/ binn_get_type_info(type) = -1
    BY <1>3, LongInfo, SMT
  <2> HIDE DEF short
  <2>2. ShortTypeStorage(short) \in StorageTypes
    BY <1>1, ShortStorage, SMT
  <2> QED BY <2>1, <2>2, SMT
<1> QED BY <1>2, <1>3, SMT

\* The bytes AddValue asks for are a number.
LEMMA ArgSizeNat ==
    ASSUME NEW storage \in StorageTypes, NEW v, NEW size, SizeFits(storage, v, size)
    PROVE  ArgSize(storage, size) \in Nat
<1>1. CASE FixedSize(storage) >= 0
  <2>1. storage # STORAGE_BLOB /\ storage # STORAGE_STRING
    BY <1>1, Storages
  <2>2. ArgSize(storage, size) = 2 + FixedSize(storage)
    BY <1>1, <2>1, Zenon DEF ArgSize
  <2> QED BY <1>1, <2>2, Storages
<1>2. CASE storage = STORAGE_BLOB
  <2>1. ~(FixedSize(storage) >= 0) /\ storage # STORAGE_STRING /\ size \in Nat
    BY <1>2, Storages DEF SizeFits
  <2>2. ArgSize(storage, size) = 2 + (size + 4)
    BY <1>2, <2>1, Zenon DEF ArgSize
  <2> QED BY <2>1, <2>2
<1>3. CASE storage = STORAGE_STRING
  <2>1. ~(FixedSize(storage) >= 0) /\ storage # STORAGE_BLOB /\ size \in Nat
    BY <1>3, Storages DEF SizeFits
  <2>2. ArgSize(storage, size) = 2 + (size + 5)
    BY <1>3, <2>1, Zenon DEF ArgSize
  <2> QED BY <2>1, <2>2
<1>4. CASE storage = STORAGE_CONTAINER
  <2>1. ~(FixedSize(storage) >= 0) /\ storage # STORAGE_BLOB /\ storage # STORAGE_STRING /\ size \in Nat
    BY <1>4, Storages DEF SizeFits
  <2>2. ArgSize(storage, size) = 2 + size
    BY <2>1, Zenon DEF ArgSize
  <2> QED BY <2>1, <2>2
<1> QED BY <1>1, <1>2, <1>3, <1>4, Storages

\* More room and a longer content is longer.
LEMMA RoomGrownLonger ==
    ASSUME NEW item, Struct(item), NEW n \in Nat, NEW room, Roomier(item, room, n),
           NEW k \in 0..n, NEW r, Grown(room, r, k), Struct(r)
    PROVE  Longer(item, r) /\ r.count = item.count
<1>1. r.used_size <= r.alloc_size /\ item.used_size <= r.used_size
  BY DEF Roomier, Grown, Struct
<1>2. item.pbuf <= r.pbuf
  BY DEF Roomier, Grown, Struct
<1> QED BY <1>1, <1>2 DEF Roomier, Grown, Longer

\* Store appends the value behind used_size, or leaves the structure alone.
LEMMA StoreGrown ==
    ASSUME NEW item, Struct(item), NEW t, NEW storage \in StorageTypes \cup {-1}, NEW v, NEW size, v.size \in Int,
           storage = STORAGE_STRING /\ v.size >= 0 => size \in Nat,
           storage = STORAGE_BLOB /\ v.size >= 0 => size \in Nat,
           storage = STORAGE_CONTAINER /\ v.size > 0 => size \in Nat \ {0} /\ EndsBy(Slice(v.sub, 0, size), size)
    PROVE  LET r == Store(item, t, storage, v, size)
           IN  \/ r = Refused(item)
               \/ /\ r = Accepted(r.item)
                  /\ Longer(item, r.item) /\ r.item.count = item.count /\ r.item.dirty = TRUE
                  /\ item.used_size < r.item.used_size
                  /\ ValueLaid(r.item.mem, t, storage, v.n, size, Slice(v.sub, 0, size), item.used_size, r.item.used_size)
<1> DEFINE r == Store(item, t, storage, v, size)
           args == ArgSize(storage, size)
           room == CheckAllocation(item, args)
           w == Write(room, t, storage, v, size)
           bad == \/ storage \in {STORAGE_BLOB, STORAGE_STRING} /\ v.size < 0
                  \/ storage = STORAGE_CONTAINER /\ v.size <= 0
                  \/ storage = -1
<1>1. CASE bad
  BY <1>1, Zenon DEF Store
<1>2. CASE ~bad
  <2>1. r = Accepted(w)
    BY <1>2, Zenon DEF Store
  <2>2. storage \in StorageTypes
    BY <1>2
  <2>3. SizeFits(storage, v, size)
    BY <1>2 DEF SizeFits
  <2>4. args \in Nat
    BY <2>2, <2>3, ArgSizeNat
  <2> HIDE DEF r, args, bad
  <2>5. Roomier(item, room, args) /\ Struct(room)
    BY <2>4, CheckAllocationRoom, RoomierStruct
  <2> HIDE DEF room
  <2>6. /\ Struct(w) /\ w.dirty = TRUE
        /\ ValueLaid(w.mem, t, storage, v.n, size, Slice(v.sub, 0, size), room.used_size, w.used_size)
        /\ \E k \in 1..args : Grown(room, w, k)
    BY <2>2, <2>3, <2>5, WriteGrown DEF args
  <2> HIDE DEF w
  <2>7. PICK k \in 1..args : Grown(room, w, k)
    BY <2>6
  <2>8. Longer(item, w) /\ w.count = item.count
    <3>1. k \in 0..args
      BY <2>4
    <3> QED BY <2>4, <2>5, <2>6, <2>7, <3>1, RoomGrownLonger
  <2>9. room.used_size = item.used_size /\ item.used_size < w.used_size
    BY <2>4, <2>5, <2>7 DEF Roomier, Grown, Struct
  <2>10. r.item = w
    BY <2>1 DEF Accepted
  <2> QED BY <2>1, <2>6, <2>8, <2>9, <2>10 DEF r
<1> QED BY <1>1, <1>2

\* AddValue appends the value as ValueAt says, or leaves the structure alone.
LEMMA AddValueGrown ==
    ASSUME NEW item, Struct(item), NEW type, NEW v, ValueFits(type, v), KindStorage(type, v) \in StorageTypes \cup {-1}
    PROVE  LET r == AddValue(item, type, v)
           IN  \/ r = Refused(item)
               \/ /\ r = Accepted(r.item)
                  /\ Longer(item, r.item) /\ r.item.count = item.count /\ r.item.dirty = TRUE
                  /\ item.used_size < r.item.used_size
                  /\ ValueAt(r.item.mem, type, v, item.used_size, r.item.used_size)
<1> DEFINE r == AddValue(item, type, v)
           int == type_family(type) = "INT"
           storage == KindStorage(type, v)
           size == KindSize(type, v)
           n == KindNumber(type, v)
           w == IF int THEN [v EXCEPT !.n = n] ELSE v
           t == Kind(type, v)
           sub == Slice(v.sub, 0, size)
           none == v.null /\ NullRefused(binn_get_type_info(type), v.size)
<1>1. r = Refused(item) \/ r = Store(item, t, storage, w, size)
  <2>1. CASE none
    BY <2>1, Zenon DEF AddValue
  <2>2. CASE ~none /\ int
    <3>1. r = Store(item, t, storage, [v EXCEPT !.n = v.n % 2 ^ BitsOf(t)], v.size)
      BY <2>2, Zenon DEF AddValue, StoreInt, Kind, KindStorage
    <3>2. size = v.size
      BY <2>2, Zenon DEF KindSize
    <3>3. n = v.n % 2 ^ BitsOf(t)
      BY <2>2, Zenon DEF KindNumber
    <3>4. w = [v EXCEPT !.n = n]
      BY <2>2, Zenon
    <3> HIDE DEF r, t, storage, size, n, w
    <3> QED BY <3>1, <3>2, <3>3, <3>4, Zenon
  <2>3. CASE ~none /\ ~int
    <3>1. t = type /\ storage = binn_get_type_info(type) /\ w = v
      BY <2>3, Zenon DEF Kind, KindStorage
    <3>2. r = StoreOther(item, t, storage, v)
      BY <2>3, <3>1, Zenon DEF AddValue
    <3>3. size = IF storage = STORAGE_STRING /\ v.size = 0 /\ ~v.null THEN StrLen[v.n] ELSE v.size
      BY <2>3, <3>1, Zenon DEF KindSize
    <3> HIDE DEF r, t, storage, size, w
    <3> QED BY <3>1, <3>2, <3>3, Zenon DEF StoreOther
  <2> QED BY <2>1, <2>2, <2>3, Zenon
<1>2. DOMAIN v = {"n", "size", "null", "sub"} /\ v.size \in Int
  BY DEF ValueFits
<1>3. w.n = n /\ w.size = v.size /\ w.sub = v.sub
  <2>1. CASE int
    <3>1. w = [v EXCEPT !.n = n]
      BY <2>1, Zenon
    <3> HIDE DEF w, n
    <3> QED BY <1>2, <3>1
  <2>2. CASE ~int
    <3>1. w = v /\ n = v.n
      BY <2>2, Zenon DEF KindNumber
    <3> QED BY <3>1, Zenon
  <2> QED BY <2>1, <2>2, Zenon
<1>4. storage \in StorageTypes \cup {-1}
  OBVIOUS
<1>5. /\ storage = STORAGE_STRING /\ v.size >= 0 => size \in Nat
      /\ storage = STORAGE_BLOB /\ v.size >= 0 => size \in Nat
      /\ storage = STORAGE_CONTAINER /\ v.size > 0 => size \in Nat \ {0} /\ EndsBy(sub, size)
  <2>1. STORAGE_STRING # STORAGE_BLOB /\ STORAGE_STRING # STORAGE_CONTAINER
    BY Storages
  <2>2. size # v.size => storage = STORAGE_STRING /\ v.size = 0 /\ ~v.null /\ size = StrLen[v.n]
    BY Zenon DEF KindSize, KindStorage
  <2>3. storage = STORAGE_STRING /\ v.size = 0 /\ ~v.null => StrLen[v.n] \in Nat
    <3>1. \A c \in DOMAIN StrLen : StrLen[c] \in Nat
      BY FormatAssumption
    <3>2. storage = STORAGE_STRING /\ v.size = 0 /\ ~v.null => v.n \in DOMAIN StrLen
      BY Zenon DEF ValueFits
    <3> QED BY <3>1, <3>2, Zenon
  <2>4. storage = STORAGE_CONTAINER /\ v.size > 0 => EndsBy(Slice(v.sub, 0, v.size), v.size)
    BY Zenon DEF ValueFits
  <2>5. storage = STORAGE_CONTAINER => size = v.size
    BY <2>1, <2>2, Zenon
  <2>6. storage = STORAGE_CONTAINER /\ v.size > 0 => EndsBy(sub, size)
    BY <2>4, <2>5, Zenon
  <2> HIDE DEF storage, size, sub
  <2> QED BY <1>2, <2>1, <2>2, <2>3, <2>5, <2>6
<1>6. ValueAt(r.item.mem, type, v, item.used_size, r.item.used_size)
      = ValueLaid(r.item.mem, t, storage, n, size, sub, item.used_size, r.item.used_size)
  BY Zenon DEF ValueAt
<1> HIDE DEF r, int, storage, size, n, w, t, none
<1>7. CASE r = Store(item, t, storage, w, size)
  <2> DEFINE s == Store(item, t, storage, w, size)
             Right(x) == \/ x = Refused(item)
                         \/ /\ x = Accepted(x.item)
                            /\ Longer(item, x.item) /\ x.item.count = item.count /\ x.item.dirty = TRUE
                            /\ item.used_size < x.item.used_size
                            /\ ValueLaid(x.item.mem, t, storage, w.n, size, Slice(w.sub, 0, size), item.used_size, x.item.used_size)
  <2>1. w.size \in Int
    BY <1>2, <1>3
  <2>2. /\ storage = STORAGE_STRING /\ w.size >= 0 => size \in Nat
        /\ storage = STORAGE_BLOB /\ w.size >= 0 => size \in Nat
        /\ storage = STORAGE_CONTAINER /\ w.size > 0 => size \in Nat \ {0} /\ EndsBy(Slice(w.sub, 0, size), size)
    BY <1>3, <1>5
  <2>3. Right(s)
    BY <1>4, <2>1, <2>2, StoreGrown
  <2>4. Right(r)
    <3> HIDE DEF s
    <3>1. r = s
      BY <1>7 DEF s
    <3> QED BY <2>3, <3>1
  <2>5. ValueLaid(r.item.mem, t, storage, w.n, size, Slice(w.sub, 0, size), item.used_size, r.item.used_size)
        = ValueAt(r.item.mem, type, v, item.used_size, r.item.used_size)
    BY <1>3, <1>6 DEF sub
  <2> QED BY <2>4, <2>5, Zenon DEF r
<1> QED BY <1>1, <1>7 DEF r
-----------------------------------------------------------------------------
(* The three setters.                                                      *)

\* What a container keeps in front of a value: nothing, an id, or a key.
EntryHead(ctype, key) ==
  CASE ctype = BINN_LIST -> <<>> [] ctype = BINN_MAP -> <<Field("id", 4, key)>> [] OTHER -> KeyFields(key)
HeadWidth(ctype, key) ==
  CASE ctype = BINN_LIST -> 0 [] ctype = BINN_MAP -> 4 [] OTHER -> 1 + Len(KeyText[key])
HeadLaid(mem, ctype, key, p) ==
  /\ ctype = BINN_MAP => Has(mem, p, Field("id", 4, key))
  /\ ctype = BINN_OBJECT => /\ Has(mem, p, Field("keylen", 1, Len(KeyText[key])))
                            /\ Len(KeyText[key]) # 0 => Has(mem, p + 1, Field("key", Len(KeyText[key]), key))

\* Objects are given keys.
KeyFits(ctype, key) == ctype = BINN_OBJECT => key \in DOMAIN KeyText

\* Keys have a length.
LEMMA KeyTextLen ==
    ASSUME NEW key \in DOMAIN KeyText
    PROVE  Len(KeyText[key]) \in Nat
BY FormatAssumption

\* The bytes in front of a value.
LEMMA HeadWidthNat ==
    ASSUME NEW ctype \in Containers, NEW key, KeyFits(ctype, key)
    PROVE  HeadWidth(ctype, key) \in Nat
<1>1. BINN_LIST # BINN_MAP /\ BINN_LIST # BINN_OBJECT /\ BINN_MAP # BINN_OBJECT
  BY DEF BINN_LIST, BINN_MAP, BINN_OBJECT
<1>2. CASE ctype = BINN_LIST
  BY <1>2 DEF HeadWidth
<1>3. CASE ctype = BINN_MAP
  BY <1>1, <1>3 DEF HeadWidth
<1>4. CASE ctype = BINN_OBJECT
  <2>1. Len(KeyText[key]) \in Nat
    BY <1>4, KeyTextLen DEF KeyFits
  <2>2. HeadWidth(ctype, key) = 1 + Len(KeyText[key])
    BY <1>1, <1>4 DEF HeadWidth
  <2> QED BY <2>1, <2>2
<1> QED BY <1>2, <1>3, <1>4 DEF Containers

\* They are appended as they should be.
LEMMA HeadAppended ==
    ASSUME NEW item, Struct(item), NEW ctype \in Containers, NEW key, KeyFits(ctype, key)
    PROVE  LET r == AppendFields(item, EntryHead(ctype, key))
           IN  /\ Struct(r) /\ r.dirty = item.dirty /\ Grown(item, r, HeadWidth(ctype, key))
               /\ HeadLaid(r.mem, ctype, key, item.used_size)
<1> DEFINE head == EntryHead(ctype, key)
           r == AppendFields(item, head)
           w == HeadWidth(ctype, key)
           u == item.used_size
<1>1. BINN_LIST # BINN_MAP /\ BINN_LIST # BINN_OBJECT /\ BINN_MAP # BINN_OBJECT
  BY DEF BINN_LIST, BINN_MAP, BINN_OBJECT
<1>2. ASSUME ctype = BINN_LIST PROVE Struct(r) /\ r.dirty = item.dirty /\ Grown(item, r, w) /\ HeadLaid(r.mem, ctype, key, u)
  <2>1. head = <<>> /\ w = 0
    BY <1>1, <1>2 DEF EntryHead, HeadWidth
  <2>2. r = item
    BY <2>1, AppendNone
  <2> HIDE DEF r, head, w
  <2>3. /\ Keeps(item.mem, item.mem, item.used_size) /\ item.used_size = item.used_size + 0 /\ 0 \in Nat
        /\ Fresh(item.mem, item.mem, item.used_size)
    BY DEF Keeps, Fresh, Struct
  <2>4. Grown(item, item, 0)
    BY <2>3 DEF Grown, Struct
  <2>5. HeadLaid(r.mem, ctype, key, u)
    BY <1>1, <1>2 DEF HeadLaid
  <2> QED BY <2>1, <2>2, <2>4, <2>5
<1>3. ASSUME ctype = BINN_MAP PROVE Struct(r) /\ r.dirty = item.dirty /\ Grown(item, r, w) /\ HeadLaid(r.mem, ctype, key, u)
  <2> DEFINE a == Field("id", 4, key)
  <2>1. head = <<a>> /\ w = 4
    BY <1>1, <1>3 DEF EntryHead, HeadWidth
  <2>2. a.w = 4
    BY DEF Field
  <2> HIDE DEF a, head, w
  <2>3. Len(head) = 1 /\ head[1] = a
    BY <2>1
  <2>4. Struct(r) /\ r.dirty = item.dirty /\ Grown(item, r, a.w) /\ Has(r.mem, u, a)
    BY <2>2, <2>3, AppendOne
  <2> HIDE DEF r, u
  <2> QED BY <1>1, <1>3, <2>1, <2>2, <2>4 DEF HeadLaid, a
<1>4. ASSUME ctype = BINN_OBJECT PROVE Struct(r) /\ r.dirty = item.dirty /\ Grown(item, r, w) /\ HeadLaid(r.mem, ctype, key, u)
  <2> DEFINE len == Len(KeyText[key])
             a == Field("keylen", 1, len)
             b == Field("key", len, key)
  <2>1. len \in Nat
    BY <1>4, KeyTextLen DEF KeyFits
  <2>2. head = <<a, b>> /\ w = 1 + len
    BY <1>1, <1>4 DEF EntryHead, HeadWidth, KeyFields
  <2>3. a.w = 1 /\ b.w = len
    BY DEF Field
  <2> HIDE DEF a, b, head, w
  <2>4. Len(head) = 2 /\ head[1] = a /\ head[2] = b
    BY <2>2
  <2> HIDE DEF len
  <2>5. a.w \in Nat \ {0} /\ b.w \in Nat
    BY <2>1, <2>3
  <2>6. /\ Struct(r) /\ r.dirty = item.dirty /\ Grown(item, r, a.w + b.w) /\ Has(r.mem, u, a)
        /\ b.w # 0 => Has(r.mem, u + a.w, b)
    BY <2>4, <2>5, AppendTwo
  <2> HIDE DEF r, u
  <2>7. Grown(item, r, w) /\ Has(r.mem, u, a) /\ (len # 0 => Has(r.mem, u + 1, b))
    BY <2>2, <2>3, <2>6
  <2> QED BY <1>1, <1>4, <2>6, <2>7 DEF HeadLaid, a, b, len
<1> QED BY <1>2, <1>3, <1>4 DEF Containers

\* What a caller may pass: a key for an object, and a value AddValue can size.
EntryFits(ctype, key, type, v) ==
  /\ KeyFits(ctype, key) /\ ValueFits(type, v) /\ KindStorage(type, v) \in StorageTypes \cup {-1}

\* The entry from p to q.
EntryLaid(mem, ctype, key, type, v, p, q) ==
  /\ HeadLaid(mem, ctype, key, p)
  /\ p + HeadWidth(ctype, key) < q /\ ValueAt(mem, type, v, p + HeadWidth(ctype, key), q)

\* r is item and one entry.
OneMore(item, r, ctype, key, type, v) ==
  /\ Longer(item, r) /\ r.count = item.count + 1 /\ r.dirty = TRUE
  /\ EntryLaid(r.mem, ctype, key, type, v, item.used_size, r.used_size)

\* Room, and more in it, is longer.
LEMMA RoomThenLonger ==
    ASSUME NEW item, Struct(item), NEW n \in Nat, NEW room, Roomier(item, room, n),
           NEW k \in 0..n, NEW h, Grown(room, h, k), Struct(h), NEW r, Longer(h, r)
    PROVE  Longer(item, r)
<1>1. Longer(item, h)
  BY RoomGrownLonger
<1>2. item.used_size \in Nat /\ h.used_size \in Nat /\ item.pbuf \in Nat /\ h.pbuf \in Nat /\ r.pbuf \in Nat
      /\ r.used_size \in Nat
  BY <1>1 DEF Struct, Longer
<1>3. Keeps(item.mem, r.mem, item.used_size) /\ Fresh(item.mem, r.mem, r.used_size)
  <2> DEFINE u == item.used_size
             x == h.used_size
             y == r.used_size
             m == item.mem
             m1 == h.mem
             m2 == r.mem
  <2>1. /\ Keeps(m, m1, u) /\ Keeps(m1, m2, x) /\ u <= x /\ u \in Nat /\ x \in Nat
        /\ Fresh(m, m1, x) /\ Fresh(m1, m2, y) /\ x <= y /\ y \in Nat
        /\ \A o \in DOMAIN m1 : o \in Nat /\ m1[o].w \in Nat
    BY <1>1, <1>2 DEF Longer, Struct, SplitAt
  <2> HIDE DEF u, x, y, m, m1, m2
  <2>2. Keeps(m, m2, u) /\ Fresh(m, m2, y)
    BY <2>1, KeptAgain, FreshAgain
  <2> QED BY <2>2 DEF m, m2, u, y
<1>4. item.alloc_size <= r.alloc_size
  <2>1. item.alloc_size \in Nat /\ h.alloc_size \in Nat /\ r.alloc_size \in Nat
    BY <1>1 DEF Struct, Longer
  <2> QED BY <1>1, <2>1 DEF Longer
<1> QED BY <1>1, <1>2, <1>3, <1>4 DEF Longer

\* Room, and bytes in it that used_size is taken back from.
LEMMA RoomThenUndone ==
    ASSUME NEW item, Struct(item), NEW n \in Nat, NEW room, Roomier(item, room, n), Struct(room),
           NEW h, Grown(room, h, n), Struct(h), h.dirty = room.dirty,
           NEW r, r = [h EXCEPT !.used_size = @ - n]
    PROVE  Undone(item, r)
<1>1. /\ item.used_size \in Nat /\ room.used_size = item.used_size /\ h.used_size = item.used_size + n
      /\ h.used_size <= h.alloc_size /\ h.alloc_size = room.alloc_size /\ item.used_size <= h.alloc_size
      /\ item.alloc_size \in Nat \ {0} /\ h.alloc_size \in Nat \ {0} /\ item.pbuf \in Nat
  BY DEF Roomier, Grown, Struct
<1>2. r = [h EXCEPT !.used_size = item.used_size]
  <2> DEFINE k == h.used_size - n
  <2>1. k = item.used_size
    BY <1>1
  <2>2. r = [h EXCEPT !.used_size = k]
    OBVIOUS
  <2> HIDE DEF k
  <2> QED BY <2>1, <2>2
<1>3. /\ DOMAIN r = ItemFields /\ r.type = h.type /\ r.writable = h.writable /\ r.dirty = h.dirty /\ r.pbuf = h.pbuf
      /\ r.alloc_size = h.alloc_size /\ r.used_size = item.used_size /\ r.count = h.count /\ r.size = h.size
      /\ r.ptr = h.ptr /\ r.mem = h.mem
  BY <1>2 DEF Struct, ItemFields
<1>4. Keeps(item.mem, h.mem, item.used_size) /\ Fresh(item.mem, h.mem, h.used_size)
  BY DEF Roomier, Grown
<1>5. Fresh(item.mem, h.mem, h.alloc_size)
  <2> DEFINE a == h.alloc_size
             u == h.used_size
             m == h.mem
  <2>1. a \in Nat /\ u \in Nat /\ u <= a /\ \A o \in DOMAIN m : o \in Nat /\ m[o].w \in Nat
    BY <1>1 DEF Struct, SplitAt
  <2>2. Fresh(item.mem, m, u)
    BY <1>4
  <2> HIDE DEF a, u, m
  <2>3. Fresh(item.mem, m, a)
    BY <2>1, <2>2 DEF Fresh
  <2> QED BY <2>3 DEF a, m
<1>6. SplitAt(h.mem, item.used_size)
  <2> DEFINE u == item.used_size
             m == item.mem
             more == h.mem
  <2>1. /\ u \in Nat /\ SplitAt(m, u) /\ Keeps(m, more, u)
        /\ \A o \in DOMAIN more : o \in Nat /\ more[o].w \in Nat \ {0}
    BY <1>1, <1>4 DEF Struct, SplitAt
  <2> HIDE DEF u, m, more
  <2>2. ASSUME NEW o \in DOMAIN more, o < u PROVE o + more[o].w <= u
    <3>1. o \in 0..(u - 1)
      BY <2>1, <2>2
    <3>2. o \in DOMAIN m /\ more[o] = m[o]
      BY <2>1, <3>1 DEF Keeps
    <3> QED BY <2>1, <2>2, <3>2 DEF SplitAt
  <2>3. SplitAt(more, u)
    BY <2>1, <2>2 DEF SplitAt
  <2> QED BY <2>3 DEF u, more
<1>7. Struct(r)
  BY <1>1, <1>3, <1>6 DEF Struct
<1> QED BY <1>1, <1>3, <1>4, <1>5, <1>7 DEF Roomier, Grown, Undone

\* What is in front of a value is where its bytes are.
LEMMA HeadKept ==
    ASSUME NEW ctype \in Containers, NEW key, KeyFits(ctype, key), NEW u \in Nat, NEW m, HeadLaid(m, ctype, key, u),
           NEW m1, Keeps(m, m1, u + HeadWidth(ctype, key))
    PROVE  HeadLaid(m1, ctype, key, u)
<1> DEFINE len == Len(KeyText[key])
           w == HeadWidth(ctype, key)
<1>1. BINN_LIST # BINN_MAP /\ BINN_LIST # BINN_OBJECT /\ BINN_MAP # BINN_OBJECT
  BY DEF BINN_LIST, BINN_MAP, BINN_OBJECT
<1>2. w \in Nat /\ (ctype = BINN_MAP => w = 4) /\ (ctype = BINN_OBJECT => len \in Nat /\ w = 1 + len)
  BY <1>1, HeadWidthNat, KeyTextLen DEF HeadWidth, KeyFits
<1>3. Keeps(m, m1, u + w)
  OBVIOUS
<1> HIDE DEF len, w
<1>4. ASSUME NEW o \in Nat, o < u + w, NEW f, Has(m, o, f) PROVE Has(m1, o, f)
  <2>1. o \in 0..((u + w) - 1)
    BY <1>2, <1>4
  <2>2. o \in DOMAIN m /\ m[o] = f
    BY <1>4 DEF Has
  <2>3. o \in DOMAIN m1 /\ m1[o] = m[o]
    BY <1>3, <2>1, <2>2 DEF Keeps
  <2> QED BY <2>2, <2>3 DEF Has
<1>5. ctype = BINN_MAP => u < u + w
  BY <1>2
<1>6. ctype = BINN_OBJECT => u < u + w /\ u + 1 \in Nat /\ (len # 0 => u + 1 < u + w)
  BY <1>2
<1> QED BY <1>4, <1>5, <1>6 DEF HeadLaid, len

\* A raw setter adds its entry, or takes back what it has written of it.
LEMMA SetEntryGrown ==
    ASSUME NEW item, Struct(item), NEW ctype \in Containers, NEW key, NEW type, NEW v, EntryFits(ctype, key, type, v)
    PROVE  LET r == SetEntry(item, EntryHead(ctype, key), HeadWidth(ctype, key), type, v)
           IN  \/ r = Refused(r.item) /\ Undone(item, r.item)
               \/ r = Accepted(r.item) /\ OneMore(item, r.item, ctype, key, type, v)
<1> DEFINE w == HeadWidth(ctype, key)
           head == EntryHead(ctype, key)
           room == CheckAllocation(item, w)
           h == AppendFields(room, head)
           back == [h EXCEPT !.used_size = @ - w]
           a == AddValue(h, type, v)
           c == a.item.count + 1
           more == [a.item EXCEPT !.count = c]
           r == SetEntry(item, head, w, type, v)
           u == item.used_size
<1>1. w \in Nat
  BY HeadWidthNat DEF EntryFits
<1>2. r = IF a.ok THEN Accepted(more) ELSE Refused(back)
  BY DEF SetEntry, Started
<1>3. Roomier(item, room, w) /\ Struct(room)
  <2> HIDE DEF w
  <2>1. Roomier(item, CheckAllocation(item, w), w)
    BY <1>1, CheckAllocationRoom
  <2> HIDE DEF room
  <2>2. Roomier(item, room, w)
    BY <2>1 DEF room
  <2> QED BY <1>1, <2>2, RoomierStruct
<1>4. Struct(h) /\ Grown(room, h, w) /\ h.dirty = room.dirty /\ HeadLaid(h.mem, ctype, key, room.used_size)
  <2> HIDE DEF room
  <2> QED BY <1>3, HeadAppended DEF EntryFits
<1> HIDE DEF room, h, head
<1>5. room.used_size = u /\ h.used_size = u + w /\ u \in Nat
  BY <1>3, <1>4 DEF Roomier, Grown, Struct
<1>6. \/ a = Refused(h)
      \/ /\ a = Accepted(a.item)
         /\ Longer(h, a.item) /\ a.item.count = h.count /\ a.item.dirty = TRUE
         /\ h.used_size < a.item.used_size
         /\ ValueAt(a.item.mem, type, v, h.used_size, a.item.used_size)
  BY <1>4, AddValueGrown DEF EntryFits
<1>7. CASE ~a.ok
  <2>1. r = Refused(back)
    BY <1>2, <1>7
  <2> HIDE DEF r, w
  <2>2. Undone(item, back)
    BY <1>1, <1>3, <1>4, RoomThenUndone
  <2> HIDE DEF back
  <2>3. r.item = back
    BY <2>1 DEF Refused
  <2> QED BY <2>1, <2>2, <2>3 DEF r, head, w
<1>8. CASE a.ok
  <2>1. a # Refused(h)
    BY <1>8 DEF Refused
  <2>2. /\ Longer(h, a.item) /\ a.item.count = h.count /\ a.item.dirty = TRUE
        /\ h.used_size < a.item.used_size
        /\ ValueAt(a.item.mem, type, v, h.used_size, a.item.used_size)
    BY <1>6, <2>1
  <2>3. r = Accepted(more) /\ r.item = more
    BY <1>2, <1>8 DEF Accepted
  <2> HIDE DEF r, a, c
  <2>4. DOMAIN a.item = ItemFields
    BY <2>2 DEF Longer, Struct
  <2> DEFINE b == a.item
  <2>5. /\ DOMAIN more = ItemFields /\ more.type = b.type /\ more.writable = b.writable /\ more.dirty = b.dirty
        /\ more.pbuf = b.pbuf /\ more.alloc_size = b.alloc_size /\ more.used_size = b.used_size /\ more.size = b.size
        /\ more.ptr = b.ptr /\ more.mem = b.mem /\ more.count = c
    BY <2>4 DEF ItemFields
  <2>6. h.count = item.count /\ item.count \in Nat /\ b.count = h.count
    BY <1>3, <1>4, <2>2 DEF Roomier, Grown, Struct
  <2>7. c = item.count + 1 /\ c \in Nat
    BY <2>6 DEF c
  <2> HIDE DEF more, b
  <2>8. /\ Longer(h, b) /\ b.dirty = TRUE /\ h.used_size < b.used_size
        /\ ValueAt(b.mem, type, v, h.used_size, b.used_size)
    BY <2>2 DEF b
  <2>9. Longer(item, b)
    BY <1>1, <1>3, <1>4, <2>8, RoomThenLonger
  <2>10. Struct(more)
    BY <2>4, <2>5, <2>7, <2>8 DEF Longer, Struct, b
  <2>11. Longer(item, more)
    BY <2>5, <2>9, <2>10 DEF Longer
  <2>12. HeadLaid(more.mem, ctype, key, u)
    <3>1. HeadLaid(h.mem, ctype, key, u) /\ Keeps(h.mem, more.mem, u + w)
      BY <1>4, <1>5, <2>5, <2>8 DEF Longer, Struct
    <3> DEFINE m == h.mem
               m1 == more.mem
    <3>2. HeadLaid(m1, ctype, key, u)
      <4> HIDE DEF u, m, m1
      <4>1. HeadLaid(m, ctype, key, u) /\ Keeps(m, m1, u + w) /\ u \in Nat /\ KeyFits(ctype, key)
        BY <1>5, <3>1 DEF m, m1, EntryFits
      <4> QED BY <4>1, HeadKept
    <3> QED BY <3>2 DEF m1
  <2>13. EntryLaid(more.mem, ctype, key, type, v, u, more.used_size)
    BY <1>5, <2>5, <2>8, <2>12 DEF EntryLaid, w
  <2>14. OneMore(item, more, ctype, key, type, v)
    BY <2>5, <2>7, <2>8, <2>11, <2>13 DEF OneMore, u
  <2> QED BY <2>3, <2>14 DEF r, head
<1> QED BY <1>7, <1>8

\* The type that the three functions for a caller give to AddValue.
AddedType(type, v) == GetWriteConvertedData(type, v).type

\* No entry of the container has the key.
NotThere(item, key) ==
  /\ item.type = BINN_MAP => SearchForID(item.mem, MAX_BINN_HEADER, item.used_size, item.count, key) = NIL
  /\ item.type = BINN_OBJECT => /\ SearchForKey(item.mem, MAX_BINN_HEADER, item.used_size, item.count, key) = NIL
                                /\ Len(KeyText[key]) <= MaxKeyLen

\* A setter adds its entry to a container that does not have the key, or refuses and
\* leaves the container as it was up to used_size, in its block or in a larger one.
LEMMA SetterGrown ==
    ASSUME NEW item, Struct(item), item.used_size <= item.alloc_size, item.type \in Containers,
           NEW key, NEW type, NEW v, EntryFits(item.type, key, AddedType(type, v), v)
    PROVE  LET r == binn_add_value(item, key, type, v)
           IN  \/ r = Refused(r.item) /\ Undone(item, r.item)
               \/ /\ r = Accepted(r.item) /\ OneMore(item, r.item, item.type, key, AddedType(type, v), v)
                  /\ item.writable = TRUE /\ NotThere(item, key) /\ GetWriteConvertedData(type, v).ok
<1> DEFINE r == binn_add_value(item, key, type, v)
           c == GetWriteConvertedData(type, v)
           t == AddedType(type, v)
           s == SetEntry(item, EntryHead(item.type, key), HeadWidth(item.type, key), t, v)
<1>1. BINN_LIST # BINN_MAP /\ BINN_LIST # BINN_OBJECT /\ BINN_MAP # BINN_OBJECT
  BY DEF BINN_LIST, BINN_MAP, BINN_OBJECT
<1>2. r = Refused(item) \/ (r = s /\ item.writable /\ NotThere(item, key) /\ c.ok)
  <2>0. c.type = t
    BY DEF AddedType
  <2>1. CASE ~c.ok
    BY <2>1 DEF binn_add_value
  <2>2. CASE c.ok /\ item.type = BINN_LIST
    <3>1. r = binn_list_add_raw(item, t, v)
      BY <1>1, <2>0, <2>2 DEF binn_add_value
    <3>2. EntryHead(item.type, key) = <<>> /\ HeadWidth(item.type, key) = 0
      BY <1>1, <2>2 DEF EntryHead, HeadWidth
    <3> HIDE DEF r, c, t
    <3> QED BY <1>1, <2>2, <3>1, <3>2 DEF binn_list_add_raw, NotThere
  <2>3. CASE c.ok /\ item.type = BINN_MAP
    <3>1. r = binn_map_set_raw(item, key, t, v)
      BY <1>1, <2>0, <2>3 DEF binn_add_value
    <3>2. EntryHead(item.type, key) = <<Field("id", 4, key)>> /\ HeadWidth(item.type, key) = 4
      BY <1>1, <2>3 DEF EntryHead, HeadWidth
    <3> HIDE DEF r, c, t
    <3> QED BY <1>1, <2>3, <3>1, <3>2 DEF binn_map_set_raw, NotThere
  <2>4. CASE c.ok /\ item.type = BINN_OBJECT
    <3>1. r = binn_object_set_raw(item, key, t, v)
      BY <1>1, <2>0, <2>4 DEF binn_add_value
    <3>2. EntryHead(item.type, key) = KeyFields(key) /\ HeadWidth(item.type, key) = 1 + Len(KeyText[key])
      BY <1>1, <2>4 DEF EntryHead, HeadWidth
    <3>3. Len(KeyText[key]) \in Nat /\ MaxKeyLen \in Nat
      BY <2>4, KeyTextLen, FormatAssumption DEF EntryFits, KeyFits
    <3> DEFINE len == Len(KeyText[key])
    <3> HIDE DEF r, c, t
    <3>4. len <= MaxKeyLen \/ len > MaxKeyLen
      BY <3>3
    <3>5. r = Refused(item) \/ (r = s /\ item.writable /\ ~(len > MaxKeyLen)
             /\ SearchForKey(item.mem, MAX_BINN_HEADER, item.used_size, item.count, key) = NIL)
      BY <2>4, <3>1, <3>2 DEF binn_object_set_raw
    <3> QED BY <1>1, <2>4, <3>4, <3>5 DEF NotThere
  <2> QED BY <2>1, <2>2, <2>3, <2>4 DEF Containers
<1>3. CASE r = Refused(item)
  <2>1. r.item = item
    BY <1>3 DEF Refused
  <2>2. Undone(item, item)
    BY DEF Undone, Struct, Keeps, Fresh
  <2> HIDE DEF r
  <2>3. r = Refused(r.item) /\ Undone(item, r.item)
    BY <1>3, <2>1, <2>2
  <2> QED BY <2>3 DEF r
<1>4. CASE r = s /\ item.writable /\ NotThere(item, key) /\ c.ok
  <2> HIDE DEF r
  <2>1. \/ s = Refused(s.item) /\ Undone(item, s.item)
        \/ s = Accepted(s.item) /\ OneMore(item, s.item, item.type, key, t, v)
    BY SetEntryGrown
  <2> HIDE DEF s
  <2>2. item.writable = TRUE
    BY <1>4
  <2> QED BY <1>4, <2>1, <2>2 DEF r
<1> QED BY <1>2, <1>3, <1>4
-----------------------------------------------------------------------------
(* The types of the values.                                                *)

\* The storage of every type.
LEMMA StorageTable ==
    /\ binn_get_type_info(BINN_NULL) = STORAGE_NOBYTES /\ binn_get_type_info(BINN_TRUE) = STORAGE_NOBYTES
    /\ binn_get_type_info(BINN_FALSE) = STORAGE_NOBYTES /\ binn_get_type_info(BINN_BOOL) = STORAGE_DWORD
    /\ binn_get_type_info(BINN_UINT8) = STORAGE_BYTE /\ binn_get_type_info(BINN_INT8) = STORAGE_BYTE
    /\ binn_get_type_info(BINN_UINT16) = STORAGE_WORD /\ binn_get_type_info(BINN_INT16) = STORAGE_WORD
    /\ binn_get_type_info(BINN_UINT32) = STORAGE_DWORD /\ binn_get_type_info(BINN_INT32) = STORAGE_DWORD
    /\ binn_get_type_info(BINN_UINT64) = STORAGE_QWORD /\ binn_get_type_info(BINN_INT64) = STORAGE_QWORD
    /\ binn_get_type_info(BINN_FLOAT32) = STORAGE_DWORD /\ binn_get_type_info(BINN_FLOAT64) = STORAGE_QWORD
    /\ binn_get_type_info(BINN_STRING) = STORAGE_STRING /\ binn_get_type_info(BINN_HTML) = STORAGE_STRING
    /\ binn_get_type_info(BINN_BLOB) = STORAGE_BLOB /\ binn_get_type_info(BINN_JPEG) = STORAGE_BLOB
    /\ binn_get_type_info(BINN_LIST) = STORAGE_CONTAINER /\ binn_get_type_info(BINN_MAP) = STORAGE_CONTAINER
    /\ binn_get_type_info(BINN_OBJECT) = STORAGE_CONTAINER
<1>1. ASSUME NEW t \in Int, NEW q \in Int, 0 <= t, t < 256, q * 32 <= t, t < q * 32 + 32
      PROVE  binn_get_type_info(t) = q * 32
  <2>1. t \div 32 = q
    BY <1>1
  <2>2. ShortTypeStorage(t) = q * 32
    BY <1>1, <2>1 DEF ShortTypeStorage
  <2> QED BY <1>1, <2>2, ShortInfo DEF IsShort
<1>2. ASSUME NEW t \in Int, NEW q \in Int, 256 <= t, t < 65536, q * 8192 <= t, t < q * 8192 + 8192
      PROVE  binn_get_type_info(t) = q * 32
  <2>1. t \div 8192 = q
    BY <1>2
  <2>2. ShortTypeStorage(t) = q * 32
    BY <1>2, <2>1 DEF ShortTypeStorage
  <2> QED BY <1>2, <2>2, ShortInfo DEF IsShort
<1>3. binn_get_type_info(BINN_BOOL) = STORAGE_DWORD
  <2>1. ShortTypeStorage(97) = 96
    BY DEF ShortTypeStorage
  <2>2. binn_get_type_info(524385) = ShortTypeStorage(524385 % 65536)
    BY DEF binn_get_type_info, VIRTUAL
  <2>3. 524385 % 65536 = 97
    OBVIOUS
  <2> QED BY <2>1, <2>2, <2>3 DEF BINN_BOOL, STORAGE_DWORD
<1>4. /\ binn_get_type_info(BINN_NULL) = STORAGE_NOBYTES /\ binn_get_type_info(BINN_TRUE) = STORAGE_NOBYTES
      /\ binn_get_type_info(BINN_FALSE) = STORAGE_NOBYTES
  <2>1. binn_get_type_info(0) = 0 * 32 /\ binn_get_type_info(1) = 0 * 32 /\ binn_get_type_info(2) = 0 * 32
    BY <1>1
  <2> QED BY <2>1 DEF BINN_NULL, BINN_TRUE, BINN_FALSE, STORAGE_NOBYTES
<1>5. /\ binn_get_type_info(BINN_UINT8) = STORAGE_BYTE /\ binn_get_type_info(BINN_INT8) = STORAGE_BYTE
      /\ binn_get_type_info(BINN_UINT16) = STORAGE_WORD /\ binn_get_type_info(BINN_INT16) = STORAGE_WORD
  <2>1. binn_get_type_info(32) = 1 * 32 /\ binn_get_type_info(33) = 1 * 32
    BY <1>1
  <2>2. binn_get_type_info(64) = 2 * 32 /\ binn_get_type_info(65) = 2 * 32
    BY <1>1
  <2> QED BY <2>1, <2>2 DEF BINN_UINT8, BINN_INT8, BINN_UINT16, BINN_INT16, STORAGE_BYTE, STORAGE_WORD
<1>6. /\ binn_get_type_info(BINN_UINT32) = STORAGE_DWORD /\ binn_get_type_info(BINN_INT32) = STORAGE_DWORD
      /\ binn_get_type_info(BINN_FLOAT32) = STORAGE_DWORD
  <2>1. binn_get_type_info(96) = 3 * 32 /\ binn_get_type_info(97) = 3 * 32 /\ binn_get_type_info(98) = 3 * 32
    BY <1>1
  <2> QED BY <2>1 DEF BINN_UINT32, BINN_INT32, BINN_FLOAT32, STORAGE_DWORD
<1>7. /\ binn_get_type_info(BINN_UINT64) = STORAGE_QWORD /\ binn_get_type_info(BINN_INT64) = STORAGE_QWORD
      /\ binn_get_type_info(BINN_FLOAT64) = STORAGE_QWORD
  <2>1. binn_get_type_info(128) = 4 * 32 /\ binn_get_type_info(129) = 4 * 32 /\ binn_get_type_info(130) = 4 * 32
    BY <1>1
  <2> QED BY <2>1 DEF BINN_UINT64, BINN_INT64, BINN_FLOAT64, STORAGE_QWORD
<1>8. /\ binn_get_type_info(BINN_STRING) = STORAGE_STRING /\ binn_get_type_info(BINN_HTML) = STORAGE_STRING
  <2>1. binn_get_type_info(160) = 5 * 32
    BY <1>1
  <2>2. binn_get_type_info(45057) = 5 * 32
    BY <1>2
  <2> QED BY <2>1, <2>2 DEF BINN_STRING, BINN_HTML, STORAGE_STRING
<1>9. /\ binn_get_type_info(BINN_BLOB) = STORAGE_BLOB /\ binn_get_type_info(BINN_JPEG) = STORAGE_BLOB
  <2>1. binn_get_type_info(192) = 6 * 32
    BY <1>1
  <2>2. binn_get_type_info(53249) = 6 * 32
    BY <1>2
  <2> QED BY <2>1, <2>2 DEF BINN_BLOB, BINN_JPEG, STORAGE_BLOB
<1>10. /\ binn_get_type_info(BINN_LIST) = STORAGE_CONTAINER /\ binn_get_type_info(BINN_MAP) = STORAGE_CONTAINER
       /\ binn_get_type_info(BINN_OBJECT) = STORAGE_CONTAINER
  <2>1. binn_get_type_info(224) = 7 * 32 /\ binn_get_type_info(225) = 7 * 32 /\ binn_get_type_info(226) = 7 * 32
    BY <1>1
  <2> QED BY <2>1 DEF BINN_LIST, BINN_MAP, BINN_OBJECT, STORAGE_CONTAINER
<1> QED BY <1>3, <1>4, <1>5, <1>6, <1>7, <1>8, <1>9, <1>10

\* The families of the types.
LEMMA FamilyTable ==
    /\ \A t \in Ints : type_family(t) = "INT"
    /\ \A t \in Containers : type_family(t) = "BINN"
    /\ \A t \in {BINN_FLOAT32, BINN_FLOAT64} : type_family(t) = "FLOAT"
    /\ \A t \in {BINN_STRING, BINN_HTML} : type_family(t) = "STRING"
    /\ \A t \in {BINN_BLOB, BINN_JPEG} : type_family(t) = "BLOB"
    /\ type_family(BINN_BOOL) = "BOOL" /\ type_family(BINN_NULL) = "NULL"
    /\ type_family(BINN_TRUE) = "NONE" /\ type_family(BINN_FALSE) = "NONE"
<1> DEFINE C == Containers
           I == Ints
           F == {BINN_FLOAT32, BINN_FLOAT64}
           S == {BINN_STRING, BINN_HTML}
           B == {BINN_BLOB, BINN_JPEG}
           O == {BINN_BOOL}
           N == {BINN_NULL}
           R == {BINN_TRUE, BINN_FALSE}
<1>1. /\ \A t \in C : t \notin I /\ t \notin F /\ t \notin S /\ t \notin B /\ t \notin O /\ t \notin N /\ t \notin R
      /\ \A t \in I : t \notin C /\ t \notin F /\ t \notin S /\ t \notin B /\ t \notin O /\ t \notin N /\ t \notin R
      /\ \A t \in F : t \notin S /\ t \notin B /\ t \notin O /\ t \notin N /\ t \notin R
      /\ \A t \in S : t \notin B /\ t \notin O /\ t \notin N /\ t \notin R
      /\ \A t \in B : t \notin O /\ t \notin N /\ t \notin R
      /\ \A t \in O : t \notin N /\ t \notin R
      /\ \A t \in N : t \notin R
  BY DEF Containers, Ints, SignedInts, UnsignedInts, BINN_LIST, BINN_MAP, BINN_OBJECT, BINN_INT8, BINN_INT16,
         BINN_INT32, BINN_INT64, BINN_UINT8, BINN_UINT16, BINN_UINT32, BINN_UINT64, BINN_FLOAT32, BINN_FLOAT64,
         BINN_STRING, BINN_HTML, BINN_BLOB, BINN_JPEG, BINN_BOOL, BINN_NULL, BINN_TRUE, BINN_FALSE
<1> DEFINE bool == BINN_BOOL
           null == BINN_NULL
<1>2. \A t : type_family(t) = CASE t \in C -> "BINN" [] t \in I -> "INT" [] t \in F -> "FLOAT" [] t \in S -> "STRING"
                                [] t \in B -> "BLOB" [] t = bool -> "BOOL" [] t = null -> "NULL" [] OTHER -> "NONE"
  BY Zenon DEF type_family
<1>3. (\A t : t = bool <=> t \in O) /\ (\A t : t = null <=> t \in N)
  OBVIOUS
<1> HIDE DEF C, I, F, S, B, O, N, R, bool, null
<1>4. /\ \A t \in C : type_family(t) = "BINN"
      /\ \A t \in I : type_family(t) = "INT"
      /\ \A t \in F : type_family(t) = "FLOAT"
      /\ \A t \in S : type_family(t) = "STRING"
      /\ \A t \in B : type_family(t) = "BLOB"
      /\ \A t \in O : type_family(t) = "BOOL"
      /\ \A t \in N : type_family(t) = "NULL"
      /\ \A t \in R : type_family(t) = "NONE"
  BY <1>1, <1>2, <1>3
<1> QED BY <1>4 DEF C, I, F, S, B, O, N, R

\* Integers have one of the four fixed sizes.
LEMMA IntStorage ==
    \A t \in Ints : /\ binn_get_type_info(t) \in {STORAGE_BYTE, STORAGE_WORD, STORAGE_DWORD, STORAGE_QWORD}
                    /\ binn_get_write_storage(t) = binn_get_type_info(t)
<1>1. \A t \in Ints : t # BINN_BOOL
  BY DEF Ints, SignedInts, UnsignedInts, BINN_INT8, BINN_INT16, BINN_INT32, BINN_INT64,
         BINN_UINT8, BINN_UINT16, BINN_UINT32, BINN_UINT64, BINN_BOOL
<1>2. ASSUME NEW t \in Ints
      PROVE  binn_get_type_info(t) \in {STORAGE_BYTE, STORAGE_WORD, STORAGE_DWORD, STORAGE_QWORD}
  BY StorageTable DEF Ints, SignedInts, UnsignedInts
<1> QED BY <1>1, <1>2 DEF binn_get_write_storage

\* compress_int chooses an integer type that holds the value.
LEMMA CompressInt ==
    ASSUME NEW type \in Ints, NEW n \in Int, n \in MinOf(type)..MaxOf(type)
    PROVE  LET c == compress_int(type, n) IN c \in Ints /\ n \in MinOf(c)..MaxOf(c)
<1> DEFINE c == compress_int(type, n)
           s == Narrower(n)
           fits == Fitting(n)
           i == Min(fits)
<1>1. CASE binn_get_type_info(type) = STORAGE_BYTE \/ fits = {}
  BY <1>1 DEF compress_int
<1>2. CASE ~(binn_get_type_info(type) = STORAGE_BYTE \/ fits = {})
  <2>1. c = s[i]
    BY <1>2 DEF compress_int
  <2>2. fits \in SUBSET Nat /\ fits # {}
    BY <1>2 DEF Fitting
  <2>3. i \in fits
    <3> HIDE DEF fits
    <3>1. \E x \in fits : \A y \in fits : x <= y
      BY <2>2, MinInSet
    <3> QED BY <3>1 DEF Min
  <2>4. i \in 1..3 /\ n \in MinOf(s[i])..MaxOf(s[i])
    BY <2>3 DEF Fitting
  <2>5. s[1] \in Ints /\ s[2] \in Ints /\ s[3] \in Ints
    BY DEF Narrower, Ints, SignedInts, UnsignedInts
  <2> HIDE DEF i, s, c
  <2>6. i = 1 \/ i = 2 \/ i = 3
    BY <2>4
  <2> QED BY <2>1, <2>4, <2>5, <2>6 DEF c
<1> QED BY <1>1, <1>2

\* The type under which a value is stored, and its storage.
LEMMA KindStorageIs ==
    ASSUME NEW type \in DataTypes \cup {BINN_TRUE, BINN_FALSE}, NEW v,
           type \in Ints => v.n \in Int /\ v.n \in MinOf(type)..MaxOf(type)
    PROVE  /\ KindStorage(type, v) \in StorageTypes
           /\ type \in Ints => /\ Kind(type, v) \in Ints
                               /\ KindStorage(type, v) = binn_get_type_info(Kind(type, v))
                               /\ KindStorage(type, v) \in {STORAGE_BYTE, STORAGE_WORD, STORAGE_DWORD, STORAGE_QWORD}
           /\ type \notin Ints => Kind(type, v) = type /\ KindStorage(type, v) = binn_get_type_info(type)
           /\ KindStorage(type, v) = STORAGE_CONTAINER <=> type \in Containers
           /\ KindStorage(type, v) = STORAGE_STRING <=> type \in {BINN_STRING, BINN_HTML}
           /\ KindStorage(type, v) = STORAGE_BLOB <=> type \in {BINN_BLOB, BINN_JPEG}
<1>1. /\ \A s \in {STORAGE_BYTE, STORAGE_WORD, STORAGE_DWORD, STORAGE_QWORD, STORAGE_NOBYTES} :
           s \notin {STORAGE_STRING, STORAGE_BLOB, STORAGE_CONTAINER}
      /\ STORAGE_STRING # STORAGE_BLOB /\ STORAGE_STRING # STORAGE_CONTAINER /\ STORAGE_BLOB # STORAGE_CONTAINER
  BY DEF STORAGE_NOBYTES, STORAGE_BYTE, STORAGE_WORD, STORAGE_DWORD, STORAGE_QWORD, STORAGE_STRING,
         STORAGE_BLOB, STORAGE_CONTAINER
<1>2. /\ \A t \in Ints : t \notin Containers /\ t \notin {BINN_STRING, BINN_HTML} /\ t \notin {BINN_BLOB, BINN_JPEG}
      /\ \A t \in Containers : t \notin {BINN_STRING, BINN_HTML} /\ t \notin {BINN_BLOB, BINN_JPEG}
      /\ \A t \in {BINN_STRING, BINN_HTML} : t \notin {BINN_BLOB, BINN_JPEG}
      /\ \A t \in {BINN_NULL, BINN_BOOL, BINN_TRUE, BINN_FALSE, BINN_FLOAT32, BINN_FLOAT64} :
           t \notin Containers /\ t \notin {BINN_STRING, BINN_HTML} /\ t \notin {BINN_BLOB, BINN_JPEG}
  BY DEF Containers, Ints, SignedInts, UnsignedInts, BINN_LIST, BINN_MAP, BINN_OBJECT, BINN_INT8, BINN_INT16,
         BINN_INT32, BINN_INT64, BINN_UINT8, BINN_UINT16, BINN_UINT32, BINN_UINT64, BINN_FLOAT32, BINN_FLOAT64,
         BINN_STRING, BINN_HTML, BINN_BLOB, BINN_JPEG, BINN_BOOL, BINN_NULL, BINN_TRUE, BINN_FALSE
<1>3. CASE type \in Ints
  <2> DEFINE k == Kind(type, v)
  <2>1. k = compress_int(type, v.n) /\ KindStorage(type, v) = binn_get_write_storage(k)
    BY <1>3, FamilyTable DEF Kind, KindStorage
  <2>2. k \in Ints
    BY <1>3, <2>1, CompressInt
  <2> HIDE DEF k
  <2>3. KindStorage(type, v) \in {STORAGE_BYTE, STORAGE_WORD, STORAGE_DWORD, STORAGE_QWORD}
        /\ KindStorage(type, v) = binn_get_type_info(k)
    BY <2>1, <2>2, IntStorage
  <2> QED BY <1>1, <1>2, <1>3, <2>2, <2>3 DEF k, StorageTypes
<1>4. CASE type \notin Ints
  <2>1. type_family(type) # "INT"
    BY <1>4, FamilyTable DEF DataTypes
  <2>2. Kind(type, v) = type /\ KindStorage(type, v) = binn_get_type_info(type)
    BY <2>1 DEF Kind, KindStorage
  <2>3. CASE type \in Containers
    BY <1>1, <1>2, <1>4, <2>2, <2>3, StorageTable DEF Containers, StorageTypes
  <2>4. CASE type \in {BINN_STRING, BINN_HTML}
    BY <1>1, <1>2, <1>4, <2>2, <2>4, StorageTable DEF StorageTypes
  <2>5. CASE type \in {BINN_BLOB, BINN_JPEG}
    BY <1>1, <1>2, <1>4, <2>2, <2>5, StorageTable DEF StorageTypes
  <2>6. CASE type \in {BINN_NULL, BINN_BOOL, BINN_TRUE, BINN_FALSE, BINN_FLOAT32, BINN_FLOAT64}
    BY <1>1, <1>2, <1>4, <2>2, <2>6, StorageTable DEF StorageTypes
  <2> QED BY <1>4, <2>3, <2>4, <2>5, <2>6 DEF DataTypes
<1> QED BY <1>3, <1>4
-----------------------------------------------------------------------------
(* The header.                                                             *)

\* The field at offset o of mem, as a header has it: a number, in one byte or, with
\* the high bit set, in four.
LenAt(mem, o, n, w) == o \in DOMAIN mem /\ mem[o].n = n /\ (mem[o].hi <=> w = 4)

\* A header starts at p, and the data behind it header_size bytes later.
HeaderIn(mem, p, type, size, count, header_size) ==
  /\ p \in DOMAIN mem /\ mem[p].kind = "type" /\ mem[p].n = type
  /\ \E sw, cw \in {1, 4} : /\ LenAt(mem, p + 1, size, sw) /\ LenAt(mem, p + 1 + sw, count, cw)
                            /\ header_size = 1 + sw + cw

\* A structure whose header is saved, at its pointer: it ends where the data starts.
Saved(item) ==
  /\ item.size \in Nat /\ item.size >= MIN_BINN_SIZE /\ item.ptr.off \in {0, 3, 6}
  /\ item.ptr.off + item.size = item.used_size
  /\ HeaderIn(item.mem, item.ptr.off, item.type, item.size, item.count, MAX_BINN_HEADER - item.ptr.off)

\* The bytes behind an offset are those that were there.
LEMMA SliceAt ==
    ASSUME NEW mem, \A o \in DOMAIN mem : o \in Nat, NEW p \in Nat, NEW n \in Nat
    PROVE  \A o : /\ o \in DOMAIN Slice(mem, p, n) <=> o \in 0..(n - 1) /\ p + o \in DOMAIN mem
                  /\ o \in DOMAIN Slice(mem, p, n) => Slice(mem, p, n)[o] = mem[p + o]
<1> DEFINE S == {e \in DOMAIN mem : e >= p /\ e < p + n}
           D == {d - p : d \in S}
           s == Slice(mem, p, n)
<1>1. s = [o \in D |-> mem[o + p]]
  BY DEF Slice
<1>2. ASSUME NEW o \in D PROVE o \in 0..(n - 1) /\ p + o \in DOMAIN mem /\ o + p = p + o
  <2>1. PICK d \in S : o = d - p
    OBVIOUS
  <2>2. d \in Nat /\ d \in DOMAIN mem /\ d >= p /\ d < p + n
    OBVIOUS
  <2> QED BY <2>1, <2>2
<1>3. ASSUME NEW o \in 0..(n - 1), p + o \in DOMAIN mem PROVE o \in D
  <2>1. p + o \in S /\ o = (p + o) - p
    BY <1>3
  <2> QED BY <2>1
<1> HIDE DEF D
<1>4. DOMAIN s = D /\ \A o \in D : s[o] = mem[o + p]
  BY <1>1
<1> HIDE DEF s
<1>5. ASSUME NEW o
      PROVE  /\ o \in DOMAIN s <=> o \in 0..(n - 1) /\ p + o \in DOMAIN mem
             /\ o \in DOMAIN s => s[o] = mem[p + o]
  BY <1>2, <1>3, <1>4
<1> QED BY <1>5 DEF s

\* A header is the same one in a copy of its bytes.
LEMMA HeaderCopied ==
    ASSUME NEW mem, NEW p \in Nat, NEW more, NEW q \in Nat, NEW type, NEW size, NEW count, NEW hs,
           HeaderIn(mem, p, type, size, count, hs),
           \A o \in 0..(hs - 1) : p + o \in DOMAIN mem => q + o \in DOMAIN more /\ more[q + o] = mem[p + o]
    PROVE  HeaderIn(more, q, type, size, count, hs)
<1>1. PICK sw, cw \in {1, 4} : /\ LenAt(mem, p + 1, size, sw) /\ LenAt(mem, p + 1 + sw, count, cw)
                               /\ hs = 1 + sw + cw
  BY DEF HeaderIn
<1>2. 0 \in 0..(hs - 1) /\ 1 \in 0..(hs - 1) /\ 1 + sw \in 0..(hs - 1)
  BY <1>1
<1>3. p + 0 = p /\ q + 0 = q /\ p + (1 + sw) = p + 1 + sw /\ q + (1 + sw) = q + 1 + sw
  BY <1>1
<1>4. p \in DOMAIN mem /\ mem[p].kind = "type" /\ mem[p].n = type
  BY DEF HeaderIn
<1>5. q \in DOMAIN more /\ more[q] = mem[p]
  BY <1>2, <1>3, <1>4
<1>6. p + 1 \in DOMAIN mem /\ p + 1 + sw \in DOMAIN mem
  BY <1>1 DEF LenAt
<1>7. q + 1 \in DOMAIN more /\ more[q + 1] = mem[p + 1]
  BY <1>2, <1>6
<1>8. q + 1 + sw \in DOMAIN more /\ more[q + 1 + sw] = mem[p + 1 + sw]
  BY <1>2, <1>3, <1>6
<1>9. LenAt(more, q + 1, size, sw) /\ LenAt(more, q + 1 + sw, count, cw)
  BY <1>1, <1>7, <1>8 DEF LenAt
<1> QED BY <1>1, <1>4, <1>5, <1>9 DEF HeaderIn

\* IsValidBinnHeader reads what the header says.
LEMMA HeaderRead ==
    ASSUME NEW mem, NEW type \in Containers, NEW size \in Nat, size >= MIN_BINN_SIZE, NEW count \in Nat, NEW hs,
           HeaderIn(mem, 0, type, size, count, hs)
    PROVE  LET h == IsValidBinnHeader(mem)
           IN  h.ok = TRUE /\ h.type = type /\ h.size = size /\ h.count = count /\ h.header_size = hs
<1> DEFINE h == IsValidBinnHeader(mem)
           s == ReadLen(mem, 1)
           c == ReadLen(mem, s.next)
<1>1. PICK sw, cw \in {1, 4} : /\ LenAt(mem, 0 + 1, size, sw) /\ LenAt(mem, 0 + 1 + sw, count, cw)
                               /\ hs = 1 + sw + cw
  BY DEF HeaderIn
<1>2. 0 + 1 = 1 /\ 0 + 1 + sw = 1 + sw
  BY <1>1
<1>3. At(mem, 0).kind = "type" /\ At(mem, 0).n = type
  BY DEF HeaderIn, At
<1>4. s.n = size /\ s.next = 1 + sw
  BY <1>1, <1>2 DEF LenAt, ReadLen, At
<1>5. c.n = count /\ c.next = 1 + sw + cw
  <2> HIDE DEF s
  <2>1. LenAt(mem, 1 + sw, count, cw)
    BY <1>1, <1>2
  <2>2. At(mem, 1 + sw).n = count /\ (At(mem, 1 + sw).hi <=> cw = 4)
    BY <2>1 DEF LenAt, At
  <2> QED BY <1>1, <1>4, <2>2 DEF ReadLen
<1>6. h = HeaderFields(At(mem, 0), s, c)
  BY DEF IsValidBinnHeader, HeaderWithSize
<1> HIDE DEF h, s, c
<1>7. h.ok = TRUE /\ h.type = type /\ h.size = size /\ h.count = count /\ h.header_size = c.next
  <2> DEFINE t == At(mem, 0)
             b == t.kind = "type" /\ t.n \in Containers /\ s.n >= MIN_BINN_SIZE /\ c.n >= 0
  <2>1. h = [ok |-> b, type |-> t.n, size |-> s.n, count |-> c.n, header_size |-> c.next]
    BY <1>6 DEF HeaderFields
  <2>2. b = TRUE
    BY <1>3, <1>4, <1>5
  <2> HIDE DEF b
  <2>3. h.ok = TRUE /\ h.type = t.n /\ h.size = s.n /\ h.count = c.n /\ h.header_size = c.next
    BY <2>1, <2>2
  <2> QED BY <1>3, <1>4, <1>5, <2>3
<1> QED BY <1>1, <1>5, <1>7 DEF h

\* A field is written over what started in its bytes, and nothing else.
LEMMA PutAt ==
    ASSUME NEW mem, NEW p \in Nat, NEW f, f.w \in Nat \ {0}
    PROVE  LET m == Put(mem, p, f)
           IN  /\ Has(m, p, f)
               /\ \A o \in Nat : ~(p <= o /\ o < p + f.w) =>
                    (o \in DOMAIN m <=> o \in DOMAIN mem) /\ (o \in DOMAIN mem => m[o] = mem[o])
               /\ \A n \in Nat : SplitAt(mem, n) /\ p + f.w <= n => SplitAt(m, n)
<1> DEFINE D == (DOMAIN mem \ (p..(p + f.w - 1))) \cup {p}
           m == Put(mem, p, f)
<1>1. m = [o \in D |-> IF o = p THEN f ELSE mem[o]]
  BY DEF Put
<1>2. DOMAIN m = D /\ \A o \in D : m[o] = IF o = p THEN f ELSE mem[o]
  BY <1>1
<1> HIDE DEF m
<1>3. Has(m, p, f)
  BY <1>2 DEF Has
<1>4. ASSUME NEW o \in Nat, ~(p <= o /\ o < p + f.w)
      PROVE  (o \in DOMAIN m <=> o \in DOMAIN mem) /\ (o \in DOMAIN mem => m[o] = mem[o])
  <2>1. o # p /\ o \notin p..(p + f.w - 1)
    BY <1>4
  <2> QED BY <1>2, <2>1
<1>5. ASSUME NEW n \in Nat, SplitAt(mem, n), p + f.w <= n PROVE SplitAt(m, n)
  BY <1>2, <1>5 DEF SplitAt
<1> QED BY <1>3, <1>4, <1>5 DEF m

\* binn_save_header changes the bytes in front of the data only.
LEMMA HeaderSaved ==
    ASSUME NEW item, Struct(item), NEW r, r = binn_save_header(item)
    PROVE  /\ Struct(r) /\ r.type = item.type /\ r.writable = item.writable /\ r.pbuf = item.pbuf
           /\ r.alloc_size = item.alloc_size /\ r.used_size = item.used_size /\ r.count = item.count
           /\ r.dirty = FALSE /\ r.ptr.block = item.pbuf /\ Saved(r)
           /\ \A o \in Nat : o >= MAX_BINN_HEADER =>
                (o \in DOMAIN r.mem <=> o \in DOMAIN item.mem) /\ (o \in DOMAIN item.mem => r.mem[o] = item.mem[o])
<1> DEFINE count == LenField(item.count)
           n == item.used_size - MAX_BINN_HEADER + 3 + (count.w - 1)
           len == LenField(n)
           size == Widened(len)
           ps == MAX_BINN_HEADER - count.w - size.w
           type == Field("type", 1, item.type)
           m1 == Put(item.mem, ps + size.w, count)
           m2 == Put(m1, ps, size)
           m3 == Put(m2, ps - 1, type)
           ptr == [block |-> item.pbuf, off |-> ps - 1]
<1>1. r = [item EXCEPT !.mem = m3, !.ptr = ptr, !.size = size.n, !.dirty = FALSE]
  BY DEF binn_save_header, SavedWithCount, HeaderAt
<1>2. item.count \in Nat /\ item.used_size \in Nat /\ 9 <= item.used_size /\ SplitAt(item.mem, item.used_size)
  BY DEF Struct, MAX_BINN_HEADER
<1>3. count.w \in {1, 4} /\ count.n = item.count /\ (count.w = 4 <=> item.count > ShortMax)
      /\ (count.hi <=> item.count > ShortMax)
  BY <1>2, LenFieldIs
<1> HIDE DEF count
<1>4. n = item.used_size - 6 + (count.w - 1) /\ n \in Nat /\ n >= 3
  BY <1>2, <1>3 DEF MAX_BINN_HEADER
<1>5. len.w \in {1, 4} /\ len.n = n /\ (len.w = 4 <=> n > ShortMax) /\ (len.hi <=> n > ShortMax)
  <2> HIDE DEF n
  <2> QED BY <1>4, LenFieldIs
<1>6. size.w = len.w /\ size.n = n + len.w - 1 /\ (size.hi <=> len.hi)
  <2>1. DOMAIN len = {"kind", "w", "n", "hi"}
    <3> HIDE DEF n
    <3> QED BY DEF LenField, OneByte, FourBytes, Field
  <2> DEFINE k == len.n + len.w - 1
  <2>2. size = [len EXCEPT !.n = k]
    BY DEF Widened
  <2> HIDE DEF size, len, k
  <2>3. size.w = len.w /\ size.n = k /\ size.hi = len.hi
    BY <2>1, <2>2
  <2> QED BY <1>5, <2>3 DEF k
<1> HIDE DEF n, len, size
<1>7. /\ ps \in Nat /\ ps = 9 - count.w - size.w /\ ps + size.w + count.w = 9 /\ ps - 1 \in {0, 3, 6}
      /\ ps + size.w \in Nat /\ size.w \in Nat \ {0} /\ count.w \in Nat \ {0} /\ ps - 1 \in Nat
      /\ size.n \in Nat /\ size.n >= 3 /\ (ps - 1) + size.n = item.used_size
  BY <1>2, <1>3, <1>4, <1>5, <1>6 DEF MAX_BINN_HEADER
<1>8. type.w = 1 /\ type.kind = "type" /\ type.n = item.type
  BY DEF Field
<1> HIDE DEF ps, type
<1>9. /\ Has(m1, ps + size.w, count)
      /\ \A o \in Nat : ~(ps + size.w <= o /\ o < ps + size.w + count.w) =>
           (o \in DOMAIN m1 <=> o \in DOMAIN item.mem) /\ (o \in DOMAIN item.mem => m1[o] = item.mem[o])
      /\ SplitAt(m1, item.used_size)
  <2> HIDE DEF m1
  <2>1. /\ Has(m1, ps + size.w, count)
        /\ \A o \in Nat : ~(ps + size.w <= o /\ o < ps + size.w + count.w) =>
             (o \in DOMAIN m1 <=> o \in DOMAIN item.mem) /\ (o \in DOMAIN item.mem => m1[o] = item.mem[o])
        /\ \A k \in Nat : SplitAt(item.mem, k) /\ ps + size.w + count.w <= k => SplitAt(m1, k)
    BY <1>7, PutAt DEF m1
  <2> QED BY <1>2, <1>7, <2>1
<1> HIDE DEF m1
<1>10. /\ Has(m2, ps, size)
       /\ \A o \in Nat : ~(ps <= o /\ o < ps + size.w) =>
            (o \in DOMAIN m2 <=> o \in DOMAIN m1) /\ (o \in DOMAIN m1 => m2[o] = m1[o])
       /\ SplitAt(m2, item.used_size)
  <2> HIDE DEF m2
  <2>1. /\ Has(m2, ps, size)
        /\ \A o \in Nat : ~(ps <= o /\ o < ps + size.w) =>
             (o \in DOMAIN m2 <=> o \in DOMAIN m1) /\ (o \in DOMAIN m1 => m2[o] = m1[o])
        /\ \A k \in Nat : SplitAt(m1, k) /\ ps + size.w <= k => SplitAt(m2, k)
    <3>1. ps \in Nat /\ size.w \in Nat \ {0}
      BY <1>7
    <3> QED BY <3>1, PutAt DEF m2
  <2>2. ps + size.w <= item.used_size
    BY <1>2, <1>7
  <2> QED BY <1>2, <1>9, <2>1, <2>2
<1> HIDE DEF m2
<1>11. /\ Has(m3, ps - 1, type)
       /\ \A o \in Nat : o # ps - 1 => (o \in DOMAIN m3 <=> o \in DOMAIN m2) /\ (o \in DOMAIN m2 => m3[o] = m2[o])
       /\ SplitAt(m3, item.used_size)
  <2> DEFINE x == ps - 1
             m == Put(m2, x, type)
  <2>0. x \in Nat /\ type.w \in Nat \ {0} /\ x + type.w <= item.used_size /\ type.w = 1
    BY <1>2, <1>7, <1>8
  <2> HIDE DEF m, x
  <2>1. /\ Has(m, x, type)
        /\ \A o \in Nat : ~(x <= o /\ o < x + type.w) =>
             (o \in DOMAIN m <=> o \in DOMAIN m2) /\ (o \in DOMAIN m2 => m[o] = m2[o])
        /\ \A k \in Nat : SplitAt(m2, k) /\ x + type.w <= k => SplitAt(m, k)
    BY <2>0, PutAt DEF m
  <2>2. SplitAt(m, item.used_size)
    BY <1>2, <1>10, <2>0, <2>1
  <2>3. ASSUME NEW o \in Nat, o # x PROVE ~(x <= o /\ o < x + type.w)
    BY <2>0, <2>3
  <2>4. \A o \in Nat : o # x => (o \in DOMAIN m <=> o \in DOMAIN m2) /\ (o \in DOMAIN m2 => m[o] = m2[o])
    BY <2>1, <2>3
  <2> QED BY <2>1, <2>2, <2>4 DEF m, x
<1> HIDE DEF m3
<1>12. HeaderIn(m3, ps - 1, item.type, size.n, item.count, 9 - (ps - 1))
  <2>1. ps \in DOMAIN m2 /\ m2[ps] = size
    BY <1>10 DEF Has
  <2>2. ps \in DOMAIN m3 /\ m3[ps] = size
    BY <1>7, <1>11, <2>1
  <2>3. ps + size.w \in DOMAIN m1 /\ m1[ps + size.w] = count
    BY <1>9 DEF Has
  <2>4. ~(ps <= ps + size.w /\ ps + size.w < ps + size.w) /\ ps + size.w # ps - 1
    BY <1>7
  <2>5. ps + size.w \in DOMAIN m2 /\ m2[ps + size.w] = count
    BY <1>7, <1>10, <2>3, <2>4
  <2>6. ps + size.w \in DOMAIN m3 /\ m3[ps + size.w] = count
    BY <1>7, <1>11, <2>4, <2>5
  <2>7. ps - 1 \in DOMAIN m3 /\ m3[ps - 1] = type
    BY <1>11 DEF Has
  <2>8. (ps - 1) + 1 = ps /\ (ps - 1) + 1 + size.w = ps + size.w /\ 9 - (ps - 1) = 1 + size.w + count.w
    BY <1>7
  <2>9. LenAt(m3, ps, size.n, size.w) /\ LenAt(m3, ps + size.w, item.count, count.w)
    BY <1>3, <1>5, <1>6, <2>2, <2>6 DEF LenAt
  <2>10. LenAt(m3, (ps - 1) + 1, size.n, size.w) /\ LenAt(m3, (ps - 1) + 1 + size.w, item.count, count.w)
    BY <2>8, <2>9
  <2>11. size.w \in {1, 4} /\ count.w \in {1, 4}
    BY <1>3, <1>5, <1>6
  <2> QED BY <1>8, <2>7, <2>8, <2>10, <2>11 DEF HeaderIn
<1>13. ASSUME NEW o \in Nat, o >= 9
       PROVE  (o \in DOMAIN m3 <=> o \in DOMAIN item.mem) /\ (o \in DOMAIN item.mem => m3[o] = item.mem[o])
  <2>1. /\ ~(ps + size.w <= o /\ o < ps + size.w + count.w) /\ ~(ps <= o /\ o < ps + size.w) /\ o # ps - 1
    BY <1>7, <1>13
  <2> QED BY <1>9, <1>10, <1>11, <2>1
<1> DEFINE a == [item EXCEPT !.mem = m3]
           b == [a EXCEPT !.ptr = ptr]
           c == [b EXCEPT !.size = size.n]
           e == [c EXCEPT !.dirty = FALSE]
<1>14. r = e
  BY <1>1
<1>15. DOMAIN item = ItemFields
  BY DEF Struct
<1>16. /\ DOMAIN r = ItemFields /\ r.type = item.type /\ r.writable = item.writable /\ r.dirty = FALSE
       /\ r.pbuf = item.pbuf /\ r.alloc_size = item.alloc_size /\ r.used_size = item.used_size
       /\ r.count = item.count /\ r.size = size.n /\ r.ptr = ptr /\ r.mem = m3
  <2> HIDE DEF ptr
  <2>1. /\ DOMAIN a = ItemFields /\ a.type = item.type /\ a.writable = item.writable
        /\ a.pbuf = item.pbuf /\ a.alloc_size = item.alloc_size /\ a.used_size = item.used_size
        /\ a.count = item.count /\ a.mem = m3
    BY <1>15 DEF ItemFields
  <2> HIDE DEF a
  <2>2. /\ DOMAIN b = ItemFields /\ b.type = a.type /\ b.writable = a.writable
        /\ b.pbuf = a.pbuf /\ b.alloc_size = a.alloc_size /\ b.used_size = a.used_size
        /\ b.count = a.count /\ b.mem = a.mem /\ b.ptr = ptr
    BY <2>1 DEF ItemFields
  <2> HIDE DEF b
  <2>3. /\ DOMAIN c = ItemFields /\ c.type = b.type /\ c.writable = b.writable
        /\ c.pbuf = b.pbuf /\ c.alloc_size = b.alloc_size /\ c.used_size = b.used_size
        /\ c.count = b.count /\ c.mem = b.mem /\ c.ptr = b.ptr /\ c.size = size.n
    BY <2>2 DEF ItemFields
  <2> HIDE DEF c
  <2>4. /\ DOMAIN r = ItemFields /\ r.type = c.type /\ r.writable = c.writable /\ r.dirty = FALSE
        /\ r.pbuf = c.pbuf /\ r.alloc_size = c.alloc_size /\ r.used_size = c.used_size
        /\ r.count = c.count /\ r.mem = c.mem /\ r.ptr = c.ptr /\ r.size = c.size
    BY <1>14, <2>3 DEF ItemFields
  <2> QED BY <2>1, <2>2, <2>3, <2>4
<1>17. ptr.block = item.pbuf /\ ptr.off = ps - 1
  OBVIOUS
<1> HIDE DEF ptr, a, b, c, e
<1>18. Struct(r)
  BY <1>11, <1>16 DEF Struct
<1>19. Saved(r)
  BY <1>7, <1>12, <1>16, <1>17 DEF Saved, MIN_BINN_SIZE, MAX_BINN_HEADER
<1> QED BY <1>13, <1>16, <1>17, <1>18, <1>19 DEF MAX_BINN_HEADER
-----------------------------------------------------------------------------
(* Copies of entries.                                                      *)

\* The bytes of more from lo up to hi are those of mem, d bytes further on.
Copied(mem, d, more, lo, hi) ==
  \A o \in lo..(hi - 1) : /\ o \in DOMAIN more <=> d + o \in DOMAIN mem
                          /\ d + o \in DOMAIN mem => more[o] = mem[d + o]

\* A field in a copy.
LEMMA HasCopied ==
    ASSUME NEW mem, NEW d \in Nat, NEW more, NEW lo \in Nat, NEW hi \in Nat, Copied(mem, d, more, lo, hi),
           NEW o \in Nat, lo <= o, o < hi, NEW f, Has(mem, d + o, f)
    PROVE  Has(more, o, f)
<1>1. o \in lo..(hi - 1)
  OBVIOUS
<1> QED BY <1>1 DEF Copied, Has

\* What follows a type in a copy.
LEMMA PayloadCopied ==
    ASSUME NEW mem, NEW d \in Nat, NEW more, NEW lo \in Nat, NEW hi \in Nat, Copied(mem, d, more, lo, hi),
           NEW p \in Nat, lo <= p, NEW q \in Nat, q <= hi,
           NEW storage \in StorageTypes \ {STORAGE_CONTAINER}, NEW n, NEW size,
           PayloadLaid(mem, storage, n, size, d + p, d + q)
    PROVE  PayloadLaid(more, storage, n, size, p, q)
<1> DEFINE fixed == FixedSize(storage)
<1>1. /\ fixed \in {-1, 0, 1, 2, 4, 8}
      /\ storage \in {STORAGE_BLOB, STORAGE_STRING} => ~(fixed >= 0)
      /\ fixed >= 0 \/ storage \in {STORAGE_BLOB, STORAGE_STRING}
      /\ STORAGE_BLOB # STORAGE_STRING
  BY Storages
<1>2. ASSUME NEW o \in Nat, p <= o, o < q, NEW f, Has(mem, d + o, f) PROVE Has(more, o, f)
  <2>1. lo <= o /\ o < hi
    BY <1>2
  <2> QED BY <1>2, <2>1, HasCopied
<1>3. CASE fixed >= 0
  <2> DEFINE b == Field("data", fixed, n)
  <2>1. d + q = (d + p) + fixed /\ (fixed # 0 => Has(mem, d + p, b))
    BY <1>3 DEF PayloadLaid
  <2> HIDE DEF fixed, b
  <2>2. q = p + fixed /\ (fixed # 0 => p < q)
    BY <1>1, <1>3, <2>1
  <2>3. fixed # 0 => Has(more, p, b)
    BY <1>2, <2>1, <2>2
  <2> QED BY <1>1, <1>3, <2>2, <2>3 DEF PayloadLaid, fixed, b
<1>4. CASE ~(fixed >= 0) /\ storage = STORAGE_BLOB
  <2> DEFINE b == Field("int", 4, size)
             c == Field("data", size, n)
  <2>1. /\ size \in Nat /\ d + q = (d + p) + 4 + size /\ Has(mem, d + p, b)
        /\ size # 0 => Has(mem, (d + p) + 4, c)
    BY <1>4 DEF PayloadLaid
  <2> HIDE DEF fixed, b, c
  <2>2. q = p + 4 + size /\ p + 4 \in Nat /\ p <= p + 4 /\ p < q /\ (size # 0 => p + 4 < q) /\ (d + p) + 4 = d + (p + 4)
    BY <2>1
  <2>3. Has(mem, d + p, b) /\ (size # 0 => Has(mem, d + (p + 4), c))
    BY <2>1, <2>2
  <2>4. Has(more, p, b) /\ (size # 0 => Has(more, p + 4, c))
    BY <1>2, <2>2, <2>3
  <2> QED BY <1>1, <1>4, <2>1, <2>2, <2>4 DEF PayloadLaid, fixed, b, c
<1>5. CASE ~(fixed >= 0) /\ storage = STORAGE_STRING
  <2> DEFINE b == LenField(size)
             c == Field("data", size, n)
             e == Field("data", 1, 0)
             w == b.w
  <2>1. /\ size \in Nat /\ d + q = (d + p) + w + size + 1 /\ Has(mem, d + p, b)
        /\ size # 0 => Has(mem, (d + p) + w, c)
        /\ Has(mem, (d + p) + w + size, e)
    BY <1>5 DEF PayloadLaid
  <2>2. w \in {1, 4}
    BY <2>1, LenFieldIs
  <2> HIDE DEF fixed, b, c, e, w
  <2>3. /\ q = p + w + size + 1 /\ p + w \in Nat /\ p + w + size \in Nat /\ p <= p + w /\ p < q
        /\ (size # 0 => p + w < q) /\ p <= p + w + size /\ p + w + size < q
        /\ (d + p) + w = d + (p + w) /\ (d + p) + w + size = d + (p + w + size)
    BY <2>1, <2>2
  <2>4. Has(mem, d + p, b) /\ (size # 0 => Has(mem, d + (p + w), c)) /\ Has(mem, d + (p + w + size), e)
    BY <2>1, <2>3
  <2>5. Has(more, p, b) /\ (size # 0 => Has(more, p + w, c)) /\ Has(more, p + w + size, e)
    BY <1>2, <2>3, <2>4
  <2> QED BY <1>1, <1>5, <2>1, <2>3, <2>5 DEF PayloadLaid, fixed, b, c, e, w
<1> QED BY <1>1, <1>3, <1>4, <1>5

\* A value in a copy.
LEMMA ValueCopied ==
    ASSUME NEW mem, NEW d \in Nat, NEW more, NEW lo \in Nat, NEW hi \in Nat, Copied(mem, d, more, lo, hi),
           NEW p \in Nat, lo <= p, NEW q \in Nat, p < q, q <= hi, NEW t, NEW storage, NEW n, NEW size, NEW sub,
           ValueLaid(mem, t, storage, n, size, sub, d + p, d + q)
    PROVE  ValueLaid(more, t, storage, n, size, sub, p, q)
<1>1. storage \in StorageTypes
  BY DEF ValueLaid
<1>2. CASE storage = STORAGE_CONTAINER
  <2>1. size \in Nat \ {0} /\ d + q = (d + p) + size /\ BufferLaid(mem, sub, size, d + p)
    BY <1>2 DEF ValueLaid
  <2>2. q = p + size
    BY <2>1
  <2>3. BufferLaid(more, sub, size, p)
    <3> SUFFICES ASSUME NEW o \in 0..(size - 1)
                 PROVE  (p + o \in DOMAIN more <=> o \in DOMAIN sub) /\ (o \in DOMAIN sub => more[p + o] = sub[o])
      BY DEF BufferLaid
    <3>1. p + o \in lo..(hi - 1) /\ d + (p + o) = (d + p) + o
      BY <2>1, <2>2
    <3>2. ((d + p) + o \in DOMAIN mem <=> o \in DOMAIN sub) /\ (o \in DOMAIN sub => mem[(d + p) + o] = sub[o])
      BY <2>1 DEF BufferLaid
    <3>3. /\ p + o \in DOMAIN more <=> (d + p) + o \in DOMAIN mem
          /\ (d + p) + o \in DOMAIN mem => more[p + o] = mem[(d + p) + o]
      BY <3>1 DEF Copied
    <3> QED BY <3>2, <3>3
  <2> QED BY <1>1, <1>2, <2>1, <2>2, <2>3 DEF ValueLaid
<1>3. CASE storage # STORAGE_CONTAINER
  <2> DEFINE x == TypeBytes(t)
             a == Field("type", x, t)
  <2>1. Has(mem, d + p, a) /\ PayloadLaid(mem, storage, n, size, (d + p) + x, d + q)
    BY <1>3 DEF ValueLaid
  <2>2. x \in {1, 2}
    BY DEF TypeBytes
  <2> HIDE DEF x, a
  <2>3. p + x \in Nat /\ lo <= p + x /\ (d + p) + x = d + (p + x) /\ p < hi
    BY <2>2
  <2>4. Has(more, p, a)
    BY <2>1, <2>3, HasCopied
  <2>5. PayloadLaid(mem, storage, n, size, d + (p + x), d + q)
    BY <2>1, <2>3
  <2>6. PayloadLaid(more, storage, n, size, p + x, q)
    BY <1>1, <1>3, <2>3, <2>5, PayloadCopied
  <2> QED BY <1>1, <1>3, <2>4, <2>6 DEF ValueLaid, x, a
<1> QED BY <1>2, <1>3

\* An entry in a copy.
LEMMA EntryCopied ==
    ASSUME NEW mem, NEW d \in Nat, NEW more, NEW lo \in Nat, NEW hi \in Nat, Copied(mem, d, more, lo, hi),
           NEW p \in Nat, lo <= p, NEW q \in Nat, q <= hi,
           NEW ctype \in Containers, NEW key, KeyFits(ctype, key), NEW type, NEW v,
           EntryLaid(mem, ctype, key, type, v, d + p, d + q)
    PROVE  EntryLaid(more, ctype, key, type, v, p, q)
<1> DEFINE w == HeadWidth(ctype, key)
           len == Len(KeyText[key])
<1>1. w \in Nat
  BY HeadWidthNat
<1>2. HeadLaid(mem, ctype, key, d + p) /\ (d + p) + w < d + q /\ ValueAt(mem, type, v, (d + p) + w, d + q)
  BY DEF EntryLaid
<1>3. ctype = BINN_OBJECT => len \in Nat /\ w = 1 + len
  <2>1. BINN_LIST # BINN_OBJECT /\ BINN_MAP # BINN_OBJECT
    BY DEF BINN_LIST, BINN_MAP, BINN_OBJECT
  <2> QED BY <2>1, KeyTextLen DEF HeadWidth, KeyFits
<1> HIDE DEF w
<1>4. p + w \in Nat /\ lo <= p + w /\ p + w < q /\ (d + p) + w = d + (p + w) /\ p < hi
  BY <1>1, <1>2
<1>5. ValueAt(more, type, v, p + w, q)
  <2>1. ValueAt(mem, type, v, d + (p + w), d + q)
    BY <1>2, <1>4
  <2> DEFINE t == Kind(type, v)
             storage == KindStorage(type, v)
             n == KindNumber(type, v)
             size == KindSize(type, v)
             sub == Slice(v.sub, 0, size)
             x == p + w
  <2>2. ValueLaid(mem, t, storage, n, size, sub, d + x, d + q)
    BY <2>1 DEF ValueAt
  <2> HIDE DEF t, storage, n, size, sub, x
  <2>3. x \in Nat /\ lo <= x /\ x < q
    BY <1>4 DEF x
  <2>4. ValueLaid(more, t, storage, n, size, sub, x, q)
    BY <2>2, <2>3, ValueCopied
  <2> QED BY <2>4 DEF ValueAt, t, storage, n, size, sub, x
<1>6. HeadLaid(more, ctype, key, p)
  <2>1. ASSUME NEW f, Has(mem, d + p, f) PROVE Has(more, p, f)
    BY <1>4, <2>1, HasCopied
  <2>2. ASSUME ctype = BINN_OBJECT, len # 0, NEW f, Has(mem, (d + p) + 1, f) PROVE Has(more, p + 1, f)
    <3> HIDE DEF len
    <3>1. p + 1 \in Nat /\ lo <= p + 1 /\ p + 1 < hi /\ (d + p) + 1 = d + (p + 1)
      BY <1>3, <1>4, <2>2
    <3>2. Has(mem, d + (p + 1), f)
      BY <2>2, <3>1
    <3> QED BY <3>1, <3>2, HasCopied
  <2> QED BY <1>2, <2>1, <2>2 DEF HeadLaid
<1> QED BY <1>4, <1>5, <1>6 DEF EntryLaid, w
-----------------------------------------------------------------------------
(* Reading a value.                                                        *)

\* A field is read where it was written.
LEMMA AtHas ==
    ASSUME NEW mem, NEW p, NEW f, Has(mem, p, f)
    PROVE  At(mem, p) = f
BY DEF Has, At

\* The fields of a field.
LEMMA FieldIs ==
    ASSUME NEW kind, NEW w, NEW n
    PROVE  Field(kind, w, n).kind = kind /\ Field(kind, w, n).w = w /\ Field(kind, w, n).n = n
BY DEF Field

\* A length is read as it was written.
LEMMA ReadLenIs ==
    ASSUME NEW mem, NEW p \in Nat, NEW n \in Nat, Has(mem, p, LenField(n))
    PROVE  ReadLen(mem, p).n = n /\ ReadLen(mem, p).next = p + LenField(n).w
<1> DEFINE f == LenField(n)
           g == At(mem, p)
<1>1. g = f
  BY AtHas
<1>2. f.w \in {1, 4} /\ f.n = n /\ (f.w = 4 <=> n > ShortMax) /\ (f.hi <=> n > ShortMax)
  BY LenFieldIs
<1>3. ReadLen(mem, p).n = g.n /\ ReadLen(mem, p).next = p + IF g.hi THEN 4 ELSE 1
  BY DEF ReadLen
<1> HIDE DEF f, g
<1> QED BY <1>1, <1>2, <1>3 DEF f

\* The bytes of a type.
TypeThere(mem, p, k) == Has(mem, p, Field("type", TypeBytes(k), k))

\* A type is read as it was written, in one byte or two.
LEMMA TypeRead ==
    ASSUME NEW mem, NEW p, NEW k, TypeThere(mem, p, k)
    PROVE  At(mem, p).kind = "type" /\ At(mem, p).n = k /\ TypeEnd(mem, p) = p + TypeBytes(k)
<1>1. At(mem, p) = Field("type", TypeBytes(k), k)
  BY AtHas DEF TypeThere
<1>2. At(mem, p).kind = "type" /\ At(mem, p).n = k
  BY <1>1, FieldIs
<1> QED BY <1>2 DEF TypeEnd, TypeBytes

\* The storages that the readers distinguish.
LEMMA StoragesApart ==
    /\ \A s \in StorageTypes : (FixedSize(s) >= 0 /\ FixedSize(s) # 0 => FixedSize(s) > 0)
    /\ \A s \in StorageTypes : FixedSize(s) = 0 <=> s = STORAGE_NOBYTES
    /\ FixedSize(STORAGE_BLOB) = -1 /\ FixedSize(STORAGE_STRING) = -1 /\ FixedSize(STORAGE_CONTAINER) = -1
    /\ STORAGE_BLOB # STORAGE_NOBYTES /\ STORAGE_STRING # STORAGE_NOBYTES /\ STORAGE_CONTAINER # STORAGE_NOBYTES
    /\ STORAGE_BLOB # STORAGE_STRING /\ STORAGE_BLOB # STORAGE_CONTAINER /\ STORAGE_STRING # STORAGE_CONTAINER
BY DEF FixedSize, STORAGE_BLOB, STORAGE_STRING, STORAGE_CONTAINER, STORAGE_NOBYTES, STORAGE_BYTE,
       STORAGE_WORD, STORAGE_DWORD, STORAGE_QWORD, StorageTypes

\* A value of a fixed size.
LEMMA FixedRead ==
    ASSUME NEW mem, NEW p \in Nat, NEW q, NEW k, TypeThere(mem, p, k), binn_get_type_info(k) \in StorageTypes,
           FixedSize(binn_get_type_info(k)) >= 0, NEW n, NEW size,
           PayloadLaid(mem, binn_get_type_info(k), n, size, p + TypeBytes(k), q)
    PROVE  /\ AdvanceDataPos(mem, p) = q
           /\ k \in {BINN_TRUE, BINN_FALSE} =>
                GetValue(mem, p) = ValueIs(BINN_BOOL, IF k = BINN_TRUE THEN 1 ELSE 0, 0, <<>>)
           /\ k \notin {BINN_TRUE, BINN_FALSE} =>
                GetValue(mem, p) = ValueIs(k, IF binn_get_type_info(k) = STORAGE_NOBYTES THEN 0 ELSE n, 0, <<>>)
<1> DEFINE s == binn_get_type_info(k)
           d == TypeEnd(mem, p)
           a == At(mem, p)
           b == Field("data", FixedSize(s), n)
<1>1. a.kind = "type" /\ a.n = k /\ d = p + TypeBytes(k)
  BY TypeRead
<1>2. q = d + FixedSize(s) /\ (FixedSize(s) # 0 => Has(mem, d, b))
  BY <1>1 DEF PayloadLaid
<1>3. b.n = n
  BY FieldIs
<1>4. /\ FixedSize(s) >= 0 /\ FixedSize(s) # 0 => FixedSize(s) > 0
      /\ FixedSize(s) = 0 <=> s = STORAGE_NOBYTES
      /\ s # STORAGE_BLOB /\ s # STORAGE_STRING /\ s # STORAGE_CONTAINER
  <2> HIDE DEF s
  <2> QED BY StoragesApart DEF s
<1> HIDE DEF b
<1>5. FixedSize(s) # 0 => At(mem, d).n = n
  BY <1>2, <1>3, AtHas
<1> HIDE DEF s, d, a
<1>6. AdvanceDataPos(mem, p) = q
  BY <1>1, <1>2, <1>4 DEF AdvanceDataPos, s, d, a
<1>7. k \in {BINN_TRUE, BINN_FALSE} => GetValue(mem, p) = ValueIs(BINN_BOOL, IF k = BINN_TRUE THEN 1 ELSE 0, 0, <<>>)
  BY <1>1 DEF GetValue, a
<1>8. ASSUME k \notin {BINN_TRUE, BINN_FALSE}, s = STORAGE_NOBYTES PROVE GetValue(mem, p) = ValueIs(k, 0, 0, <<>>)
  BY <1>1, <1>4, <1>8 DEF GetValue, a, s
<1>9. ASSUME k \notin {BINN_TRUE, BINN_FALSE}, s # STORAGE_NOBYTES PROVE GetValue(mem, p) = ValueIs(k, n, 0, <<>>)
  <2>1. FixedSize(s) > 0 /\ At(mem, d).n = n
    BY <1>4, <1>5, <1>9 DEF s
  <2> QED BY <1>1, <1>4, <1>9, <2>1 DEF GetValue, a, s, d
<1> QED BY <1>6, <1>7, <1>8, <1>9 DEF s

\* A blob.
LEMMA BlobRead ==
    ASSUME NEW mem, NEW p \in Nat, NEW q, NEW k, TypeThere(mem, p, k), binn_get_type_info(k) = STORAGE_BLOB,
           k \notin {BINN_TRUE, BINN_FALSE}, NEW n, NEW size,
           PayloadLaid(mem, STORAGE_BLOB, n, size, p + TypeBytes(k), q)
    PROVE  /\ AdvanceDataPos(mem, p) = q
           /\ GetValue(mem, p) = ValueIs(k, IF size = 0 THEN 0 ELSE n, size, <<>>)
<1> DEFINE s == binn_get_type_info(k)
           d == TypeEnd(mem, p)
           a == At(mem, p)
           b == Field("int", 4, size)
           c == Field("data", size, n)
<1>1. a.kind = "type" /\ a.n = k /\ d = p + TypeBytes(k)
  BY TypeRead
<1>2. q = d + 4 + size /\ Has(mem, d, b) /\ (size # 0 => Has(mem, d + 4, c))
  BY <1>1 DEF PayloadLaid
<1>3. b.n = size /\ c.n = n
  BY FieldIs
<1> HIDE DEF b, c
<1>4. At(mem, d).n = size /\ (size # 0 => At(mem, d + 4).n = n)
  BY <1>2, <1>3, AtHas
<1>5. ~(FixedSize(s) >= 0) /\ ~(FixedSize(s) > 0) /\ s = STORAGE_BLOB /\ s # STORAGE_STRING /\ s # STORAGE_CONTAINER
      /\ s # STORAGE_NOBYTES
  BY StoragesApart
<1> HIDE DEF s, d, a
<1>6. AdvanceDataPos(mem, p) = q
  BY <1>1, <1>2, <1>4, <1>5 DEF AdvanceDataPos, s, d, a
<1>7. GetValue(mem, p) = BlobAt(mem, k, d)
  BY <1>1, <1>5 DEF GetValue, a, s, d
<1> QED BY <1>4, <1>6, <1>7 DEF BlobAt

\* A string, with the null byte behind it.
LEMMA StringRead ==
    ASSUME NEW mem, NEW p \in Nat, NEW q, NEW k, TypeThere(mem, p, k), binn_get_type_info(k) = STORAGE_STRING,
           k \notin {BINN_TRUE, BINN_FALSE}, NEW n, NEW size,
           PayloadLaid(mem, STORAGE_STRING, n, size, p + TypeBytes(k), q)
    PROVE  /\ AdvanceDataPos(mem, p) = q
           /\ GetValue(mem, p) = ValueIs(k, IF size = 0 THEN 0 ELSE n, size, <<>>)
<1> DEFINE s == binn_get_type_info(k)
           d == TypeEnd(mem, p)
           a == At(mem, p)
           b == LenField(size)
           c == Field("data", size, n)
           e == Field("data", 1, 0)
           r == ReadLen(mem, d)
<1>0. TypeBytes(k) \in {1, 2}
  BY DEF TypeBytes
<1>1. a.kind = "type" /\ a.n = k /\ d = p + TypeBytes(k) /\ d \in Nat
  BY <1>0, TypeRead
<1>2. /\ size \in Nat /\ q = d + b.w + size + 1 /\ Has(mem, d, b) /\ (size # 0 => Has(mem, d + b.w, c))
      /\ Has(mem, d + b.w + size, e)
  BY <1>1 DEF PayloadLaid
<1>3. c.n = n /\ e.n = 0
  BY FieldIs
<1>4. r.n = size /\ r.next = d + b.w /\ b.w \in {1, 4}
  BY <1>1, <1>2, ReadLenIs, LenFieldIs
<1> HIDE DEF b, c, e, r
<1>5. At(mem, r.next).n = IF size = 0 THEN 0 ELSE n
  <2>1. CASE size = 0
    <3>1. d + b.w + size = d + b.w
      BY <1>1, <1>4, <2>1
    <3>2. Has(mem, d + b.w, e)
      BY <1>2, <3>1
    <3> QED BY <1>3, <1>4, <2>1, <3>2, AtHas
  <2>2. CASE size # 0
    BY <1>2, <1>3, <1>4, <2>2, AtHas
  <2> QED BY <2>1, <2>2
<1>6. ~(FixedSize(s) >= 0) /\ ~(FixedSize(s) > 0) /\ s = STORAGE_STRING /\ s # STORAGE_BLOB /\ s # STORAGE_CONTAINER
      /\ s # STORAGE_NOBYTES
  BY StoragesApart
<1>7. DataEnd(r) + 1 = q
  BY <1>1, <1>2, <1>4 DEF DataEnd
<1> HIDE DEF s, d, a
<1>8. AdvanceDataPos(mem, p) = q
  BY <1>1, <1>6, <1>7 DEF AdvanceDataPos, s, d, a, r
<1>9. GetValue(mem, p) = StringAt(mem, k, r)
  BY <1>1, <1>6 DEF GetValue, a, s, d, r
<1> QED BY <1>4, <1>5, <1>8, <1>9 DEF StringAt

\* Copies of bytes with the same fields are the same.
LEMMA SlicesEqual ==
    ASSUME NEW mem, NEW p, NEW n, NEW more, NEW q, NEW k, DOMAIN Slice(mem, p, n) = DOMAIN Slice(more, q, k),
           \A o \in DOMAIN Slice(mem, p, n) : Slice(mem, p, n)[o] = Slice(more, q, k)[o]
    PROVE  Slice(mem, p, n) = Slice(more, q, k)
<1> DEFINE D == {d - p : d \in {e \in DOMAIN mem : e >= p /\ e < p + n}}
           E == {d - q : d \in {e \in DOMAIN more : e >= q /\ e < q + k}}
           s == Slice(mem, p, n)
           t == Slice(more, q, k)
<1>1. s = [o \in D |-> mem[o + p]] /\ t = [o \in E |-> more[o + q]]
  BY DEF Slice
<1>2. DOMAIN s = DOMAIN t /\ \A o \in DOMAIN s : s[o] = t[o]
  OBVIOUS
<1> HIDE DEF D, E
<1>3. s = [o \in DOMAIN s |-> s[o]] /\ t = [o \in DOMAIN t |-> t[o]]
  BY <1>1
<1> HIDE DEF s, t
<1>4. s = t
  BY <1>2, <1>3
<1> QED BY <1>4 DEF s, t

\* A header is judged by three of its fields.
LEMMA SameHeader ==
    ASSUME NEW mem, NEW more, At(mem, 0) = At(more, 0), At(mem, 1) = At(more, 1),
           At(mem, ReadLen(more, 1).next) = At(more, ReadLen(more, 1).next)
    PROVE  IsValidBinnHeader(mem) = IsValidBinnHeader(more)
<1>1. ReadLen(mem, 1) = ReadLen(more, 1)
  BY DEF ReadLen
<1> DEFINE x == ReadLen(more, 1).next
<1>2. ReadLen(mem, x) = ReadLen(more, x)
  BY DEF ReadLen
<1> QED BY <1>1, <1>2 DEF IsValidBinnHeader, HeaderWithSize

\* The header of a whole container lies in its first bytes.
LEMMA WholeHeader ==
    ASSUME NEW sub, NEW type, NEW size \in Nat, WholeContainer(sub, type, size)
    PROVE  LET next == ReadLen(sub, 1).next
           IN  /\ At(sub, 0).kind = "type" /\ At(sub, 0).n = type /\ 0 \in DOMAIN sub
               /\ At(sub, 1).n = size /\ 1 \in DOMAIN sub /\ size >= 3
               /\ next \in {2, 5} /\ next < size
<1> DEFINE h == IsValidBinnHeader(sub)
           r == ReadLen(sub, 1)
           c == ReadLen(sub, r.next)
           a == At(sub, 0)
           b == At(sub, 1)
           next == r.next
           ok == a.kind = "type" /\ a.n \in Containers /\ r.n >= MIN_BINN_SIZE /\ c.n >= 0
<1>1. h = [ok |-> ok, type |-> a.n, size |-> r.n, count |-> c.n, header_size |-> c.next]
  BY DEF IsValidBinnHeader, HeaderWithSize, HeaderFields
<1>2. h.ok /\ h.type = type /\ h.size = size /\ h.header_size <= size
  BY DEF WholeContainer
<1>3. r.n = b.n /\ next = 1 + IF b.hi THEN 4 ELSE 1
  BY DEF ReadLen
<1>4. c.next = next + IF At(sub, next).hi THEN 4 ELSE 1
  BY DEF ReadLen
<1> HIDE DEF h, r, c
<1>5. ok /\ a.n = type /\ r.n = size /\ c.next <= size
  <2> HIDE DEF ok, a
  <2>1. h.ok = ok /\ h.type = a.n /\ h.size = r.n /\ h.header_size = c.next
    BY <1>1
  <2> QED BY <1>2, <2>1
<1>6. a.kind = "type" /\ size >= 3
  BY <1>5 DEF MIN_BINN_SIZE
<1>7. Garbage.kind # "type" /\ Garbage.n = 0
  BY FieldIs DEF Garbage
<1>8. 0 \in DOMAIN sub /\ 1 \in DOMAIN sub
  BY <1>3, <1>5, <1>6, <1>7 DEF At
<1> HIDE DEF a, b, ok
<1>9. next \in {2, 5} /\ c.next > next
  <2> HIDE DEF next
  <2>1. next \in {2, 5}
    BY <1>3
  <2> QED BY <1>4, <2>1
<1>10. next < size
  BY <1>4, <1>5, <1>9
<1> QED BY <1>3, <1>5, <1>6, <1>8, <1>9, <1>10 DEF a, b, next, r

\* A container in a container.
LEMMA ContainerRead ==
    ASSUME NEW mem, \A o \in DOMAIN mem : o \in Nat, NEW p \in Nat, NEW type \in Containers, NEW size \in Nat \ {0},
           NEW sub, WholeContainer(sub, type, size), BufferLaid(mem, Slice(sub, 0, size), size, p)
    PROVE  LET val == GetValue(mem, p)
           IN  /\ AdvanceDataPos(mem, p) = p + size
               /\ val.ok = TRUE /\ val.type = type /\ val.n = 0 /\ val.size = size /\ val.sub = Slice(sub, 0, size)
<1> DEFINE part == Slice(sub, 0, size)
           head == Slice(mem, p, MAX_BINN_HEADER)
           whole == Slice(mem, p, size)
           next == ReadLen(sub, 1).next
<1>1. /\ At(sub, 0).kind = "type" /\ At(sub, 0).n = type /\ 0 \in DOMAIN sub
      /\ At(sub, 1).n = size /\ 1 \in DOMAIN sub /\ size >= 3
      /\ next \in {2, 5} /\ next < size
  BY WholeHeader
<1>2. \A o \in DOMAIN sub : o \in Nat
  BY DEF WholeContainer
<1>3. \A o : /\ o \in DOMAIN part <=> o \in 0..(size - 1) /\ 0 + o \in DOMAIN sub
             /\ o \in DOMAIN part => part[o] = sub[0 + o]
  BY <1>2, SliceAt
<1>4. \A o : /\ o \in DOMAIN head <=> o \in 0..8 /\ p + o \in DOMAIN mem
             /\ o \in DOMAIN head => head[o] = mem[p + o]
  <2>1. MAX_BINN_HEADER \in Nat /\ 0..(MAX_BINN_HEADER - 1) = 0..8
    BY DEF MAX_BINN_HEADER
  <2>2. \A o : /\ o \in DOMAIN head <=> o \in 0..(MAX_BINN_HEADER - 1) /\ p + o \in DOMAIN mem
               /\ o \in DOMAIN head => head[o] = mem[p + o]
    BY <2>1, SliceAt
  <2> HIDE DEF head
  <2> QED BY <2>1, <2>2
<1>5. \A o : /\ o \in DOMAIN whole <=> o \in 0..(size - 1) /\ p + o \in DOMAIN mem
             /\ o \in DOMAIN whole => whole[o] = mem[p + o]
  BY SliceAt
<1>6. \A o \in 0..(size - 1) : (p + o \in DOMAIN mem <=> o \in DOMAIN part) /\ (o \in DOMAIN part => mem[p + o] = part[o])
  BY DEF BufferLaid
<1>7. part = whole
  <2>1. \A o : o \in DOMAIN part <=> o \in DOMAIN whole
    BY <1>3, <1>5, <1>6
  <2>2. DOMAIN part = DOMAIN whole
    BY <2>1
  <2>3. \A o \in DOMAIN part : part[o] = whole[o]
    BY <1>3, <1>5, <1>6, <2>1
  <2> QED BY <2>2, <2>3, SlicesEqual
<1> HIDE DEF part, head, whole
<1>8. ASSUME NEW o \in 0..8, o < size
      PROVE  At(head, o) = At(sub, o) /\ At(mem, p + o) = At(sub, o)
  <2>1. o \in 0..(size - 1) /\ 0 + o = o
    BY <1>8
  <2>2. p + o \in DOMAIN mem <=> o \in DOMAIN sub
    BY <1>3, <1>6, <2>1
  <2>3. o \in DOMAIN sub => mem[p + o] = sub[o]
    BY <1>3, <1>6, <2>1
  <2>4. (o \in DOMAIN head <=> o \in DOMAIN sub) /\ (o \in DOMAIN sub => head[o] = sub[o])
    BY <1>4, <2>2, <2>3
  <2> QED BY <2>2, <2>3, <2>4 DEF At
<1>9. 0 \in 0..8 /\ 1 \in 0..8 /\ next \in 0..8 /\ 0 < size /\ 1 < size
  BY <1>1
<1>10. IsValidBinnHeader(head) = IsValidBinnHeader(sub)
  <2>1. At(head, 0) = At(sub, 0) /\ At(head, 1) = At(sub, 1) /\ At(head, next) = At(sub, next)
    BY <1>1, <1>8, <1>9
  <2> QED BY <2>1, SameHeader
<1>11. At(mem, p).kind = "type" /\ At(mem, p).n = type /\ At(mem, p + 1).n = size
  <2>1. p + 0 = p
    OBVIOUS
  <2> QED BY <1>1, <1>8, <1>9, <2>1
<1> DEFINE s == binn_get_type_info(type)
<1>12. s = STORAGE_CONTAINER /\ ~(type > 255) /\ type \notin {BINN_TRUE, BINN_FALSE}
  <2>1. s = STORAGE_CONTAINER
    BY StorageTable DEF Containers
  <2> QED BY <2>1 DEF Containers, BINN_LIST, BINN_MAP, BINN_OBJECT, BINN_TRUE, BINN_FALSE
<1>13. ~(FixedSize(s) >= 0) /\ ~(FixedSize(s) > 0) /\ s # STORAGE_BLOB /\ s # STORAGE_STRING /\ s # STORAGE_NOBYTES
  BY <1>12, StoragesApart
<1>14. TypeEnd(mem, p) = p + 1
  BY <1>11, <1>12 DEF TypeEnd
<1> HIDE DEF s
<1>15. AdvanceDataPos(mem, p) = p + size
  <2>1. AdvanceDataPos(mem, p) = (p + 1) + size - 1
    BY <1>11, <1>12, <1>13, <1>14 DEF AdvanceDataPos, s
  <2> QED BY <2>1
<1> DEFINE h == IsValidBinnHeader(sub)
           ok == h.ok
           val == ValueIs(h.type, 0, h.size, Slice(mem, p, h.size))
<1>16. ok /\ h.type = type /\ h.size = size
  BY DEF WholeContainer
<1>17. ok = TRUE
  <2> DEFINE x == At(sub, 0).kind = "type" /\ At(sub, 0).n \in Containers /\ ReadLen(sub, 1).n >= MIN_BINN_SIZE
                  /\ ReadLen(sub, next).n >= 0
  <2>1. ok = x
    BY DEF IsValidBinnHeader, HeaderWithSize, HeaderFields
  <2>2. x \in BOOLEAN
    BY DEF x
  <2> HIDE DEF x
  <2> QED BY <1>16, <2>1, <2>2
<1>18. GetValue(mem, p) = ContainerAt(mem, p, h)
  BY <1>10, <1>11, <1>12, <1>13 DEF GetValue, s, head
<1>19. GetValue(mem, p) = [val EXCEPT !.ok = ok]
  BY <1>18 DEF ContainerAt
<1>20. DOMAIN val = {"ok", "type", "n", "size", "sub"} /\ val.type = type /\ val.n = 0 /\ val.size = size /\ val.sub = whole
  BY <1>16 DEF ValueIs, whole
<1> HIDE DEF val, ok, h
<1>21. /\ GetValue(mem, p).ok = TRUE /\ GetValue(mem, p).type = type /\ GetValue(mem, p).n = 0
       /\ GetValue(mem, p).size = size /\ GetValue(mem, p).sub = whole
  BY <1>17, <1>19, <1>20
<1> QED BY <1>7, <1>15, <1>21 DEF part

-----------------------------------------------------------------------------
(* Reading an integer.                                                     *)

\* The remainder of a small number, of a small negative one, and of any.
LEMMA Remainders ==
    ASSUME NEW m \in Nat \ {0}, NEW n \in Int
    PROVE  /\ n \in 0..(m - 1) => n % m = n
           /\ n \in (-m)..(-1) => n % m = n + m
           /\ n % m \in 0..(m - 1)
BY SMT

\* The width of an integer type, in values: twice as many as below the sign.
LEMMA IntWidth ==
    ASSUME NEW type \in Ints
    PROVE  /\ BitsOf(type) \in Nat \ {0}
           /\ 2 ^ (BitsOf(type) - 1) \in Nat \ {0}
           /\ 2 ^ BitsOf(type) = 2 ^ (BitsOf(type) - 1) + 2 ^ (BitsOf(type) - 1)
<1> DEFINE b == BitsOf(type)
           k == b - 1
           p == 2 ^ k
<1>1. b \in Nat \ {0}
  <2>1. binn_get_type_info(type) \in DOMAIN IntBits
    BY IntStorage, WidthsAssumption DEF STORAGE_BYTE, STORAGE_WORD, STORAGE_DWORD, STORAGE_QWORD
  <2> QED BY <2>1, WidthsAssumption DEF BitsOf
<1> HIDE DEF b
<1>2. k \in Nat /\ k + 1 = b
  BY <1>1
<1> HIDE DEF k
<1>3. p \in Nat /\ p > k
  BY <1>2, PowerAbove
<1>4. 2 ^ (k + 1) = 2 * 2 ^ k
  BY <1>2, PowerDouble
<1> HIDE DEF p
<1>5. 2 ^ b = p + p
  BY <1>2, <1>3, <1>4 DEF p
<1>6. p \in Nat \ {0}
  BY <1>2, <1>3
<1> QED BY <1>1, <1>5, <1>6 DEF b, k, p

\* A bit pattern is read as the value that was written through the same type, and
\* any pattern as a value of the type.
LEMMA ReadIntBack ==
    ASSUME NEW type \in Ints, NEW n \in Int
    PROVE  /\ n \in MinOf(type)..MaxOf(type) => ReadInt(type, n % 2 ^ BitsOf(type)) = n
           /\ ReadInt(type, n) \in MinOf(type)..MaxOf(type)
<1> DEFINE b == BitsOf(type)
           p == 2 ^ (b - 1)
           m == 2 ^ b
           r == n % m
<1>1. p \in Nat \ {0} /\ m = p + p
  BY IntWidth
<1>2. m \in Nat \ {0}
  BY <1>1
<1> HIDE DEF p, m
<1>3. /\ n \in 0..(m - 1) => r = n
      /\ n \in (-m)..(-1) => r = n + m
      /\ r \in 0..(m - 1)
  BY <1>2, Remainders
<1>4. r % m = r
  <2>1. r \in Int
    BY <1>3
  <2> QED BY <1>2, <1>3, <2>1, Remainders
<1>5. CASE type \in SignedInts
  <2>1. MinOf(type) = -p /\ MaxOf(type) = p - 1
    BY <1>5 DEF MinOf, MaxOf, p
  <2>2. \A x : ReadInt(type, x) = IF x % m >= p THEN (x % m) - m ELSE x % m
    BY <1>5 DEF ReadInt, SignedRead, p, m
  <2>3. ReadInt(type, r) = (IF r >= p THEN r - m ELSE r) /\ ReadInt(type, n) = (IF r >= p THEN r - m ELSE r)
    BY <1>4, <2>2
  <2> HIDE DEF r
  <2>4. ReadInt(type, n) \in (-p)..(p - 1)
    BY <1>1, <1>3, <2>3
  <2>5. ASSUME n \in (-p)..(p - 1) PROVE ReadInt(type, r) = n
    BY <1>1, <1>3, <2>3, <2>5
  <2> QED BY <2>1, <2>4, <2>5 DEF r, m
<1>6. CASE type \notin SignedInts
  <2>1. MinOf(type) = 0 /\ MaxOf(type) = m - 1
    BY <1>6 DEF MinOf, MaxOf, m
  <2>2. \A x : ReadInt(type, x) = x % m
    BY <1>6 DEF ReadInt, m
  <2>3. ReadInt(type, r) = r /\ ReadInt(type, n) = r
    BY <1>4, <2>2
  <2> HIDE DEF r
  <2> QED BY <1>3, <2>1, <2>3 DEF r, m
<1> QED BY <1>5, <1>6
-----------------------------------------------------------------------------
(* Reading what a setter stored.                                           *)

\* A type and a value that callers pass.
Given(e) == e.type \in DataTypes /\ Acceptable(e.type, e.v)

\* What GetValue makes of entry e: an integer in a type that holds it, anything
\* else in its own type.
Exactly(val, e) ==
  /\ val.ok = TRUE
  /\ e.type \in Ints => /\ val.type \in Ints /\ ReadInt(val.type, val.n) = e.v.n
                        /\ e.v.n \in MinOf(val.type)..MaxOf(val.type)
  /\ e.type \notin Ints => val.type = e.type
  /\ e.type \in {BINN_NULL, BINN_BOOL, BINN_FLOAT32, BINN_FLOAT64} => val.n = e.v.n
  /\ e.type \in {BINN_STRING, BINN_HTML, BINN_BLOB, BINN_JPEG} =>
       val.size = StoredSize(e) /\ val.n = IF StoredSize(e) = 0 THEN 0 ELSE e.v.n
  /\ e.type \in Containers => val.n = 0 /\ val.sub = Slice(e.v.sub, 0, e.v.size)

\* The groups of types that a caller passes have nothing in common.
LEMMA TypesApart ==
    /\ DataTypes = Ints \cup Containers \cup {BINN_STRING, BINN_HTML} \cup {BINN_BLOB, BINN_JPEG}
                   \cup {BINN_NULL, BINN_FLOAT32, BINN_FLOAT64} \cup {BINN_BOOL}
    /\ \A t \in Ints : /\ t \notin Containers /\ t \notin {BINN_STRING, BINN_HTML, BINN_BLOB, BINN_JPEG}
                       /\ t \notin {BINN_NULL, BINN_BOOL, BINN_FLOAT32, BINN_FLOAT64} /\ t \notin {BINN_TRUE, BINN_FALSE}
    /\ \A t \in Containers : /\ t \notin {BINN_STRING, BINN_HTML, BINN_BLOB, BINN_JPEG}
                             /\ t \notin {BINN_NULL, BINN_BOOL, BINN_FLOAT32, BINN_FLOAT64}
                             /\ t \notin {BINN_TRUE, BINN_FALSE}
    /\ \A t \in {BINN_STRING, BINN_HTML, BINN_BLOB, BINN_JPEG} :
         t \notin {BINN_NULL, BINN_BOOL, BINN_FLOAT32, BINN_FLOAT64} /\ t \notin {BINN_TRUE, BINN_FALSE}
    /\ \A t \in {BINN_STRING, BINN_HTML} : t \notin {BINN_BLOB, BINN_JPEG}
    /\ \A t \in {BINN_NULL, BINN_BOOL, BINN_FLOAT32, BINN_FLOAT64} : t \notin {BINN_TRUE, BINN_FALSE}
    /\ BINN_BOOL \notin {BINN_NULL, BINN_FLOAT32, BINN_FLOAT64} /\ BINN_NULL \notin {BINN_FLOAT32, BINN_FLOAT64}
    /\ BINN_TRUE # BINN_FALSE
<1>1. DataTypes = Ints \cup Containers \cup {BINN_STRING, BINN_HTML} \cup {BINN_BLOB, BINN_JPEG}
                   \cup {BINN_NULL, BINN_FLOAT32, BINN_FLOAT64} \cup {BINN_BOOL}
  <2> DEFINE I == Ints
             C == Containers
  <2> HIDE DEF I, C
  <2>1. DataTypes = {BINN_NULL, BINN_BOOL, BINN_FLOAT32, BINN_FLOAT64, BINN_STRING, BINN_HTML, BINN_BLOB, BINN_JPEG} \cup I \cup C
    BY DEF DataTypes, I, C
  <2>2. DataTypes = I \cup C \cup {BINN_STRING, BINN_HTML} \cup {BINN_BLOB, BINN_JPEG}
                    \cup {BINN_NULL, BINN_FLOAT32, BINN_FLOAT64} \cup {BINN_BOOL}
    BY <2>1
  <2> QED BY <2>2 DEF I, C
<1> QED BY <1>1 DEF Containers, Ints, SignedInts, UnsignedInts, BINN_LIST, BINN_MAP, BINN_OBJECT, BINN_INT8, BINN_INT16,
         BINN_INT32, BINN_INT64, BINN_UINT8, BINN_UINT16, BINN_UINT32, BINN_UINT64, BINN_FLOAT32, BINN_FLOAT64,
         BINN_STRING, BINN_HTML, BINN_BLOB, BINN_JPEG, BINN_BOOL, BINN_NULL, BINN_TRUE, BINN_FALSE

\* The value is stored under its own type, a bool as one of two.
LEMMA AddedTypeIs ==
    ASSUME NEW type, NEW v
    PROVE  AddedType(type, v) = IF type # BINN_BOOL THEN type ELSE IF v.n = 0 THEN BINN_FALSE ELSE BINN_TRUE
BY DEF AddedType, GetWriteConvertedData

\* An integer reads back.
LEMMA IntRead ==
    ASSUME NEW mem, NEW p \in Nat, NEW q, NEW e, Given(e), e.type \in Ints,
           ValueAt(mem, AddedType(e.type, e.v), e.v, p, q)
    PROVE  AdvanceDataPos(mem, p) = q /\ Exactly(GetValue(mem, p), e)
<1> DEFINE v == e.v
           t == e.type
           k == Kind(t, v)
           s == KindStorage(t, v)
           n == v.n
           raw == n % 2 ^ BitsOf(k)
           val == ValueIs(k, raw, 0, <<>>)
<1>1. AddedType(t, v) = t
  BY AddedTypeIs, TypesApart
<1>2. n \in MinOf(t)..MaxOf(t) /\ n \in Int
  BY DEF Given, Acceptable
<1>3. k = compress_int(t, n) /\ KindNumber(t, v) = raw
  BY FamilyTable DEF Kind, KindNumber
<1>4. k \in Ints /\ n \in MinOf(k)..MaxOf(k)
  BY <1>2, <1>3, CompressInt
<1>5. s = binn_get_type_info(k) /\ s \in {STORAGE_BYTE, STORAGE_WORD, STORAGE_DWORD, STORAGE_QWORD}
  <2>1. t \in DataTypes \cup {BINN_TRUE, BINN_FALSE}
    BY DEF Given
  <2> QED BY <1>2, <2>1, KindStorageIs
<1>6. ReadInt(k, raw) = n
  BY <1>2, <1>4, ReadIntBack
<1>7. ValueLaid(mem, k, s, raw, KindSize(t, v), Slice(v.sub, 0, KindSize(t, v)), p, q)
  BY <1>1, <1>3 DEF ValueAt
<1> HIDE DEF k, s, raw, v, t, n
<1>8. s \in StorageTypes /\ s # STORAGE_CONTAINER /\ s # STORAGE_NOBYTES /\ FixedSize(s) >= 0
  BY <1>5 DEF StorageTypes, FixedSize, STORAGE_NOBYTES, STORAGE_BYTE, STORAGE_WORD, STORAGE_DWORD, STORAGE_QWORD, STORAGE_CONTAINER
<1> DEFINE size == KindSize(t, v)
<1>9. TypeThere(mem, p, k) /\ PayloadLaid(mem, s, raw, size, p + TypeBytes(k), q)
  BY <1>7, <1>8 DEF ValueLaid, TypeThere
<1>10. k \notin {BINN_TRUE, BINN_FALSE}
  BY <1>4, TypesApart
<1> HIDE DEF size
<1>11. AdvanceDataPos(mem, p) = q /\ GetValue(mem, p) = val
  BY <1>5, <1>8, <1>9, <1>10, FixedRead
<1>12. val.ok = TRUE /\ val.type = k /\ val.n = raw
  BY DEF ValueIs
<1> HIDE DEF val
<1>13. t \in Ints /\ n = v.n
  BY DEF t, n
<1>14. t \notin {BINN_NULL, BINN_BOOL, BINN_FLOAT32, BINN_FLOAT64} /\ t \notin {BINN_STRING, BINN_HTML, BINN_BLOB, BINN_JPEG}
       /\ t \notin Containers
  BY <1>13, TypesApart
<1>15. Exactly(val, e)
  BY <1>4, <1>6, <1>12, <1>13, <1>14 DEF Exactly, t, v
<1> QED BY <1>11, <1>15

\* A string or a blob reads back.
LEMMA BytesRead ==
    ASSUME NEW mem, NEW p \in Nat, NEW q, NEW e, Given(e), e.type \in {BINN_STRING, BINN_HTML, BINN_BLOB, BINN_JPEG},
           ValueAt(mem, AddedType(e.type, e.v), e.v, p, q)
    PROVE  AdvanceDataPos(mem, p) = q /\ Exactly(GetValue(mem, p), e)
<1> DEFINE v == e.v
           t == e.type
           s == binn_get_type_info(t)
           size == StoredSize(e)
           n == v.n
           val == ValueIs(t, IF size = 0 THEN 0 ELSE n, size, <<>>)
<1>1. AddedType(t, v) = t
  BY AddedTypeIs, TypesApart
<1>2. t \notin Ints /\ t \notin Containers /\ t \notin {BINN_TRUE, BINN_FALSE}
      /\ t \notin {BINN_NULL, BINN_BOOL, BINN_FLOAT32, BINN_FLOAT64}
  BY TypesApart
<1>3. Kind(t, v) = t /\ KindStorage(t, v) = s
  <2>1. t \in DataTypes \cup {BINN_TRUE, BINN_FALSE}
    BY DEF Given
  <2> QED BY <1>2, <2>1, KindStorageIs
<1>4. type_family(t) # "INT"
  BY FamilyTable
<1>5. KindNumber(t, v) = n /\ KindSize(t, v) = size
  BY <1>4 DEF KindNumber, KindSize, StoredSize
<1>6. ValueLaid(mem, t, s, n, size, Slice(v.sub, 0, size), p, q)
  BY <1>1, <1>3, <1>5 DEF ValueAt
<1>7. s = STORAGE_STRING \/ s = STORAGE_BLOB
  BY StorageTable
<1>8. STORAGE_STRING # STORAGE_CONTAINER /\ STORAGE_BLOB # STORAGE_CONTAINER
  BY StoragesApart
<1>9. TypeThere(mem, p, t) /\ PayloadLaid(mem, s, n, size, p + TypeBytes(t), q)
  BY <1>6, <1>7, <1>8 DEF ValueLaid, TypeThere
<1> HIDE DEF n, size, t
<1>10. AdvanceDataPos(mem, p) = q /\ GetValue(mem, p) = val
  <2>1. CASE s = STORAGE_STRING
    BY <1>2, <1>9, <2>1, StringRead
  <2>2. CASE s = STORAGE_BLOB
    BY <1>2, <1>9, <2>2, BlobRead
  <2> QED BY <1>7, <2>1, <2>2
<1>11. val.ok = TRUE /\ val.type = t /\ val.size = size /\ val.n = IF size = 0 THEN 0 ELSE n
  BY DEF ValueIs
<1> HIDE DEF val
<1>12. Exactly(val, e)
  BY <1>2, <1>11 DEF Exactly, t, n, size, v
<1> QED BY <1>10, <1>12

\* A container reads back.
LEMMA SubRead ==
    ASSUME NEW mem, \A o \in DOMAIN mem : o \in Nat, NEW p \in Nat, NEW q, NEW e, Given(e), e.type \in Containers,
           ValueAt(mem, AddedType(e.type, e.v), e.v, p, q)
    PROVE  AdvanceDataPos(mem, p) = q /\ Exactly(GetValue(mem, p), e)
<1> DEFINE v == e.v
           t == e.type
           s == binn_get_type_info(t)
           size == v.size
           sub == v.sub
           val == GetValue(mem, p)
<1>1. AddedType(t, v) = t
  BY AddedTypeIs, TypesApart
<1>2. t \notin Ints /\ t \notin {BINN_STRING, BINN_HTML, BINN_BLOB, BINN_JPEG}
      /\ t \notin {BINN_NULL, BINN_BOOL, BINN_FLOAT32, BINN_FLOAT64}
  BY TypesApart
<1>3. Kind(t, v) = t /\ KindStorage(t, v) = s /\ s = STORAGE_CONTAINER
  <2>1. t \in DataTypes \cup {BINN_TRUE, BINN_FALSE}
    BY DEF Given
  <2> QED BY <1>2, <2>1, KindStorageIs
<1>4. type_family(t) # "INT" /\ STORAGE_STRING # STORAGE_CONTAINER
  BY FamilyTable, StoragesApart
<1>5. KindNumber(t, v) = v.n /\ KindSize(t, v) = size
  BY <1>3, <1>4 DEF KindNumber, KindSize
<1>6. ValueLaid(mem, t, s, v.n, size, Slice(sub, 0, size), p, q)
  BY <1>1, <1>3, <1>5 DEF ValueAt
<1>7. size \in Nat \ {0} /\ q = p + size /\ BufferLaid(mem, Slice(sub, 0, size), size, p)
  BY <1>3, <1>6 DEF ValueLaid
<1>8. WholeContainer(sub, t, size)
  BY <1>7 DEF Given, Acceptable
<1> HIDE DEF size, sub, t
<1>9. t \in Containers
  BY DEF t
<1>10. /\ AdvanceDataPos(mem, p) = p + size
       /\ val.ok = TRUE /\ val.type = t /\ val.n = 0 /\ val.size = size /\ val.sub = Slice(sub, 0, size)
  BY <1>7, <1>8, <1>9, ContainerRead
<1> HIDE DEF val
<1>11. Exactly(val, e)
  BY <1>2, <1>10 DEF Exactly, t, size, sub, v
<1> QED BY <1>7, <1>10, <1>11 DEF val

\* A null, a float or a bool reads back.
LEMMA PlainRead ==
    ASSUME NEW mem, NEW p \in Nat, NEW q, NEW e, Given(e), e.type \in {BINN_NULL, BINN_BOOL, BINN_FLOAT32, BINN_FLOAT64},
           ValueAt(mem, AddedType(e.type, e.v), e.v, p, q)
    PROVE  AdvanceDataPos(mem, p) = q /\ Exactly(GetValue(mem, p), e)
<1> DEFINE v == e.v
           t == e.type
           k == AddedType(t, v)
           s == binn_get_type_info(k)
           n == v.n
           size == KindSize(k, v)
           val == GetValue(mem, p)
<1>1. /\ t # BINN_BOOL => k = t
      /\ t = BINN_BOOL => k = IF n = 0 THEN BINN_FALSE ELSE BINN_TRUE
  BY AddedTypeIs
<1>2. t \notin Ints /\ t \notin Containers /\ t \notin {BINN_STRING, BINN_HTML, BINN_BLOB, BINN_JPEG}
      /\ t \notin {BINN_TRUE, BINN_FALSE}
  BY TypesApart
<1>3. k \in {BINN_NULL, BINN_FLOAT32, BINN_FLOAT64, BINN_TRUE, BINN_FALSE}
  BY <1>1
<1>4. type_family(k) # "INT" /\ binn_get_type_info(k) \in {STORAGE_NOBYTES, STORAGE_DWORD, STORAGE_QWORD}
      /\ (s = STORAGE_NOBYTES <=> k \in {BINN_NULL, BINN_TRUE, BINN_FALSE})
  <2>1. CASE k \in {BINN_NULL, BINN_TRUE, BINN_FALSE}
    BY <2>1, FamilyTable, StorageTable
  <2>2. CASE k \in {BINN_FLOAT32, BINN_FLOAT64}
    <3>1. k \notin {BINN_NULL, BINN_TRUE, BINN_FALSE}
      BY <2>2, TypesApart
    <3>2. STORAGE_DWORD # STORAGE_NOBYTES /\ STORAGE_QWORD # STORAGE_NOBYTES
      BY DEF STORAGE_DWORD, STORAGE_QWORD, STORAGE_NOBYTES
    <3> QED BY <2>2, <3>1, <3>2, FamilyTable, StorageTable
  <2> QED BY <1>3, <2>1, <2>2
<1>5. Kind(k, v) = k /\ KindStorage(k, v) = s /\ KindNumber(k, v) = n
  BY <1>4 DEF Kind, KindStorage, KindNumber
<1>6. ValueLaid(mem, k, s, n, size, Slice(v.sub, 0, size), p, q)
  BY <1>5 DEF ValueAt
<1>7. s \in StorageTypes /\ s # STORAGE_CONTAINER /\ FixedSize(s) >= 0
  <2> HIDE DEF s
  <2> QED BY <1>4 DEF StorageTypes, FixedSize, STORAGE_NOBYTES, STORAGE_BYTE, STORAGE_WORD, STORAGE_DWORD,
                      STORAGE_QWORD, STORAGE_CONTAINER, s
<1>8. TypeThere(mem, p, k) /\ PayloadLaid(mem, s, n, size, p + TypeBytes(k), q)
  BY <1>6, <1>7 DEF ValueLaid, TypeThere
<1>9. t = BINN_BOOL => n \in {0, 1}
  BY DEF Given, Acceptable
<1>10. t = BINN_NULL => n = 0
  BY DEF Given, Acceptable
<1> HIDE DEF n, size, t, k
<1>11. /\ AdvanceDataPos(mem, p) = q
       /\ k \in {BINN_TRUE, BINN_FALSE} => val = ValueIs(BINN_BOOL, IF k = BINN_TRUE THEN 1 ELSE 0, 0, <<>>)
       /\ k \notin {BINN_TRUE, BINN_FALSE} => val = ValueIs(k, IF s = STORAGE_NOBYTES THEN 0 ELSE n, 0, <<>>)
  BY <1>7, <1>8, FixedRead
<1> HIDE DEF val, s
<1>12. val.ok = TRUE /\ val.type = t /\ val.n = n
  <2>1. CASE t = BINN_BOOL
    <3>1. k \in {BINN_TRUE, BINN_FALSE} /\ (k = BINN_TRUE <=> n = 1)
      BY <1>1, <1>9, <2>1, TypesApart
    <3> QED BY <1>9, <1>11, <2>1, <3>1 DEF ValueIs
  <2>2. CASE t # BINN_BOOL
    <3>1. k \notin {BINN_TRUE, BINN_FALSE} /\ k = t
      BY <1>1, <1>2, <2>2
    <3>2. s = STORAGE_NOBYTES => n = 0
      BY <1>4, <1>10, <3>1 DEF s
    <3> QED BY <1>11, <3>1, <3>2 DEF ValueIs
  <2> QED BY <2>1, <2>2
<1>13. Exactly(val, e)
  BY <1>2, <1>12 DEF Exactly, t, n, v
<1> QED BY <1>11, <1>13 DEF val

\* Every value reads back, and ends where the next bytes start.
LEMMA ValueRead ==
    ASSUME NEW mem, \A o \in DOMAIN mem : o \in Nat, NEW p \in Nat, NEW q, NEW e, Given(e),
           ValueAt(mem, AddedType(e.type, e.v), e.v, p, q)
    PROVE  AdvanceDataPos(mem, p) = q /\ Exactly(GetValue(mem, p), e)
<1>1. \/ e.type \in Ints \/ e.type \in Containers \/ e.type \in {BINN_STRING, BINN_HTML, BINN_BLOB, BINN_JPEG}
      \/ e.type \in {BINN_NULL, BINN_BOOL, BINN_FLOAT32, BINN_FLOAT64}
  BY DEF Given, DataTypes
<1> QED BY <1>1, IntRead, SubRead, BytesRead, PlainRead

\* It is what was given.
LEMMA ExactlyDenotes ==
    ASSUME NEW val, NEW e, Given(e), Exactly(val, e)
    PROVE  Denotes(val, e)
<1> DEFINE t == e.type
<1>1. t \in DataTypes
  BY DEF Given
<1>2. CASE t \in Ints
  <2>1. type_family(t) = "INT" /\ type_family(val.type) = "INT"
    BY <1>2, FamilyTable DEF Exactly
  <2> QED BY <1>2, <2>1 DEF Exactly, Denotes
<1>3. CASE t \in Containers
  <2>1. type_family(t) = "BINN" /\ val.type = t
    BY <1>3, FamilyTable, TypesApart DEF Exactly
  <2> QED BY <1>3, <2>1 DEF Exactly, Denotes
<1>4. CASE t \in {BINN_STRING, BINN_HTML, BINN_BLOB, BINN_JPEG}
  <2>1. type_family(t) \in {"STRING", "BLOB"} /\ val.type = t
    BY <1>4, FamilyTable, TypesApart DEF Exactly
  <2>2. val.size = StoredSize(e) /\ val.n = IF StoredSize(e) = 0 THEN 0 ELSE e.v.n
    BY <1>4 DEF Exactly
  <2> HIDE DEF t
  <2> QED BY <2>1, <2>2 DEF Exactly, Denotes, t
<1>5. CASE t \in {BINN_NULL, BINN_BOOL, BINN_FLOAT32, BINN_FLOAT64}
  <2>1. type_family(t) \in {"NULL", "BOOL", "FLOAT"} /\ val.type = t
    BY <1>5, FamilyTable, TypesApart DEF Exactly
  <2>2. val.n = e.v.n
    BY <1>5 DEF Exactly
  <2> HIDE DEF t
  <2> QED BY <2>1, <2>2 DEF Exactly, Denotes, t
<1> QED BY <1>1, <1>2, <1>3, <1>4, <1>5 DEF DataTypes
-----------------------------------------------------------------------------
(* Walking over the entries.                                               *)

\* An entry that callers may add to a container of a type; a list has no keys.
EntryGiven(ctype, x) == Given(x) /\ KeyFits(ctype, x.key) /\ (ctype = BINN_LIST => x.key = NIL)

\* It is in mem from p up to q.
EntryAt(mem, ctype, x, p, q) == EntryLaid(mem, ctype, x.key, AddedType(x.type, x.v), x.v, p, q)

\* The entries es are in mem one behind the other, the i-th up to pos[i].
Layout(mem, ctype, es, first, last, pos) ==
  /\ pos[0] = first /\ pos[Len(es)] = last
  /\ \A i \in 0..Len(es) : pos[i] \in Nat
  /\ \A i \in 1..Len(es) : EntryAt(mem, ctype, es[i], pos[i - 1], pos[i])

\* The types of containers differ.
LEMMA ContainersApart ==
    BINN_LIST # BINN_MAP /\ BINN_LIST # BINN_OBJECT /\ BINN_MAP # BINN_OBJECT
BY DEF BINN_LIST, BINN_MAP, BINN_OBJECT

\* The key or id in front of a value.
LEMMA KeyRead ==
    ASSUME NEW mem, NEW ctype \in Containers, NEW key, KeyFits(ctype, key), NEW p \in Nat, HeadLaid(mem, ctype, key, p)
    PROVE  /\ ValuePos(mem, ctype, p) = p + HeadWidth(ctype, key)
           /\ ctype # BINN_LIST => KeyAt(mem, ctype, p) = key
           /\ ctype = BINN_MAP => At(mem, p).n = key /\ HeadWidth(ctype, key) = 4
           /\ ctype = BINN_OBJECT => At(mem, p).n = Len(KeyText[key]) /\ HeadWidth(ctype, key) = 1 + Len(KeyText[key])
<1>1. CASE ctype = BINN_LIST
  <2>1. HeadWidth(ctype, key) = 0 /\ ValuePos(mem, ctype, p) = p
    BY <1>1, ContainersApart DEF HeadWidth, ValuePos
  <2> QED BY <1>1, <2>1, ContainersApart
<1>2. CASE ctype = BINN_MAP
  <2>1. HeadWidth(ctype, key) = 4 /\ ValuePos(mem, ctype, p) = p + 4
    BY <1>2, ContainersApart DEF HeadWidth, ValuePos
  <2> DEFINE f == Field("id", 4, key)
  <2>2. Has(mem, p, f)
    BY <1>2 DEF HeadLaid
  <2>3. f.n = key
    BY FieldIs
  <2> HIDE DEF f
  <2>4. At(mem, p).n = key
    BY <2>2, <2>3, AtHas
  <2> QED BY <1>2, <2>1, <2>4, ContainersApart DEF KeyAt
<1>3. CASE ctype = BINN_OBJECT
  <2> DEFINE len == Len(KeyText[key])
             f == Field("keylen", 1, len)
             g == Field("key", len, key)
  <2>1. key \in DOMAIN KeyText /\ len \in Nat
    BY <1>3, KeyTextLen DEF KeyFits
  <2>2. HeadWidth(ctype, key) = 1 + len
    BY <1>3, ContainersApart DEF HeadWidth
  <2>3. Has(mem, p, f) /\ (len # 0 => Has(mem, p + 1, g))
    BY <1>3 DEF HeadLaid
  <2>4. f.n = len /\ g.n = key
    BY FieldIs
  <2> HIDE DEF f, g
  <2>5. At(mem, p).n = len /\ (len # 0 => At(mem, p + 1).n = key)
    BY <2>3, <2>4, AtHas
  <2>6. ValuePos(mem, ctype, p) = p + 1 + len
    BY <1>3, <2>5, ContainersApart DEF ValuePos
  <2>7. KeyAt(mem, ctype, p) = key
    <3>1. CASE len = 0
      <4>1. KeyText[key] \in Seq(DOMAIN Lower)
        BY <2>1, FormatAssumption
      <4>2. KeyText[key] = <<>>
        BY <3>1, <4>1
      <4>3. \A k \in DOMAIN KeyText : KeyText[k] = <<>> => k = key
        BY <2>1, <4>2, FormatAssumption
      <4>4. (CHOOSE k \in DOMAIN KeyText : KeyText[k] = <<>>) = key
        BY <2>1, <4>2, <4>3
      <4> QED BY <1>3, <2>5, <3>1, <4>4, ContainersApart DEF KeyAt
    <3>2. CASE len # 0
      BY <1>3, <2>5, <3>2, ContainersApart DEF KeyAt
    <3> QED BY <3>1, <3>2
  <2> HIDE DEF len
  <2>8. p + 1 + len = p + (1 + len)
    BY <2>1
  <2> QED BY <1>3, <2>2, <2>5, <2>6, <2>7, <2>8, ContainersApart DEF len
<1> QED BY <1>1, <1>2, <1>3 DEF Containers

\* An entry is read as it was written.
LEMMA EntryRead ==
    ASSUME NEW mem, \A o \in DOMAIN mem : o \in Nat, NEW ctype \in Containers, NEW x, EntryGiven(ctype, x),
           NEW p \in Nat, NEW q \in Nat, EntryAt(mem, ctype, x, p, q)
    PROVE  LET v == ValuePos(mem, ctype, p)
           IN  /\ v \in Nat /\ p <= v /\ v < q
               /\ AdvanceDataPos(mem, v) = q /\ Exactly(GetValue(mem, v), x)
               /\ ctype # BINN_LIST => KeyAt(mem, ctype, p) = x.key
               /\ ctype = BINN_MAP => At(mem, p).n = x.key /\ v = p + 4
               /\ ctype = BINN_OBJECT => At(mem, p).n = Len(KeyText[x.key]) /\ v = p + (1 + Len(KeyText[x.key]))
<1> DEFINE v == ValuePos(mem, ctype, p)
           w == HeadWidth(ctype, x.key)
           t == AddedType(x.type, x.v)
<1>1. KeyFits(ctype, x.key) /\ Given(x)
  BY DEF EntryGiven
<1>2. w \in Nat
  BY <1>1, HeadWidthNat
<1>3. HeadLaid(mem, ctype, x.key, p) /\ p + w < q /\ ValueAt(mem, t, x.v, p + w, q)
  BY DEF EntryAt, EntryLaid
<1>4. /\ v = p + w
      /\ ctype # BINN_LIST => KeyAt(mem, ctype, p) = x.key
      /\ ctype = BINN_MAP => At(mem, p).n = x.key /\ w = 4
      /\ ctype = BINN_OBJECT => At(mem, p).n = Len(KeyText[x.key]) /\ w = 1 + Len(KeyText[x.key])
  BY <1>1, <1>3, KeyRead
<1> HIDE DEF w, v
<1>5. v \in Nat /\ p <= v /\ v < q
  BY <1>2, <1>3, <1>4
<1>6. ValueAt(mem, t, x.v, v, q)
  BY <1>3, <1>4
<1>7. AdvanceDataPos(mem, v) = q /\ Exactly(GetValue(mem, v), x)
  BY <1>1, <1>5, <1>6, ValueRead
<1> QED BY <1>4, <1>5, <1>7 DEF v

\* A later entry starts further on.
LEMMA PositionsGrow ==
    ASSUME NEW mem, NEW ctype \in Containers, NEW es, Len(es) \in Nat, \A i \in 1..Len(es) : KeyFits(ctype, es[i].key),
           NEW first, NEW last, NEW pos, Layout(mem, ctype, es, first, last, pos)
    PROVE  /\ \A i \in 0..Len(es) : pos[i] <= last
           /\ \A i \in 0..(Len(es) - 1) : pos[i] < last /\ pos[i] < pos[i + 1]
           /\ \A i \in 0..Len(es) : first <= pos[i]
           /\ \A i \in 0..Len(es) : \A j \in i..Len(es) : pos[i] <= pos[j]
<1> DEFINE n == Len(es)
<1>0. pos[0] = first /\ pos[n] = last /\ \A i \in 0..n : pos[i] \in Nat
  BY DEF Layout
<1>1. ASSUME NEW i \in 1..n PROVE pos[i - 1] < pos[i]
  <2> DEFINE w == HeadWidth(ctype, es[i].key)
  <2>1. w \in Nat
    BY HeadWidthNat
  <2>2. pos[i - 1] + w < pos[i]
    BY DEF Layout, EntryAt, EntryLaid
  <2>3. pos[i - 1] \in Nat /\ pos[i] \in Nat
    <3>1. i \in 0..n /\ i - 1 \in 0..n
      OBVIOUS
    <3> QED BY <1>0, <3>1
  <2> HIDE DEF w
  <2> QED BY <2>1, <2>2, <2>3
<1> DEFINE I == {k \in Nat : \A i \in 0..n : i + k <= n => pos[i] <= pos[i + k]}
<1> HIDE DEF n
<1>2. 0 \in I
  <2>1. \A i \in 0..n : i + 0 = i /\ pos[i] <= pos[i]
    BY <1>0
  <2> QED BY <2>1
<1>3. ASSUME NEW k \in I PROVE k + 1 \in I
  <2>1. k \in Nat /\ \A i \in 0..n : i + k <= n => pos[i] <= pos[i + k]
    OBVIOUS
  <2> SUFFICES ASSUME NEW i \in 0..n, i + (k + 1) <= n PROVE pos[i] <= pos[i + (k + 1)]
    BY <2>1
  <2> DEFINE j == i + (k + 1)
  <2>2. n \in Nat
    BY DEF n
  <2>3. i + k <= n /\ j \in 1..n /\ j - 1 = i + k /\ i + k \in 0..n /\ j \in 0..n
    BY <2>1, <2>2
  <2>4. pos[i] <= pos[i + k]
    BY <2>1, <2>3
  <2> HIDE DEF j
  <2>5. pos[j - 1] < pos[j]
    BY <1>1, <2>3
  <2>6. pos[i] \in Nat /\ pos[i + k] \in Nat /\ pos[j] \in Nat
    BY <1>0, <2>3
  <2>7. pos[i + k] < pos[j]
    BY <2>3, <2>5
  <2>8. pos[i] <= pos[j]
    BY <2>4, <2>6, <2>7
  <2> QED BY <2>8 DEF j
<1>4. I = Nat
  <2>1. I \in SUBSET Nat
    OBVIOUS
  <2> HIDE DEF I
  <2> QED BY <1>2, <1>3, <2>1, Induction
<1>7. ASSUME NEW i \in 0..n, NEW j \in i..n PROVE pos[i] <= pos[j]
  <2>0. n \in Nat
    BY DEF n
  <2>1. j - i \in Nat /\ i + (j - i) = j /\ j <= n
    BY <2>0
  <2>2. j - i \in I
    BY <1>4, <2>1
  <2>3. pos[i] <= pos[i + (j - i)]
    BY <2>1, <2>2
  <2> QED BY <2>1, <2>3
<1>5. ASSUME NEW i \in 0..n PROVE pos[i] <= last /\ first <= pos[i]
  <2>0. n \in Nat
    BY DEF n
  <2>1. n - i \in Nat /\ i + (n - i) = n /\ i \in Nat /\ 0 + i = i /\ 0 \in 0..n /\ i + (n - i) <= n /\ 0 + i <= n
    BY <2>0
  <2>2. n - i \in I /\ i \in I
    BY <1>4, <2>1
  <2>3. pos[i] <= pos[i + (n - i)]
    BY <2>1, <2>2
  <2>4. pos[0] <= pos[0 + i]
    BY <2>1, <2>2
  <2> QED BY <1>0, <2>1, <2>3, <2>4
<1>6. ASSUME NEW i \in 0..(n - 1) PROVE pos[i] < last /\ pos[i] < pos[i + 1]
  <2>0. n \in Nat
    BY DEF n
  <2>1. i + 1 \in 1..n /\ (i + 1) - 1 = i /\ i + 1 \in 0..n /\ i \in 0..n /\ n \in 0..n
    BY <2>0
  <2>2. pos[(i + 1) - 1] < pos[i + 1]
    BY <1>1, <2>1
  <2>3. pos[i + 1] <= last
    BY <1>5, <2>1
  <2>4. pos[i] \in Nat /\ pos[i + 1] \in Nat /\ last \in Nat
    BY <1>0, <2>1
  <2> QED BY <2>1, <2>2, <2>3, <2>4
<1> QED BY <1>5, <1>6, <1>7 DEF n

\* What the readers are given: a buffer of fields at offsets, with these entries.
Written(mem, ctype, es, first, last, pos) ==
  /\ \A o \in DOMAIN mem : o \in Nat
  /\ ctype \in Containers /\ Len(es) \in Nat /\ \A i \in 1..Len(es) : EntryGiven(ctype, es[i])
  /\ Layout(mem, ctype, es, first, last, pos)

\* One entry of them.
LEMMA EntryThere ==
    ASSUME NEW mem, NEW ctype, NEW es, NEW first, NEW last, NEW pos, Written(mem, ctype, es, first, last, pos),
           NEW i \in 1..Len(es)
    PROVE  LET v == ValuePos(mem, ctype, pos[i - 1])
           IN  /\ pos[i - 1] \in Nat /\ pos[i] \in Nat /\ v \in Nat /\ pos[i - 1] <= v /\ v < pos[i] /\ pos[i] <= last
               /\ last \in Nat
               /\ AdvanceDataPos(mem, v) = pos[i] /\ Exactly(GetValue(mem, v), es[i]) /\ Given(es[i])
               /\ ctype # BINN_LIST => KeyAt(mem, ctype, pos[i - 1]) = es[i].key
               /\ ctype = BINN_MAP => At(mem, pos[i - 1]).n = es[i].key /\ v = pos[i - 1] + 4
               /\ ctype = BINN_OBJECT => /\ es[i].key \in DOMAIN KeyText
                                         /\ At(mem, pos[i - 1]).n = Len(KeyText[es[i].key])
                                         /\ v = pos[i - 1] + (1 + Len(KeyText[es[i].key]))
<1> DEFINE p == pos[i - 1]
           q == pos[i]
           x == es[i]
<1>1. ctype \in Containers /\ EntryGiven(ctype, x) /\ (\A o \in DOMAIN mem : o \in Nat) /\ Len(es) \in Nat
      /\ \A j \in 1..Len(es) : EntryGiven(ctype, es[j])
  BY DEF Written
<1>2. Layout(mem, ctype, es, first, last, pos)
  BY DEF Written
<1>3. i - 1 \in 0..Len(es) /\ i \in 0..Len(es) /\ Len(es) \in 0..Len(es)
  BY <1>1
<1>4. p \in Nat /\ q \in Nat /\ EntryAt(mem, ctype, x, p, q) /\ last \in Nat
  BY <1>2, <1>3 DEF Layout
<1>5. q <= last
  <2>1. \A j \in 1..Len(es) : KeyFits(ctype, es[j].key)
    BY <1>1 DEF EntryGiven
  <2> QED BY <1>1, <1>2, <1>3, <2>1, PositionsGrow
<1> HIDE DEF p, q, x
<1> DEFINE v == ValuePos(mem, ctype, p)
<1>6. /\ v \in Nat /\ p <= v /\ v < q
      /\ AdvanceDataPos(mem, v) = q /\ Exactly(GetValue(mem, v), x)
      /\ ctype # BINN_LIST => KeyAt(mem, ctype, p) = x.key
      /\ ctype = BINN_MAP => At(mem, p).n = x.key /\ v = p + 4
      /\ ctype = BINN_OBJECT => At(mem, p).n = Len(KeyText[x.key]) /\ v = p + (1 + Len(KeyText[x.key]))
  BY <1>1, <1>4, EntryRead
<1>7. Given(x) /\ (ctype = BINN_OBJECT => x.key \in DOMAIN KeyText)
  BY <1>1 DEF EntryGiven, KeyFits
<1> QED BY <1>4, <1>5, <1>6, <1>7 DEF p, q, x

\* The walk of the readers meets every entry.
LEMMA EntryPosIs ==
    ASSUME NEW mem, NEW ctype, NEW es, NEW first, NEW last, NEW pos, Written(mem, ctype, es, first, last, pos),
           NEW limit \in Int, last <= limit + 1
    PROVE  \A i \in 0..(Len(es) - 1) : EntryPos(mem, ctype, first, limit, Len(es))[i] = pos[i]
<1> DEFINE n == Len(es)
           Walk(f) == f = [i \in 0..n |-> IF i = 0 THEN first ELSE NextEntry(mem, ctype, limit, f[i - 1])]
           w == [i \in 0..n |-> IF i < n \/ i = 0 THEN pos[i] ELSE NextEntry(mem, ctype, limit, pos[i - 1])]
<1>1. n \in Nat /\ pos[0] = first
  BY DEF Written, Layout
<1>2. ASSUME NEW i \in 1..n, i < n PROVE NextEntry(mem, ctype, limit, pos[i - 1]) = pos[i]
  <2> DEFINE p == pos[i - 1]
             q == pos[i]
             v == ValuePos(mem, ctype, p)
  <2>1. p \in Nat /\ q \in Nat /\ v \in Nat /\ v < q /\ AdvanceDataPos(mem, v) = q /\ last \in Nat
    BY EntryThere
  <2>2. q < last
    <3>1. i + 1 \in 1..n /\ (i + 1) - 1 = i
      BY <1>1, <1>2
    <3> DEFINE j == i + 1
    <3>2. j \in 1..n /\ j - 1 = i
      BY <3>1
    <3> HIDE DEF j
    <3>3. /\ pos[j - 1] \in Nat /\ pos[j] \in Nat /\ ValuePos(mem, ctype, pos[j - 1]) \in Nat
          /\ pos[j - 1] <= ValuePos(mem, ctype, pos[j - 1]) /\ ValuePos(mem, ctype, pos[j - 1]) < pos[j] /\ pos[j] <= last
      BY <3>2, EntryThere
    <3> HIDE DEF n
    <3> QED BY <2>1, <3>2, <3>3
  <2> HIDE DEF p, q, v
  <2>3. p # NIL /\ ~(v > limit) /\ ~(q > limit)
    BY <2>1, <2>2 DEF NIL
  <2>4. ValueBehind(mem, ctype, limit, v) = q
    BY <2>1, <2>3 DEF ValueBehind
  <2> QED BY <2>3, <2>4 DEF NextEntry, UpTo, p, q, v
<1> HIDE DEF n
<1>3. Walk(w)
  <2>1. \A i \in 0..n : w[i] = IF i = 0 THEN first ELSE NextEntry(mem, ctype, limit, w[i - 1])
    <3> SUFFICES ASSUME NEW i \in 0..n
                 PROVE  w[i] = IF i = 0 THEN first ELSE NextEntry(mem, ctype, limit, w[i - 1])
      OBVIOUS
    <3>1. CASE i = 0
      BY <1>1, <3>1
    <3>2. CASE i # 0
      <4>1. i \in 1..n /\ i - 1 \in 0..n /\ i - 1 < n
        BY <1>1, <3>2
      <4>2. w[i - 1] = pos[i - 1]
        BY <4>1
      <4>3. w[i] = IF i < n THEN pos[i] ELSE NextEntry(mem, ctype, limit, pos[i - 1])
        BY <3>2
      <4> HIDE DEF w
      <4>4. w[i] = NextEntry(mem, ctype, limit, pos[i - 1])
        BY <1>2, <4>1, <4>3
      <4> QED BY <3>2, <4>2, <4>4
    <3> QED BY <3>1, <3>2
  <2> DEFINE h == [i \in 0..n |-> IF i = 0 THEN first ELSE NextEntry(mem, ctype, limit, w[i - 1])]
  <2>2. w = h
    <3>1. \A i \in 0..n : w[i] = h[i]
      BY <2>1
    <3> HIDE <2>1
    <3> QED BY <3>1
  <2> QED BY <2>2
<1> DEFINE e == CHOOSE f : Walk(f)
<1>4. EntryPos(mem, ctype, first, limit, n) = e
  BY DEF EntryPos
<1>5. Walk(e)
  <2>1. \E f : Walk(f)
    <3> HIDE DEF Walk, w
    <3> QED BY <1>3
  <2> HIDE DEF Walk
  <2> QED BY <2>1
<1> HIDE DEF e
<1>6. e[0] = first /\ \A i \in 1..n : e[i] = NextEntry(mem, ctype, limit, e[i - 1])
  BY <1>1, <1>5
<1> DEFINE I == {i \in Nat : i < n => e[i] = pos[i]}
<1>7. 0 \in I
  BY <1>1, <1>6
<1>8. ASSUME NEW i \in I PROVE i + 1 \in I
  <2>1. i \in Nat /\ i + 1 \in Nat /\ (i + 1) - 1 = i
    OBVIOUS
  <2> SUFFICES ASSUME i + 1 < n PROVE e[i + 1] = pos[i + 1]
    BY <2>1
  <2> DEFINE j == i + 1
  <2>2. j \in 1..n /\ j < n /\ j - 1 = i /\ i < n
    BY <1>1, <2>1
  <2>3. e[i] = pos[i]
    BY <2>1, <2>2
  <2> HIDE DEF j
  <2>4. e[j] = NextEntry(mem, ctype, limit, pos[j - 1]) /\ NextEntry(mem, ctype, limit, pos[j - 1]) = pos[j]
    BY <1>2, <1>6, <2>2, <2>3
  <2>5. e[j] = pos[j]
    BY <2>4
  <2> QED BY <2>5 DEF j
<1>9. I = Nat
  <2>1. I \in SUBSET Nat
    OBVIOUS
  <2> HIDE DEF I
  <2> QED BY <1>7, <1>8, <2>1, Induction
<1>10. \A i \in 0..(n - 1) : e[i] = pos[i]
  BY <1>1, <1>9
<1> QED BY <1>4, <1>10 DEF n

\* binn_is_valid's walk ends behind the last entry.
LEMMA WalkEndIs ==
    ASSUME NEW mem, NEW ctype, NEW es, NEW first, NEW last, NEW pos, Written(mem, ctype, es, first, last, pos),
           NEW h, h.type = ctype, h.count = Len(es), h.header_size = first
    PROVE  WalkEnd(mem, h) = last
<1> DEFINE n == Len(es)
           Behind(p) == IF p = NIL THEN NIL ELSE AdvanceDataPos(mem, ValuePos(mem, ctype, p))
           Walk(f) == f = [i \in 0..n |-> IF i = 0 THEN first ELSE Behind(f[i - 1])]
           w == [i \in 0..n |-> pos[i]]
<1>1. n \in Nat /\ pos[0] = first /\ pos[n] = last
  BY DEF Written, Layout
<1>2. ASSUME NEW i \in 1..n PROVE Behind(pos[i - 1]) = pos[i]
  <2> DEFINE p == pos[i - 1]
             v == ValuePos(mem, ctype, p)
  <2>1. p \in Nat /\ AdvanceDataPos(mem, v) = pos[i]
    BY EntryThere
  <2> HIDE DEF p
  <2>2. p # NIL
    BY <2>1 DEF NIL
  <2> QED BY <2>1, <2>2 DEF p
<1> HIDE DEF n
<1>3. Walk(w)
  <2>1. \A i \in 0..n : w[i] = IF i = 0 THEN first ELSE Behind(w[i - 1])
    <3> HIDE DEF Behind
    <3> SUFFICES ASSUME NEW i \in 0..n PROVE w[i] = IF i = 0 THEN first ELSE Behind(w[i - 1])
      OBVIOUS
    <3>1. CASE i = 0
      BY <1>1, <3>1
    <3>2. CASE i # 0
      <4>1. i \in 1..n /\ i - 1 \in 0..n
        BY <1>1, <3>2
      <4> QED BY <1>2, <3>2, <4>1
    <3> QED BY <3>1, <3>2
  <2> DEFINE g == [i \in 0..n |-> IF i = 0 THEN first ELSE Behind(w[i - 1])]
  <2>2. w = g
    <3>1. \A i \in 0..n : w[i] = g[i]
      BY <2>1
    <3> HIDE <2>1
    <3> HIDE DEF Behind
    <3> QED BY <3>1
  <2> QED BY <2>2
<1> DEFINE e == CHOOSE f : Walk(f)
<1>4. WalkEnd(mem, h) = e[n]
  BY DEF WalkEnd, n
<1>5. Walk(e)
  <2>1. \E f : Walk(f)
    <3> HIDE DEF Walk, w
    <3> QED BY <1>3
  <2> HIDE DEF Walk
  <2> QED BY <2>1
<1> HIDE DEF e, Behind
<1>6. e[0] = first /\ \A i \in 1..n : e[i] = Behind(e[i - 1])
  BY <1>1, <1>5
<1> DEFINE I == {i \in Nat : i <= n => e[i] = pos[i]}
<1>7. 0 \in I
  BY <1>1, <1>6
<1>8. ASSUME NEW i \in I PROVE i + 1 \in I
  <2>1. i \in Nat /\ i + 1 \in Nat /\ (i + 1) - 1 = i
    OBVIOUS
  <2> SUFFICES ASSUME i + 1 <= n PROVE e[i + 1] = pos[i + 1]
    BY <2>1
  <2> DEFINE j == i + 1
  <2>2. j \in 1..n /\ j - 1 = i /\ i <= n
    BY <1>1, <2>1
  <2>3. e[i] = pos[i]
    BY <2>1, <2>2
  <2> HIDE DEF j
  <2>4. e[j] = Behind(pos[j - 1]) /\ Behind(pos[j - 1]) = pos[j]
    BY <1>2, <1>6, <2>2, <2>3
  <2>5. e[j] = pos[j]
    BY <2>4
  <2> QED BY <2>5 DEF j
<1>9. I = Nat
  <2>1. I \in SUBSET Nat
    OBVIOUS
  <2> HIDE DEF I
  <2> QED BY <1>7, <1>8, <2>1, Induction
<1>10. e[n] = pos[n]
  BY <1>1, <1>9
<1> QED BY <1>1, <1>4, <1>10
-----------------------------------------------------------------------------
(* Looking for an entry.                                                   *)

\* strnicmp finds the stored key exactly when it is the same one.
LEMMA MatchIs ==
    ASSUME NEW mem, NEW p, NEW k \in DOMAIN KeyText, NEW key \in DOMAIN KeyText,
           At(mem, p).n = Len(KeyText[k]), KeyAt(mem, BINN_OBJECT, p) = k
    PROVE  KeyMatches(mem, p, key) <=> SameKey(k, key)
<1> DEFINE s == KeyText[k]
           t == KeyText[key]
           n == Len(s)
           a == [i \in DOMAIN s |-> Lower[s[i]]]
           b == [i \in DOMAIN t |-> Lower[t[i]]]
<1>1. s \in Seq(DOMAIN Lower) /\ t \in Seq(DOMAIN Lower)
  BY FormatAssumption
<1>2. n \in Nat /\ DOMAIN s = 1..n /\ Len(t) \in Nat /\ DOMAIN t = 1..Len(t)
  BY <1>1
<1>3. n # 0 => At(mem, p + 1).n = k
  BY ContainersApart DEF KeyAt
<1>4. KeyMatches(mem, p, key) <=> n = Len(t) /\ (n > 0 => Len(t) >= n /\ \A i \in 1..n : Lower[s[i]] = Lower[t[i]])
  <2>1. KeyMatches(mem, p, key) <=> n = Len(t) /\ (n > 0 => SameText(KeyText[At(mem, p + 1).n], t, n))
    BY DEF KeyMatches
  <2>2. n > 0 => KeyText[At(mem, p + 1).n] = s
    BY <1>2, <1>3
  <2> HIDE DEF n, s, t
  <2>3. KeyMatches(mem, p, key) <=> n = Len(t) /\ (n > 0 => SameText(s, t, n))
    BY <2>1, <2>2
  <2> QED BY <2>3 DEF SameText
<1>5. SameKey(k, key) <=> a = b
  BY DEF SameKey
<1>6. a = b <=> n = Len(t) /\ \A i \in 1..n : Lower[s[i]] = Lower[t[i]]
  <2> HIDE DEF n, s, t
  <2>1. DOMAIN a = 1..n /\ DOMAIN b = 1..Len(t)
    BY <1>2
  <2>2. ASSUME a = b PROVE n = Len(t) /\ \A i \in 1..n : Lower[s[i]] = Lower[t[i]]
    <3>1. 1..n = 1..Len(t)
      BY <2>1, <2>2
    <3>2. n = Len(t)
      <4> DEFINE l == Len(t)
      <4>1. (n # 0 => n \in 1..n) /\ (l # 0 => l \in 1..l) /\ n \in Nat /\ l \in Nat
        BY <1>2
      <4> HIDE DEF l
      <4>2. (n # 0 => n <= l) /\ (l # 0 => l <= n)
        BY <3>1, <4>1 DEF l
      <4>3. n = l
        BY <4>1, <4>2
      <4> QED BY <4>3 DEF l
    <3>3. ASSUME NEW i \in 1..n PROVE Lower[s[i]] = Lower[t[i]]
      <4>1. a[i] = b[i] /\ i \in DOMAIN s /\ i \in DOMAIN t
        BY <1>2, <2>2, <3>2
      <4> QED BY <4>1
    <3> QED BY <3>2, <3>3
  <2>3. ASSUME n = Len(t), \A i \in 1..n : Lower[s[i]] = Lower[t[i]] PROVE a = b
    BY <1>2, <2>3
  <2> QED BY <2>2, <2>3
<1>7. (n = Len(t) /\ (n > 0 => Len(t) >= n /\ \A i \in 1..n : Lower[s[i]] = Lower[t[i]]))
      <=> (n = Len(t) /\ \A i \in 1..n : Lower[s[i]] = Lower[t[i]])
  <2> DEFINE l == Len(t)
             same == \A i \in 1..n : Lower[s[i]] = Lower[t[i]]
  <2> HIDE DEF n, s, t
  <2>1. n > 0 \/ same
    BY <1>2
  <2>2. n \in Nat /\ l \in Nat
    BY <1>2
  <2> HIDE DEF l, same
  <2>3. (n = l /\ (n > 0 => l >= n /\ same)) <=> (n = l /\ same)
    BY <2>1, <2>2
  <2> QED BY <2>3 DEF l, same
<1> QED BY <1>4, <1>5, <1>6, <1>7

\* The first of the entries M that match is found.
LEMMA HitIs ==
    ASSUME NEW mem, NEW ctype, NEW es, NEW first, NEW last, NEW pos, Written(mem, ctype, es, first, last, pos),
           NEW e, \A i \in 0..(Len(es) - 1) : e[i] = pos[i],
           NEW M \in SUBSET (1..Len(es)), NEW hits, \A i : i \in hits <=> i \in 0..(Len(es) - 1) /\ i + 1 \in M
    PROVE  /\ FirstHit(mem, ctype, e, hits) = NIL <=> M = {}
           /\ \A i \in M : (\A j \in M : j = i) => FirstHit(mem, ctype, e, hits) = ValuePos(mem, ctype, pos[i - 1])
<1> DEFINE n == Len(es)
           m == Min(hits)
           r == FirstHit(mem, ctype, e, hits)
<1>1. n \in Nat
  BY DEF Written
<1>2. ASSUME NEW i \in M PROVE i - 1 \in hits
  <2>1. i \in Int /\ i - 1 \in 0..(n - 1) /\ (i - 1) + 1 = i
    BY <1>1
  <2> QED BY <1>2, <2>1
<1>3. CASE M = {}
  <2>1. hits = {}
    <3>1. \A i : i \notin hits
      BY <1>3
    <3> QED BY <3>1
  <2>2. r = NIL
    BY <2>1 DEF FirstHit
  <2> QED BY <1>3, <2>2
<1>4. CASE M # {}
  <2>1. hits # {} /\ hits \in SUBSET Nat
    <3>1. \A i \in hits : i \in Nat
      BY <1>1
    <3>2. \E i \in M : i - 1 \in hits
      BY <1>2, <1>4
    <3> QED BY <3>1, <3>2
  <2>2. m \in hits
    BY <2>1, MinInSet
  <2>3. m \in 0..(n - 1) /\ m + 1 \in M /\ m + 1 \in 1..n /\ (m + 1) - 1 = m
    BY <1>1, <2>2
  <2> HIDE DEF m
  <2>4. r = ValuePos(mem, ctype, pos[m])
    BY <2>1, <2>3 DEF FirstHit, m
  <2> DEFINE j == m + 1
  <2>5. j \in M /\ j \in 1..n /\ j - 1 = m
    BY <2>3
  <2> HIDE DEF j, r
  <2>6. r = ValuePos(mem, ctype, pos[j - 1])
    BY <2>4, <2>5
  <2>7. r \in Nat
    BY <2>5, <2>6, EntryThere
  <2>8. r # NIL
    BY <2>7 DEF NIL
  <2>9. ASSUME NEW i \in M, \A x \in M : x = i PROVE r = ValuePos(mem, ctype, pos[i - 1])
    BY <2>5, <2>6, <2>9
  <2> QED BY <1>4, <2>8, <2>9 DEF r
<1> QED BY <1>3, <1>4

\* SearchForKey finds the entry with the same key, if there is one.
LEMMA KeySearched ==
    ASSUME NEW mem, NEW es, NEW first, NEW last, NEW pos, Written(mem, BINN_OBJECT, es, first, last, pos),
           NEW key \in DOMAIN KeyText
    PROVE  LET r == SearchForKey(mem, first, last, Len(es), key)
           IN  /\ r = NIL <=> \A i \in 1..Len(es) : ~SameKey(es[i].key, key)
               /\ \A i \in 1..Len(es) :
                    SameKey(es[i].key, key) /\ (\A j \in 1..Len(es) : SameKey(es[j].key, key) => j = i) =>
                      r = ValuePos(mem, BINN_OBJECT, pos[i - 1])
<1> DEFINE n == Len(es)
           e == EntryPos(mem, BINN_OBJECT, first, last - 1, n)
           M == {i \in 1..n : SameKey(es[i].key, key)}
           hits == {i \in 0..(n - 1) : e[i] # NIL /\ e[i] <= last - 2 /\ KeyMatches(mem, e[i], key)}
           r == FirstHit(mem, BINN_OBJECT, e, hits)
<1>1. n \in Nat /\ last \in Nat
  <2>1. Len(es) \in Nat /\ Len(es) \in 0..Len(es) /\ Layout(mem, BINN_OBJECT, es, first, last, pos)
    BY DEF Written
  <2> QED BY <2>1 DEF Layout
<1>2. SearchForKey(mem, first, last, n, key) = r
  BY DEF SearchForKey, KeyFound, Hits
<1>3. \A i \in 0..(n - 1) : e[i] = pos[i]
  <2>1. last - 1 \in Int /\ last <= (last - 1) + 1
    BY <1>1
  <2> DEFINE limit == last - 1
  <2>2. limit \in Int /\ last <= limit + 1
    BY <2>1
  <2> HIDE DEF limit
  <2>3. \A i \in 0..(n - 1) : EntryPos(mem, BINN_OBJECT, first, limit, n)[i] = pos[i]
    BY <2>2, EntryPosIs
  <2> QED BY <2>3 DEF limit
<1> HIDE DEF e
<1>4. \A i : i \in hits <=> i \in 0..(n - 1) /\ i + 1 \in M
  <2> SUFFICES ASSUME NEW i \in 0..(n - 1)
               PROVE  (e[i] # NIL /\ e[i] <= last - 2 /\ KeyMatches(mem, e[i], key)) <=> i + 1 \in M
    OBVIOUS
  <2> DEFINE j == i + 1
  <2>1. j \in 1..n /\ j - 1 = i
    BY <1>1
  <2> HIDE DEF j
  <2> DEFINE p == pos[j - 1]
             k == es[j].key
  <2>2. /\ p \in Nat /\ pos[j] \in Nat /\ k \in DOMAIN KeyText /\ pos[j] <= last /\ ValuePos(mem, BINN_OBJECT, p) < pos[j]
        /\ At(mem, p).n = Len(KeyText[k]) /\ ValuePos(mem, BINN_OBJECT, p) = p + (1 + Len(KeyText[k]))
        /\ KeyAt(mem, BINN_OBJECT, p) = k
    BY <2>1, EntryThere, ContainersApart
  <2>3. Len(KeyText[k]) \in Nat
    BY <2>2, KeyTextLen
  <2> DEFINE len == Len(KeyText[k])
  <2> HIDE DEF p, k, len
  <2>4. p # NIL /\ p <= last - 2
    <3>1. p + (1 + len) < pos[j] /\ pos[j] <= last /\ len \in Nat
      BY <2>2, <2>3 DEF len
    <3> QED BY <1>1, <2>2, <3>1 DEF NIL
  <2>5. KeyMatches(mem, p, key) <=> SameKey(k, key)
    BY <2>2, MatchIs
  <2>6. e[i] = p
    BY <1>3, <2>1 DEF p
  <2>7. j \in M <=> SameKey(k, key)
    BY <2>1 DEF k
  <2> QED BY <2>4, <2>5, <2>6, <2>7 DEF j
<1> HIDE DEF hits
<1>5. M \in SUBSET (1..n)
  OBVIOUS
<1>6. (M = {} <=> \A i \in 1..n : ~SameKey(es[i].key, key)) /\ \A i \in 1..n : i \in M <=> SameKey(es[i].key, key)
  OBVIOUS
<1> HIDE DEF M, n
<1> DEFINE ctype == BINN_OBJECT
<1>7. /\ r = NIL <=> M = {}
      /\ \A i \in M : (\A j \in M : j = i) => r = ValuePos(mem, ctype, pos[i - 1])
  <2>1. Written(mem, ctype, es, first, last, pos) /\ r = FirstHit(mem, ctype, e, hits)
    OBVIOUS
  <2>2. M \in SUBSET (1..Len(es)) /\ (\A i \in 0..(Len(es) - 1) : e[i] = pos[i])
        /\ \A i : i \in hits <=> i \in 0..(Len(es) - 1) /\ i + 1 \in M
    BY <1>3, <1>4, <1>5 DEF n
  <2> HIDE DEF ctype, r
  <2> QED BY <2>1, <2>2, HitIs
<1> HIDE DEF r
<1>8. ASSUME NEW i \in 1..n, SameKey(es[i].key, key), \A j \in 1..n : SameKey(es[j].key, key) => j = i
      PROVE  r = ValuePos(mem, BINN_OBJECT, pos[i - 1])
  <2>1. i \in M /\ \A j \in M : j = i
    BY <1>5, <1>6, <1>8
  <2> QED BY <1>7, <2>1
<1> QED BY <1>2, <1>6, <1>7, <1>8 DEF n

\* SearchForID finds the entry with the id, if there is one.
LEMMA IdSearched ==
    ASSUME NEW mem, NEW es, NEW first, NEW last, NEW pos, Written(mem, BINN_MAP, es, first, last, pos), NEW id
    PROVE  LET r == SearchForID(mem, first, last, Len(es), id)
           IN  /\ r = NIL <=> \A i \in 1..Len(es) : es[i].key # id
               /\ \A i \in 1..Len(es) :
                    es[i].key = id /\ (\A j \in 1..Len(es) : es[j].key = id => j = i) =>
                      r = ValuePos(mem, BINN_MAP, pos[i - 1])
<1> DEFINE n == Len(es)
           e == EntryPos(mem, BINN_MAP, first, last - 1, n)
           M == {i \in 1..n : es[i].key = id}
           hits == {i \in 0..(n - 1) : e[i] # NIL /\ e[i] <= last - 5 /\ At(mem, e[i]).n = id}
           r == FirstHit(mem, BINN_MAP, e, hits)
<1>1. n \in Nat /\ last \in Nat
  <2>1. Len(es) \in Nat /\ Len(es) \in 0..Len(es) /\ Layout(mem, BINN_MAP, es, first, last, pos)
    BY DEF Written
  <2> QED BY <2>1 DEF Layout
<1>2. SearchForID(mem, first, last, n, id) = r
  BY DEF SearchForID, IDFound, Hits
<1>3. \A i \in 0..(n - 1) : e[i] = pos[i]
  <2>1. last - 1 \in Int /\ last <= (last - 1) + 1
    BY <1>1
  <2> DEFINE limit == last - 1
  <2>2. limit \in Int /\ last <= limit + 1
    BY <2>1
  <2> HIDE DEF limit
  <2>3. \A i \in 0..(n - 1) : EntryPos(mem, BINN_MAP, first, limit, n)[i] = pos[i]
    BY <2>2, EntryPosIs
  <2> QED BY <2>3 DEF limit
<1> HIDE DEF e
<1>4. \A i : i \in hits <=> i \in 0..(n - 1) /\ i + 1 \in M
  <2> SUFFICES ASSUME NEW i \in 0..(n - 1)
               PROVE  (e[i] # NIL /\ e[i] <= last - 5 /\ At(mem, e[i]).n = id) <=> i + 1 \in M
    OBVIOUS
  <2> DEFINE j == i + 1
  <2>1. j \in 1..n /\ j - 1 = i
    BY <1>1
  <2> HIDE DEF j
  <2> DEFINE p == pos[j - 1]
             k == es[j].key
  <2>2. /\ p \in Nat /\ pos[j] \in Nat /\ pos[j] <= last /\ ValuePos(mem, BINN_MAP, p) < pos[j]
        /\ At(mem, p).n = k /\ ValuePos(mem, BINN_MAP, p) = p + 4
    BY <2>1, EntryThere, ContainersApart
  <2> HIDE DEF p, k
  <2>3. p # NIL /\ p <= last - 5
    BY <1>1, <2>2 DEF NIL
  <2>4. e[i] = p
    BY <1>3, <2>1 DEF p
  <2>5. j \in M <=> k = id
    BY <2>1 DEF k
  <2> QED BY <2>2, <2>3, <2>4, <2>5 DEF j
<1> HIDE DEF hits
<1>5. M \in SUBSET (1..n)
  OBVIOUS
<1>6. (M = {} <=> \A i \in 1..n : es[i].key # id) /\ \A i \in 1..n : i \in M <=> es[i].key = id
  OBVIOUS
<1> HIDE DEF M, n
<1> DEFINE ctype == BINN_MAP
<1>7. /\ r = NIL <=> M = {}
      /\ \A i \in M : (\A j \in M : j = i) => r = ValuePos(mem, ctype, pos[i - 1])
  <2>1. Written(mem, ctype, es, first, last, pos) /\ r = FirstHit(mem, ctype, e, hits)
    OBVIOUS
  <2>2. M \in SUBSET (1..Len(es)) /\ (\A i \in 0..(Len(es) - 1) : e[i] = pos[i])
        /\ \A i : i \in hits <=> i \in 0..(Len(es) - 1) /\ i + 1 \in M
    BY <1>3, <1>4, <1>5 DEF n
  <2> HIDE DEF ctype, r
  <2> QED BY <2>1, <2>2, HitIs
<1> HIDE DEF r
<1>8. ASSUME NEW i \in 1..n, es[i].key = id, \A j \in 1..n : es[j].key = id => j = i
      PROVE  r = ValuePos(mem, BINN_MAP, pos[i - 1])
  <2>1. i \in M /\ \A j \in M : j = i
    BY <1>5, <1>6, <1>8
  <2> QED BY <1>7, <2>1
<1> QED BY <1>2, <1>6, <1>7, <1>8 DEF n
-----------------------------------------------------------------------------
(* What the getters find.                                                  *)

\* A buffer with its header: size bytes that hold the entries es.
Packed(mem, ctype, es, hs, size, pos) ==
  /\ Written(mem, ctype, es, hs, size, pos)
  /\ size \in Nat /\ size >= MIN_BINN_SIZE /\ HeaderIn(mem, 0, ctype, size, Len(es), hs)

\* Its keys or ids differ.
KeysApart(ctype, es) ==
  \A i, j \in 1..Len(es) : i # j => /\ ctype = BINN_OBJECT => ~SameKey(es[i].key, es[j].key)
                                    /\ ctype = BINN_MAP => es[i].key # es[j].key

\* A value that is there.
LEMMA FoundThere ==
    ASSUME NEW mem, NEW p \in Nat
    PROVE  Found(mem, p) = GetValue(mem, p)
<1>1. p # NIL
  BY DEF NIL
<1> QED BY <1>1 DEF Found

\* Its header is read as it was written.
LEMMA PackedHeader ==
    ASSUME NEW mem, NEW ctype, NEW es, NEW hs, NEW size, NEW pos, Packed(mem, ctype, es, hs, size, pos)
    PROVE  LET h == IsValidBinnHeader(mem)
           IN  /\ h.ok = TRUE /\ h.type = ctype /\ h.size = size /\ h.count = Len(es) /\ h.header_size = hs
               /\ Written(mem, ctype, es, hs, size, pos) /\ size \in Nat /\ Len(es) \in Nat
<1>1. ctype \in Containers /\ Len(es) \in Nat /\ Written(mem, ctype, es, hs, size, pos)
  BY DEF Packed, Written
<1>2. size \in Nat /\ size >= MIN_BINN_SIZE /\ HeaderIn(mem, 0, ctype, size, Len(es), hs)
  BY DEF Packed
<1> QED BY <1>1, <1>2, HeaderRead

\* binn_is_valid accepts it.
LEMMA PackedValid ==
    ASSUME NEW mem, NEW ctype, NEW es, NEW hs, NEW size, NEW pos, Packed(mem, ctype, es, hs, size, pos)
    PROVE  binn_is_valid(mem)
<1> DEFINE h == IsValidBinnHeader(mem)
           n == Len(es)
<1>1. /\ h.ok = TRUE /\ h.type = ctype /\ h.size = size /\ h.count = n /\ h.header_size = hs
      /\ Written(mem, ctype, es, hs, size, pos) /\ size \in Nat /\ n \in Nat
  BY PackedHeader
<1> HIDE DEF h
<1>2. WalkEnd(mem, h) = size
  BY <1>1, WalkEndIs
<1>3. WalkEnd(mem, h) # NIL
  BY <1>1, <1>2 DEF NIL
<1> QED BY <1>1, <1>3 DEF binn_is_valid, h

\* binn_list_get_value.
LEMMA ListFinds ==
    ASSUME NEW mem, NEW es, NEW hs, NEW size, NEW pos, Packed(mem, BINN_LIST, es, hs, size, pos),
           NEW i \in 1..Len(es)
    PROVE  Exactly(binn_list_get_value(mem, i), es[i]) /\ Given(es[i])
<1> DEFINE h == IsValidBinnHeader(mem)
           n == Len(es)
           e == EntryPos(mem, BINN_LIST, hs, size, n)
           p == pos[i - 1]
<1>1. /\ h.ok = TRUE /\ h.type = BINN_LIST /\ h.size = size /\ h.count = n /\ h.header_size = hs
      /\ Written(mem, BINN_LIST, es, hs, size, pos) /\ size \in Nat /\ n \in Nat
  BY PackedHeader
<1>2. i - 1 \in 0..(n - 1) /\ n # 0 /\ size <= size + 1 /\ size \in Int
  BY <1>1
<1>3. e[i - 1] = p
  BY <1>1, <1>2, EntryPosIs
<1>4. p \in Nat /\ Exactly(GetValue(mem, ValuePos(mem, BINN_LIST, p)), es[i]) /\ Given(es[i])
  BY <1>1, EntryThere
<1> HIDE DEF h, n
<1>5. binn_list_get_value(mem, i) = Found(mem, e[i - 1])
  BY <1>1, <1>2 DEF binn_list_get_value, h, n
<1> HIDE DEF e, p
<1>6. binn_list_get_value(mem, i) = GetValue(mem, p)
  BY <1>3, <1>4, <1>5, FoundThere
<1>7. ValuePos(mem, BINN_LIST, p) = p
  BY ContainersApart DEF ValuePos
<1> QED BY <1>4, <1>6, <1>7

\* binn_map_get_value.
LEMMA MapFinds ==
    ASSUME NEW mem, NEW es, NEW hs, NEW size, NEW pos, Packed(mem, BINN_MAP, es, hs, size, pos),
           KeysApart(BINN_MAP, es), NEW i \in 1..Len(es)
    PROVE  Exactly(binn_map_get_value(mem, es[i].key), es[i]) /\ Given(es[i])
<1> DEFINE h == IsValidBinnHeader(mem)
           n == Len(es)
           id == es[i].key
           r == SearchForID(mem, hs, size, n, id)
           v == ValuePos(mem, BINN_MAP, pos[i - 1])
<1>1. /\ h.ok = TRUE /\ h.type = BINN_MAP /\ h.size = size /\ h.count = n /\ h.header_size = hs
      /\ Written(mem, BINN_MAP, es, hs, size, pos) /\ size \in Nat /\ n \in Nat
  BY PackedHeader
<1>2. \A j \in 1..n : es[j].key = id => j = i
  BY DEF KeysApart
<1>3. r = v
  BY <1>1, <1>2, IdSearched
<1>4. v \in Nat /\ Exactly(GetValue(mem, v), es[i]) /\ Given(es[i])
  BY <1>1, EntryThere
<1> HIDE DEF h, n, v, id
<1>5. n # 0
  BY <1>1 DEF n
<1>6. binn_map_get_value(mem, id) = Found(mem, r)
  BY <1>1, <1>5 DEF binn_map_get_value, h
<1> HIDE DEF r
<1>7. binn_map_get_value(mem, id) = GetValue(mem, v)
  BY <1>3, <1>4, <1>6, FoundThere
<1> QED BY <1>4, <1>7 DEF id

\* binn_object_get_value: a key that is there, in whatever case, and one that is not.
LEMMA ObjectFinds ==
    ASSUME NEW mem, NEW es, NEW hs, NEW size, NEW pos, Packed(mem, BINN_OBJECT, es, hs, size, pos),
           KeysApart(BINN_OBJECT, es)
    PROVE  /\ \A i \in 1..Len(es) : Exactly(binn_object_get_value(mem, es[i].key), es[i]) /\ Given(es[i])
           /\ \A k \in DOMAIN KeyText :
                (\A i \in 1..Len(es) : ~SameKey(k, es[i].key)) => ~binn_object_get_value(mem, k).ok
<1> DEFINE h == IsValidBinnHeader(mem)
           n == Len(es)
           Search(k) == SearchForKey(mem, hs, size, n, k)
<1>1. /\ h.ok = TRUE /\ h.type = BINN_OBJECT /\ h.size = size /\ h.count = n /\ h.header_size = hs
      /\ Written(mem, BINN_OBJECT, es, hs, size, pos) /\ size \in Nat /\ n \in Nat
  BY PackedHeader
<1> HIDE DEF h
<1>2. \A k : binn_object_get_value(mem, k) = IF n = 0 THEN NoValue ELSE Found(mem, Search(k))
  <2> HIDE DEF n
  <2> QED BY <1>1 DEF binn_object_get_value, h
<1>3. \A k, l : SameKey(k, l) <=> SameKey(l, k)
  BY DEF SameKey
<1>4. ASSUME NEW i \in 1..n
      PROVE  Exactly(binn_object_get_value(mem, es[i].key), es[i]) /\ Given(es[i])
  <2> DEFINE v == ValuePos(mem, BINN_OBJECT, pos[i - 1])
             key == es[i].key
  <2>1. v \in Nat /\ Exactly(GetValue(mem, v), es[i]) /\ Given(es[i]) /\ key \in DOMAIN KeyText
    BY <1>1, EntryThere
  <2>2. SameKey(key, key) /\ \A j \in 1..n : SameKey(es[j].key, key) => j = i
    <3>1. SameKey(key, key)
      BY DEF SameKey
    <3> QED BY <3>1 DEF KeysApart
  <2>3. Search(key) = v
    BY <1>1, <2>1, <2>2, KeySearched
  <2> HIDE DEF v, key, Search
  <2>4. n # 0
    BY <1>1
  <2>5. binn_object_get_value(mem, key) = Found(mem, v)
    BY <1>2, <2>3, <2>4
  <2>6. binn_object_get_value(mem, key) = GetValue(mem, v)
    BY <2>1, <2>5, FoundThere
  <2> QED BY <2>1, <2>6 DEF key
<1>5. ASSUME NEW k \in DOMAIN KeyText, \A i \in 1..n : ~SameKey(k, es[i].key)
      PROVE  ~binn_object_get_value(mem, k).ok
  <2>1. \A i \in 1..n : ~SameKey(es[i].key, k)
    BY <1>3, <1>5
  <2>2. Search(k) = NIL
    BY <1>1, <2>1, KeySearched
  <2> HIDE DEF Search
  <2>3. binn_object_get_value(mem, k) = NoValue
    BY <1>2, <2>2 DEF Found
  <2>4. NoValue.ok = FALSE
    BY DEF NoValue, ValueIs
  <2> QED BY <2>3, <2>4
<1> QED BY <1>4, <1>5 DEF n

\* binn_read_pair.
LEMMA PairFinds ==
    ASSUME NEW mem, NEW ctype, ctype # BINN_LIST, NEW es, NEW hs, NEW size, NEW pos,
           Packed(mem, ctype, es, hs, size, pos), NEW i \in 1..Len(es)
    PROVE  LET r == binn_read_pair(ctype, mem, i)
           IN  r.key = es[i].key /\ Exactly(r.value, es[i]) /\ Given(es[i])
<1> DEFINE h == IsValidBinnHeader(mem)
           n == Len(es)
           limit == size - 1
           e == EntryPos(mem, ctype, hs, limit, n)
           p == pos[i - 1]
           v == ValuePos(mem, ctype, p)
           r == binn_read_pair(ctype, mem, i)
<1>1. /\ h.ok = TRUE /\ h.type = ctype /\ h.size = size /\ h.count = n /\ h.header_size = hs
      /\ Written(mem, ctype, es, hs, size, pos) /\ size \in Nat /\ n \in Nat
  BY PackedHeader
<1>2. i - 1 \in 0..(n - 1) /\ size <= limit + 1 /\ limit \in Int
  BY <1>1
<1>3. /\ p \in Nat /\ v \in Nat /\ v < pos[i] /\ pos[i] <= size /\ pos[i] \in Nat
      /\ KeyAt(mem, ctype, p) = es[i].key /\ Exactly(GetValue(mem, v), es[i]) /\ Given(es[i])
  BY <1>1, EntryThere
<1> HIDE DEF h
<1>4. r = PairAt(mem, ctype, limit, e[i - 1])
  BY <1>1 DEF binn_read_pair, h
<1>5. ~(v > limit)
  <2> HIDE DEF v
  <2> QED BY <1>1, <1>3
<1> HIDE DEF limit
<1>6. e[i - 1] = p
  BY <1>1, <1>2, EntryPosIs
<1> HIDE DEF e, r, p
<1>7. p # NIL
  BY <1>3 DEF NIL
<1>8. r = [key |-> KeyAt(mem, ctype, p), value |-> GetValue(mem, v)]
  BY <1>4, <1>5, <1>6, <1>7 DEF PairAt
<1>9. r.key = KeyAt(mem, ctype, p) /\ r.value = GetValue(mem, v)
  BY <1>8
<1> QED BY <1>3, <1>9 DEF r
-----------------------------------------------------------------------------
(* What the typed getters answer.                                          *)

GetterTypes == Ints \cup {BINN_BOOL, BINN_NULL}

\* No integer type has more values below and above zero than the one of 64 bits.
LEMMA WidestInts ==
    /\ \A t \in SignedInts : MinOf(BINN_INT64) <= MinOf(t) /\ MaxOf(t) <= MaxOf(BINN_INT64) /\ MinOf(t) \in Int /\ MaxOf(t) \in Int
    /\ \A t \in UnsignedInts : MinOf(t) = 0 /\ MaxOf(t) <= MaxOf(BINN_UINT64) /\ MaxOf(t) \in Int
    /\ MaxOf(BINN_INT64) <= MaxOf(BINN_UINT64) /\ MinOf(BINN_INT64) <= 0
<1> DEFINE w == IntBits[128]
<1>1. BINN_INT64 \in SignedInts /\ BINN_UINT64 \in UnsignedInts /\ \A t \in UnsignedInts : t \notin SignedInts
  BY DEF SignedInts, UnsignedInts, BINN_INT8, BINN_INT16, BINN_INT32, BINN_INT64, BINN_UINT8, BINN_UINT16,
         BINN_UINT32, BINN_UINT64
<1>2. BitsOf(BINN_INT64) = w /\ BitsOf(BINN_UINT64) = w
  BY StorageTable DEF BitsOf, STORAGE_QWORD
<1>3. ASSUME NEW t \in Ints PROVE BitsOf(t) \in Nat \ {0} /\ BitsOf(t) <= w /\ w \in Nat
  <2>1. binn_get_type_info(t) \in {32, 64, 96, 128}
    BY IntStorage DEF STORAGE_BYTE, STORAGE_WORD, STORAGE_DWORD, STORAGE_QWORD
  <2>2. IntBits[32] \in Nat \ {0} /\ IntBits[64] \in Nat \ {0} /\ IntBits[96] \in Nat \ {0} /\ IntBits[128] \in Nat \ {0}
    BY WidthsAssumption
  <2> HIDE DEF w
  <2>3. IntBits[128] = w
    BY DEF w
  <2> QED BY <2>1, <2>2, <2>3, WidthsAssumption DEF BitsOf
<1> HIDE DEF w
<1>4. ASSUME NEW t \in SignedInts
      PROVE  MinOf(BINN_INT64) <= MinOf(t) /\ MaxOf(t) <= MaxOf(BINN_INT64) /\ MinOf(t) \in Int /\ MaxOf(t) \in Int
  <2> DEFINE b == BitsOf(t)
             p == 2 ^ (b - 1)
             m == 2 ^ (w - 1)
  <2>1. b \in Nat \ {0} /\ b <= w /\ w \in Nat
    BY <1>3 DEF Ints
  <2> HIDE DEF b
  <2>2. b - 1 \in Nat /\ w - 1 \in Nat /\ b - 1 <= w - 1
    BY <2>1
  <2>3. p \in Nat /\ m \in Nat /\ p <= m
    BY <2>2, PowerGrows, PowerAbove
  <2>4. MinOf(t) = -p /\ MaxOf(t) = p - 1 /\ MinOf(BINN_INT64) = -m /\ MaxOf(BINN_INT64) = m - 1
    BY <1>1, <1>2 DEF MinOf, MaxOf, b
  <2> HIDE DEF p, m
  <2> QED BY <2>3, <2>4
<1>5. ASSUME NEW t \in UnsignedInts
      PROVE  MinOf(t) = 0 /\ MaxOf(t) <= MaxOf(BINN_UINT64) /\ MaxOf(t) \in Int
  <2> DEFINE b == BitsOf(t)
             p == 2 ^ b
             m == 2 ^ w
  <2>1. b \in Nat \ {0} /\ b <= w /\ w \in Nat
    BY <1>3 DEF Ints
  <2> HIDE DEF b
  <2>2. p \in Nat /\ m \in Nat /\ p <= m
    BY <2>1, PowerGrows, PowerAbove
  <2>3. MinOf(t) = 0 /\ MaxOf(t) = p - 1 /\ MaxOf(BINN_UINT64) = m - 1
    BY <1>1, <1>2 DEF MinOf, MaxOf, b
  <2> HIDE DEF p, m
  <2> QED BY <2>2, <2>3
<1>6. MaxOf(BINN_INT64) <= MaxOf(BINN_UINT64) /\ MinOf(BINN_INT64) <= 0
  <2> DEFINE p == 2 ^ (w - 1)
             m == 2 ^ w
  <2>1. w \in Nat \ {0}
    BY <1>1, <1>2, <1>3 DEF Ints
  <2>2. w - 1 \in Nat /\ w \in Nat /\ w - 1 <= w
    BY <2>1
  <2>3. p \in Nat /\ m \in Nat /\ p <= m
    BY <2>2, PowerGrows, PowerAbove
  <2>4. MinOf(BINN_INT64) = -p /\ MaxOf(BINN_INT64) = p - 1 /\ MaxOf(BINN_UINT64) = m - 1
    BY <1>1, <1>2 DEF MinOf, MaxOf
  <2> HIDE DEF p, m
  <2> QED BY <2>3, <2>4
<1> QED BY <1>4, <1>5, <1>6

\* copy_int_value refuses exactly the numbers that the destination cannot hold.
LEMMA ConvertIs ==
    ASSUME NEW s \in Ints, NEW t \in Ints, NEW n \in Int, n \in MinOf(s)..MaxOf(s)
    PROVE  LET r == Convert(n, s, t)
           IN  /\ n \in MinOf(t)..MaxOf(t) => r = [ok |-> TRUE, n |-> n]
               /\ n \notin MinOf(t)..MaxOf(t) => r = [ok |-> FALSE, n |-> 0]
<1> DEFINE above == int_type(s) = "UNSIGNED" /\ int_type(t) = "SIGNED" /\ n > MaxOf(BINN_INT64)
           below == int_type(s) = "SIGNED" /\ int_type(t) = "UNSIGNED" /\ n < 0
           fits == ~above /\ ~below /\ InRange(t, n)
           in == n \in MinOf(t)..MaxOf(t)
<1>1. Convert(n, s, t) = [ok |-> fits, n |-> IF fits THEN n ELSE 0]
  BY DEF Convert, Checked
<1>2. /\ BINN_INT64 \in SignedInts /\ BINN_UINT64 \in UnsignedInts
      /\ \A x \in UnsignedInts : x \notin SignedInts
  BY DEF SignedInts, UnsignedInts, BINN_INT8, BINN_INT16, BINN_INT32, BINN_INT64, BINN_UINT8, BINN_UINT16,
         BINN_UINT32, BINN_UINT64
<1>3. \A x \in Ints : (int_type(x) = "SIGNED" <=> x \in SignedInts) /\ (int_type(x) = "UNSIGNED" <=> x \in UnsignedInts)
  BY <1>2 DEF Ints, int_type
<1> DEFINE l64 == MinOf(BINN_INT64)
           u64 == MaxOf(BINN_INT64)
           w64 == MaxOf(BINN_UINT64)
<1>4. /\ \A x \in SignedInts : l64 <= MinOf(x) /\ MaxOf(x) <= u64 /\ MinOf(x) \in Int /\ MaxOf(x) \in Int
      /\ \A x \in UnsignedInts : MinOf(x) = 0 /\ MaxOf(x) <= w64 /\ MaxOf(x) \in Int
      /\ u64 <= w64 /\ l64 <= 0
  BY WidestInts
<1>5. l64 \in Int /\ u64 \in Int /\ w64 \in Int /\ MinOf(BINN_UINT64) = 0
  BY <1>2, <1>4
<1> DEFINE a == MinOf(s)
           b == MaxOf(s)
           c == MinOf(t)
           d == MaxOf(t)
<1>6. a \in Int /\ b \in Int /\ c \in Int /\ d \in Int /\ a <= n /\ n <= b
  BY <1>4 DEF Ints
<1>7. in <=> c <= n /\ n <= d
  BY <1>6
<1>8. InRange(t, n) <=> t \in {BINN_INT64, BINN_UINT64} \/ in
  BY DEF InRange
<1> HIDE DEF in
<1>9. ASSUME t \in SignedInts PROVE fits <=> in
  <2>0. int_type(t) = "SIGNED" /\ int_type(t) # "UNSIGNED" /\ t # BINN_UINT64
    BY <1>2, <1>3, <1>9 DEF Ints
  <2>1. l64 <= c /\ d <= u64 /\ (t = BINN_INT64 => c = l64 /\ d = u64)
    BY <1>4, <1>9
  <2>2. ASSUME s \in SignedInts PROVE fits <=> in
    <3>1. int_type(s) # "UNSIGNED" /\ l64 <= a /\ b <= u64
      BY <1>2, <1>3, <1>4, <2>2 DEF Ints
    <3> HIDE DEF l64, u64, a, b, c, d
    <3>2. t = BINN_INT64 => in
      BY <1>5, <1>6, <1>7, <2>1, <3>1
    <3> QED BY <1>8, <2>0, <3>1, <3>2
  <2>3. ASSUME s \in UnsignedInts PROVE fits <=> in
    <3>1. int_type(s) = "UNSIGNED" /\ int_type(s) # "SIGNED" /\ a = 0
      BY <1>2, <1>3, <1>4, <2>3 DEF Ints
    <3>2. above <=> n > u64
      BY <2>0, <3>1
    <3>3. ~below
      BY <2>0
    <3> HIDE DEF l64, u64, a, b, c, d, above, below
    <3>4. in => ~above
      BY <1>5, <1>6, <1>7, <2>1, <3>2
    <3>5. t = BINN_INT64 /\ ~above => in
      BY <1>4, <1>5, <1>6, <1>7, <2>1, <3>1, <3>2
    <3>6. fits <=> in
      BY <1>8, <2>0, <3>3, <3>4, <3>5
    <3> QED BY <3>6 DEF above, below
  <2> QED BY <2>2, <2>3 DEF Ints
<1>10. ASSUME t \in UnsignedInts PROVE fits <=> in
  <2>0. int_type(t) = "UNSIGNED" /\ int_type(t) # "SIGNED" /\ t # BINN_INT64
    BY <1>2, <1>3, <1>10 DEF Ints
  <2>1. c = 0 /\ d <= w64 /\ (t = BINN_UINT64 => d = w64)
    BY <1>4, <1>10
  <2>2. ASSUME s \in SignedInts PROVE fits <=> in
    <3>1. int_type(s) = "SIGNED" /\ b <= u64
      BY <1>2, <1>3, <1>4, <2>2 DEF Ints
    <3>2. below <=> n < 0
      BY <2>0, <3>1
    <3>3. ~above
      BY <2>0
    <3> HIDE DEF l64, u64, w64, a, b, c, d, above, below
    <3>4. in => ~below
      BY <1>6, <1>7, <2>1, <3>2
    <3>5. t = BINN_UINT64 /\ ~below => in
      BY <1>4, <1>5, <1>6, <1>7, <2>1, <3>1, <3>2
    <3>6. fits <=> in
      BY <1>8, <2>0, <3>3, <3>4, <3>5
    <3> QED BY <3>6 DEF above, below
  <2>3. ASSUME s \in UnsignedInts PROVE fits <=> in
    <3>1. int_type(s) # "SIGNED" /\ a = 0 /\ b <= w64
      BY <1>2, <1>3, <1>4, <2>3 DEF Ints
    <3> HIDE DEF l64, u64, w64, a, b, c, d
    <3>2. t = BINN_UINT64 => in
      BY <1>5, <1>6, <1>7, <2>1, <3>1
    <3> QED BY <1>8, <2>0, <3>1, <3>2
  <2> QED BY <2>2, <2>3 DEF Ints
<1>11. fits <=> in
  BY <1>9, <1>10 DEF Ints
<1>12. fits \in BOOLEAN
  OBVIOUS
<1> HIDE DEF fits
<1>13. fits = TRUE => Convert(n, s, t) = [ok |-> TRUE, n |-> n]
  BY <1>1
<1>14. fits = FALSE => Convert(n, s, t) = [ok |-> FALSE, n |-> 0]
  BY <1>1
<1> QED BY <1>11, <1>12, <1>13, <1>14 DEF in

\* copy_value answers the number when the getter's type can hold it, and nothing else.
LEMMA CopyIs ==
    ASSUME NEW val, NEW e, Given(e), Exactly(val, e), NEW type \in GetterTypes
    PROVE  copy_value(val, type) = Converted(e, type)
<1> DEFINE s == e.type
           n == e.v.n
           k == val.type
           ok == type_family(s) = type_family(type) /\ (type \in Ints => n \in MinOf(type)..MaxOf(type))
           none == [ok |-> FALSE, n |-> 0]
           got == [ok |-> TRUE, n |-> n]
           raw == copy_raw_value(val.n, type)
<1>1. type_family(k) = type_family(s) /\ s \in DataTypes /\ val.ok = TRUE
  <2>1. k = s \/ (k \in Ints /\ s \in Ints)
    BY DEF Exactly
  <2> HIDE DEF k, s
  <2>2. type_family(k) = type_family(s)
    BY <2>1, FamilyTable
  <2> QED BY <2>2 DEF Given, Exactly, s
<1>2. type_family(type) # "BINN"
  <2>1. type \in Ints \/ type \in {BINN_FLOAT32, BINN_FLOAT64} \/ type = BINN_BOOL \/ type = BINN_NULL
    BY DEF GetterTypes
  <2> QED BY <2>1, FamilyTable
<1>3. /\ ok => Converted(e, type) = got
      /\ ~ok => Converted(e, type) = none
  <2>1. Converted(e, type) = [ok |-> ok, n |-> IF ok /\ type_family(type) # "BINN" THEN n ELSE 0]
    BY DEF Converted
  <2>2. ok \in BOOLEAN
    OBVIOUS
  <2> HIDE DEF ok
  <2>3. (ok <=> ok = TRUE) /\ (~ok <=> ok = FALSE)
    BY <2>2
  <2> QED BY <1>2, <2>1, <2>3
<1>4. CASE type_family(s) # type_family(type)
  <2>1. copy_value(val, type) = none
    BY <1>1, <1>4 DEF copy_value
  <2>2. ~ok
    BY <1>4
  <2> QED BY <1>3, <2>1, <2>2
<1>5. CASE type_family(s) = type_family(type) /\ type \in Ints
  <2>1. type_family(type) = "INT" /\ type_family(s) = "INT"
    BY <1>5, FamilyTable
  <2>2. s \in Ints
    <3>1. s \in Ints \/ s \in Containers \/ s \in {BINN_STRING, BINN_HTML} \/ s \in {BINN_BLOB, BINN_JPEG}
          \/ s \in {BINN_FLOAT32, BINN_FLOAT64} \/ s = BINN_BOOL \/ s = BINN_NULL
      BY <1>1 DEF DataTypes
    <3> HIDE DEF s
    <3> QED BY <2>1, <3>1, FamilyTable
  <2>3. k \in Ints /\ ReadInt(k, val.n) = n /\ n \in MinOf(k)..MaxOf(k) /\ n \in Int
    <3>1. k \in Ints /\ ReadInt(k, val.n) = n /\ n \in MinOf(k)..MaxOf(k)
      BY <2>2 DEF Exactly
    <3> QED BY <3>1
  <2>4. ok <=> n \in MinOf(type)..MaxOf(type)
    BY <1>5
  <2> HIDE DEF ok, got, none, raw
  <2>5. CASE k = type
    <3>1. copy_value(val, type) = raw
      BY <1>1, <2>1, <2>5 DEF copy_value, raw
    <3> DEFINE store == binn_get_read_storage(type)
    <3>2. store \in {STORAGE_BYTE, STORAGE_WORD, STORAGE_DWORD, STORAGE_QWORD}
      <4>1. type \notin {BINN_BOOL, BINN_TRUE, BINN_FALSE}
        BY <1>5, TypesApart
      <4> QED BY <1>5, <4>1, IntStorage DEF binn_get_read_storage
    <3> HIDE DEF store
    <3>3. store # -1 /\ store # STORAGE_NOBYTES
      BY <3>2 DEF STORAGE_BYTE, STORAGE_WORD, STORAGE_DWORD, STORAGE_QWORD, STORAGE_NOBYTES
    <3> DEFINE b == store # -1
    <3>4. raw = [ok |-> b, n |-> ReadInt(type, val.n)]
      BY <1>5, <3>3 DEF copy_raw_value, raw, store
    <3>5. b = TRUE
      BY <3>3
    <3> HIDE DEF b
    <3>6. raw = got
      BY <2>3, <2>5, <3>4, <3>5 DEF got
    <3>7. ok
      BY <2>3, <2>4, <2>5
    <3> QED BY <1>3, <3>1, <3>6, <3>7
  <2>6. CASE k # type
    <3>1. copy_value(val, type) = copy_int_value(val.n, k, type)
      BY <1>1, <2>1, <2>6 DEF copy_value
    <3>2. copy_value(val, type) = Convert(n, k, type)
      BY <2>3, <3>1 DEF copy_int_value
    <3> HIDE DEF k, n
    <3>3. /\ n \in MinOf(type)..MaxOf(type) => Convert(n, k, type) = got
          /\ n \notin MinOf(type)..MaxOf(type) => Convert(n, k, type) = none
      BY <1>5, <2>3, ConvertIs DEF got, none
    <3> QED BY <1>3, <2>4, <3>2, <3>3
  <2> QED BY <2>5, <2>6
<1>6. CASE type_family(s) = type_family(type) /\ type \notin Ints
  <2>1. type = BINN_BOOL \/ type = BINN_NULL
    BY <1>6 DEF GetterTypes
  <2>2. type_family(s) \in {"BOOL", "NULL"} /\ (type = BINN_NULL <=> type_family(s) = "NULL")
    BY <1>6, <2>1, FamilyTable, TypesApart
  <2>3. s \in {BINN_NULL, BINN_BOOL} /\ (type_family(s) = "NULL" => s = BINN_NULL)
    <3>1. s \in Ints \/ s \in Containers \/ s \in {BINN_STRING, BINN_HTML} \/ s \in {BINN_BLOB, BINN_JPEG}
          \/ s \in {BINN_FLOAT32, BINN_FLOAT64} \/ s = BINN_BOOL \/ s = BINN_NULL
      BY <1>1 DEF DataTypes
    <3> HIDE DEF s
    <3> QED BY <2>2, <3>1, FamilyTable
  <2>4. val.n = n /\ (type = BINN_NULL => n = 0)
    BY <2>2, <2>3 DEF Exactly, Given, Acceptable
  <2>5. ok
    BY <1>6
  <2>6. copy_value(val, type) = raw
    <3>1. /\ type_family(val.type) # "INT" /\ type_family(val.type) # "FLOAT"
          /\ type_family(val.type) = type_family(type) /\ val.ok
      BY <1>1, <1>6, <2>2
    <3> QED BY <3>1 DEF copy_value
  <2> DEFINE store == binn_get_read_storage(type)
  <2>7. store \in {STORAGE_NOBYTES, STORAGE_DWORD} /\ (store = STORAGE_NOBYTES => type = BINN_NULL)
    <3>1. STORAGE_DWORD # STORAGE_NOBYTES
      BY DEF STORAGE_DWORD, STORAGE_NOBYTES
    <3>3. CASE type = BINN_BOOL
      BY <3>1, <3>3 DEF binn_get_read_storage
    <3>4. CASE type = BINN_NULL
      <4>1. type \notin {BINN_BOOL, BINN_TRUE, BINN_FALSE}
        BY <3>4, TypesApart
      <4> QED BY <3>1, <3>4, <4>1, StorageTable DEF binn_get_read_storage
    <3> QED BY <2>1, <3>3, <3>4
  <2> HIDE DEF store
  <2>8. store # -1
    BY <2>7 DEF STORAGE_DWORD, STORAGE_NOBYTES
  <2> DEFINE b == store # -1
             x == IF store = STORAGE_NOBYTES THEN 0 ELSE val.n
  <2>9. raw = [ok |-> b, n |-> x]
    BY <1>6 DEF copy_raw_value, store
  <2>10. b = TRUE /\ x = n
    BY <2>4, <2>7, <2>8
  <2> HIDE DEF b, x, raw
  <2>11. raw = got
    BY <2>9, <2>10
  <2> QED BY <1>3, <2>5, <2>6, <2>11
<1> QED BY <1>4, <1>5, <1>6
-----------------------------------------------------------------------------
(* Buffers that grow and that are copied.                                  *)

\* Entries that are copied together lie in the copy as they did.
LEMMA LayoutCopied ==
    ASSUME NEW mem, NEW ctype, NEW es, NEW d \in Nat, NEW lo \in Nat, NEW hi \in Nat, NEW more,
           Copied(mem, d, more, lo, hi), NEW pos, Written(mem, ctype, es, d + lo, d + hi, pos),
           \A o \in DOMAIN more : o \in Nat
    PROVE  Written(more, ctype, es, lo, hi, [i \in 0..Len(es) |-> pos[i] - d]) /\ lo <= hi
<1> DEFINE n == Len(es)
           at == [i \in 0..n |-> pos[i] - d]
           first == d + lo
           last == d + hi
<1>1. /\ ctype \in Containers /\ n \in Nat /\ \A i \in 1..n : EntryGiven(ctype, es[i])
      /\ Layout(mem, ctype, es, first, last, pos)
  BY DEF Written
<1>2. \A i \in 1..n : KeyFits(ctype, es[i].key)
  BY <1>1 DEF EntryGiven
<1> HIDE DEF first, last
<1>3. \A i \in 0..n : pos[i] <= last /\ first <= pos[i]
  BY <1>1, <1>2, PositionsGrow
<1>4. pos[0] = first /\ pos[n] = last /\ \A i \in 0..n : pos[i] \in Nat
  BY <1>1 DEF Layout
<1> HIDE DEF n
<1>5. ASSUME NEW i \in 0..n PROVE at[i] \in Nat /\ lo <= at[i] /\ at[i] <= hi /\ d + at[i] = pos[i]
  <2>1. pos[i] \in Nat /\ pos[i] <= d + hi /\ d + lo <= pos[i] /\ at[i] = pos[i] - d
    BY <1>3, <1>4 DEF first, last
  <2> HIDE DEF at
  <2> QED BY <2>1
<1>6. at[0] = lo /\ at[n] = hi
  <2>1. 0 \in 0..n /\ n \in 0..n
    BY <1>1
  <2>2. at[0] = pos[0] - d /\ at[n] = pos[n] - d
    BY <2>1
  <2> HIDE DEF at
  <2> QED BY <1>4, <2>2 DEF first, last
<1>7. lo <= hi
  <2>1. 0 \in 0..n
    BY <1>1
  <2> HIDE DEF at
  <2> QED BY <1>5, <1>6, <2>1
<1> HIDE DEF at
<1>8. ASSUME NEW i \in 1..n PROVE EntryAt(more, ctype, es[i], at[i - 1], at[i])
  <2> DEFINE p == at[i - 1]
             q == at[i]
             key == es[i].key
             t == AddedType(es[i].type, es[i].v)
             v == es[i].v
  <2>1. i \in 0..n /\ i - 1 \in 0..n
    BY <1>1
  <2>2. p \in Nat /\ lo <= p /\ q \in Nat /\ q <= hi /\ d + p = pos[i - 1] /\ d + q = pos[i]
    BY <1>5, <2>1
  <2>3. EntryLaid(mem, ctype, key, t, v, pos[i - 1], pos[i])
    BY <1>1 DEF Layout, EntryAt, n
  <2>4. KeyFits(ctype, key)
    BY <1>2
  <2> HIDE DEF p, q, key, t, v
  <2>5. EntryLaid(mem, ctype, key, t, v, d + p, d + q)
    BY <2>2, <2>3
  <2>6. EntryLaid(more, ctype, key, t, v, p, q)
    BY <1>1, <2>2, <2>4, <2>5, EntryCopied
  <2> QED BY <2>6 DEF EntryAt, p, q, key, t, v
<1>9. Layout(more, ctype, es, lo, hi, at)
  <2>1. \A i \in 0..n : at[i] \in Nat
    BY <1>5
  <2> QED BY <1>6, <1>8, <2>1 DEF Layout, n
<1> QED BY <1>1, <1>7, <1>9 DEF Written, n, at

\* One entry more, behind the others, which stay where they were.
LEMMA LayoutExtended ==
    ASSUME NEW mem, NEW ctype, NEW es, IsSeq(es), NEW first \in Nat, NEW last \in Nat, NEW pos,
           Written(mem, ctype, es, first, last, pos),
           NEW more, Keeps(mem, more, last), \A o \in DOMAIN more : o \in Nat,
           NEW x, EntryGiven(ctype, x), NEW end \in Nat, EntryAt(more, ctype, x, last, end)
    PROVE  LET at == [i \in 0..Len(Append(es, x)) |-> IF i <= Len(es) THEN pos[i] ELSE end]
           IN  Written(more, ctype, Append(es, x), first, end, at)
<1> DEFINE n == Len(es)
           fs == Append(es, x)
           at == [i \in 0..Len(fs) |-> IF i <= n THEN pos[i] ELSE end]
<1>1. n \in Nat /\ Len(fs) = n + 1 /\ (\A i \in 1..n : fs[i] = es[i]) /\ fs[n + 1] = x
  BY SeqLen, SeqAppend
<1>2. /\ ctype \in Containers /\ (\A i \in 1..n : EntryGiven(ctype, es[i])) /\ Layout(mem, ctype, es, first, last, pos)
  BY DEF Written
<1>3. \A i \in 1..n : KeyFits(ctype, es[i].key)
  BY <1>2 DEF EntryGiven
<1>4. \A i \in 0..n : pos[i] <= last
  BY <1>1, <1>2, <1>3, PositionsGrow
<1>5. pos[0] = first /\ pos[n] = last /\ \A i \in 0..n : pos[i] \in Nat
  BY <1>2 DEF Layout
<1>6. \A i \in 1..n : EntryAt(mem, ctype, es[i], pos[i - 1], pos[i])
  BY <1>2 DEF Layout
<1> HIDE DEF n, fs
<1>7. (\A i \in 0..n : at[i] = pos[i]) /\ at[n + 1] = end
  <2>1. n + 1 \in 0..Len(fs) /\ ~(n + 1 <= n)
    BY <1>1
  <2>2. \A i \in 0..n : i \in 0..Len(fs) /\ i <= n
    BY <1>1
  <2> QED BY <2>1, <2>2
<1> HIDE DEF at
<1>8. Copied(mem, 0, more, 0, last)
  <2>1. ASSUME NEW o \in 0..(last - 1)
        PROVE  (o \in DOMAIN more <=> 0 + o \in DOMAIN mem) /\ (0 + o \in DOMAIN mem => more[o] = mem[0 + o])
    <3>1. 0 + o = o
      OBVIOUS
    <3>2. (o \in DOMAIN more <=> o \in DOMAIN mem) /\ (o \in DOMAIN mem => more[o] = mem[o])
      BY DEF Keeps
    <3> QED BY <3>1, <3>2
  <2> QED BY <2>1 DEF Copied
<1>9. ASSUME NEW i \in 1..(n + 1) PROVE EntryAt(more, ctype, fs[i], at[i - 1], at[i]) /\ EntryGiven(ctype, fs[i])
  <2>1. CASE i = n + 1
    <3>1. i - 1 = n /\ n \in 0..n
      BY <1>1, <2>1
    <3>2. at[i - 1] = last /\ at[i] = end /\ fs[i] = x
      BY <1>1, <1>5, <1>7, <2>1, <3>1
    <3> QED BY <3>2
  <2>2. CASE i # n + 1
    <3>1. i \in 1..n /\ i \in 0..n /\ i - 1 \in 0..n
      BY <1>1, <2>2
    <3>2. at[i - 1] = pos[i - 1] /\ at[i] = pos[i] /\ fs[i] = es[i]
      BY <1>1, <1>7, <3>1
    <3> DEFINE p == pos[i - 1]
               q == pos[i]
               key == es[i].key
               t == AddedType(es[i].type, es[i].v)
               v == es[i].v
    <3>3. p \in Nat /\ q \in Nat /\ q <= last
      BY <1>4, <1>5, <3>1
    <3>4. EntryLaid(mem, ctype, key, t, v, p, q) /\ KeyFits(ctype, key)
      BY <1>3, <1>6, <3>1 DEF EntryAt
    <3> HIDE DEF p, q, key, t, v
    <3>5. 0 + p = p /\ 0 + q = q /\ 0 <= p /\ 0 \in Nat
      BY <3>3
    <3>6. EntryLaid(mem, ctype, key, t, v, 0 + p, 0 + q)
      BY <3>4, <3>5
    <3>7. EntryLaid(more, ctype, key, t, v, p, q)
      BY <1>2, <1>8, <3>3, <3>4, <3>5, <3>6, EntryCopied
    <3>8. EntryAt(more, ctype, es[i], pos[i - 1], pos[i])
      BY <3>7 DEF EntryAt, p, q, key, t, v
    <3> QED BY <1>2, <3>1, <3>2, <3>8
  <2> QED BY <2>1, <2>2
<1>10. ASSUME NEW i \in 0..(n + 1) PROVE at[i] \in Nat
  <2>1. i \in 0..n \/ i = n + 1
    BY <1>1
  <2> QED BY <1>5, <1>7, <2>1
<1>11. Layout(more, ctype, fs, first, end, at)
  <2>1. 0 \in 0..n
    BY <1>1
  <2>2. at[0] = first /\ at[Len(fs)] = end
    BY <1>1, <1>5, <1>7, <2>1
  <2> QED BY <1>1, <1>9, <1>10, <2>2 DEF Layout
<1>12. Len(fs) \in Nat /\ \A i \in 1..Len(fs) : EntryGiven(ctype, fs[i])
  BY <1>1, <1>9
<1>13. Written(more, ctype, fs, first, end, at)
  BY <1>2, <1>11, <1>12 DEF Written
<1> QED BY <1>13 DEF at, fs, n

\* The first bytes of a packed buffer, its own or more, are packed.
LEMMA SlicePacked ==
    ASSUME NEW mem, NEW ctype, NEW es, NEW hs \in Nat, NEW size \in Nat, NEW pos, Packed(mem, ctype, es, hs, size, pos),
           NEW n \in Nat, size <= n
    PROVE  \E at : Packed(Slice(mem, 0, n), ctype, es, hs, size, at)
<1> DEFINE m == Slice(mem, 0, n)
<1>1. /\ Written(mem, ctype, es, hs, size, pos) /\ size >= MIN_BINN_SIZE
      /\ HeaderIn(mem, 0, ctype, size, Len(es), hs) /\ \A o \in DOMAIN mem : o \in Nat
  BY DEF Packed, Written
<1>2. \A o : /\ o \in DOMAIN m <=> o \in 0..(n - 1) /\ 0 + o \in DOMAIN mem
             /\ o \in DOMAIN m => m[o] = mem[0 + o]
  BY <1>1, SliceAt
<1> HIDE DEF m
<1>3. \A o \in DOMAIN m : o \in Nat
  BY <1>2
<1>4. Copied(mem, 0, m, hs, size)
  <2>1. \A o \in hs..(size - 1) : o \in 0..(n - 1)
    OBVIOUS
  <2> QED BY <1>2, <2>1 DEF Copied
<1>5. 0 + hs = hs /\ 0 + size = size /\ 0 \in Nat
  OBVIOUS
<1>6. Written(mem, ctype, es, 0 + hs, 0 + size, pos)
  BY <1>1, <1>5
<1> DEFINE at == [i \in 0..Len(es) |-> pos[i] - 0]
<1>7. Written(m, ctype, es, hs, size, at) /\ hs <= size
  BY <1>3, <1>4, <1>5, <1>6, LayoutCopied
<1> HIDE DEF at
<1>8. HeaderIn(m, 0, ctype, size, Len(es), hs)
  <2>1. ASSUME NEW o \in 0..(hs - 1), 0 + o \in DOMAIN mem PROVE 0 + o \in DOMAIN m /\ m[0 + o] = mem[0 + o]
    <3>1. o \in 0..(n - 1) /\ 0 + o = o
      BY <1>7
    <3> QED BY <1>2, <2>1, <3>1
  <2> QED BY <1>1, <1>5, <2>1, HeaderCopied
<1>9. Packed(m, ctype, es, hs, size, at)
  BY <1>1, <1>7, <1>8 DEF Packed
<1> QED BY <1>9 DEF m

\* The bytes behind the pointer of a saved structure are packed.
LEMMA StructPacked ==
    ASSUME NEW s, Struct(s), Saved(s), s.used_size <= s.alloc_size, s.ptr.block = s.pbuf,
           NEW es, s.count = Len(es), NEW pos, Written(s.mem, s.type, es, MAX_BINN_HEADER, s.used_size, pos)
    PROVE  \E hs \in Nat : \E at : Packed(BufferOf(s), s.type, es, hs, s.size, at)
<1> DEFINE m == BufferOf(s)
           off == s.ptr.off
           hs == MAX_BINN_HEADER - off
           n == s.size
           a == s.alloc_size
           u == s.used_size
           mem == s.mem
<1>1. m = Slice(mem, off, a)
  BY DEF BufferOf
<1>2. /\ n \in Nat /\ n >= MIN_BINN_SIZE /\ off \in {0, 3, 6} /\ off + n = u
      /\ HeaderIn(mem, off, s.type, n, Len(es), hs)
  BY DEF Saved
<1>3. u \in Nat /\ a \in Nat /\ u <= a /\ \A o \in DOMAIN mem : o \in Nat
  BY DEF Struct, SplitAt
<1>4. Written(mem, s.type, es, MAX_BINN_HEADER, u, pos)
  OBVIOUS
<1> HIDE DEF m, off, n, a, u, mem
<1>5. off \in Nat /\ hs \in Nat /\ off + hs = MAX_BINN_HEADER /\ n <= a
  BY <1>2, <1>3 DEF MAX_BINN_HEADER
<1> HIDE DEF hs
<1>6. \A o : /\ o \in DOMAIN m <=> o \in 0..(a - 1) /\ off + o \in DOMAIN mem
             /\ o \in DOMAIN m => m[o] = mem[off + o]
  BY <1>1, <1>3, <1>5, SliceAt
<1>7. \A o \in DOMAIN m : o \in Nat
  BY <1>6
<1>8. Copied(mem, off, m, hs, n)
  <2>1. \A o \in hs..(n - 1) : o \in 0..(a - 1)
    BY <1>2, <1>3, <1>5
  <2> QED BY <1>6, <2>1 DEF Copied
<1>9. Written(mem, s.type, es, off + hs, off + n, pos)
  BY <1>2, <1>4, <1>5
<1> DEFINE at == [i \in 0..Len(es) |-> pos[i] - off]
<1>10. Written(m, s.type, es, hs, n, at) /\ hs <= n
  BY <1>2, <1>5, <1>7, <1>8, <1>9, LayoutCopied
<1> HIDE DEF at
<1>11. HeaderIn(m, 0, s.type, n, Len(es), hs)
  <2>1. ASSUME NEW o \in 0..(hs - 1), off + o \in DOMAIN mem PROVE 0 + o \in DOMAIN m /\ m[0 + o] = mem[off + o]
    <3>1. o \in 0..(a - 1) /\ 0 + o = o
      BY <1>2, <1>3, <1>5, <1>10
    <3> QED BY <1>6, <2>1, <3>1
  <2>2. 0 \in Nat
    OBVIOUS
  <2> QED BY <1>2, <1>5, <2>1, <2>2, HeaderCopied
<1>12. Packed(m, s.type, es, hs, n, at)
  BY <1>2, <1>10, <1>11 DEF Packed
<1>13. \E k \in Nat : \E x : Packed(m, s.type, es, k, n, x)
  BY <1>5, <1>12
<1> QED BY <1>13 DEF m, n

-----------------------------------------------------------------------------
(* What an iterator returns.                                               *)

IterFields == {"ok", "block", "type", "pnext", "plimit", "count", "current"}

\* An iterator over the first c entries that stands behind the k-th.
StandsAt(it, ctype, pos, c, k) ==
  /\ DOMAIN it = IterFields /\ it.ok = TRUE /\ it.type = ctype /\ it.count = c /\ it.plimit = pos[c] - 1
  /\ it.current = k /\ it.pnext = pos[k]

\* A step that returned the k-th entry x, and one that returned nothing.
StepTo(r, x, ctype, pos, c, k) ==
  r.value.ok = TRUE /\ Exactly(r.value, x) /\ r.key = x.key /\ StandsAt(r.iter, ctype, pos, c, k)
StepNone(r, it) == r.iter = it /\ r.value.ok = FALSE

\* It returns the next entry, and nothing when there is none.
LEMMA NextReads ==
    ASSUME NEW mem, NEW ctype, NEW es, NEW first, NEW last, NEW pos, Written(mem, ctype, es, first, last, pos),
           NEW it, NEW c \in 0..Len(es), NEW k \in 0..c, StandsAt(it, ctype, pos, c, k)
    PROVE  LET r == binn_next(mem, it)
           IN  (k < c => StepTo(r, es[k + 1], ctype, pos, c, k + 1)) /\ (c <= k => StepNone(r, it))
<1> DEFINE r == binn_next(mem, it)
           n == Len(es)
           v == ValuePos(mem, ctype, pos[k])
<1>1. n \in Nat /\ ctype \in Containers /\ \A i \in 0..n : pos[i] \in Nat
  BY DEF Written, Layout
<1>2. \A i \in 0..n : \A j \in i..n : pos[i] <= pos[j]
  <2>1. Layout(mem, ctype, es, first, last, pos) /\ \A i \in 1..Len(es) : KeyFits(ctype, es[i].key)
    BY DEF Written, EntryGiven
  <2> QED BY <1>1, <2>1, PositionsGrow
<1>3. it.ok = TRUE /\ it.type = ctype /\ it.count = c /\ it.plimit = pos[c] - 1 /\ it.current = k /\ it.pnext = pos[k] /\ DOMAIN it = IterFields
  BY DEF StandsAt
<1> HIDE DEF r, n
<1>4. c \in Nat /\ c <= n /\ k \in Nat /\ k <= c /\ pos[c] \in Nat /\ pos[k] \in Nat
  BY <1>1 DEF n
<1>5. ASSUME k < c
      PROVE  StepTo(r, es[k + 1], ctype, pos, c, k + 1)
  <2>1. k + 1 \in 1..n /\ (k + 1) - 1 = k /\ k + 1 <= c
    BY <1>1, <1>4, <1>5
  <2> DEFINE i == k + 1
  <2>2. i \in 1..n /\ i - 1 = k /\ i \in 0..n /\ c \in i..n
    BY <1>1, <1>4, <2>1
  <2> HIDE DEF i
  <2>3. /\ pos[i] \in Nat /\ v \in Nat /\ pos[k] <= v /\ v < pos[i]
        /\ AdvanceDataPos(mem, v) = pos[i] /\ Exactly(GetValue(mem, v), es[i])
        /\ ctype # BINN_LIST => KeyAt(mem, ctype, pos[k]) = es[i].key
    <3> DEFINE w == ValuePos(mem, ctype, pos[i - 1])
    <3>1. i \in 1..Len(es)
      BY <2>2 DEF n
    <3>2. /\ pos[i] \in Nat /\ w \in Nat /\ pos[i - 1] <= w /\ w < pos[i]
          /\ AdvanceDataPos(mem, w) = pos[i] /\ Exactly(GetValue(mem, w), es[i])
          /\ ctype # BINN_LIST => KeyAt(mem, ctype, pos[i - 1]) = es[i].key
      BY <3>1, EntryThere
    <3>3. pos[i - 1] = pos[k] /\ w = v
      BY <2>2
    <3> HIDE DEF w, v
    <3> QED BY <3>2, <3>3
  <2>4. ctype = BINN_LIST => es[i].key = NIL
    BY <2>2 DEF Written, EntryGiven, n
  <2>5. pos[i] <= pos[c]
    BY <1>2, <2>2
  <2> HIDE DEF v
  <2>6. pos[k] <= pos[c] - 1 /\ v <= pos[c] - 1 /\ pos[k] # NIL /\ k # c /\ ~(k > c)
    BY <1>4, <1>5, <2>3, <2>5 DEF NIL
  <2>7. Inside(it) /\ ~(it.current > it.count) /\ ~(it.current = it.count) /\ ~(v > it.plimit)
    BY <1>3, <1>4, <2>3, <2>6 DEF Inside
  <2>8. r = Step(mem, it, v, AdvanceDataPos(mem, v))
    BY <1>3, <2>7 DEF binn_next, r, v
  <2> DEFINE j == [it EXCEPT !.current = @ + 1, !.pnext = pos[i]]
  <2>9. r.iter = j /\ r.value = GetValue(mem, v) /\ r.key = es[i].key
    BY <1>3, <2>3, <2>4, <2>8 DEF Step
  <2>10. /\ DOMAIN j = IterFields /\ j.type = it.type /\ j.plimit = it.plimit /\ j.current = k + 1 /\ j.pnext = pos[i]
         /\ j.ok = TRUE /\ j.count = c
    BY <1>3 DEF IterFields
  <2> HIDE DEF j
  <2>11. StandsAt(j, ctype, pos, c, i)
    BY <1>3, <2>10 DEF StandsAt, i
  <2>12. r.value.ok = TRUE
    BY <2>3, <2>9 DEF Exactly
  <2> QED BY <2>3, <2>9, <2>10, <2>11, <2>12 DEF i, StepTo
<1>6. ASSUME c <= k PROVE StepNone(r, it)
  <2>1. ~(pos[k] <= pos[c] - 1)
    BY <1>4, <1>6
  <2>2. ~Inside(it)
    BY <1>3, <2>1 DEF Inside
  <2>3. r = NoStep(it)
    BY <2>2 DEF binn_next, r
  <2>4. NoValue.ok = FALSE
    BY DEF NoValue, ValueIs
  <2> QED BY <2>3, <2>4 DEF NoStep, StepNone
<1> QED BY <1>5, <1>6 DEF r
-----------------------------------------------------------------------------
(* What setters accept, and what they leave behind.                       *)

\* AddValue refuses no value that is there, of no size below zero, and no container.
LEMMA AddValueAccepts ==
    ASSUME NEW item, NEW type, NEW v, "size" \in DOMAIN v, v.null = FALSE, v.size \in Nat,
           KindStorage(type, v) \in StorageTypes \ {STORAGE_CONTAINER}
    PROVE  AddValue(item, type, v).ok = TRUE
<1> DEFINE storage == KindStorage(type, v)
           t == Kind(type, v)
           Stored(w, size) == Store(item, t, storage, w, size)
<1>1. storage # -1 /\ storage # STORAGE_CONTAINER
  BY DEF StorageTypes, STORAGE_NOBYTES, STORAGE_BYTE, STORAGE_WORD, STORAGE_DWORD, STORAGE_QWORD, STORAGE_STRING,
         STORAGE_BLOB, STORAGE_CONTAINER
<1>2. ASSUME NEW w, w.size = v.size, NEW size PROVE Stored(w, size).ok = TRUE
  <2> HIDE DEF storage, t
  <2>1. ~(w.size < 0)
    BY <1>2
  <2> DEFINE a == Write(CheckAllocation(item, ArgSize(storage, size)), t, storage, w, size)
  <2>2. Stored(w, size) = Accepted(a)
    BY <1>1, <2>1 DEF Store
  <2> HIDE DEF a
  <2> QED BY <2>2 DEF Accepted
<1>3. CASE type_family(type) = "INT"
  <2> DEFINE w == [v EXCEPT !.n = v.n % 2 ^ BitsOf(t)]
  <2>1. t = compress_int(type, v.n) /\ storage = binn_get_write_storage(t)
    BY <1>3, Zenon DEF Kind, KindStorage
  <2>2. AddValue(item, type, v) = Stored(w, v.size)
    BY <1>3, <2>1, Zenon DEF AddValue, StoreInt
  <2>3. w.size = v.size
    <3> DEFINE x == v.n % 2 ^ BitsOf(t)
    <3> HIDE DEF x
    <3>1. [v EXCEPT !.n = x].size = v.size
      OBVIOUS
    <3> QED BY <3>1 DEF x
  <2> HIDE DEF w, Stored
  <2> QED BY <1>2, <2>2, <2>3
<1>4. CASE type_family(type) # "INT"
  <2>1. t = type /\ storage = binn_get_type_info(type)
    BY <1>4, Zenon DEF Kind, KindStorage
  <2>2. AddValue(item, type, v)
        = Stored(v, IF storage = STORAGE_STRING /\ v.size = 0 /\ ~v.null THEN StrLen[v.n] ELSE v.size)
    BY <1>4, <2>1, Zenon DEF AddValue, StoreOther
  <2> HIDE DEF Stored
  <2> QED BY <1>2, <2>2
<1> QED BY <1>3, <1>4

\* A setter refuses no such value for a new key that is not too long.
LEMMA SetterAccepts ==
    ASSUME NEW item, item.type = BINN_OBJECT, item.writable = TRUE, NEW key, NotThere(item, key),
           NEW type, type # BINN_BOOL, NEW v, "size" \in DOMAIN v, v.null = FALSE, v.size \in Nat,
           KindStorage(type, v) \in StorageTypes \ {STORAGE_CONTAINER}, Len(KeyText[key]) \in Nat
    PROVE  binn_add_value(item, key, type, v).ok = TRUE
<1> DEFINE r == binn_add_value(item, key, type, v)
           w == 1 + Len(KeyText[key])
           h == AppendFields(CheckAllocation(item, w), KeyFields(key))
           a == AddValue(h, type, v)
           c == a.item.count + 1
           more == [a.item EXCEPT !.count = c]
           s == SetEntry(item, KeyFields(key), w, type, v)
<1>1. a.ok = TRUE
  <2> HIDE DEF h
  <2> QED BY AddValueAccepts
<1>2. s = Accepted(more)
  BY <1>1 DEF SetEntry, Started
<1>3. s.ok = TRUE
  <2> HIDE DEF s, more
  <2> QED BY <1>2 DEF Accepted
<1>4. GetWriteConvertedData(type, v).ok = TRUE /\ GetWriteConvertedData(type, v).type = type
  BY DEF GetWriteConvertedData
<1>5. MaxKeyLen \in Nat
  BY FormatAssumption
<1>6. /\ SearchForKey(item.mem, MAX_BINN_HEADER, item.used_size, item.count, key) = NIL
      /\ Len(KeyText[key]) <= MaxKeyLen
  BY DEF NotThere
<1> HIDE DEF s
<1>7. binn_object_set_raw(item, key, type, v) = s
  <2> DEFINE len == Len(KeyText[key])
  <2>1. ~(len > MaxKeyLen)
    BY <1>5, <1>6
  <2> QED BY <1>6, <2>1, Zenon DEF binn_object_set_raw, s
<1>8. r = binn_object_set_raw(item, key, type, v)
  BY <1>4, ContainersApart, Zenon DEF binn_add_value
<1> QED BY <1>3, <1>7, <1>8

\* A new structure.
LEMMA Created ==
    ASSUME NEW type
    PROVE  LET r == binn_create(type)
           IN  /\ Struct(r) /\ r.type = type /\ r.writable = TRUE /\ r.dirty = TRUE
               /\ r.used_size <= r.alloc_size /\ r.ptr.block \in Nat /\ r.ptr.block <= r.pbuf /\ r.count = 0
               /\ r.alloc_size \in Nat /\ r.used_size \in Nat /\ DOMAIN r.mem = {}
<1> DEFINE r == binn_create(type)
           p == [block |-> 0, off |-> 0]
           m == <<>>
<1>1. r = [type |-> type, writable |-> TRUE, dirty |-> TRUE, pbuf |-> 1, alloc_size |-> CHUNK_SIZE,
           used_size |-> MAX_BINN_HEADER, count |-> 0, size |-> 0, ptr |-> p, mem |-> m]
  BY DEF binn_create
<1>2. p.block = 0 /\ DOMAIN m = {}
  OBVIOUS
<1> HIDE DEF p, m, r
<1>3. /\ DOMAIN r = ItemFields /\ r.type = type /\ r.writable = TRUE /\ r.dirty = TRUE /\ r.pbuf = 1
      /\ r.alloc_size = CHUNK_SIZE /\ r.used_size = MAX_BINN_HEADER /\ r.count = 0 /\ r.ptr = p /\ r.mem = m
  BY <1>1 DEF ItemFields
<1>4. CHUNK_SIZE \in Nat \ {0} /\ MAX_BINN_HEADER <= CHUNK_SIZE /\ MAX_BINN_HEADER \in Nat
  BY FormatAssumption DEF MAX_BINN_HEADER
<1>5. SplitAt(r.mem, r.used_size)
  BY <1>2, <1>3 DEF SplitAt
<1> QED BY <1>2, <1>3, <1>4, <1>5 DEF Struct, r

\* What callers pass can be stored.
LEMMA GivenFits ==
    ASSUME NEW e, Given(e), NEW ctype, KeyFits(ctype, e.key)
    PROVE  EntryFits(ctype, e.key, AddedType(e.type, e.v), e.v)
<1> DEFINE t == AddedType(e.type, e.v)
           v == e.v
<1>1. e.type \in DataTypes /\ Acceptable(e.type, v)
  BY DEF Given
<1>2. t \in DataTypes \cup {BINN_TRUE, BINN_FALSE} /\ (t \in Ints \cup Containers => t = e.type)
      /\ (t \in {BINN_STRING, BINN_HTML, BINN_BLOB, BINN_JPEG} => t = e.type)
  <2>1. t = e.type \/ t = BINN_TRUE \/ t = BINN_FALSE
    BY DEF AddedType, GetWriteConvertedData
  <2>2. /\ BINN_TRUE \notin Ints /\ BINN_TRUE \notin Containers /\ BINN_TRUE \notin {BINN_STRING, BINN_HTML, BINN_BLOB, BINN_JPEG}
        /\ BINN_FALSE \notin Ints /\ BINN_FALSE \notin Containers /\ BINN_FALSE \notin {BINN_STRING, BINN_HTML, BINN_BLOB, BINN_JPEG}
    BY DEF Containers, Ints, SignedInts, UnsignedInts, BINN_LIST, BINN_MAP, BINN_OBJECT, BINN_INT8, BINN_INT16,
           BINN_INT32, BINN_INT64, BINN_UINT8, BINN_UINT16, BINN_UINT32, BINN_UINT64,
           BINN_STRING, BINN_HTML, BINN_BLOB, BINN_JPEG, BINN_TRUE, BINN_FALSE
  <2> HIDE DEF t
  <2> QED BY <1>1, <2>1, <2>2
<1> HIDE DEF t, v
<1>3. ASSUME t \in Ints PROVE v.n \in Int /\ v.n \in MinOf(t)..MaxOf(t)
  <2>1. v.n \in MinOf(t)..MaxOf(t)
    BY <1>1, <1>2, <1>3 DEF Acceptable
  <2> QED BY <2>1
<1>4. /\ KindStorage(t, v) \in StorageTypes
      /\ KindStorage(t, v) = STORAGE_CONTAINER <=> t \in Containers
      /\ KindStorage(t, v) = STORAGE_STRING <=> t \in {BINN_STRING, BINN_HTML}
  BY <1>2, <1>3, KindStorageIs
<1>5. DOMAIN v = {"n", "size", "null", "sub"} /\ v.size \in Int
  BY <1>1 DEF Acceptable
<1>6. KindStorage(t, v) = STORAGE_STRING /\ v.size = 0 /\ ~v.null => v.n \in DOMAIN StrLen
  BY <1>1, <1>2, <1>4 DEF Acceptable
<1>7. ASSUME KindStorage(t, v) = STORAGE_CONTAINER, v.size > 0 PROVE EndsBy(Slice(v.sub, 0, v.size), v.size)
  <2>1. WholeContainer(v.sub, e.type, v.size)
    BY <1>1, <1>2, <1>4, <1>7 DEF Acceptable
  <2> DEFINE m == v.sub
             n == v.size
             s == Slice(m, 0, n)
  <2>2. \A o \in DOMAIN m : o \in Nat /\ m[o].w \in Nat \ {0} /\ (o < n => o + m[o].w <= n)
    BY <2>1 DEF WholeContainer
  <2>3. n \in Nat
    BY <1>5, <1>7
  <2> HIDE DEF m, n, s
  <2>4. \A o : /\ o \in DOMAIN s <=> o \in 0..(n - 1) /\ 0 + o \in DOMAIN m
               /\ o \in DOMAIN s => s[o] = m[0 + o]
    <3> DEFINE k == 0
    <3>1. k \in Nat /\ s = Slice(m, k, n) /\ \A o \in DOMAIN m : o \in Nat
      BY <2>2 DEF s
    <3> HIDE DEF k
    <3>2. \A o : /\ o \in DOMAIN s <=> o \in 0..(n - 1) /\ k + o \in DOMAIN m
                 /\ o \in DOMAIN s => s[o] = m[k + o]
      BY <2>3, <3>1, SliceAt
    <3> QED BY <3>2 DEF k
  <2>5. ASSUME NEW o \in DOMAIN s PROVE o \in Nat /\ s[o].w \in Nat \ {0} /\ o + s[o].w <= n
    <3>1. o \in 0..(n - 1) /\ 0 + o \in DOMAIN m /\ s[o] = m[0 + o]
      BY <2>4
    <3>2. 0 + o = o /\ o < n /\ o \in Nat
      BY <2>3, <3>1
    <3>3. o \in DOMAIN m /\ s[o] = m[o]
      BY <3>1, <3>2
    <3> QED BY <2>2, <3>2, <3>3
  <2>6. EndsBy(s, n)
    BY <2>5 DEF EndsBy
  <2> QED BY <2>6 DEF s, n, m
<1>8. KeyFits(ctype, e.key)
  OBVIOUS
<1>9. ValueFits(t, v)
  BY <1>5, <1>6, <1>7 DEF ValueFits
<1>10. EntryFits(ctype, e.key, t, v)
  BY <1>4, <1>8, <1>9 DEF EntryFits
<1> QED BY <1>10 DEF t, v

\* Saving the header writes in front of the entries.
LEMMA SaveWritten ==
    ASSUME NEW item, Struct(item), NEW es, NEW pos, Written(item.mem, item.type, es, MAX_BINN_HEADER, item.used_size, pos),
           NEW s, s = binn_save_header(item)
    PROVE  \E at : /\ Written(s.mem, s.type, es, MAX_BINN_HEADER, s.used_size, at)
                   /\ \A i \in 0..Len(es) : at[i] = pos[i]
<1> DEFINE n == Len(es)
           at == [i \in 0..n |-> pos[i] - 0]
           lo == MAX_BINN_HEADER
           hi == item.used_size
           m == item.mem
           more == s.mem
           t == item.type
<1>3. /\ Struct(s) /\ s.type = item.type /\ s.used_size = hi
      /\ \A o \in Nat : o >= lo =>
           (o \in DOMAIN more <=> o \in DOMAIN m) /\ (o \in DOMAIN m => more[o] = m[o])
  BY HeaderSaved
<1>4. lo \in Nat /\ hi \in Nat /\ 0 \in Nat /\ 0 + lo = lo /\ 0 + hi = hi
  BY DEF Struct, MAX_BINN_HEADER
<1>5. \A o \in DOMAIN more : o \in Nat
  BY <1>3 DEF Struct, SplitAt
<1>6. Written(m, t, es, lo, hi, pos)
  OBVIOUS
<1> HIDE DEF lo, hi, m, more, t
<1>7. Copied(m, 0, more, lo, hi)
  <2>1. ASSUME NEW o \in lo..(hi - 1)
        PROVE  /\ o \in DOMAIN more <=> 0 + o \in DOMAIN m
               /\ 0 + o \in DOMAIN m => more[o] = m[0 + o]
    <3>1. o \in Nat /\ o >= lo /\ 0 + o = o
      BY <1>4
    <3> QED BY <1>3, <3>1
  <2> QED BY <2>1 DEF Copied
<1>8. Written(m, t, es, 0 + lo, 0 + hi, pos)
  BY <1>4, <1>6
<1>9. Written(more, t, es, lo, hi, at)
  <2> DEFINE k == 0
  <2>1. k \in Nat /\ Copied(m, k, more, lo, hi) /\ Written(m, t, es, k + lo, k + hi, pos)
    BY <1>7, <1>8
  <2> HIDE DEF k
  <2> DEFINE q == [i \in 0..Len(es) |-> pos[i] - k]
  <2>2. Written(more, t, es, lo, hi, q) /\ lo <= hi
    <3>1. lo \in Nat /\ hi \in Nat
      BY <1>4
    <3> QED BY <1>5, <2>1, <3>1, LayoutCopied
  <2> QED BY <2>2 DEF k
<1>10. \A i \in 0..n : at[i] = pos[i]
  <2>1. \A i \in 0..n : pos[i] \in Nat
    BY <1>6 DEF Written, Layout
  <2> QED BY <2>1
<1> HIDE DEF at
<1> QED BY <1>3, <1>9, <1>10 DEF more, lo, n, t

\* Entries lie at the positions pos.
WrittenThere(mem, t, es, lo, hi, pos) ==
  \E at : Written(mem, t, es, lo, hi, at) /\ \A i \in 0..Len(es) : at[i] = pos[i]

\* What lies in the bytes that are kept stays where it is.
LEMMA WrittenKept ==
    ASSUME NEW mem, NEW more, NEW t, NEW es, NEW lo \in Nat, NEW hi \in Nat, Keeps(mem, more, hi),
           \A o \in DOMAIN more : o \in Nat, NEW pos, Written(mem, t, es, lo, hi, pos)
    PROVE  WrittenThere(more, t, es, lo, hi, pos)
<1> DEFINE k == 0
           q == [i \in 0..Len(es) |-> pos[i] - k]
<1>1. k \in Nat /\ k + lo = lo /\ k + hi = hi
  OBVIOUS
<1>2. Copied(mem, k, more, lo, hi)
  <2>1. ASSUME NEW o \in lo..(hi - 1)
        PROVE  /\ o \in DOMAIN more <=> k + o \in DOMAIN mem
               /\ k + o \in DOMAIN mem => more[o] = mem[k + o]
    <3>1. o \in 0..(hi - 1) /\ k + o = o
      OBVIOUS
    <3> QED BY <3>1 DEF Keeps
  <2> QED BY <2>1 DEF Copied
<1>3. \A i \in 0..Len(es) : q[i] = pos[i]
  <2>1. \A i \in 0..Len(es) : pos[i] \in Nat
    BY DEF Written, Layout
  <2> QED BY <2>1
<1>4. Written(mem, t, es, k + lo, k + hi, pos)
  BY <1>1
<1> HIDE DEF k
<1>5. Written(more, t, es, lo, hi, q) /\ lo <= hi
  BY <1>1, <1>2, <1>4, LayoutCopied
<1> HIDE DEF q
<1> QED BY <1>3, <1>5 DEF WrittenThere

\* An entry with another key keeps the keys apart.
LEMMA ApartMore ==
    ASSUME NEW ctype, NEW es, IsSeq(es), KeysApart(ctype, es), NEW x,
           \A i \in 1..Len(es) : /\ ctype = BINN_OBJECT => ~SameKey(es[i].key, x.key)
                                 /\ ctype = BINN_MAP => es[i].key # x.key
    PROVE  KeysApart(ctype, Append(es, x))
<1> DEFINE n == Len(es)
           fs == Append(es, x)
<1>2. n \in Nat /\ Len(fs) = n + 1 /\ fs[n + 1] = x /\ \A i \in 1..n : fs[i] = es[i]
  BY SeqLen, SeqAppend
<1>3. ctype = BINN_MAP => \A i \in 1..n : es[i].key # x.key
  OBVIOUS
<1>4. ctype = BINN_OBJECT => \A i \in 1..n : ~SameKey(es[i].key, x.key)
  OBVIOUS
<1>5. \A k, l : SameKey(k, l) => SameKey(l, k)
  BY DEF SameKey
<1> HIDE DEF fs, n
<1> SUFFICES ASSUME NEW i \in 1..Len(fs), NEW j \in 1..Len(fs), i # j
             PROVE  /\ ctype = BINN_OBJECT => ~SameKey(fs[i].key, fs[j].key)
                    /\ ctype = BINN_MAP => fs[i].key # fs[j].key
  BY DEF KeysApart, fs
<1>6. (i \in 1..n \/ i = n + 1) /\ (j \in 1..n \/ j = n + 1)
  BY <1>2
<1>7. CASE i \in 1..n /\ j \in 1..n
  BY <1>2, <1>7 DEF KeysApart, n
<1>8. CASE i \in 1..n /\ j = n + 1
  BY <1>2, <1>3, <1>4, <1>8
<1>9. CASE i = n + 1 /\ j \in 1..n
  BY <1>2, <1>3, <1>4, <1>5, <1>9
<1> QED BY <1>6, <1>7, <1>8, <1>9
\* A structure over the bytes of m, whose header is h.
Loaded(item, h, m) ==
  /\ DOMAIN item = ItemFields /\ item.type = h.type /\ item.writable = FALSE /\ item.dirty = FALSE
  /\ item.pbuf = 1 /\ item.ptr = [block |-> 1, off |-> 0] /\ item.used_size = 0
  /\ item.alloc_size = h.size /\ item.size = h.size /\ item.count = h.count /\ item.mem = m

\* The structure that binn_open makes of valid bytes.
LEMMA LoadedFields ==
    ASSUME NEW m, binn_is_valid(m)
    PROVE  binn_load(m).ok = TRUE /\ Loaded(binn_load(m).item, IsValidBinnHeader(m), m)
<1> DEFINE r == binn_load(m)
           h == IsValidBinnHeader(m)
           x == binn_create(h.type)
           p == [block |-> 1, off |-> 0]
           i == [x EXCEPT !.writable = FALSE, !.dirty = FALSE, !.count = h.count, !.size = h.size,
                          !.alloc_size = h.size, !.used_size = 0, !.ptr = p, !.mem = m]
<1>1. r = Accepted(i)
  BY DEF binn_load
<1> HIDE DEF r, h
<1>2. r.ok = TRUE /\ r.item = i
  <2> HIDE DEF i
  <2> QED BY <1>1 DEF Accepted
<1>3. DOMAIN x = ItemFields /\ x.type = h.type /\ x.pbuf = 1
  BY DEF binn_create, ItemFields
<1> HIDE DEF x, p
<1>4. /\ DOMAIN i = ItemFields /\ i.type = h.type /\ i.writable = FALSE /\ i.dirty = FALSE
      /\ i.pbuf = 1 /\ i.ptr = p /\ i.used_size = 0 /\ i.alloc_size = h.size
      /\ i.size = h.size /\ i.count = h.count /\ i.mem = m
  <2> DEFINE a == [x EXCEPT !.writable = FALSE]
             b == [a EXCEPT !.dirty = FALSE]
             c == [b EXCEPT !.count = h.count]
             d == [c EXCEPT !.size = h.size]
             e == [d EXCEPT !.alloc_size = h.size]
             f == [e EXCEPT !.used_size = 0]
             g == [f EXCEPT !.ptr = p]
             k == [g EXCEPT !.mem = m]
  <2>1. i = k
    OBVIOUS
  <2> HIDE DEF i
  <2>2. DOMAIN a = ItemFields /\ a.type = h.type /\ a.pbuf = 1 /\ a.writable = FALSE
    BY <1>3 DEF ItemFields
  <2> HIDE DEF a
  <2>3. DOMAIN b = ItemFields /\ b.type = h.type /\ b.pbuf = 1 /\ b.writable = FALSE /\ b.dirty = FALSE
    BY <2>2 DEF ItemFields
  <2> HIDE DEF b
  <2>4. DOMAIN c = ItemFields /\ c.type = h.type /\ c.pbuf = 1 /\ c.writable = FALSE /\ c.dirty = FALSE /\ c.count = h.count
    BY <2>3 DEF ItemFields
  <2> HIDE DEF c
  <2>5. /\ DOMAIN d = ItemFields /\ d.type = h.type /\ d.pbuf = 1 /\ d.writable = FALSE /\ d.dirty = FALSE
        /\ d.count = h.count /\ d.size = h.size
    BY <2>4 DEF ItemFields
  <2> HIDE DEF d
  <2>6. /\ DOMAIN e = ItemFields /\ e.type = h.type /\ e.pbuf = 1 /\ e.writable = FALSE /\ e.dirty = FALSE
        /\ e.count = h.count /\ e.size = h.size /\ e.alloc_size = h.size
    BY <2>5 DEF ItemFields
  <2> HIDE DEF e
  <2>7. /\ DOMAIN f = ItemFields /\ f.type = h.type /\ f.pbuf = 1 /\ f.writable = FALSE /\ f.dirty = FALSE
        /\ f.count = h.count /\ f.size = h.size /\ f.alloc_size = h.size /\ f.used_size = 0
    BY <2>6 DEF ItemFields
  <2> HIDE DEF f
  <2>8. /\ DOMAIN g = ItemFields /\ g.type = h.type /\ g.pbuf = 1 /\ g.writable = FALSE /\ g.dirty = FALSE
        /\ g.count = h.count /\ g.size = h.size /\ g.alloc_size = h.size /\ g.used_size = 0 /\ g.ptr = p
    BY <2>7 DEF ItemFields
  <2> HIDE DEF g
  <2>9. /\ DOMAIN k = ItemFields /\ k.type = h.type /\ k.pbuf = 1 /\ k.writable = FALSE /\ k.dirty = FALSE
        /\ k.count = h.count /\ k.size = h.size /\ k.alloc_size = h.size /\ k.used_size = 0 /\ k.ptr = p /\ k.mem = m
    BY <2>8 DEF ItemFields
  <2> HIDE DEF k
  <2> QED BY <2>1, <2>9
<1>5. Loaded(i, h, m)
  <2> HIDE DEF i
  <2> QED BY <1>4 DEF Loaded, p
<1> HIDE DEF i
<1> QED BY <1>2, <1>5 DEF r, h

-----------------------------------------------------------------------------
(* An object from its creation to its reading.                             *)

\* A structure that holds the entries es, whose header is to be saved.
Filled(item, es) ==
  /\ Struct(item) /\ item.type = BINN_OBJECT /\ item.writable = TRUE /\ item.dirty = TRUE
  /\ item.used_size <= item.alloc_size /\ IsSeq(es) /\ item.count = Len(es) /\ KeysApart(BINN_OBJECT, es)
  /\ \E pos : Written(item.mem, BINN_OBJECT, es, MAX_BINN_HEADER, item.used_size, pos)

\* An entry that no setter of an object without its key refuses.
Settable(x) ==
  /\ EntryGiven(BINN_OBJECT, x) /\ x.type \notin Containers \cup {BINN_BOOL}
  /\ x.v.null = FALSE /\ x.v.size \in Nat /\ Len(KeyText[x.key]) <= MaxKeyLen

\* A new object holds none.
LEMMA FilledNew == Filled(binn_create(BINN_OBJECT), <<>>)
<1> DEFINE item == binn_create(BINN_OBJECT)
           es == <<>>
           pos == [i \in 0..0 |-> MAX_BINN_HEADER]
<1>1. /\ Struct(item) /\ item.type = BINN_OBJECT /\ item.writable = TRUE /\ item.dirty = TRUE
      /\ item.used_size <= item.alloc_size /\ item.count = 0 /\ DOMAIN item.mem = {}
  BY Created
<1>2. item.used_size = MAX_BINN_HEADER /\ MAX_BINN_HEADER \in Nat
  BY DEF binn_create, MAX_BINN_HEADER
<1>3. IsSeq(es) /\ Len(es) = 0 /\ BINN_OBJECT \in Containers
  BY SeqEmpty DEF Containers
<1> HIDE DEF item, es
<1>4. Layout(item.mem, BINN_OBJECT, es, MAX_BINN_HEADER, MAX_BINN_HEADER, pos)
  BY <1>2, <1>3 DEF Layout
<1>5. Written(item.mem, BINN_OBJECT, es, MAX_BINN_HEADER, item.used_size, pos)
  BY <1>1, <1>2, <1>3, <1>4 DEF Written
<1>6. KeysApart(BINN_OBJECT, es)
  BY <1>3 DEF KeysApart
<1>7. Filled(item, es)
  BY <1>1, <1>3, <1>5, <1>6 DEF Filled
<1> QED BY <1>7 DEF item, es

\* A setter adds a settable entry with a new key.
LEMMA FilledMore ==
    ASSUME NEW item, NEW es, Filled(item, es), NEW x, Settable(x),
           \A i \in 1..Len(es) : ~SameKey(es[i].key, x.key)
    PROVE  Filled(binn_add_value(item, x.key, x.type, x.v).item, Append(es, x))
<1> DEFINE r == binn_add_value(item, x.key, x.type, x.v)
           fs == Append(es, x)
           t == AddedType(x.type, x.v)
           u == item.used_size
<1>1. /\ Struct(item) /\ item.type = BINN_OBJECT /\ item.writable = TRUE
      /\ item.used_size <= item.alloc_size /\ IsSeq(es) /\ item.count = Len(es) /\ KeysApart(BINN_OBJECT, es)
      /\ u \in Nat /\ item.type \in Containers
  BY DEF Filled, Struct, Containers
<1>2. PICK pos : Written(item.mem, BINN_OBJECT, es, MAX_BINN_HEADER, u, pos)
  BY DEF Filled
<1>3. /\ EntryGiven(BINN_OBJECT, x) /\ Given(x) /\ x.type \in DataTypes /\ KeyFits(BINN_OBJECT, x.key) /\ x.key \in DOMAIN KeyText
      /\ x.type \notin Containers /\ x.type # BINN_BOOL
      /\ x.v.null = FALSE /\ x.v.size \in Nat /\ Len(KeyText[x.key]) <= MaxKeyLen
  BY DEF Settable, EntryGiven, Given, KeyFits
<1>4. NotThere(item, x.key)
  <2>1. SearchForKey(item.mem, MAX_BINN_HEADER, u, Len(es), x.key) = NIL
    BY <1>2, <1>3, KeySearched
  <2> QED BY <1>1, <1>3, <2>1, ContainersApart DEF NotThere
<1>5. t = x.type
  BY <1>3 DEF AddedType, GetWriteConvertedData
<1>6. KindStorage(x.type, x.v) \in StorageTypes \ {STORAGE_CONTAINER}
  <2>1. x.type \in Ints => x.v.n \in Int /\ x.v.n \in MinOf(x.type)..MaxOf(x.type)
    <3>1. x.type \in Ints => x.v.n \in MinOf(x.type)..MaxOf(x.type)
      BY <1>3 DEF Given, Acceptable
    <3> QED BY <3>1
  <2>2. x.type \in DataTypes \cup {BINN_TRUE, BINN_FALSE}
    BY <1>3
  <2> QED BY <1>3, <2>1, <2>2, KindStorageIs
<1>7. r.ok = TRUE
  <2>1. Len(KeyText[x.key]) \in Nat
    BY <1>3, KeyTextLen
  <2>2. "size" \in DOMAIN x.v
    BY <1>3 DEF Given, Acceptable
  <2> HIDE DEF r
  <2> QED BY <1>1, <1>3, <1>4, <1>6, <2>1, <2>2, SetterAccepts DEF r
<1>8. EntryFits(item.type, x.key, t, x.v)
  BY <1>1, <1>3, GivenFits
<1> HIDE DEF r
<1>9. OneMore(item, r.item, item.type, x.key, t, x.v)
  <2>1. r # Refused(r.item)
    BY <1>7 DEF Refused
  <2> QED BY <1>1, <1>8, <2>1, SetterGrown DEF r
<1> DEFINE s == r.item
           m == item.mem
           more == s.mem
           end == s.used_size
<1>10. /\ Struct(s) /\ s.type = BINN_OBJECT /\ s.writable = TRUE /\ s.dirty = TRUE /\ s.used_size <= s.alloc_size
       /\ s.count = Len(es) + 1 /\ Keeps(m, more, u) /\ end \in Nat /\ \A o \in DOMAIN more : o \in Nat
       /\ EntryLaid(more, BINN_OBJECT, x.key, t, x.v, u, end)
  BY <1>1, <1>9 DEF OneMore, Longer, Struct, SplitAt
<1> HIDE DEF s
<1>11. EntryAt(more, BINN_OBJECT, x, u, end)
  BY <1>10 DEF EntryAt
<1>12. \E at : Written(more, BINN_OBJECT, fs, MAX_BINN_HEADER, end, at)
  <2> DEFINE first == MAX_BINN_HEADER
             at == [i \in 0..Len(fs) |-> IF i <= Len(es) THEN pos[i] ELSE end]
  <2>1. first \in Nat /\ Written(m, BINN_OBJECT, es, first, u, pos)
    BY <1>2 DEF MAX_BINN_HEADER
  <2> HIDE DEF first, u, m, more, end
  <2>2. Written(more, BINN_OBJECT, fs, first, end, at)
    BY <1>1, <1>3, <1>10, <1>11, <2>1, LayoutExtended
  <2> HIDE DEF at, fs
  <2> QED BY <2>2 DEF first
<1>13. KeysApart(BINN_OBJECT, fs)
  BY <1>1, ContainersApart, ApartMore
<1>14. IsSeq(fs) /\ Len(fs) = Len(es) + 1
  BY <1>1, SeqAppend
<1> HIDE DEF fs
<1>15. Filled(s, fs)
  BY <1>10, <1>12, <1>13, <1>14 DEF Filled
<1> QED BY <1>15 DEF s, fs, r

\* Opened again at the other end, it gives every entry under its key.
LEMMA FilledReads ==
    ASSUME NEW item, NEW es, Filled(item, es), NEW s, s = binn_ptr(item),
           NEW l, l = binn_load(Slice(BufferOf(s), 0, s.size))
    PROVE  /\ l.ok = TRUE
           /\ \A i \in 1..Len(es) : Exactly(binn_object_get_value(BufferOf(l.item), es[i].key), es[i]) /\ Given(es[i])
<1> DEFINE b == Slice(BufferOf(s), 0, s.size)
           h == IsValidBinnHeader(b)
<1>1. /\ Struct(item) /\ item.type = BINN_OBJECT /\ s = binn_save_header(item)
      /\ item.used_size <= item.alloc_size /\ IsSeq(es) /\ item.count = Len(es) /\ KeysApart(BINN_OBJECT, es)
  BY DEF Filled, binn_ptr
<1>2. PICK pos : Written(item.mem, item.type, es, MAX_BINN_HEADER, item.used_size, pos)
  BY <1>1 DEF Filled
<1>3. /\ Struct(s) /\ s.type = BINN_OBJECT /\ s.pbuf = item.pbuf /\ s.alloc_size = item.alloc_size
      /\ s.used_size = item.used_size /\ s.count = Len(es) /\ s.ptr.block = s.pbuf /\ Saved(s)
  <2>1. /\ Struct(s) /\ s.type = item.type /\ s.pbuf = item.pbuf /\ s.alloc_size = item.alloc_size
        /\ s.used_size = item.used_size /\ s.count = item.count /\ s.ptr.block = item.pbuf /\ Saved(s)
    BY <1>1, HeaderSaved
  <2> QED BY <1>1, <2>1
<1>4. PICK at : Written(s.mem, s.type, es, MAX_BINN_HEADER, s.used_size, at)
  BY <1>1, <1>2, SaveWritten
<1>5. PICK hs \in Nat : \E a : Packed(BufferOf(s), s.type, es, hs, s.size, a)
  <2>1. s.used_size <= s.alloc_size
    BY <1>1, <1>3
  <2> QED BY <1>3, <1>4, <2>1, StructPacked
<1>6. PICK a : Packed(BufferOf(s), BINN_OBJECT, es, hs, s.size, a)
  BY <1>3, <1>5
<1>7. s.size \in Nat
  BY <1>6 DEF Packed
<1>8. PICK c : Packed(b, BINN_OBJECT, es, hs, s.size, c)
  <2> DEFINE n == s.size
             mem == BufferOf(s)
  <2>1. n \in Nat /\ n <= n /\ Packed(mem, BINN_OBJECT, es, hs, n, a)
    BY <1>6, <1>7
  <2> HIDE DEF n, mem
  <2>2. \E x : Packed(Slice(mem, 0, n), BINN_OBJECT, es, hs, n, x)
    BY <2>1, SlicePacked
  <2> QED BY <2>2 DEF n, mem
<1> HIDE DEF b
<1>9. h.size = s.size
  BY <1>8, PackedHeader
<1>10. binn_is_valid(b)
  BY <1>8, PackedValid
<1>11. l = binn_load(b)
  BY DEF b
<1> HIDE DEF h
<1>12. /\ l.ok = TRUE /\ l.item.pbuf = 1 /\ l.item.ptr = [block |-> 1, off |-> 0]
       /\ l.item.alloc_size = h.size /\ l.item.mem = b
  <2>1. l.ok = TRUE /\ Loaded(l.item, h, b)
    BY <1>10, <1>11, LoadedFields DEF h
  <2> QED BY <2>1 DEF Loaded
<1>13. BufferOf(l.item) = Slice(b, 0, s.size)
  <2>1. l.item.ptr.block = l.item.pbuf /\ l.item.ptr.off = 0
    BY <1>12
  <2> QED BY <1>9, <1>12, <2>1 DEF BufferOf
<1>14. PICK d : Packed(BufferOf(l.item), BINN_OBJECT, es, hs, s.size, d)
  <2> DEFINE n == s.size
  <2>1. n \in Nat /\ n <= n /\ Packed(b, BINN_OBJECT, es, hs, n, c)
    BY <1>7, <1>8
  <2> HIDE DEF n
  <2>2. \E x : Packed(Slice(b, 0, n), BINN_OBJECT, es, hs, n, x)
    BY <2>1, SlicePacked
  <2> QED BY <1>13, <2>2 DEF n
<1> QED BY <1>1, <1>12, <1>14, ObjectFinds
=============================================================================
