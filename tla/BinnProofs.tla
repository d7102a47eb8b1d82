----------------------------- MODULE BinnProofs -----------------------------
(***************************************************************************)
(* Theorems about one container of binn.c in the hands of a program: for   *)
(* any integer widths, keys, values and number of entries.                 *)
(***************************************************************************)
EXTENDS Binn, BinnFormatProofs

-----------------------------------------------------------------------------
(* The inductive invariant.                                                *)

\* No field reaches behind the block.
InBlock(mem, n) == \A o \in DOMAIN mem : o + mem[o].w <= n

\* What a setter adds to a block is in it.
LEMMA FreshInBlock ==
    ASSUME NEW mem, NEW more, NEW a \in Nat, NEW b \in Nat, NEW n \in Nat, a <= b, n <= b,
           InBlock(mem, a), Fresh(mem, more, n), \A o \in DOMAIN more : o \in Nat /\ more[o].w \in Nat
    PROVE  InBlock(more, b)
<1> SUFFICES ASSUME NEW o \in DOMAIN more PROVE o + more[o].w <= b
  BY DEF InBlock
<1> DEFINE e == o + more[o].w
<1>1. e \in Nat
  <2> DEFINE w == more[o].w
  <2>1. o \in Nat /\ w \in Nat
    OBVIOUS
  <2> HIDE DEF w
  <2> QED BY <2>1 DEF w
<1>2. e <= n \/ e <= a
  BY DEF Fresh, InBlock
<1> HIDE DEF e
<1>3. e <= b
  BY <1>1, <1>2
<1> QED BY <1>3 DEF e

\* A structure that is being written.  Only a pointer into the block it has now
\* finds the header that binn_ptr saved.
StructInv ==
  /\ Struct(item) /\ item.type \in Containers /\ item.writable = TRUE /\ item.dirty \in BOOLEAN
  /\ item.used_size <= item.alloc_size /\ item.ptr.block \in Nat /\ item.ptr.block <= item.pbuf
  /\ item.count = Len(added) /\ InBlock(item.mem, item.alloc_size)
  /\ ~item.dirty /\ item.ptr.block = item.pbuf => Saved(item)

\* The bytes that binn_release gives away, and what is loaded from them.
Image(buf, type, size, count) ==
  /\ size \in Nat /\ size >= MIN_BINN_SIZE /\ EndsBy(buf, size)
  /\ \E hs \in Nat : hs <= size /\ HeaderIn(buf, 0, type, size, count, hs)
BufferInv ==
  /\ item.type \in Containers /\ item.alloc_size \in Nat /\ item.used_size \in Nat
  /\ \E size : Image(item.mem, item.type, size, Len(added))
LoadedInv ==
  /\ DOMAIN item = ItemFields /\ item.type \in Containers /\ item.writable = FALSE /\ item.dirty = FALSE
  /\ item.pbuf = 1 /\ item.ptr = [block |-> 1, off |-> 0] /\ item.used_size \in Nat
  /\ item.alloc_size = item.size /\ item.count = Len(added)
  /\ Image(item.mem, item.type, item.size, Len(added))
LostInv ==
  /\ item.type \in Containers /\ item.alloc_size \in Nat /\ item.used_size \in Nat /\ DOMAIN item.mem = {}

BinnInv ==
  /\ phase \in {"none", "struct", "buffer", "loaded", "lost"}
  /\ IsSeq(added) /\ Len(added) <= MaxItems /\ ended \in BOOLEAN
  /\ phase = "none" => item = binn_create(BINN_LIST)
  /\ phase = "struct" => StructInv
  /\ phase = "buffer" => BufferInv
  /\ phase = "loaded" => LoadedInv
  /\ phase = "lost" => LostInv

-----------------------------------------------------------------------------
(* The steps of a structure.                                               *)

\* What callers pass can be stored.
LEMMA ArgumentsFit ==
    ASSUME NEW e \in Entries, NEW ctype, ctype = BINN_OBJECT => e.key \in DOMAIN KeyText
    PROVE  EntryFits(ctype, e.key, AddedType(e.type, e.v), e.v)
<1>1. Given(e) /\ KeyFits(ctype, e.key)
  BY EntriesAssumption DEF Given, KeyFits
<1> QED BY <1>1, GivenFits

\* A setter keeps the structure, whatever it answers.
LEMMA AddStruct ==
    ASSUME StructInv, IsSeq(added), NEW e \in Entries, Add(e), phase = "struct"
    PROVE  StructInv'
<1> DEFINE t == AddedType(e.type, e.v)
           r == binn_add_value(item, e.key, e.type, e.v)
           x == [e EXCEPT !.key = IF item.type = BINN_LIST THEN NIL ELSE @]
<1>1. item' = r.item /\ added' = IF r.ok THEN Append(added, x) ELSE added
  BY DEF Add
<1>2. EntryFits(item.type, e.key, t, e.v)
  BY ArgumentsFit DEF Add
<1>3. \/ r = Refused(r.item) /\ Undone(item, r.item)
      \/ r = Accepted(r.item) /\ OneMore(item, r.item, item.type, e.key, t, e.v)
  BY <1>2, SetterGrown DEF StructInv
<1> HIDE DEF r, x
<1>4. CASE r = Refused(r.item) /\ Undone(item, r.item)
  <2>1. ~r.ok
    BY <1>4 DEF Refused
  <2>2. added' = added
    BY <1>1, <2>1
  <2>3. Undone(item, item')
    BY <1>1, <1>4
  <2>4. Struct(item') /\ item'.used_size <= item'.alloc_size
    BY <2>3 DEF Undone
  <2>5. /\ item'.type = item.type /\ item'.writable = item.writable /\ item'.dirty = item.dirty
        /\ item'.used_size = item.used_size /\ item'.count = item.count /\ item'.size = item.size
        /\ item'.ptr = item.ptr /\ item.pbuf <= item'.pbuf
    BY <2>3 DEF Undone
  <2>6. item.pbuf \in Nat /\ item'.pbuf \in Nat /\ item.ptr.block \in Nat /\ item.ptr.block <= item.pbuf
    BY <2>4 DEF StructInv, Struct
  <2>7. item'.ptr.block <= item'.pbuf /\ (item'.ptr.block = item'.pbuf => item.ptr.block = item.pbuf)
    <3> DEFINE b == item.ptr.block
               k == item.pbuf
               l == item'.pbuf
    <3>1. b \in Nat /\ k \in Nat /\ l \in Nat /\ b <= k /\ k <= l /\ item'.ptr.block = b
      BY <2>5, <2>6
    <3> HIDE DEF b, k, l
    <3>2. b <= l /\ (b = l => b = k)
      BY <3>1
    <3> QED BY <3>1, <3>2 DEF b, k, l
  <2>8. InBlock(item'.mem, item'.alloc_size)
    <3>1. /\ item.alloc_size \in Nat /\ item'.alloc_size \in Nat /\ item.alloc_size <= item'.alloc_size
          /\ InBlock(item.mem, item.alloc_size) /\ Fresh(item.mem, item'.mem, item'.alloc_size)
          /\ \A o \in DOMAIN item'.mem : o \in Nat /\ item'.mem[o].w \in Nat
      BY <2>3, <2>4 DEF Undone, StructInv, Struct, SplitAt
    <3>2. item'.alloc_size <= item'.alloc_size
      BY <3>1
    <3> QED BY <3>1, <3>2, FreshInBlock
  <2>9. Saved(item) => Saved(item')
    <3>1. ASSUME Saved(item) PROVE Saved(item')
      <4> DEFINE off == item.ptr.off
                 hs == MAX_BINN_HEADER - off
                 u == item.used_size
      <4>1. /\ item.size \in Nat /\ item.size >= MIN_BINN_SIZE /\ off \in {0, 3, 6} /\ off + item.size = u
            /\ HeaderIn(item.mem, off, item.type, item.size, item.count, hs)
        BY <3>1 DEF Saved
      <4>2. /\ Keeps(item.mem, item'.mem, u) /\ u \in Nat /\ MAX_BINN_HEADER <= u
        BY <2>3 DEF Undone, StructInv, Struct
      <4> HIDE DEF u
      <4>3. off \in Nat /\ hs \in Nat /\ off + hs = MAX_BINN_HEADER
        BY <4>1 DEF MAX_BINN_HEADER
      <4> HIDE DEF off, hs
      <4>4. ASSUME NEW o \in 0..(hs - 1), off + o \in DOMAIN item.mem
            PROVE  off + o \in DOMAIN item'.mem /\ item'.mem[off + o] = item.mem[off + o]
        <5>1. off + o \in 0..(u - 1)
          BY <4>2, <4>3 DEF MAX_BINN_HEADER
        <5> QED BY <4>2, <4>4, <5>1 DEF Keeps
      <4>5. HeaderIn(item'.mem, off, item.type, item.size, item.count, hs)
        BY <4>1, <4>3, <4>4, HeaderCopied
      <4> QED BY <2>5, <4>1, <4>5 DEF Saved, off, hs, u
    <3> QED BY <3>1
  <2> QED BY <2>2, <2>4, <2>5, <2>6, <2>7, <2>8, <2>9 DEF StructInv
<1>5. CASE r = Accepted(r.item) /\ OneMore(item, r.item, item.type, e.key, t, e.v)
  <2>1. r.ok
    BY <1>5 DEF Accepted
  <2>2. Len(added') = Len(added) + 1
    BY <1>1, <2>1, SeqAppend
  <2>3. /\ Longer(item, item') /\ item'.count = item.count + 1 /\ item'.dirty = TRUE
    BY <1>1, <1>5 DEF OneMore
  <2>4. item'.pbuf \in Nat /\ item.pbuf \in Nat
    BY <2>3 DEF Longer, Struct, StructInv
  <2>5. item'.ptr.block \in Nat /\ item'.ptr.block <= item'.pbuf
    BY <2>3, <2>4 DEF Longer, StructInv
  <2>6. InBlock(item'.mem, item'.alloc_size)
    <3>1. /\ item.alloc_size \in Nat /\ item'.alloc_size \in Nat /\ item.alloc_size <= item'.alloc_size
          /\ item'.used_size \in Nat /\ item'.used_size <= item'.alloc_size
          /\ InBlock(item.mem, item.alloc_size) /\ Fresh(item.mem, item'.mem, item'.used_size)
          /\ \A o \in DOMAIN item'.mem : o \in Nat /\ item'.mem[o].w \in Nat
      BY <2>3 DEF Longer, StructInv, Struct, SplitAt
    <3> QED BY <3>1, FreshInBlock
  <2> QED BY <2>2, <2>3, <2>5, <2>6 DEF StructInv, Longer
<1> QED BY <1>3, <1>4, <1>5

\* binn_ptr saves the header when there is something to save.
LEMMA PtrStruct ==
    ASSUME StructInv, NEW s, s = binn_ptr(item)
    PROVE  /\ Struct(s) /\ s.type = item.type /\ s.writable = TRUE /\ s.pbuf = item.pbuf /\ s.dirty = FALSE
           /\ s.alloc_size = item.alloc_size /\ s.used_size = item.used_size /\ s.count = item.count
           /\ s.ptr.block \in Nat /\ s.ptr.block <= s.pbuf
           /\ (s.ptr.block = s.pbuf => Saved(s))
           /\ item.dirty => s.ptr.block = s.pbuf
           /\ ~item.dirty => s = item
           /\ InBlock(s.mem, s.alloc_size)
<1>1. CASE item.dirty
  <2>1. s = binn_save_header(item)
    BY <1>1 DEF binn_ptr, StructInv
  <2>2. Struct(item)
    BY DEF StructInv
  <2>3. /\ Struct(s) /\ s.type = item.type /\ s.writable = item.writable /\ s.pbuf = item.pbuf
        /\ s.alloc_size = item.alloc_size /\ s.used_size = item.used_size /\ s.count = item.count
        /\ s.dirty = FALSE /\ s.ptr.block = item.pbuf /\ Saved(s)
        /\ \A o \in Nat : o >= MAX_BINN_HEADER =>
             (o \in DOMAIN s.mem <=> o \in DOMAIN item.mem) /\ (o \in DOMAIN item.mem => s.mem[o] = item.mem[o])
    BY <2>1, <2>2, HeaderSaved
  <2>4. ASSUME NEW o \in DOMAIN s.mem PROVE o + s.mem[o].w <= s.alloc_size
    <3>1. o \in Nat /\ s.mem[o].w \in Nat /\ (o < s.used_size => o + s.mem[o].w <= s.used_size)
      BY <2>3 DEF Struct, SplitAt
    <3>2. /\ s.used_size \in Nat /\ s.alloc_size \in Nat /\ s.used_size <= s.alloc_size
          /\ MAX_BINN_HEADER <= s.used_size
      BY <2>3 DEF StructInv, Struct
    <3>3. CASE o >= MAX_BINN_HEADER
      BY <2>3, <3>1, <3>3 DEF StructInv, InBlock
    <3>4. CASE o < MAX_BINN_HEADER
      <4> DEFINE e == o + s.mem[o].w
      <4>1. e \in Nat
        BY <3>1
      <4>2. o < s.used_size
        BY <3>1, <3>2, <3>4 DEF MAX_BINN_HEADER
      <4>3. e <= s.used_size
        BY <3>1, <4>2
      <4> HIDE DEF e
      <4>4. e <= s.alloc_size
        BY <3>2, <4>1, <4>3
      <4> QED BY <4>4 DEF e
    <3> QED BY <3>1, <3>3, <3>4 DEF MAX_BINN_HEADER
  <2>5. InBlock(s.mem, s.alloc_size)
    BY <2>4 DEF InBlock
  <2> QED BY <1>1, <2>3, <2>5 DEF StructInv, Struct
<1>2. CASE ~item.dirty
  <2>1. s = item
    BY <1>2 DEF binn_ptr
  <2> QED BY <1>2, <2>1 DEF StructInv
<1> QED BY <1>1, <1>2

\* The bytes that a saved structure gives away are a whole container.
LEMMA SavedImage ==
    ASSUME NEW s, Struct(s), s.type \in Containers, Saved(s), s.used_size <= s.alloc_size, s.ptr.block = s.pbuf
    PROVE  Image(SavedBytes(s), s.type, s.size, s.count)
<1> DEFINE b == BufferOf(s)
           m == SavedBytes(s)
           off == s.ptr.off
           hs == MAX_BINN_HEADER - off
           n == s.size
           a == s.alloc_size
           u == s.used_size
           mem == s.mem
<1>1. b = Slice(mem, off, a) /\ m = Slice(b, 0, n)
  BY DEF BufferOf, SavedBytes
<1>2. /\ n \in Nat /\ n >= MIN_BINN_SIZE /\ off \in {0, 3, 6} /\ off + n = u
      /\ HeaderIn(mem, off, s.type, n, s.count, hs)
  BY DEF Saved
<1>3. u \in Nat /\ a \in Nat /\ u <= a /\ SplitAt(mem, u) /\ 9 <= u
  BY DEF Struct, MAX_BINN_HEADER
<1> HIDE DEF b, m, off, n, a, u, mem
<1>4. hs \in Nat /\ hs <= n /\ hs <= a /\ off \in Nat /\ 0 \in Nat /\ hs = 9 - off
  BY <1>2, <1>3 DEF MAX_BINN_HEADER
<1> HIDE DEF hs
<1>5. \A o : /\ o \in DOMAIN b <=> o \in 0..(a - 1) /\ off + o \in DOMAIN mem
             /\ o \in DOMAIN b => b[o] = mem[off + o]
  <2>1. \A o \in DOMAIN mem : o \in Nat
    BY <1>3 DEF SplitAt
  <2> QED BY <1>1, <1>3, <1>4, <2>1, SliceAt
<1>6. \A o \in DOMAIN b : o \in Nat
  BY <1>5
<1>7. \A o : /\ o \in DOMAIN m <=> o \in 0..(n - 1) /\ 0 + o \in DOMAIN b
             /\ o \in DOMAIN m => m[o] = b[0 + o]
  BY <1>1, <1>2, <1>4, <1>6, SliceAt
<1>8. \A o : o \in 0..(n - 1) => o \in Int /\ 0 + o = o
  OBVIOUS
<1>9. \A o : /\ o \in DOMAIN m <=> o \in 0..(n - 1) /\ off + o \in DOMAIN mem
             /\ o \in DOMAIN m => m[o] = mem[off + o]
  <2> SUFFICES ASSUME NEW o
               PROVE  /\ o \in DOMAIN m <=> o \in 0..(n - 1) /\ off + o \in DOMAIN mem
                      /\ o \in DOMAIN m => m[o] = mem[off + o]
    OBVIOUS
  <2>1. CASE o \in 0..(n - 1)
    <3>1. o \in 0..(a - 1) /\ 0 + o = o
      BY <1>2, <1>3, <1>4, <2>1
    <3>2. o \in DOMAIN b <=> off + o \in DOMAIN mem
      BY <1>5, <3>1
    <3>3. o \in DOMAIN m <=> o \in DOMAIN b
      BY <1>7, <2>1, <3>1
    <3> QED BY <1>5, <1>7, <2>1, <3>1, <3>2, <3>3
  <2>2. CASE o \notin 0..(n - 1)
    BY <1>7, <2>2
  <2> QED BY <2>1, <2>2
<1>10. EndsBy(m, n)
  <2> SUFFICES ASSUME NEW o \in DOMAIN m PROVE o \in Nat /\ m[o].w \in Nat \ {0} /\ o + m[o].w <= n
    BY DEF EndsBy
  <2>1. o \in 0..(n - 1) /\ off + o \in DOMAIN mem /\ m[o] = mem[off + o]
    BY <1>9
  <2>2. mem[off + o].w \in Nat \ {0} /\ (off + o) + mem[off + o].w <= u
    <3>1. off + o < u
      BY <1>2, <1>4, <2>1
    <3> QED BY <1>3, <2>1, <3>1 DEF SplitAt
  <2> DEFINE w == m[o].w
  <2>3. w \in Nat \ {0} /\ (off + o) + w <= off + n /\ o \in Nat
    BY <1>2, <2>1, <2>2
  <2> HIDE DEF w
  <2>4. o + w <= n
    BY <1>2, <1>4, <2>3
  <2> QED BY <2>3, <2>4 DEF w
<1>11. HeaderIn(m, 0, s.type, n, s.count, hs)
  <2>1. ASSUME NEW o \in 0..(hs - 1), off + o \in DOMAIN mem
        PROVE  0 + o \in DOMAIN m /\ m[0 + o] = mem[off + o]
    <3>1. o \in 0..(n - 1) /\ 0 + o = o
      BY <1>2, <1>4
    <3>2. o \in DOMAIN m /\ m[o] = mem[off + o]
      BY <1>9, <2>1, <3>1
    <3> QED BY <3>1, <3>2
  <2>2. off \in Nat /\ 0 \in Nat
    BY <1>4
  <2> QED BY <1>2, <2>1, <2>2, HeaderCopied
<1>12. Image(m, s.type, n, s.count)
  BY <1>2, <1>4, <1>10, <1>11 DEF Image
<1> QED BY <1>12 DEF m, n

\* An image is read as it was written.
LEMMA ImageRead ==
    ASSUME NEW m, NEW type \in Containers, NEW size, NEW count \in Nat, Image(m, type, size, count)
    PROVE  LET h == IsValidBinnHeader(m)
           IN  h.ok = TRUE /\ h.type = type /\ h.size = size /\ h.count = count
BY HeaderRead DEF Image

\* What is released is an image, unless the saved pointer is into a block that is gone.
LEMMA ReleaseStep ==
    ASSUME BinnInv, Release
    PROVE  BinnInv'
<1> DEFINE s == binn_ptr(item)
           m == binn_release(item)
<1>1. /\ phase = "struct" /\ StructInv /\ added' = added /\ ended' = FALSE
      /\ phase' = IF Dangling THEN "lost" ELSE "buffer"
  BY DEF Release, ResetIter, BinnInv
<1>2. item' = [item EXCEPT !.mem = m] /\ m = SavedBytes(s)
  BY DEF Release, binn_release
<1>3. item'.type = item.type /\ item'.alloc_size = item.alloc_size /\ item'.used_size = item.used_size /\ item'.mem = m
  <2>1. DOMAIN item = ItemFields
    BY <1>1 DEF StructInv, Struct
  <2> HIDE DEF m
  <2> QED BY <1>2, <2>1 DEF ItemFields
<1>4. /\ Struct(s) /\ s.type = item.type /\ s.pbuf = item.pbuf /\ s.alloc_size = item.alloc_size
      /\ s.used_size = item.used_size /\ s.count = item.count
      /\ (s.ptr.block = s.pbuf => Saved(s)) /\ (item.dirty => s.ptr.block = s.pbuf) /\ (~item.dirty => s = item)
  BY <1>1, PtrStruct
<1>5. item.type \in Containers /\ item.alloc_size \in Nat /\ item.used_size \in Nat
  BY <1>1 DEF StructInv, Struct
<1> HIDE DEF s, m
<1>6. CASE Dangling
  <2>1. s = item /\ item.ptr.block # item.pbuf
    BY <1>4, <1>6 DEF Dangling
  <2>2. BufferOf(item) = <<>>
    BY <2>1 DEF BufferOf
  <2>3. m = Slice(<<>>, 0, item.size)
    BY <1>2, <2>1, <2>2 DEF SavedBytes
  <2>4. DOMAIN m = {}
    <3>1. \A e : e \notin DOMAIN <<>>
      OBVIOUS
    <3> DEFINE q == <<>>
    <3>2. \A e : e \notin DOMAIN q
      BY <3>1
    <3> HIDE DEF q
    <3>3. DOMAIN Slice(q, 0, item.size) = {}
      BY <3>2 DEF Slice
    <3> QED BY <2>3, <3>3 DEF q
  <2>5. LostInv'
    BY <1>3, <1>5, <2>4 DEF LostInv
  <2>6. phase' = "lost"
    BY <1>1, <1>6
  <2> QED BY <1>1, <2>5, <2>6 DEF BinnInv
<1>7. CASE ~Dangling
  <2>1. s.ptr.block = s.pbuf
    BY <1>1, <1>4, <1>7 DEF Dangling
  <2>2. Image(SavedBytes(s), s.type, s.size, s.count)
    BY <1>1, <1>4, <2>1, SavedImage DEF StructInv
  <2>3. s.count = Len(added)
    BY <1>1, <1>4 DEF StructInv
  <2>4. BufferInv'
    BY <1>1, <1>2, <1>3, <1>4, <1>5, <2>2, <2>3 DEF BufferInv
  <2>5. phase' = "buffer"
    BY <1>1, <1>7
  <2> QED BY <1>1, <2>4, <2>5 DEF BinnInv
<1> QED BY <1>6, <1>7

\* The structure that binn_open makes of valid bytes.
LEMMA OpenFields ==
    ASSUME Open
    PROVE  Loaded(item', IsValidBinnHeader(item.mem), item.mem)
<1> DEFINE m == item.mem
           r == binn_load(m)
<1>1. r.ok /\ item' = r.item
  BY DEF Open
<1>2. binn_is_valid(m)
  <2> SUFFICES ASSUME ~binn_is_valid(m) PROVE ~r.ok
    BY <1>1
  <2> QED BY DEF binn_load, Refused
<1>3. Loaded(r.item, IsValidBinnHeader(m), m)
  BY <1>2, LoadedFields
<1> QED BY <1>1, <1>3

\* What binn_open makes of an image.
LEMMA OpenStep ==
    ASSUME BinnInv, Open
    PROVE  BinnInv'
<1> DEFINE m == item.mem
           h == IsValidBinnHeader(m)
           p == [block |-> 1, off |-> 0]
<1>1. phase = "buffer" /\ BufferInv /\ phase' = "loaded" /\ UNCHANGED <<added, ended>>
  BY DEF Open, BinnInv
<1>2. Len(added) \in Nat
  BY SeqLen DEF BinnInv
<1>3. PICK size : Image(m, item.type, size, Len(added))
  BY <1>1 DEF BufferInv
<1>4. h.ok = TRUE /\ h.type = item.type /\ h.size = size /\ h.count = Len(added)
  BY <1>1, <1>2, <1>3, ImageRead DEF BufferInv
<1>5. /\ DOMAIN item' = ItemFields /\ item'.type = h.type /\ item'.writable = FALSE /\ item'.dirty = FALSE
      /\ item'.pbuf = 1 /\ item'.ptr = p /\ item'.used_size = 0 /\ item'.alloc_size = h.size
      /\ item'.size = h.size /\ item'.count = h.count /\ item'.mem = m
  BY OpenFields DEF Loaded
<1> HIDE DEF m, h, p
<1>6. added' = added /\ ended' = ended /\ item.type \in Containers
  BY <1>1 DEF BufferInv
<1>7. LoadedInv'
  BY <1>3, <1>4, <1>5, <1>6 DEF LoadedInv, p
<1> QED BY <1>1, <1>6, <1>7 DEF BinnInv

\* Saving the header keeps the structure.
LEMMA PtrInv ==
    ASSUME StructInv, item' = binn_ptr(item), added' = added
    PROVE  StructInv'
<1>1. /\ Struct(item') /\ item'.type = item.type /\ item'.writable = TRUE /\ item'.pbuf = item.pbuf /\ item'.dirty = FALSE
      /\ item'.alloc_size = item.alloc_size /\ item'.used_size = item.used_size /\ item'.count = item.count
      /\ item'.ptr.block \in Nat /\ item'.ptr.block <= item'.pbuf
      /\ (item'.ptr.block = item'.pbuf => Saved(item')) /\ InBlock(item'.mem, item'.alloc_size)
  BY PtrStruct
<1> QED BY <1>1 DEF StructInv

\* Nothing can be added to a structure that cannot be written.
LEMMA AddRefused ==
    ASSUME LoadedInv, NEW e, Add(e)
    PROVE  item' = item /\ added' = added
<1> DEFINE r == binn_add_value(item, e.key, e.type, e.v)
           t == GetWriteConvertedData(e.type, e.v).type
<1>1. ~item.writable
  BY DEF LoadedInv
<1>2. /\ binn_list_add_raw(item, t, e.v) = Refused(item) /\ binn_map_set_raw(item, e.key, t, e.v) = Refused(item)
      /\ binn_object_set_raw(item, e.key, t, e.v) = Refused(item)
  <2> HIDE DEF t
  <2> QED BY <1>1 DEF binn_list_add_raw, binn_map_set_raw, binn_object_set_raw
<1>3. r = Refused(item)
  <2>1. item.type \in Containers /\ BINN_LIST # BINN_MAP
    BY DEF LoadedInv, BINN_LIST, BINN_MAP
  <2> QED BY <1>2, <2>1 DEF binn_add_value, Containers
<1>4. item' = r.item /\ (~r.ok => added' = added)
  BY DEF Add
<1> HIDE DEF r
<1>5. r.item = item /\ ~r.ok
  BY <1>3 DEF Refused
<1> QED BY <1>4, <1>5

\* Every step keeps the invariant.
LEMMA BinnStep ==
    BinnInv /\ [Next]_vars => BinnInv'
<1> SUFFICES ASSUME BinnInv, [Next]_vars PROVE BinnInv'
  OBVIOUS
<1>1. ASSUME NEW type \in Containers, Create(type) PROVE BinnInv'
  <2>1. phase' = "struct" /\ item' = binn_create(type) /\ added' = <<>> /\ ended' = FALSE
    BY <1>1 DEF Create, ResetIter
  <2>2. IsSeq(added') /\ Len(added') = 0 /\ 0 <= MaxItems
    BY <2>1, EntriesAssumption, SeqEmpty
  <2>3. StructInv'
    BY <2>1, <2>2, Created DEF StructInv, InBlock
  <2> QED BY <2>1, <2>2, <2>3 DEF BinnInv
<1>2. ASSUME NEW e \in Entries, Add(e) PROVE BinnInv'
  <2>1. phase \in {"struct", "loaded"} /\ Len(added) < MaxItems /\ UNCHANGED <<phase, ended>>
    BY <1>2 DEF Add
  <2>2. /\ IsSeq(added') /\ Len(added') <= MaxItems
    <3> DEFINE x == [e EXCEPT !.key = IF item.type = BINN_LIST THEN NIL ELSE @]
    <3>1. added' = Append(added, x) \/ added' = added
      BY <1>2 DEF Add
    <3> HIDE DEF x
    <3>2. IsSeq(added) /\ Len(added) \in Nat
      BY SeqLen DEF BinnInv
    <3>3. IsSeq(Append(added, x)) /\ Len(Append(added, x)) = Len(added) + 1
      BY <3>2, SeqAppend
    <3> DEFINE l == Len(added)
    <3>4. l + 1 <= MaxItems /\ l <= MaxItems
      <4>1. l \in Nat /\ l < MaxItems /\ MaxItems \in Nat
        BY <2>1, <3>2, EntriesAssumption
      <4> HIDE DEF l
      <4> QED BY <4>1
    <3> QED BY <3>1, <3>2, <3>3, <3>4
  <2>3. CASE phase = "struct"
    <3>1. StructInv'
      BY <1>2, <2>3, AddStruct DEF BinnInv
    <3> QED BY <2>1, <2>2, <2>3, <3>1 DEF BinnInv
  <2>4. CASE phase = "loaded"
    <3>1. item' = item /\ added' = added
      BY <1>2, <2>4, AddRefused DEF BinnInv
    <3>2. LoadedInv /\ LoadedInv'
      BY <2>4, <3>1 DEF BinnInv, LoadedInv
    <3> QED BY <2>1, <2>2, <2>4, <3>2 DEF BinnInv
  <2> QED BY <2>1, <2>3, <2>4
<1>3. ASSUME Save PROVE BinnInv'
  <2>1. phase = "struct" /\ StructInv /\ item' = binn_ptr(item) /\ UNCHANGED <<phase, added, ended>>
    BY <1>3 DEF Save, BinnInv
  <2>2. StructInv'
    BY <2>1, PtrInv
  <2> QED BY <2>1, <2>2 DEF BinnInv
<1>4. ASSUME IterInit PROVE BinnInv'
  <2>1. phase \in {"struct", "loaded"} /\ item' = binn_ptr(item) /\ UNCHANGED <<phase, added>> /\ ended' = FALSE
    BY <1>4 DEF IterInit
  <2>2. CASE phase = "struct"
    <3>1. StructInv'
      BY <2>1, <2>2, PtrInv DEF BinnInv
    <3> QED BY <2>1, <2>2, <3>1 DEF BinnInv
  <2>3. CASE phase = "loaded"
    <3>1. item' = item
      BY <2>1, <2>3 DEF binn_ptr, BinnInv, LoadedInv
    <3>2. LoadedInv'
      BY <2>1, <2>3, <3>1 DEF BinnInv, LoadedInv
    <3> QED BY <2>1, <2>3, <3>2 DEF BinnInv
  <2> QED BY <2>1, <2>2, <2>3
<1>5. ASSUME IterNext PROVE BinnInv'
  <2>1. UNCHANGED <<phase, item, added>> /\ ended' \in BOOLEAN
    BY <1>5 DEF IterNext
  <2> QED BY <2>1 DEF BinnInv, StructInv, BufferInv, LoadedInv, LostInv
<1>6. ASSUME Release PROVE BinnInv'
  BY <1>6, ReleaseStep
<1>7. ASSUME Open PROVE BinnInv'
  BY <1>7, OpenStep
<1>8. ASSUME Free PROVE BinnInv'
  <2>1. phase' = "none" /\ item' = binn_create(BINN_LIST) /\ added' = <<>> /\ ended' = FALSE
    BY <1>8 DEF Free, ResetIter
  <2>2. IsSeq(added') /\ Len(added') = 0 /\ 0 <= MaxItems
    BY <2>1, EntriesAssumption, SeqEmpty
  <2> QED BY <2>1, <2>2 DEF BinnInv
<1>9. ASSUME UNCHANGED vars PROVE BinnInv'
  BY <1>9 DEF vars, BinnInv, StructInv, BufferInv, LoadedInv, LostInv
<1> QED BY <1>1, <1>2, <1>3, <1>4, <1>5, <1>6, <1>7, <1>8, <1>9 DEF Next

\* The program starts with nothing.
LEMMA BinnInit ==
    Init => BinnInv
<1> SUFFICES ASSUME Init PROVE BinnInv
  OBVIOUS
<1>1. phase = "none" /\ item = binn_create(BINN_LIST) /\ added = <<>> /\ ended = FALSE
  BY DEF Init
<1>2. IsSeq(added) /\ Len(added) = 0 /\ 0 <= MaxItems
  BY <1>1, EntriesAssumption, SeqEmpty
<1> QED BY <1>1, <1>2 DEF BinnInv

\* The invariant holds in every state.
THEOREM BinnInvCorrect == Spec => []BinnInv
<1>1. Init => BinnInv
  BY BinnInit
<1>2. BinnInv /\ [Next]_vars => BinnInv'
  BY BinnStep
<1> QED BY <1>1, <1>2, PTL DEF Spec

-----------------------------------------------------------------------------
(* What follows from it.                                                   *)

\* Every field of a block that binn_release gave away, or that was opened, is a
\* field, and so is every field of a block that is being written.
LEMMA FieldsInside ==
    ASSUME BinnInv
    PROVE  \A o \in DOMAIN item.mem : o \in Nat /\ item.mem[o].w \in Nat \ {0}
<1>1. CASE phase = "none"
  BY <1>1, Created DEF BinnInv
<1>2. CASE phase = "struct"
  BY <1>2 DEF BinnInv, StructInv, Struct, SplitAt
<1>3. CASE phase = "buffer"
  BY <1>3 DEF BinnInv, BufferInv, Image, EndsBy
<1>4. CASE phase = "loaded"
  BY <1>4 DEF BinnInv, LoadedInv, Image, EndsBy
<1>5. CASE phase = "lost"
  BY <1>5 DEF BinnInv, LostInv
<1> QED BY <1>1, <1>2, <1>3, <1>4, <1>5 DEF BinnInv

\* The variables of a program that uses a container have their types in every
\* state, however many entries it adds.
THEOREM TypeCorrect == Spec => []TypeOK
<1>1. BinnInv => TypeOK
  <2> SUFFICES ASSUME BinnInv PROVE TypeOK
    OBVIOUS
  <2>1. \A o \in DOMAIN item.mem : o \in Nat /\ item.mem[o].w \in Nat \ {0}
    BY FieldsInside
  <2>2. item.type \in Containers /\ item.alloc_size \in Nat /\ item.used_size \in Nat
    <3>1. CASE phase = "none"
      <4>1. BINN_LIST \in Containers
        BY DEF Containers
      <4> QED BY <3>1, <4>1, Created DEF BinnInv
    <3>2. CASE phase = "struct"
      BY <3>2 DEF BinnInv, StructInv, Struct
    <3>3. CASE phase = "buffer"
      BY <3>3 DEF BinnInv, BufferInv
    <3>4. CASE phase = "loaded"
      BY <3>4 DEF BinnInv, LoadedInv, Image
    <3>5. CASE phase = "lost"
      BY <3>5 DEF BinnInv, LostInv
    <3> QED BY <3>1, <3>2, <3>3, <3>4, <3>5 DEF BinnInv
  <2> QED BY <2>1, <2>2 DEF TypeOK, BinnInv
<1> QED BY <1>1, BinnInvCorrect, PTL

\* AddValue, the setters and binn_save_header write no byte outside the block that
\* CheckAllocation asked for, and no field lies across used_size: for entries of
\* every kind and length that a caller may pass, refused ones included.
THEOREM WritesFitCorrect == Spec => []WritesFit
<1>1. BinnInv => WritesFit
  <2> SUFFICES ASSUME BinnInv, phase = "struct", NEW o \in DOMAIN item.mem
               PROVE  /\ o + item.mem[o].w <= item.alloc_size
                      /\ o < item.used_size => o + item.mem[o].w <= item.used_size
    BY DEF WritesFit
  <2> QED BY DEF BinnInv, StructInv, Struct, SplitAt, InBlock
<1> QED BY <1>1, BinnInvCorrect, PTL

\* The bytes from a header on, as far as they reach, start with that header.
LEMMA HeaderSliced ==
    ASSUME NEW mem, \A o \in DOMAIN mem : o \in Nat, NEW p \in Nat, NEW n \in Nat, NEW hs \in Nat, hs <= n,
           NEW type, NEW size, NEW count, HeaderIn(mem, p, type, size, count, hs)
    PROVE  HeaderIn(Slice(mem, p, n), 0, type, size, count, hs)
<1> DEFINE m == Slice(mem, p, n)
<1>1. \A o : /\ o \in DOMAIN m <=> o \in 0..(n - 1) /\ p + o \in DOMAIN mem
             /\ o \in DOMAIN m => m[o] = mem[p + o]
  BY SliceAt
<1> HIDE DEF m
<1>2. ASSUME NEW o \in 0..(hs - 1), p + o \in DOMAIN mem
      PROVE  0 + o \in DOMAIN m /\ m[0 + o] = mem[p + o]
  <2>1. o \in 0..(n - 1) /\ 0 + o = o
    OBVIOUS
  <2>2. o \in DOMAIN m /\ m[o] = mem[p + o]
    BY <1>1, <1>2, <2>1
  <2> QED BY <2>1, <2>2
<1>3. HeaderIn(m, 0, type, size, count, hs)
  BY <1>2, HeaderCopied
<1> QED BY <1>3 DEF m

\* The header of a saved structure says where its data starts and ends.
LEMMA SavedRead ==
    ASSUME NEW s, Struct(s), s.type \in Containers, Saved(s), s.used_size <= s.alloc_size, s.ptr.block = s.pbuf
    PROVE  LET h == IsValidBinnHeader(BufferOf(s))
           IN  /\ h.ok = TRUE /\ h.type = s.type /\ h.size = s.size /\ h.count = s.count
               /\ s.ptr.off + h.header_size = MAX_BINN_HEADER /\ s.ptr.off + h.size = s.used_size
<1> DEFINE h == IsValidBinnHeader(BufferOf(s))
           off == s.ptr.off
           hs == MAX_BINN_HEADER - off
           a == s.alloc_size
           n == s.size
           mem == s.mem
<1>1. a \in Nat /\ s.used_size \in Nat /\ MAX_BINN_HEADER <= s.used_size /\ s.count \in Nat /\ \A o \in DOMAIN mem : o \in Nat
  BY DEF Struct, SplitAt
<1>2. /\ n \in Nat /\ n >= MIN_BINN_SIZE /\ off \in {0, 3, 6} /\ off + n = s.used_size
      /\ HeaderIn(mem, off, s.type, n, s.count, hs)
  BY DEF Saved
<1>3. BufferOf(s) = Slice(mem, off, a)
  BY DEF BufferOf
<1> HIDE DEF off, a, n, mem
<1>4. off \in Nat /\ hs \in Nat /\ hs <= a /\ off + hs = MAX_BINN_HEADER
  BY <1>1, <1>2 DEF MAX_BINN_HEADER, a
<1> HIDE DEF hs
<1>5. HeaderIn(BufferOf(s), 0, s.type, n, s.count, hs)
  BY <1>1, <1>2, <1>3, <1>4, HeaderSliced
<1>6. h.ok = TRUE /\ h.type = s.type /\ h.size = n /\ h.count = s.count /\ h.header_size = hs
  <2>1. s.count \in Nat /\ s.type \in Containers /\ n \in Nat /\ n >= MIN_BINN_SIZE
    BY <1>1, <1>2
  <2> QED BY <1>5, <2>1, HeaderRead
<1> HIDE DEF h
<1> QED BY <1>2, <1>4, <1>6 DEF h, n, off

\* Whatever bytes a program can read, it reads a header that says what they are: the
\* type, how many entries were accepted, where the data starts and where it ends.
THEOREM HeaderTruthfulCorrect == Spec => []HeaderTruthful
<1>1. BinnInv => HeaderTruthful
  <2> SUFFICES ASSUME BinnInv, Readable PROVE HeaderTruthful
    BY DEF HeaderTruthful
  <2> DEFINE h == IsValidBinnHeader(Bytes)
  <2>1. Len(added) \in Nat
    BY SeqLen DEF BinnInv
  <2>2. \A o \in DOMAIN item.mem : o \in Nat
    BY FieldsInside
  <2>3. CASE phase = "struct"
    <3>1. StructInv /\ ~item.dirty /\ item.ptr.block = item.pbuf
      BY <2>3 DEF BinnInv, Readable, Dangling
    <3>2. Saved(item) /\ item.count = Len(added)
      BY <3>1 DEF StructInv
    <3>3. Bytes = BufferOf(item)
      BY <2>3 DEF Bytes
    <3>4. /\ h.ok = TRUE /\ h.type = item.type /\ h.size = item.size /\ h.count = item.count
          /\ item.ptr.off + h.header_size = MAX_BINN_HEADER /\ item.ptr.off + h.size = item.used_size
      BY <3>1, <3>2, <3>3, SavedRead DEF StructInv
    <3> HIDE DEF h
    <3> QED BY <3>2, <3>4 DEF HeaderTruthful, h
  <2>4. CASE phase = "buffer"
    <3>1. Bytes = item.mem /\ BufferInv
      BY <2>4 DEF Bytes, BinnInv
    <3>2. PICK size : Image(item.mem, item.type, size, Len(added))
      BY <3>1 DEF BufferInv
    <3>3. h.ok = TRUE /\ h.type = item.type /\ h.count = Len(added)
      BY <2>1, <3>1, <3>2, ImageRead DEF BufferInv
    <3> QED BY <2>4, <3>3 DEF HeaderTruthful
  <2>5. CASE phase = "loaded"
    <3>1. LoadedInv
      BY <2>5 DEF BinnInv
    <3> DEFINE n == item.size
    <3>2. Bytes = Slice(item.mem, 0, n)
      BY <2>5, <3>1 DEF Bytes, BufferOf, LoadedInv
    <3>3. PICK hs \in Nat : /\ n \in Nat /\ n >= MIN_BINN_SIZE /\ hs <= n
                            /\ HeaderIn(item.mem, 0, item.type, n, Len(added), hs)
      BY <3>1 DEF LoadedInv, Image
    <3> HIDE DEF n
    <3>4. HeaderIn(Bytes, 0, item.type, n, Len(added), hs)
      BY <2>2, <3>2, <3>3, HeaderSliced
    <3>5. item.type \in Containers
      BY <3>1 DEF LoadedInv
    <3>6. h.ok = TRUE /\ h.type = item.type /\ h.count = Len(added)
      BY <2>1, <3>3, <3>4, <3>5, HeaderRead
    <3> QED BY <2>5, <3>6 DEF HeaderTruthful
  <2> QED BY <2>3, <2>4, <2>5 DEF Readable
<1> QED BY <1>1, BinnInvCorrect, PTL

\* A setter that refuses its arguments takes back what it wrote: the entries, the size
\* in use and every byte in use are as they were, though bytes of a key may be left
\* behind them and the block may be a larger one.
THEOREM RefusedSetHarmlessCorrect == Spec => RefusedSetHarmless
<1> DEFINE Harmless ==
      (phase = "struct" /\ phase' = "struct" /\ added' = added /\ item'.dirty = item.dirty) =>
       /\ item'.count = item.count /\ item'.used_size = item.used_size
       /\ \A o \in 0..(item.used_size - 1) :
            /\ o \in DOMAIN item'.mem <=> o \in DOMAIN item.mem
            /\ o \in DOMAIN item.mem => item'.mem[o] = item.mem[o]
<1>1. ASSUME BinnInv, [Next]_vars PROVE [Harmless]_vars
  <2> SUFFICES ASSUME phase = "struct", phase' = "struct", added' = added, item'.dirty = item.dirty, Next
               PROVE  /\ item'.count = item.count /\ item'.used_size = item.used_size
                      /\ Keeps(item.mem, item'.mem, item.used_size)
    BY <1>1 DEF Keeps
  <2> USE <1>1
  <2>1. StructInv
    BY DEF BinnInv
  <2>2. ASSUME NEW e \in Entries, Add(e)
        PROVE  /\ item'.count = item.count /\ item'.used_size = item.used_size
               /\ Keeps(item.mem, item'.mem, item.used_size)
    <3> DEFINE r == binn_add_value(item, e.key, e.type, e.v)
               x == [e EXCEPT !.key = IF item.type = BINN_LIST THEN NIL ELSE @]
    <3>1. item' = r.item /\ added' = IF r.ok THEN Append(added, x) ELSE added
      BY <2>2 DEF Add
    <3>2. EntryFits(item.type, e.key, AddedType(e.type, e.v), e.v)
      BY <2>2, ArgumentsFit DEF Add
    <3>3. \/ r = Refused(r.item) /\ Undone(item, r.item)
          \/ r = Accepted(r.item)
      BY <2>1, <3>2, SetterGrown DEF StructInv
    <3> HIDE DEF r, x
    <3>4. ~ r.ok
      <4>1. IsSeq(added) /\ Len(Append(added, x)) = Len(added) + 1 /\ Len(added) \in Nat
        BY SeqAppend, SeqLen DEF BinnInv
      <4>2. Append(added, x) # added
        BY <4>1
      <4> QED BY <3>1, <4>2
    <3>5. r # Accepted(r.item)
      BY <3>4 DEF Accepted
    <3> QED BY <3>1, <3>3, <3>5 DEF Undone
  <2>3. ASSUME item' = binn_ptr(item)
        PROVE  item' = item
    <3>1. item'.dirty = FALSE /\ (~item.dirty => item' = item)
      BY <2>1, <2>3, PtrStruct
    <3> QED BY <3>1
  <2>4. ASSUME NEW type \in Containers, Create(type) PROVE FALSE
    BY <2>4 DEF Create
  <2>5. ASSUME IterNext PROVE item' = item
    BY <2>5 DEF IterNext
  <2>6. ASSUME Release \/ Open \/ Free PROVE FALSE
    BY <2>6 DEF Release, Open, Free
  <2>7. item' = item => Keeps(item.mem, item'.mem, item.used_size)
    BY DEF Keeps
  <2> QED BY <2>2, <2>3, <2>4, <2>5, <2>6, <2>7 DEF Next, Save, IterInit
<1>2. BinnInv /\ [Next]_vars => [Harmless]_vars
  BY <1>1
<1> HIDE DEF Harmless
<1>3. Spec => [][Harmless]_vars
  BY <1>2, BinnInvCorrect, PTL DEF Spec
<1> QED BY <1>3 DEF RefusedSetHarmless, Harmless

-----------------------------------------------------------------------------
(* What the container holds.                                               *)

\* The iterator stands behind the entries it returned, or is past the last of the
\* entries that the container had when it was made.
IterOf(pos) ==
  /\ IsSeq(seen) /\ ended \in BOOLEAN
  /\ ~iter.ok => seen = <<>> /\ ended = FALSE /\ iter.count \in Nat
  /\ iter.ok => /\ iter.count \in 0..Len(added) /\ Len(seen) \in 0..iter.count
                /\ StandsAt(iter, item.type, pos, iter.count, Len(seen))
                /\ ended => Len(seen) = iter.count
                /\ \A i \in 1..Len(seen) : Exactly(seen[i].value, added[i]) /\ seen[i].key = added[i].key
NoIterator == iter.ok = FALSE /\ iter.count = 0 /\ seen = <<>> /\ ended = FALSE

\* Every entry that was accepted is in the block, in order, and the iterator is among them.
StructHolds ==
  \E pos : Written(item.mem, item.type, added, MAX_BINN_HEADER, item.used_size, pos) /\ IterOf(pos)
BufferHolds ==
  \E hs \in Nat : \E size \in Nat : \E pos : Packed(item.mem, item.type, added, hs, size, pos)
LoadedHolds ==
  \E hs \in Nat : \E pos : Packed(item.mem, item.type, added, hs, item.size, pos) /\ IterOf(pos)

ContentInv ==
  /\ phase \notin {"struct", "loaded"} => NoIterator
  /\ phase = "struct" => StructHolds
  /\ phase = "buffer" => BufferHolds
  /\ phase = "loaded" => LoadedHolds
  /\ phase \in {"struct", "buffer", "loaded"} => KeysApart(item.type, added)

\* A step that leaves the container and its bytes alone.
LEMMA ContentSame ==
    ASSUME ContentInv, UNCHANGED <<phase, item, added, iter, seen, ended>>
    PROVE  ContentInv'
<1>1. ASSUME NEW pos, IterOf(pos) PROVE IterOf(pos)'
  BY <1>1 DEF IterOf
<1>2. NoIterator => NoIterator'
  BY DEF NoIterator
<1>3. StructHolds => StructHolds'
  BY <1>1 DEF StructHolds
<1>4. BufferHolds => BufferHolds'
  BY DEF BufferHolds
<1>5. LoadedHolds => LoadedHolds'
  BY <1>1 DEF LoadedHolds
<1> QED BY <1>2, <1>3, <1>4, <1>5 DEF ContentInv

\* What is added can be added, and a list forgets its key.
LEMMA EntryAddable ==
    ASSUME NEW e \in Entries, NEW ctype, ctype = BINN_OBJECT => e.key \in DOMAIN KeyText,
           NEW x, x = [e EXCEPT !.key = IF ctype = BINN_LIST THEN NIL ELSE @]
    PROVE  /\ EntryGiven(ctype, x) /\ (ctype # BINN_LIST => x.key = e.key)
           /\ \A mem, p, q : EntryLaid(mem, ctype, e.key, AddedType(e.type, e.v), e.v, p, q) => EntryAt(mem, ctype, x, p, q)
<1> DEFINE k == IF ctype = BINN_LIST THEN NIL ELSE e.key
<1>1. e = [key |-> e.key, type |-> e.type, v |-> e.v] /\ e.type \in DataTypes /\ Acceptable(e.type, e.v)
  BY EntriesAssumption
<1>2. x.key = k /\ x.type = e.type /\ x.v = e.v
  BY <1>1
<1>3. EntryGiven(ctype, x)
  BY <1>1, <1>2, ContainersApart DEF EntryGiven, Given, KeyFits
<1>4. ASSUME NEW mem, NEW p, NEW q, EntryLaid(mem, ctype, e.key, AddedType(e.type, e.v), e.v, p, q)
      PROVE  EntryAt(mem, ctype, x, p, q)
  <2> DEFINE a == AddedType(e.type, e.v)
             v == e.v
  <2>1. HeadWidth(ctype, k) = HeadWidth(ctype, e.key)
    BY DEF HeadWidth
  <2>2. HeadLaid(mem, ctype, e.key, p) => HeadLaid(mem, ctype, k, p)
    BY ContainersApart DEF HeadLaid
  <2> HIDE DEF k, a, v
  <2>3. EntryLaid(mem, ctype, e.key, a, v, p, q)
    BY <1>4 DEF a, v
  <2>4. EntryLaid(mem, ctype, k, a, v, p, q)
    BY <2>1, <2>2, <2>3 DEF EntryLaid
  <2> QED BY <1>2, <2>4 DEF EntryAt, a, v
<1> QED BY <1>2, <1>3, <1>4

\* Positions that are the same make no difference to the iterator.
LEMMA IterOfSame ==
    ASSUME NEW pos, IterOf(pos), NEW at, Len(added) \in Nat, \A i \in 0..Len(added) : at[i] = pos[i]
    PROVE  IterOf(at)
<1>1. CASE ~iter.ok
  BY <1>1 DEF IterOf
<1>2. CASE iter.ok
  <2> DEFINE k == Len(seen)
  <2>1. iter.count \in 0..Len(added) /\ k \in 0..iter.count /\ StandsAt(iter, item.type, pos, iter.count, k)
    BY <1>2 DEF IterOf
  <2>2. k \in 0..Len(added)
    BY <2>1
  <2>3. at[iter.count] = pos[iter.count] /\ at[k] = pos[k]
    BY <2>1, <2>2
  <2> HIDE DEF k
  <2>4. StandsAt(iter, item.type, at, iter.count, k)
    BY <2>1, <2>3 DEF StandsAt
  <2> QED BY <1>2, <2>4 DEF IterOf, k
<1> QED BY <1>1, <1>2

\* A setter that is refused leaves every entry where it was.
LEMMA AddRefusedHolds ==
    ASSUME StructHolds, Keeps(item.mem, item'.mem, item.used_size), item.used_size \in Nat, Len(added) \in Nat,
           \A o \in DOMAIN item'.mem : o \in Nat, item'.type = item.type, item'.used_size = item.used_size,
           UNCHANGED <<added, iter, seen, ended>>
    PROVE  StructHolds'
<1>1. PICK pos : Written(item.mem, item.type, added, MAX_BINN_HEADER, item.used_size, pos) /\ IterOf(pos)
  BY DEF StructHolds
<1>2. PICK at : /\ Written(item'.mem, item.type, added, MAX_BINN_HEADER, item.used_size, at)
                /\ \A i \in 0..Len(added) : at[i] = pos[i]
  <2> DEFINE lo == MAX_BINN_HEADER
             hi == item.used_size
             m == item.mem
             more == item'.mem
             t == item.type
  <2>1. /\ lo \in Nat /\ hi \in Nat /\ Keeps(m, more, hi) /\ (\A o \in DOMAIN more : o \in Nat)
        /\ Written(m, t, added, lo, hi, pos) /\ item'.used_size = hi
    BY <1>1 DEF MAX_BINN_HEADER
  <2> HIDE DEF lo, hi, m, more, t
  <2>2. \A o \in DOMAIN more : o \in Nat
    BY <2>1
  <2>3. WrittenThere(more, t, added, lo, hi, pos)
    BY <2>1, <2>2, WrittenKept
  <2> QED BY <2>1, <2>3 DEF WrittenThere, lo, hi, more, t
<1>3. IterOf(at)
  BY <1>1, <1>2, IterOfSame
<1>4. IterOf(at)'
  BY <1>3 DEF IterOf
<1> QED BY <1>2, <1>4 DEF StructHolds

\* One that is accepted puts its entry behind the others, where the iterator does not look.
LEMMA AddAcceptedHolds ==
    ASSUME StructHolds, IsSeq(added), item.used_size \in Nat, item'.used_size \in Nat, item'.type = item.type,
           Keeps(item.mem, item'.mem, item.used_size), \A o \in DOMAIN item'.mem : o \in Nat,
           NEW x, EntryGiven(item.type, x), EntryAt(item'.mem, item.type, x, item.used_size, item'.used_size),
           added' = Append(added, x), UNCHANGED <<iter, seen, ended>>
    PROVE  StructHolds'
<1>1. PICK pos : Written(item.mem, item.type, added, MAX_BINN_HEADER, item.used_size, pos) /\ IterOf(pos)
  BY DEF StructHolds
<1> DEFINE n == Len(added)
           at == [i \in 0..Len(Append(added, x)) |-> IF i <= Len(added) THEN pos[i] ELSE item'.used_size]
<1>2. MAX_BINN_HEADER \in Nat
  BY DEF MAX_BINN_HEADER
<1>3. Written(item'.mem, item'.type, added', MAX_BINN_HEADER, item'.used_size, at)
  <2>1. Written(item'.mem, item.type, Append(added, x), MAX_BINN_HEADER, item'.used_size, at)
    BY <1>1, <1>2, LayoutExtended
  <2> HIDE DEF at
  <2> QED BY <2>1
<1>4. n \in Nat /\ Len(added') = n + 1 /\ \A i \in 1..n : added'[i] = added[i]
  BY SeqLen, SeqAppend
<1>5. \A i \in 0..n : at[i] = pos[i]
  <2>1. Len(Append(added, x)) = n + 1 /\ n \in Nat
    BY <1>4
  <2> DEFINE l == Len(Append(added, x))
  <2> HIDE DEF l, n
  <2>2. \A i \in 0..n : i \in 0..l /\ i <= n
    BY <2>1 DEF l
  <2> QED BY <2>2 DEF l, n
<1> HIDE DEF at, n
<1>6. PICK q : q = at
  OBVIOUS
<1>7. IterOf(q)'
  <2>1. IterOf(pos)
    BY <1>1
  <2>2. CASE ~iter.ok
    BY <2>1, <2>2 DEF IterOf
  <2>3. CASE iter.ok
    <3> DEFINE c == iter.count
               k == Len(seen)
    <3>1. /\ c \in 0..n /\ k \in 0..c /\ StandsAt(iter, item.type, pos, iter.count, k)
          /\ \A i \in 1..k : Exactly(seen[i].value, added[i]) /\ seen[i].key = added[i].key
      BY <2>1, <2>3 DEF IterOf, n
    <3>2. c \in 0..Len(added') /\ k \in 0..n /\ \A i \in 1..k : i \in 1..n
      BY <1>4, <3>1
    <3>3. StandsAt(iter, item.type, q, iter.count, k)
      <4>1. q[iter.count] = pos[iter.count] /\ q[k] = pos[k]
        BY <1>5, <1>6, <3>1, <3>2
      <4> QED BY <3>1, <4>1 DEF StandsAt
    <3>4. \A i \in 1..k : Exactly(seen[i].value, added'[i]) /\ seen[i].key = added'[i].key
      BY <1>4, <3>1, <3>2
    <3>5. IsSeq(seen)' /\ (ended \in BOOLEAN)' /\ (iter.ok)' /\ (ended => Len(seen) = iter.count)'
      BY <2>1, <2>3 DEF IterOf
    <3>6. StandsAt(iter', item'.type, q, iter'.count, Len(seen'))
      BY <3>3
    <3> QED BY <2>3, <3>1, <3>2, <3>4, <3>5, <3>6 DEF IterOf
  <2> QED BY <2>2, <2>3
<1> QED BY <1>3, <1>6, <1>7 DEF StructHolds

\* Its key or id is a new one.
LEMMA AddAcceptedApart ==
    ASSUME StructHolds, KeysApart(item.type, added), IsSeq(added), item.count = Len(added),
           NEW x, EntryGiven(item.type, x), item.type # BINN_LIST => NotThere(item, x.key)
    PROVE  KeysApart(item.type, Append(added, x))
<1>1. PICK pos : Written(item.mem, item.type, added, MAX_BINN_HEADER, item.used_size, pos)
  BY DEF StructHolds
<1> DEFINE n == Len(added)
<1>3. item.type = BINN_MAP => \A i \in 1..n : added[i].key # x.key
  <2> SUFFICES ASSUME item.type = BINN_MAP PROVE \A i \in 1..n : added[i].key # x.key
    OBVIOUS
  <2>1. SearchForID(item.mem, MAX_BINN_HEADER, item.used_size, n, x.key) = NIL
    BY ContainersApart DEF NotThere
  <2>2. Written(item.mem, BINN_MAP, added, MAX_BINN_HEADER, item.used_size, pos)
    BY <1>1
  <2> DEFINE k == x.key
  <2> HIDE DEF k
  <2>3. SearchForID(item.mem, MAX_BINN_HEADER, item.used_size, Len(added), k) = NIL <=> \A i \in 1..Len(added) : added[i].key # k
    BY <2>2, IdSearched
  <2> QED BY <2>1, <2>3 DEF k
<1>4. item.type = BINN_OBJECT => \A i \in 1..n : ~SameKey(added[i].key, x.key)
  <2> SUFFICES ASSUME item.type = BINN_OBJECT PROVE \A i \in 1..n : ~SameKey(added[i].key, x.key)
    OBVIOUS
  <2>1. SearchForKey(item.mem, MAX_BINN_HEADER, item.used_size, n, x.key) = NIL
    BY ContainersApart DEF NotThere
  <2>2. Written(item.mem, BINN_OBJECT, added, MAX_BINN_HEADER, item.used_size, pos)
    BY <1>1
  <2> DEFINE k == x.key
  <2>3. k \in DOMAIN KeyText
    BY DEF EntryGiven, KeyFits
  <2> HIDE DEF k
  <2>4. SearchForKey(item.mem, MAX_BINN_HEADER, item.used_size, Len(added), k) = NIL <=> \A i \in 1..Len(added) : ~SameKey(added[i].key, k)
    BY <2>2, <2>3, KeySearched
  <2> QED BY <2>1, <2>4 DEF k
<1> QED BY <1>3, <1>4, ApartMore

\* binn_ptr writes in front of the entries.
LEMMA PtrWritten ==
    ASSUME StructInv, Len(added) \in Nat, NEW s, s = binn_ptr(item),
           NEW pos, Written(item.mem, item.type, added, MAX_BINN_HEADER, item.used_size, pos)
    PROVE  \E at : /\ Written(s.mem, s.type, added, MAX_BINN_HEADER, s.used_size, at)
                   /\ \A i \in 0..Len(added) : at[i] = pos[i]
<1>1. CASE ~item.dirty
  <2>1. s = item
    BY <1>1 DEF binn_ptr
  <2> QED BY <2>1
<1>2. CASE item.dirty
  <2>1. s = binn_save_header(item) /\ Struct(item)
    BY <1>2 DEF binn_ptr, StructInv
  <2> QED BY <2>1, SaveWritten
<1> QED BY <1>1, <1>2

\* Saving the header leaves the entries and the iterator.
LEMMA SaveHolds ==
    ASSUME StructInv, StructHolds, Len(added) \in Nat, item' = binn_ptr(item), UNCHANGED <<added, iter, seen, ended>>
    PROVE  StructHolds'
<1>1. PICK pos : Written(item.mem, item.type, added, MAX_BINN_HEADER, item.used_size, pos) /\ IterOf(pos)
  BY DEF StructHolds
<1> DEFINE s == binn_ptr(item)
<1>2. PICK at : /\ Written(s.mem, s.type, added, MAX_BINN_HEADER, s.used_size, at)
                /\ \A i \in 0..Len(added) : at[i] = pos[i]
  BY <1>1, PtrWritten
<1>3. s.type = item.type
  BY PtrStruct
<1> HIDE DEF s
<1>4. IterOf(at)
  BY <1>1, <1>2, IterOfSame
<1>5. IterOf(at)'
  BY <1>3, <1>4 DEF IterOf, s
<1> QED BY <1>2, <1>5 DEF StructHolds, s

\* An iterator over readable bytes stands in front of the first entry.
LEMMA IterMade ==
    ASSUME NEW pos, NEW h, h = IsValidBinnHeader(BufferOf(item)'), h.ok = TRUE, h.type = item.type, h.count = Len(added),
           Len(added) \in Nat, item'.ptr.off \in Int, h.size \in Int, item'.ptr.off + h.header_size = pos[0], item'.ptr.off + h.size = pos[Len(added)],
           item'.type = item.type, added' = added, iter' = binn_iter_init(item', item.type), seen' = <<>>, ended' = FALSE
    PROVE  IterOf(pos)'
<1> DEFINE i == binn_iter_init(item', item.type)
           ok == h.ok /\ h.type = item.type
           p == item'.ptr.off + h.header_size
           l == item'.ptr.off + h.size - 1
           t == item.type
           c == h.count
           b == item'.ptr.block
<1>1. i = [ok |-> ok, block |-> b, type |-> t, pnext |-> p, plimit |-> l, count |-> c, current |-> 0]
  BY DEF binn_iter_init
<1>2. ok = TRUE
  OBVIOUS
<1>3. p = pos[0] /\ l = pos[Len(added)] - 1 /\ c = Len(added)
  OBVIOUS
<1> HIDE DEF ok, p, l, c, b, t, i
<1>4. /\ i.ok = TRUE /\ i.type = t /\ i.pnext = p /\ i.plimit = l /\ i.count = c /\ i.current = 0 /\ DOMAIN i = IterFields
  BY <1>1, <1>2 DEF IterFields
<1>5. iter' = i /\ t = item.type
  BY DEF i, t
<1>6. IsSeq(seen') /\ Len(seen') = 0 /\ 0 \in 0..c /\ c \in 0..Len(added)
  BY <1>3, SeqEmpty
<1>7. StandsAt(i, t, pos, c, 0)
  BY <1>3, <1>4 DEF StandsAt
<1> DEFINE n == Len(added)
<1>8. /\ iter'.ok = TRUE /\ iter'.count = c /\ StandsAt(iter', item'.type, pos, iter'.count, Len(seen')) /\ Len(added') = Len(added)
  BY <1>4, <1>5, <1>6, <1>7
<1>9. \A j \in 1..Len(seen') : FALSE
  BY <1>6
<1> QED BY <1>6, <1>8, <1>9 DEF IterOf

\* Of no bytes at all a reader makes no header.
LEMMA NothingRead ==
    LET h == IsValidBinnHeader(<<>>)
    IN  h.ok = FALSE /\ h.count = 0
<1> DEFINE e == <<>>
           h == IsValidBinnHeader(e)
<1>1. \A p : At(e, p) = Garbage
  BY DEF At
<1> HIDE DEF e
<1>2. Garbage.kind = "garbage" /\ Garbage.n = 0 /\ "garbage" # "type"
  BY DEF Garbage, Field
<1>3. \A p : ReadLen(e, p).n = 0
  BY <1>1, <1>2 DEF ReadLen
<1> DEFINE q == ReadLen(e, 1)
           c == ReadLen(e, q.next)
           g == At(e, 0)
<1>4. h = HeaderFields(g, q, c)
  BY DEF IsValidBinnHeader, HeaderWithSize
<1>5. g.kind # "type" /\ c.n = 0
  BY <1>1, <1>2, <1>3
<1> HIDE DEF g, q, c, h
<1>6. h.ok = FALSE /\ h.count = 0
  BY <1>4, <1>5 DEF HeaderFields
<1> QED BY <1>6 DEF h, e

\* Making an iterator leaves the entries; it has none of them when the saved pointer
\* is into a block that is gone.
LEMMA IterInitStruct ==
    ASSUME BinnInv, ContentInv, IterInit, phase = "struct"
    PROVE  StructHolds'
<1>1. StructInv /\ StructHolds /\ IsSeq(added) /\ Len(added) \in Nat
  BY SeqLen DEF BinnInv, ContentInv
<1>2. item' = binn_ptr(item) /\ iter' = binn_iter_init(item', item.type) /\ seen' = <<>> /\ ended' = FALSE /\ added' = added
  BY DEF IterInit
<1>3. PICK pos : Written(item.mem, item.type, added, MAX_BINN_HEADER, item.used_size, pos)
  BY <1>1 DEF StructHolds
<1> DEFINE s == binn_ptr(item)
<1>4. PICK at : Written(s.mem, s.type, added, MAX_BINN_HEADER, s.used_size, at)
  BY <1>1, <1>3, PtrWritten
<1>5. /\ Struct(s) /\ s.type = item.type /\ s.pbuf = item.pbuf /\ s.alloc_size = item.alloc_size
      /\ s.used_size = item.used_size /\ s.count = item.count
      /\ (s.ptr.block = s.pbuf => Saved(s)) /\ (item.dirty => s.ptr.block = s.pbuf) /\ (~item.dirty => s = item)
  BY <1>1, PtrStruct
<1>6. item.type \in Containers /\ item.used_size <= item.alloc_size /\ item.count = Len(added)
  BY <1>1 DEF StructInv
<1> HIDE DEF s
<1>7. item' = s
  BY <1>2 DEF s
<1>8. CASE s.ptr.block = s.pbuf
  <2> DEFINE h == IsValidBinnHeader(BufferOf(s))
  <2>1. Saved(s) /\ s.type \in Containers /\ s.used_size <= s.alloc_size
    BY <1>5, <1>6, <1>8
  <2>2. /\ h.ok = TRUE /\ h.type = s.type /\ h.size = s.size /\ h.count = s.count
        /\ s.ptr.off + h.header_size = MAX_BINN_HEADER /\ s.ptr.off + h.size = s.used_size
    BY <1>5, <1>8, <2>1, SavedRead
  <2>3. s.size \in Nat /\ s.ptr.off \in Int
    BY <2>1 DEF Saved
  <2>4. at[0] = MAX_BINN_HEADER /\ at[Len(added)] = s.used_size
    BY <1>4 DEF Written, Layout
  <2>5. h = IsValidBinnHeader(BufferOf(item'))
    BY <1>7
  <2> HIDE DEF h
  <2>6. PICK g : g = h
    OBVIOUS
  <2>7. g = IsValidBinnHeader(BufferOf(item)') /\ g.ok = TRUE /\ g.type = item.type /\ g.count = Len(added)
        /\ item'.ptr.off \in Int /\ g.size \in Int /\ item'.ptr.off + g.header_size = at[0]
        /\ item'.ptr.off + g.size = at[Len(added)] /\ item'.type = item.type
    BY <1>5, <1>6, <1>7, <2>2, <2>3, <2>4, <2>5, <2>6
  <2>8. IterOf(at)'
    BY <1>1, <1>2, <2>7, IterMade
  <2> QED BY <1>2, <1>4, <1>7, <2>8 DEF StructHolds
<1>9. CASE s.ptr.block # s.pbuf
  <2>1. BufferOf(item') = <<>>
    BY <1>7, <1>9 DEF BufferOf
  <2> DEFINE i == binn_iter_init(item', item.type)
  <2>2. i.ok = FALSE /\ i.count = 0
    BY <2>1, NothingRead DEF binn_iter_init
  <2>3. ~iter'.ok /\ iter'.count \in Nat
    BY <1>2, <2>2
  <2>4. IterOf(at)'
    BY <1>2, <2>3, SeqEmpty DEF IterOf
  <2> QED BY <1>2, <1>4, <1>7, <2>4 DEF StructHolds
<1> QED BY <1>8, <1>9

\* The same over bytes that were opened.
LEMMA IterInitLoaded ==
    ASSUME BinnInv, ContentInv, IterInit, phase = "loaded"
    PROVE  LoadedHolds'
<1>1. LoadedInv /\ LoadedHolds /\ IsSeq(added) /\ Len(added) \in Nat
  BY SeqLen DEF BinnInv, ContentInv
<1>2. item' = item /\ iter' = binn_iter_init(item', item.type) /\ seen' = <<>> /\ ended' = FALSE /\ added' = added
  BY <1>1 DEF IterInit, binn_ptr, LoadedInv
<1>30. PICK hs \in Nat : \E pos : Packed(item.mem, item.type, added, hs, item.size, pos)
  BY <1>1 DEF LoadedHolds
<1>3. PICK pos : Packed(item.mem, item.type, added, hs, item.size, pos)
  BY <1>30
<1> DEFINE n == item.size
           b == BufferOf(item)
           h == IsValidBinnHeader(b)
<1>4. b = Slice(item.mem, 0, n)
  BY <1>1 DEF BufferOf, LoadedInv
<1>5. n \in Nat /\ n <= n
  BY <1>3 DEF Packed
<1> DEFINE mem == item.mem
           t == item.type
<1>6. Packed(mem, t, added, hs, n, pos)
  BY <1>3
<1> HIDE DEF n, mem, t
<1>7. PICK at : Packed(Slice(mem, 0, n), t, added, hs, n, at)
  BY <1>5, <1>6, SlicePacked
<1>8. Packed(b, t, added, hs, n, at)
  BY <1>4, <1>7 DEF mem
<1> HIDE DEF b
<1>9. h.ok = TRUE /\ h.type = t /\ h.size = n /\ h.count = Len(added) /\ h.header_size = hs
  BY <1>8, PackedHeader
<1>10. pos[0] = hs /\ pos[Len(added)] = n /\ item.ptr.off = 0
  BY <1>1, <1>6 DEF Packed, Written, Layout, LoadedInv
<1> HIDE DEF h
<1>11. PICK g : g = h
  OBVIOUS
<1>12. g = IsValidBinnHeader(BufferOf(item)')
  BY <1>2, <1>11 DEF h, b
<1>13. /\ g.ok = TRUE /\ g.type = item.type /\ g.count = Len(added)
       /\ item'.ptr.off \in Int /\ g.size \in Int /\ item'.ptr.off + g.header_size = pos[0]
       /\ item'.ptr.off + g.size = pos[Len(added)] /\ item'.type = item.type
  <2>1. 0 + hs = hs /\ 0 + n = n
    BY <1>5
  <2> QED BY <1>2, <1>5, <1>9, <1>10, <1>11, <2>1 DEF t
<1>14. IterOf(pos)'
  BY <1>1, <1>2, <1>12, <1>13, IterMade
<1> QED BY <1>2, <1>3, <1>14 DEF LoadedHolds

\* The iterator returns the next of the entries it was made for.
LEMMA IterNextHolds ==
    ASSUME IsSeq(added), IterNext, NEW first, NEW last, NEW pos,
           Written(item.mem, item.type, added, first, last, pos), IterOf(pos)
    PROVE  IterOf(pos)'
<1> DEFINE r == binn_next(item.mem, iter)
           k == Len(seen)
           c == iter.count
           new == [key |-> r.key, value |-> r.value]
<1>1. /\ iter.ok /\ ~ended /\ iter' = r.iter /\ ended' = ~r.value.ok /\ item' = item /\ added' = added
      /\ seen' = IF r.value.ok THEN Append(seen, new) ELSE seen
  BY DEF IterNext
<1>2. /\ IsSeq(seen) /\ c \in 0..Len(added) /\ k \in 0..c /\ StandsAt(iter, item.type, pos, iter.count, k)
      /\ \A i \in 1..k : Exactly(seen[i].value, added[i]) /\ seen[i].key = added[i].key
  BY <1>1 DEF IterOf
<1>3. Len(added) \in Nat /\ k \in Nat /\ c \in Nat
  BY <1>2, SeqLen
<1>4. /\ k < c => StepTo(r, added[k + 1], item.type, pos, c, k + 1)
      /\ c <= k => StepNone(r, iter)
  <2> DEFINE m == item.mem
             t == item.type
  <2>1. Written(m, t, added, first, last, pos) /\ c \in 0..Len(added) /\ k \in 0..c /\ StandsAt(iter, t, pos, c, k)
    BY <1>2
  <2> HIDE DEF m, t, k, c
  <2>2. LET w == binn_next(m, iter)
        IN  (k < c => StepTo(w, added[k + 1], t, pos, c, k + 1)) /\ (c <= k => StepNone(w, iter))
    BY <2>1, NextReads
  <2> QED BY <2>2 DEF m, t
<1>5. new.key = r.key /\ new.value = r.value
  OBVIOUS
<1> HIDE DEF r, new
<1>6. CASE k < c
  <2>1. /\ r.value.ok = TRUE /\ Exactly(r.value, added[k + 1]) /\ r.key = added[k + 1].key
        /\ StandsAt(r.iter, item.type, pos, c, k + 1) /\ seen' = Append(seen, new) /\ ended' = FALSE
    BY <1>1, <1>4, <1>6 DEF StepTo
  <2>2. /\ IsSeq(seen') /\ Len(seen') = k + 1 /\ seen'[k + 1] = new /\ \A i \in 1..k : seen'[i] = seen[i]
    BY <1>2, <2>1, SeqAppend
  <2>3. iter'.ok /\ iter'.count = c
    BY <1>1, <2>1 DEF StandsAt
  <2> HIDE DEF k, c
  <2>4. ASSUME NEW i \in 1..(k + 1) PROVE Exactly(seen'[i].value, added[i]) /\ seen'[i].key = added[i].key
    <3>1. i \in 1..k \/ i = k + 1
      BY <1>3
    <3>2. CASE i \in 1..k
      BY <1>2, <2>2, <3>2
    <3>3. CASE i = k + 1
      BY <1>5, <2>1, <2>2, <3>3
    <3> QED BY <3>1, <3>2, <3>3
  <2>5. k + 1 \in 0..c
    BY <1>3, <1>6
  <2>6. c \in 0..Len(added') /\ Len(seen') \in 0..c
    BY <1>1, <1>2, <2>2, <2>5
  <2>7. \A i \in 1..Len(seen') : Exactly(seen'[i].value, added'[i]) /\ seen'[i].key = added'[i].key
    BY <1>1, <2>2, <2>4
  <2>8. StandsAt(iter', item'.type, pos, iter'.count, Len(seen'))
    BY <1>1, <2>1, <2>2, <2>3
  <2> QED BY <2>1, <2>2, <2>3, <2>6, <2>7, <2>8 DEF IterOf
<1>7. CASE k = c
  <2>1. iter' = iter /\ seen' = seen /\ ended' = TRUE
    <3>1. c <= k
      BY <1>3, <1>7
    <3>2. StepNone(r, iter)
      BY <1>4, <3>1
    <3>3. r.iter = iter /\ r.value.ok = FALSE
      BY <3>2 DEF StepNone
    <3> QED BY <1>1, <3>3
  <2>2. Len(seen) = iter.count
    BY <1>7
  <2> HIDE DEF k, c
  <2> QED BY <1>1, <1>2, <2>1, <2>2 DEF IterOf, k, c
<1>8. k < c \/ k = c
  BY <1>2, <1>3
<1> QED BY <1>6, <1>7, <1>8

\* A setter keeps what the container holds.
LEMMA AddContent ==
    ASSUME BinnInv, ContentInv, NEW e \in Entries, Add(e)
    PROVE  ContentInv'
<1> DEFINE r == binn_add_value(item, e.key, e.type, e.v)
           x == [e EXCEPT !.key = IF item.type = BINN_LIST THEN NIL ELSE @]
<1>1. /\ item' = r.item /\ added' = IF r.ok THEN Append(added, x) ELSE added
      /\ phase \in {"struct", "loaded"} /\ UNCHANGED <<phase, iter, seen, ended>>
      /\ item.type = BINN_OBJECT => e.key \in DOMAIN KeyText
  BY DEF Add
<1>2. CASE phase = "loaded"
  <2>1. item' = item /\ added' = added
    BY <1>2, AddRefused DEF BinnInv
  <2> QED BY <1>1, <2>1, ContentSame
<1>3. CASE phase = "struct"
  <2>1. StructInv /\ StructHolds /\ KeysApart(item.type, added) /\ IsSeq(added)
    BY <1>3 DEF BinnInv, ContentInv
  <2>2. /\ EntryGiven(item.type, x) /\ (item.type # BINN_LIST => x.key = e.key)
        /\ \A mem, p, q : EntryLaid(mem, item.type, e.key, AddedType(e.type, e.v), e.v, p, q) => EntryAt(mem, item.type, x, p, q)
    BY <1>1, EntryAddable
  <2>3. EntryFits(item.type, e.key, AddedType(e.type, e.v), e.v)
    BY <1>1, ArgumentsFit
  <2> DEFINE t == AddedType(e.type, e.v)
  <2>4. \/ r = Refused(r.item) /\ Undone(item, r.item)
        \/ r = Accepted(r.item) /\ OneMore(item, r.item, item.type, e.key, t, e.v) /\ NotThere(item, e.key)
    BY <2>1, <2>3, SetterGrown DEF StructInv
  <2> HIDE DEF r, x, t
  <2>5. CASE r = Refused(r.item) /\ Undone(item, r.item)
    <3>1. ~r.ok
      BY <2>5 DEF Refused
    <3>2. /\ item'.type = item.type /\ item'.used_size = item.used_size /\ item.used_size \in Nat
          /\ Keeps(item.mem, item'.mem, item.used_size)
          /\ (\A o \in DOMAIN item'.mem : o \in Nat) /\ Len(added) \in Nat
      BY <1>1, <2>1, <2>5, SeqLen DEF Undone, StructInv, Struct, SplitAt
    <3>3. StructHolds'
      <4>1. added' = added
        BY <1>1, <3>1
      <4> QED BY <1>1, <2>1, <3>2, <4>1, AddRefusedHolds
    <3> QED BY <1>1, <1>3, <2>1, <3>1, <3>2, <3>3 DEF ContentInv
  <2>6. CASE r = Accepted(r.item) /\ OneMore(item, r.item, item.type, e.key, t, e.v) /\ NotThere(item, e.key)
    <3>1. r.ok
      BY <2>6 DEF Accepted
    <3>2. added' = Append(added, x)
      BY <1>1, <3>1
    <3>3. /\ Longer(item, item') /\ EntryLaid(item'.mem, item.type, e.key, t, e.v, item.used_size, item'.used_size)
      BY <1>1, <2>6 DEF OneMore
    <3>4. /\ item.used_size \in Nat /\ item'.used_size \in Nat /\ item'.type = item.type
          /\ Keeps(item.mem, item'.mem, item.used_size) /\ \A o \in DOMAIN item'.mem : o \in Nat
      BY <2>1, <3>3 DEF Longer, StructInv, Struct, SplitAt
    <3>5. EntryAt(item'.mem, item.type, x, item.used_size, item'.used_size)
      BY <2>2, <3>3 DEF t
    <3>6. StructHolds'
      BY <1>1, <2>1, <2>2, <3>2, <3>4, <3>5, AddAcceptedHolds
    <3>7. item.count = Len(added)
      BY <2>1 DEF StructInv
    <3>8. item.type # BINN_LIST => NotThere(item, x.key)
      BY <2>2, <2>6
    <3>9. KeysApart(item.type, Append(added, x))
      BY <2>1, <2>2, <3>7, <3>8, AddAcceptedApart
    <3> QED BY <1>1, <1>3, <3>2, <3>4, <3>6, <3>9 DEF ContentInv
  <2> QED BY <2>4, <2>5, <2>6
<1> QED BY <1>1, <1>2, <1>3

\* What binn_release gives away holds the entries.
LEMMA ReleaseContent ==
    ASSUME BinnInv, ContentInv, Release
    PROVE  ContentInv'
<1> DEFINE s == binn_ptr(item)
           m == binn_release(item)
<1>1. /\ phase = "struct" /\ StructInv /\ StructHolds /\ KeysApart(item.type, added) /\ IsSeq(added) /\ Len(added) \in Nat
      /\ added' = added /\ phase' = (IF Dangling THEN "lost" ELSE "buffer")
      /\ iter' = NoIter /\ seen' = <<>> /\ ended' = FALSE
  BY SeqLen DEF Release, ResetIter, BinnInv, ContentInv
<1>2. item' = [item EXCEPT !.mem = m] /\ m = SavedBytes(s)
  BY DEF Release, binn_release
<1>3. item'.type = item.type /\ item'.mem = m
  <2>1. DOMAIN item = ItemFields
    BY <1>1 DEF StructInv, Struct
  <2> HIDE DEF m
  <2> QED BY <1>2, <2>1 DEF ItemFields
<1>4. NoIterator'
  BY <1>1 DEF NoIterator, NoIter
<1>5. PICK pos : Written(item.mem, item.type, added, MAX_BINN_HEADER, item.used_size, pos)
  BY <1>1 DEF StructHolds
<1>6. PICK at : Written(s.mem, s.type, added, MAX_BINN_HEADER, s.used_size, at)
  BY <1>1, <1>5, PtrWritten
<1>7. /\ Struct(s) /\ s.type = item.type /\ s.pbuf = item.pbuf /\ s.alloc_size = item.alloc_size
      /\ s.used_size = item.used_size /\ s.count = item.count
      /\ (s.ptr.block = s.pbuf => Saved(s)) /\ (item.dirty => s.ptr.block = s.pbuf) /\ (~item.dirty => s = item)
  BY <1>1, PtrStruct
<1> HIDE DEF s, m
<1>8. CASE Dangling
  BY <1>1, <1>4, <1>8 DEF ContentInv
<1>9. CASE ~Dangling
  <2>1. s.ptr.block = s.pbuf
    BY <1>1, <1>7, <1>9 DEF Dangling
  <2>2. Saved(s) /\ s.used_size <= s.alloc_size /\ s.count = Len(added)
    BY <1>1, <1>7, <2>1 DEF StructInv
  <2>3. PICK hs \in Nat : \E y : Packed(BufferOf(s), s.type, added, hs, s.size, y)
    BY <1>6, <1>7, <2>1, <2>2, StructPacked
  <2>4. PICK y : Packed(BufferOf(s), s.type, added, hs, s.size, y)
    BY <2>3
  <2> DEFINE b == BufferOf(s)
             n == s.size
             t == s.type
  <2>5. m = Slice(b, 0, n) /\ n \in Nat /\ n <= n
    BY <1>2, <2>2 DEF SavedBytes, Saved
  <2>6. Packed(b, t, added, hs, n, y)
    BY <2>4
  <2> HIDE DEF b, n, t
  <2>7. \E z : Packed(Slice(b, 0, n), t, added, hs, n, z)
    BY <2>5, <2>6, SlicePacked
  <2>8. PICK k \in Nat : k = n
    BY <2>5
  <2>9. \E z : Packed(item'.mem, item'.type, added', hs, k, z)
    BY <1>1, <1>3, <1>7, <2>5, <2>7, <2>8 DEF t
  <2>10. BufferHolds'
    BY <2>9 DEF BufferHolds
  <2> QED BY <1>1, <1>3, <1>4, <1>9, <2>10 DEF ContentInv
<1> QED BY <1>8, <1>9

\* And so does the structure that binn_open makes of it.
LEMMA OpenContent ==
    ASSUME BinnInv, ContentInv, Open
    PROVE  ContentInv'
<1> DEFINE m == item.mem
           h == IsValidBinnHeader(m)
<1>1. /\ phase = "buffer" /\ BufferHolds /\ NoIterator /\ KeysApart(item.type, added) /\ phase' = "loaded"
      /\ UNCHANGED <<added, iter, seen, ended>>
  BY DEF Open, ContentInv
<1>20. PICK hs \in Nat : \E size \in Nat : \E pos : Packed(m, item.type, added, hs, size, pos)
  BY <1>1 DEF BufferHolds
<1>21. PICK size \in Nat : \E pos : Packed(m, item.type, added, hs, size, pos)
  BY <1>20
<1>2. PICK pos : Packed(m, item.type, added, hs, size, pos)
  BY <1>21
<1>3. h.type = item.type /\ h.size = size
  BY <1>2, PackedHeader
<1>4. item'.type = h.type /\ item'.size = h.size /\ item'.mem = m
  BY OpenFields DEF Loaded
<1>5. Packed(item'.mem, item'.type, added', hs, item'.size, pos)
  BY <1>1, <1>2, <1>3, <1>4
<1>6. IterOf(pos)'
  <2>1. iter'.ok = FALSE /\ iter'.count = 0 /\ seen' = <<>> /\ ended' = FALSE
    BY <1>1 DEF NoIterator
  <2>2. IsSeq(seen') /\ 0 \in Nat
    BY <2>1, SeqEmpty
  <2> QED BY <2>1, <2>2 DEF IterOf
<1>7. LoadedHolds'
  BY <1>5, <1>6 DEF LoadedHolds
<1> QED BY <1>1, <1>3, <1>4, <1>7 DEF ContentInv

\* Every step keeps what the container holds.
LEMMA ContentStep ==
    BinnInv /\ ContentInv /\ [Next]_vars => ContentInv'
<1> SUFFICES ASSUME BinnInv, ContentInv, [Next]_vars PROVE ContentInv'
  OBVIOUS
<1>1. ASSUME NEW type \in Containers, Create(type) PROVE ContentInv'
  <2> DEFINE r == binn_create(type)
             pos == [i \in {0} |-> MAX_BINN_HEADER]
  <2>1. phase' = "struct" /\ item' = r /\ added' = <<>> /\ iter' = NoIter /\ seen' = <<>> /\ ended' = FALSE
    BY <1>1 DEF Create, ResetIter
  <2>2. r.type = type /\ DOMAIN r.mem = {} /\ r.used_size = MAX_BINN_HEADER
    BY Created DEF binn_create
  <2>3. Len(added') = 0 /\ IsSeq(seen') /\ Len(seen') = 0
    BY <2>1, SeqEmpty
  <2>4. pos[0] = MAX_BINN_HEADER /\ MAX_BINN_HEADER \in Nat
    BY DEF MAX_BINN_HEADER
  <2> HIDE DEF r, pos
  <2>5. PICK at : at = pos
    OBVIOUS
  <2>6. (\A i \in 1..0 : FALSE) /\ (\A i \in 0..0 : i = 0) /\ 0 \in Nat
    OBVIOUS
  <2>7. Layout(item'.mem, item'.type, added', MAX_BINN_HEADER, item'.used_size, at)
    BY <2>1, <2>2, <2>3, <2>4, <2>5, <2>6 DEF Layout
  <2>8. Written(item'.mem, item'.type, added', MAX_BINN_HEADER, item'.used_size, at)
    BY <2>1, <2>2, <2>3, <2>6, <2>7 DEF Written
  <2>9. IterOf(at)'
    BY <2>1, <2>3 DEF IterOf, NoIter
  <2>10. KeysApart(item'.type, added')
    BY <2>3, <2>6 DEF KeysApart
  <2>11. StructHolds'
    BY <2>8, <2>9 DEF StructHolds
  <2> QED BY <2>1, <2>10, <2>11 DEF ContentInv
<1>2. ASSUME NEW e \in Entries, Add(e) PROVE ContentInv'
  BY <1>2, AddContent
<1>3. ASSUME Save PROVE ContentInv'
  <2>1. /\ phase = "struct" /\ StructInv /\ StructHolds /\ KeysApart(item.type, added) /\ Len(added) \in Nat
        /\ item' = binn_ptr(item) /\ UNCHANGED <<phase, added, iter, seen, ended>>
    BY <1>3, SeqLen DEF Save, BinnInv, ContentInv
  <2>2. StructHolds'
    BY <2>1, SaveHolds
  <2>3. item'.type = item.type
    BY <2>1, PtrStruct
  <2> QED BY <2>1, <2>2, <2>3 DEF ContentInv
<1>4. ASSUME IterInit PROVE ContentInv'
  <2>1. phase \in {"struct", "loaded"} /\ item' = binn_ptr(item) /\ UNCHANGED <<phase, added>>
    BY <1>4 DEF IterInit
  <2>2. CASE phase = "struct"
    <3>1. StructHolds'
      BY <1>4, <2>2, IterInitStruct
    <3>2. item'.type = item.type
      BY <2>1, <2>2, PtrStruct DEF BinnInv
    <3> QED BY <2>1, <2>2, <3>1, <3>2 DEF ContentInv
  <2>3. CASE phase = "loaded"
    <3>1. LoadedHolds'
      BY <1>4, <2>3, IterInitLoaded
    <3>2. item' = item
      BY <2>1, <2>3 DEF binn_ptr, BinnInv, LoadedInv
    <3> QED BY <2>1, <2>3, <3>1, <3>2 DEF ContentInv
  <2> QED BY <2>1, <2>2, <2>3
<1>5. ASSUME IterNext PROVE ContentInv'
  <2>1. phase \in {"struct", "loaded"} /\ UNCHANGED <<phase, item, added>> /\ IsSeq(added)
    BY <1>5 DEF IterNext, BinnInv
  <2>2. CASE phase = "struct"
    <3>1. PICK pos : Written(item.mem, item.type, added, MAX_BINN_HEADER, item.used_size, pos) /\ IterOf(pos)
      BY <2>2 DEF ContentInv, StructHolds
    <3>2. IterOf(pos)'
      BY <1>5, <2>1, <3>1, IterNextHolds
    <3>3. StructHolds'
      BY <2>1, <3>1, <3>2 DEF StructHolds
    <3> QED BY <2>1, <2>2, <3>3 DEF ContentInv
  <2>3. CASE phase = "loaded"
    <3>10. PICK hs \in Nat : \E pos : Packed(item.mem, item.type, added, hs, item.size, pos) /\ IterOf(pos)
      BY <2>3 DEF ContentInv, LoadedHolds
    <3>1. PICK pos : Packed(item.mem, item.type, added, hs, item.size, pos) /\ IterOf(pos)
      BY <3>10
    <3>2. Written(item.mem, item.type, added, hs, item.size, pos)
      BY <3>1 DEF Packed
    <3>3. IterOf(pos)'
      BY <1>5, <2>1, <3>1, <3>2, IterNextHolds
    <3>4. LoadedHolds'
      BY <2>1, <3>1, <3>3 DEF LoadedHolds
    <3> QED BY <2>1, <2>3, <3>4 DEF ContentInv
  <2> QED BY <2>1, <2>2, <2>3
<1>6. ASSUME Release PROVE ContentInv'
  BY <1>6, ReleaseContent
<1>7. ASSUME Open PROVE ContentInv'
  BY <1>7, OpenContent
<1>8. ASSUME Free PROVE ContentInv'
  <2>1. phase' = "none" /\ iter' = NoIter /\ seen' = <<>> /\ ended' = FALSE
    BY <1>8 DEF Free, ResetIter
  <2> QED BY <2>1 DEF ContentInv, NoIterator, NoIter
<1>9. ASSUME UNCHANGED vars PROVE ContentInv'
  BY <1>9, ContentSame DEF vars
<1> QED BY <1>1, <1>2, <1>3, <1>4, <1>5, <1>6, <1>7, <1>8, <1>9 DEF Next

\* The program starts with an empty container.
LEMMA ContentInit ==
    Init => ContentInv
<1> SUFFICES ASSUME Init PROVE ContentInv
  OBVIOUS
<1>1. phase = "none" /\ iter = NoIter /\ seen = <<>> /\ ended = FALSE
  BY DEF Init
<1> QED BY <1>1 DEF ContentInv, NoIterator, NoIter

\* What the container holds is, in every state, what was added.
THEOREM ContentCorrect == Spec => [](BinnInv /\ ContentInv)
<1>1. Init => BinnInv /\ ContentInv
  BY BinnInit, ContentInit
<1>2. BinnInv /\ ContentInv /\ [Next]_vars => BinnInv' /\ ContentInv'
  BY BinnStep, ContentStep
<1> QED BY <1>1, <1>2, PTL DEF Spec

\* Every buffer that the program can read is packed with what it added.
LEMMA BytesPacked ==
    ASSUME BinnInv, ContentInv, Readable
    PROVE  /\ \E hs, size, pos : Packed(Bytes, item.type, added, hs, size, pos)
           /\ KeysApart(item.type, added) /\ item.type \in Containers
<1>1. IsSeq(added) /\ Len(added) \in Nat
  BY SeqLen DEF BinnInv
<1>2. CASE phase = "struct"
  <2>1. StructInv /\ StructHolds /\ ~item.dirty /\ item.ptr.block = item.pbuf
    BY <1>2 DEF BinnInv, ContentInv, Readable, Dangling
  <2>2. PICK pos : Written(item.mem, item.type, added, MAX_BINN_HEADER, item.used_size, pos)
    BY <2>1 DEF StructHolds
  <2>3. Struct(item) /\ Saved(item) /\ item.used_size <= item.alloc_size /\ item.count = Len(added)
    BY <2>1 DEF StructInv
  <2> DEFINE s == item
             es == added
  <2>4. Written(s.mem, s.type, es, MAX_BINN_HEADER, s.used_size, pos) /\ s.count = Len(es) /\ s.ptr.block = s.pbuf
        /\ Struct(s) /\ Saved(s) /\ s.used_size <= s.alloc_size
    BY <2>1, <2>2, <2>3
  <2> HIDE DEF s, es
  <2>5. \E hs \in Nat : \E at : Packed(BufferOf(s), s.type, es, hs, s.size, at)
    BY <2>4, StructPacked
  <2>6. \E hs, size, at : Packed(BufferOf(s), s.type, es, hs, size, at)
    BY <2>5
  <2>7. Bytes = BufferOf(s)
    BY <1>2 DEF Bytes, s
  <2> QED BY <1>2, <2>1, <2>6, <2>7 DEF ContentInv, StructInv, s, es
<1>3. CASE phase = "buffer"
  <2>1. Bytes = item.mem /\ BufferHolds /\ BufferInv
    BY <1>3 DEF Bytes, BinnInv, ContentInv
  <2> QED BY <1>3, <2>1 DEF ContentInv, BufferHolds, BufferInv
<1>4. CASE phase = "loaded"
  <2>1. LoadedInv /\ LoadedHolds
    BY <1>4 DEF BinnInv, ContentInv
  <2> DEFINE n == item.size
             mem == item.mem
             t == item.type
  <2>2. Bytes = Slice(mem, 0, n)
    BY <1>4, <2>1 DEF Bytes, BufferOf, LoadedInv
  <2>30. PICK hs \in Nat : \E pos : Packed(mem, t, added, hs, n, pos)
    BY <2>1 DEF LoadedHolds
  <2>3. PICK pos : Packed(mem, t, added, hs, n, pos)
    BY <2>30
  <2>4. n \in Nat /\ n <= n
    BY <2>3 DEF Packed
  <2> HIDE DEF n, mem, t
  <2>5. \E at : Packed(Slice(mem, 0, n), t, added, hs, n, at)
    BY <2>3, <2>4, SlicePacked
  <2> QED BY <1>4, <2>1, <2>2, <2>5 DEF ContentInv, LoadedInv, t
<1> QED BY <1>2, <1>3, <1>4 DEF Readable

\* Two entries of an object never have keys that strnicmp calls equal, nor two of a
\* map the same id: the search that SearchForKey and SearchForID make before a setter
\* writes meets every entry, however they were mixed.
THEOREM KeysDistinctCorrect == Spec => []KeysDistinct
<1>1. BinnInv /\ ContentInv => KeysDistinct
  <2> SUFFICES ASSUME BinnInv, ContentInv, NEW i \in DOMAIN added, NEW j \in DOMAIN added, i # j, phase = "struct"
               PROVE  /\ item.type = BINN_OBJECT => ~SameKey(added[i].key, added[j].key)
                      /\ item.type = BINN_MAP => added[i].key # added[j].key
    BY DEF KeysDistinct
  <2>1. i \in 1..Len(added) /\ j \in 1..Len(added)
    BY SeqLen DEF BinnInv
  <2>2. KeysApart(item.type, added)
    BY DEF ContentInv
  <2> QED BY <2>1, <2>2 DEF KeysApart
<1> QED BY <1>1, ContentCorrect, PTL

\* What was added can be read back from the bytes by every path: by position, by key
\* in whatever case or by id, and as a pair; a key that was never added is not found;
\* and binn_is_valid accepts the bytes.  For any number of entries of any types.
THEOREM ReadsBackCorrect == Spec => []ReadsBack
<1>1. BinnInv /\ ContentInv => ReadsBack
  <2> SUFFICES ASSUME BinnInv, ContentInv, Readable PROVE ReadsBack
    BY DEF ReadsBack
  <2> DEFINE b == Bytes
             t == item.type
  <2>1. PICK hs, size, pos : Packed(b, t, added, hs, size, pos)
    BY BytesPacked
  <2>2. KeysApart(t, added) /\ t \in Containers
    BY BytesPacked
  <2>3. DOMAIN added = 1..Len(added)
    BY SeqLen DEF BinnInv
  <2>4. t \in {BINN_LIST, BINN_MAP, BINN_OBJECT}
    BY <2>2 DEF Containers
  <2> HIDE DEF b, t
  <2>5. binn_is_valid(b)
    BY <2>1, PackedValid
  <2>6. ASSUME t = BINN_LIST, NEW i \in 1..Len(added) PROVE Denotes(binn_list_get_value(b, i), added[i])
    <3>1. Exactly(binn_list_get_value(b, i), added[i]) /\ Given(added[i])
      BY <2>1, <2>6, ListFinds
    <3> QED BY <3>1, ExactlyDenotes
  <2>7. ASSUME t = BINN_MAP, NEW i \in 1..Len(added) PROVE Denotes(binn_map_get_value(b, added[i].key), added[i])
    <3>1. Exactly(binn_map_get_value(b, added[i].key), added[i]) /\ Given(added[i])
      BY <2>1, <2>2, <2>7, MapFinds
    <3> QED BY <3>1, ExactlyDenotes
  <2>8. ASSUME t = BINN_OBJECT
        PROVE  /\ \A i \in 1..Len(added) : Exactly(binn_object_get_value(b, added[i].key), added[i]) /\ Given(added[i])
               /\ \A k \in DOMAIN KeyText :
                    (\A i \in 1..Len(added) : ~SameKey(k, added[i].key)) => ~binn_object_get_value(b, k).ok
    BY <2>1, <2>2, <2>8, ObjectFinds
  <2>9. ASSUME t = BINN_OBJECT, NEW i \in 1..Len(added) PROVE Denotes(binn_object_get_value(b, added[i].key), added[i])
    BY <2>8, <2>9, ExactlyDenotes
  <2>10. ASSUME t # BINN_LIST, NEW i \in 1..Len(added)
         PROVE  LET r == binn_read_pair(t, b, i) IN r.key = added[i].key /\ Denotes(r.value, added[i])
    <3> DEFINE r == binn_read_pair(t, b, i)
    <3>1. r.key = added[i].key /\ Exactly(r.value, added[i]) /\ Given(added[i])
      BY <2>1, <2>10, PairFinds
    <3> HIDE DEF r
    <3>2. Denotes(r.value, added[i])
      BY <3>1, ExactlyDenotes
    <3> QED BY <3>1, <3>2 DEF r
  <2>11. \A i \in 1..Len(added) :
           CASE t = BINN_LIST -> Denotes(binn_list_get_value(b, i), added[i])
             [] t = BINN_MAP -> Denotes(binn_map_get_value(b, added[i].key), added[i])
             [] OTHER -> Denotes(binn_object_get_value(b, added[i].key), added[i])
    BY <2>4, <2>6, <2>7, <2>9, ContainersApart
  <2> QED BY <2>3, <2>5, <2>8, <2>10, <2>11 DEF ReadsBack, b, t
<1> QED BY <1>1, ContentCorrect, PTL

\* A getter of an integer, a Boolean or null, with a result or without, answers the
\* number that was stored when its type can hold it, and 0 with FALSE otherwise: for
\* every such type of the setter and of the getter, and every width of the integers.
THEOREM GettersConvertCorrect == Spec => []GettersConvert
<1>1. BinnInv /\ ContentInv => GettersConvert
  <2> SUFFICES ASSUME BinnInv, ContentInv, Readable, NEW i \in DOMAIN added, NEW type \in GetterTypes
               PROVE  LET key == IF item.type = BINN_LIST THEN i ELSE added[i].key
                          want == Converted(added[i], type)
                      IN  /\ TypedGet(Bytes, item.type, key, type) = want
                          /\ TypedValue(Bytes, item.type, key, type) = want.n
    BY DEF GettersConvert, GetterTypes
  <2> DEFINE b == Bytes
             t == item.type
             e == added[i]
             key == IF t = BINN_LIST THEN i ELSE e.key
             want == Converted(e, type)
  <2>1. PICK hs, size, pos : Packed(b, t, added, hs, size, pos)
    BY BytesPacked
  <2>2. KeysApart(t, added) /\ t \in Containers
    BY BytesPacked
  <2>3. i \in 1..Len(added)
    BY SeqLen DEF BinnInv
  <2>4. t \in {BINN_LIST, BINN_MAP, BINN_OBJECT}
    BY <2>2 DEF Containers
  <2> HIDE DEF b, t, want
  <2>5. ASSUME NEW val, Exactly(val, e), Given(e) PROVE copy_value(val, type) = want
    BY <2>5, CopyIs DEF want
  <2>6. ASSUME t = BINN_LIST PROVE TypedGet(b, t, key, type) = want /\ TypedValue(b, t, key, type) = want.n
    <3>1. Exactly(binn_list_get_value(b, i), e) /\ Given(e)
      BY <2>1, <2>3, <2>6, ListFinds
    <3>2. binn_list_get(b, i, type) = want
      BY <2>5, <3>1 DEF binn_list_get
    <3>3. key = i
      BY <2>6
    <3> HIDE DEF key
    <3> QED BY <2>6, <3>2, <3>3, ContainersApart DEF TypedGet, TypedValue, binn_list_typed
  <2>7. ASSUME t = BINN_MAP PROVE TypedGet(b, t, key, type) = want /\ TypedValue(b, t, key, type) = want.n
    <3>1. Exactly(binn_map_get_value(b, e.key), e) /\ Given(e)
      BY <2>1, <2>2, <2>3, <2>7, MapFinds
    <3>2. binn_map_get(b, e.key, type) = want
      BY <2>5, <3>1 DEF binn_map_get
    <3> QED BY <2>7, <3>2, ContainersApart DEF TypedGet, TypedValue, binn_map_typed
  <2>8. ASSUME t = BINN_OBJECT PROVE TypedGet(b, t, key, type) = want /\ TypedValue(b, t, key, type) = want.n
    <3>1. Exactly(binn_object_get_value(b, e.key), e) /\ Given(e)
      BY <2>1, <2>2, <2>3, <2>8, ObjectFinds
    <3>2. binn_object_get(b, e.key, type) = want
      BY <2>5, <3>1 DEF binn_object_get
    <3> QED BY <2>8, <3>2, ContainersApart DEF TypedGet, TypedValue, binn_object_typed
  <2> QED BY <2>4, <2>6, <2>7, <2>8 DEF b, t, want
<1> QED BY <1>1, ContentCorrect, PTL

\* Whatever is in a container, a caller gave.
LEMMA AllGiven ==
    ASSUME ContentInv, phase \in {"struct", "loaded"}, NEW i \in 1..Len(added)
    PROVE  Given(added[i])
<1>1. \E hs, size, pos : Written(item.mem, item.type, added, hs, size, pos)
  BY DEF ContentInv, StructHolds, LoadedHolds, Packed
<1> QED BY <1>1 DEF Written, EntryGiven

\* An iterator returns the entries that the container had when it was made, each once
\* and in order, even when more are added before it comes to the end, and then FALSE.
THEOREM IteratorInOrderCorrect == Spec => []IteratorInOrder
<1>1. BinnInv /\ ContentInv => IteratorInOrder
  <2> SUFFICES ASSUME BinnInv, ContentInv PROVE IteratorInOrder
    OBVIOUS
  <2>1. NoIterator \/ (phase \in {"struct", "loaded"} /\ \E pos : IterOf(pos))
    BY DEF ContentInv, StructHolds, LoadedHolds
  <2>2. CASE iter.ok = FALSE /\ iter.count = 0 /\ seen = <<>> /\ ended = FALSE
    <3>1. Len(seen) = 0 /\ DOMAIN seen = {}
      BY <2>2, SeqEmpty
    <3> QED BY <2>2, <3>1 DEF IteratorInOrder
  <2>3. ASSUME phase \in {"struct", "loaded"}, NEW pos, IterOf(pos) PROVE IteratorInOrder
    <3>1. CASE ~iter.ok
      <4>1. Len(seen) = 0 /\ DOMAIN seen = {} /\ iter.count \in Nat /\ ended = FALSE
        BY <2>3, <3>1, SeqEmpty DEF IterOf
      <4>2. Len(seen) <= iter.count
        BY <4>1
      <4> QED BY <4>1, <4>2 DEF IteratorInOrder
    <3>2. CASE iter.ok
      <4>1. /\ iter.count \in 0..Len(added) /\ Len(seen) \in 0..iter.count /\ IsSeq(seen)
            /\ ended => Len(seen) = iter.count
            /\ \A i \in 1..Len(seen) : Exactly(seen[i].value, added[i]) /\ seen[i].key = added[i].key
        BY <2>3, <3>2 DEF IterOf
      <4>2. DOMAIN seen = 1..Len(seen) /\ Len(added) \in Nat
        BY <4>1, SeqLen DEF BinnInv
      <4>3. ASSUME NEW i \in 1..Len(seen) PROVE Denotes(seen[i].value, added[i])
        <5>1. i \in 1..Len(added)
          BY <4>1, <4>2
        <5>2. Given(added[i])
          BY <2>3, <5>1, AllGiven
        <5> QED BY <4>1, <5>2, ExactlyDenotes
      <4>4. Len(seen) <= iter.count
        BY <4>1, <4>2
      <4> QED BY <4>1, <4>2, <4>3, <4>4 DEF IteratorInOrder
    <3> QED BY <3>1, <3>2
  <2> QED BY <2>1, <2>2, <2>3 DEF NoIterator
<1> QED BY <1>1, ContentCorrect, PTL
=============================================================================
