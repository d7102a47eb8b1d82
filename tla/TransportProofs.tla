--------------------------- MODULE TransportProofs ---------------------------
(***************************************************************************)
(* Theorems about dsm_send and dsm_receive: the framing of one connection, *)
(* for any messages, any page size and any number of messages.             *)
(***************************************************************************)
EXTENDS Transport, BinnFormatProofs

-----------------------------------------------------------------------------
(* The inductive invariant.                                                *)

\* What the two send() calls of dsm_send put on the connection for m.
SizeOf(m) == Chunk("size", Encoded(m).size, <<>>)
BodyOf(m) == Chunk("body", Encoded(m).size, Slice(BufferOf(Encoded(m)), 0, Encoded(m).size))

IsChunk(c) == c.kind \in {"size", "body"} /\ c.n \in Nat \ {0}

\* The thread is between the two send() calls of a message on direction d.
Busy(t, d) == DirOf(t) = d /\ sending[t] # None

Expecting(d) == IF expecting[d] = NIL THEN 0 ELSE 1
Unread(d) == Len(sent[d]) - Len(received[d])

\* The places in wire[d] of the size and of the body of the k-th message that has
\* not been received.
SizeAt(d, k) == 2 * k - 1 - Expecting(d)
BodyAt(d, k) == 2 * k - Expecting(d)

\* The k-th message that has not been received.
UnreadMsg(d, k) == sent[d][Len(received[d]) + k]

HasSize(d, k) == SizeAt(d, k) \in DOMAIN wire[d] => wire[d][SizeAt(d, k)] = SizeOf(UnreadMsg(d, k))
HasBody(d, k) == BodyAt(d, k) \in DOMAIN wire[d] => wire[d][BodyAt(d, k)] = BodyOf(UnreadMsg(d, k))

\* Sizes and bodies alternate; at most the last body is still to be sent.
Framed(d) ==
  /\ \A k \in 1..Unread(d) : HasSize(d, k) /\ HasBody(d, k)
  /\ \/ (\A t \in Threads : ~Busy(t, d)) /\ Len(wire[d]) = BodyAt(d, Unread(d))
     \/ /\ Unread(d) > 0 /\ Len(wire[d]) = SizeAt(d, Unread(d))
        /\ \E t \in Threads : /\ Busy(t, d) /\ sending[t] = BodyOf(sent[d][Len(sent[d])])
                              /\ \A u \in Threads : Busy(u, d) => u = t

\* Two sends overlapped: behind the size of the k-th message comes another size, and
\* its body is still to be sent or further back.
BrokenAt(d, k) ==
  /\ \A i \in 1..k : HasSize(d, i) /\ (i < k => HasBody(d, i))
  /\ BodyAt(d, k) \in DOMAIN wire[d] /\ wire[d][BodyAt(d, k)].kind = "size"
  /\ \/ \E t \in Threads : Busy(t, d) /\ sending[t] = BodyOf(UnreadMsg(d, k))
     \/ \E i \in DOMAIN wire[d] : i > BodyAt(d, k) /\ wire[d][i] = BodyOf(UnreadMsg(d, k))

\* The receiver has not come to the break.
Broken(d) == d = "up" /\ overlapped /\ \E k \in 1..Unread(d) : BrokenAt(d, k)

\* The size that dsm_receive has read is that of the message to come.
SizeRead(d) == expecting[d] # NIL => Unread(d) > 0 /\ expecting[d] = Encoded(UnreadMsg(d, 1)).size

Frame(d) ==
  /\ garbled[d] => d = "up" /\ overlapped
  /\ stopped[d] => expecting[d] = NIL
  /\ ~garbled[d] /\ ~stopped[d] => SizeRead(d) /\ (Framed(d) \/ Broken(d))

\* The types that the framing needs.
FrameTypes ==
  /\ \A d \in Directions : /\ IsSeq(wire[d]) /\ \A i \in DOMAIN wire[d] : IsChunk(wire[d][i])
                           /\ IsSeq(sent[d]) /\ IsSeq(received[d])
                           /\ Len(sent[d]) <= MaxSends /\ Len(received[d]) <= Len(sent[d])
                           /\ expecting[d] \in Nat \cup {NIL}
  /\ \A t \in Threads : sending[t] # None => sending[t].kind = "body" /\ IsChunk(sending[t])
  /\ wire = [d \in Directions |-> wire[d]] /\ sending = [t \in Threads |-> sending[t]]
  /\ sent = [d \in Directions |-> sent[d]] /\ received = [d \in Directions |-> received[d]]
  /\ expecting = [d \in Directions |-> expecting[d]] /\ overlapped \in BOOLEAN
  /\ mem \in [Directions -> BOOLEAN] /\ garbled \in [Directions -> BOOLEAN]
  /\ stopped \in [Directions -> BOOLEAN]

FrameInv == FrameTypes /\ \A d \in Directions : Frame(d)
-----------------------------------------------------------------------------
(* How many bytes dsm_send_msg puts into an object.                        *)

\* An object under construction: it is larger than its unused header.
Object(item) ==
  /\ {"type", "writable", "dirty", "used_size", "size"} \subseteq DOMAIN item
  /\ item.type = BINN_OBJECT /\ item.writable = TRUE /\ item.dirty = TRUE
  /\ item.used_size \in Nat /\ MAX_BINN_HEADER <= item.used_size

\* The object r is item and at most n bytes more.
Extended(item, r, n) == Object(r) /\ item.used_size <= r.used_size /\ r.used_size <= item.used_size + n

\* Moving an object to a larger block does not change what it holds.
LEMMA CheckAllocationObject ==
    ASSUME NEW item, Object(item), NEW n
    PROVE  Object(CheckAllocation(item, n)) /\ CheckAllocation(item, n).used_size = item.used_size
<1> DEFINE r == CheckAllocation(item, n)
           c == CalcAllocation(item.used_size + n, item.alloc_size)
           p == item.pbuf + 1
           q == [item EXCEPT !.alloc_size = c]
<1>1. r = item \/ r = [q EXCEPT !.pbuf = p]
  BY DEF CheckAllocation
<1>3. /\ DOMAIN q = DOMAIN item /\ q.type = item.type /\ q.writable = item.writable
      /\ q.dirty = item.dirty /\ q.used_size = item.used_size
  <2> HIDE DEF c
  <2> QED OBVIOUS
<1> HIDE DEF c, p, q, r
<1>2. /\ DOMAIN r = DOMAIN item /\ r.type = item.type /\ r.writable = item.writable
      /\ r.dirty = item.dirty /\ r.used_size = item.used_size
  <2>1. CASE r = item
    BY <2>1
  <2>2. CASE r = [q EXCEPT !.pbuf = p]
    <3>1. /\ DOMAIN r = DOMAIN q /\ r.type = q.type /\ r.writable = q.writable
          /\ r.dirty = q.dirty /\ r.used_size = q.used_size
      BY <2>2
    <3> QED BY <1>3, <3>1
  <2> QED BY <1>1, <2>1, <2>2
<1>4. Object(r) /\ r.used_size = item.used_size
  BY <1>2 DEF Object
<1> QED BY <1>4 DEF r

\* A field adds its width.
LEMMA AppendFieldObject ==
    ASSUME NEW item, Object(item), NEW f, f.w \in Nat
    PROVE  Object(AppendField(item, f)) /\ AppendField(item, f).used_size = item.used_size + f.w
<1> DEFINE r == AppendField(item, f)
           m == Put(item.mem, item.used_size, f)
<1>1. CASE f.w = 0
  BY <1>1 DEF AppendField, Object
<1>2. CASE f.w # 0
  <2>1. r = [item EXCEPT !.mem = m, !.used_size = item.used_size + f.w]
    BY <1>2 DEF AppendField
  <2> HIDE DEF m, r
  <2>2. /\ DOMAIN r = DOMAIN item /\ r.type = item.type /\ r.writable = item.writable
        /\ r.dirty = item.dirty /\ r.used_size = item.used_size + f.w
    BY <2>1 DEF Object
  <2>3. Object(r) /\ r.used_size = item.used_size + f.w
    BY <2>2 DEF Object, MAX_BINN_HEADER
  <2> QED BY <2>3 DEF r
<1> QED BY <1>1, <1>2

\* The width of the i-th field, 0 behind the last one.
WidthOf(fields, i) == IF i <= Len(fields) THEN fields[i].w ELSE 0

\* A few fields add their widths; an entry's own bytes and its value are at most four.
LEMMA AppendFieldsObject ==
    ASSUME NEW item, Object(item), NEW fields, Len(fields) \in 0..4,
           \A i \in 1..Len(fields) : fields[i].w \in Nat
    PROVE  /\ Object(AppendFields(item, fields))
           /\ AppendFields(item, fields).used_size =
                item.used_size + WidthOf(fields, 1) + WidthOf(fields, 2) + WidthOf(fields, 3) + WidthOf(fields, 4)
<1> DEFINE n == Len(fields)
<1>0. n \in 0..4 /\ n \in Nat
  OBVIOUS
<1>1. PICK f : /\ f[0] = item /\ \A i \in 1..n : f[i] = AppendField(f[i - 1], fields[i])
               /\ AppendFields(item, fields) = f[n]
  BY <1>0, AppendFieldsRun
<1>2. ASSUME NEW i \in 1..n, Object(f[i - 1])
      PROVE  Object(f[i]) /\ f[i].used_size = f[i - 1].used_size + fields[i].w
  BY <1>1, <1>2, AppendFieldObject
<1> HIDE DEF n
<1>3. 1 - 1 = 0 /\ 2 - 1 = 1 /\ 3 - 1 = 2 /\ 4 - 1 = 3
  OBVIOUS
<1>4. n >= 1 => Object(f[1]) /\ f[1].used_size = item.used_size + fields[1].w
  <2>1. n >= 1 => 1 \in 1..n
    BY <1>0
  <2> QED BY <1>1, <1>2, <1>3, <2>1
<1>5. n >= 2 => Object(f[2]) /\ f[2].used_size = f[1].used_size + fields[2].w
  <2>1. n >= 2 => 2 \in 1..n /\ n >= 1
    BY <1>0
  <2> QED BY <1>2, <1>3, <1>4, <2>1
<1>6. n >= 3 => Object(f[3]) /\ f[3].used_size = f[2].used_size + fields[3].w
  <2>1. n >= 3 => 3 \in 1..n /\ n >= 2
    BY <1>0
  <2> QED BY <1>2, <1>3, <1>5, <2>1
<1>7. n >= 4 => Object(f[4]) /\ f[4].used_size = f[3].used_size + fields[4].w
  <2>1. n >= 4 => 4 \in 1..n /\ n >= 3
    BY <1>0
  <2> QED BY <1>2, <1>3, <1>6, <2>1
<1>8. /\ n >= 1 => fields[1].w \in Nat
      /\ n >= 2 => fields[2].w \in Nat
      /\ n >= 3 => fields[3].w \in Nat
      /\ n >= 4 => fields[4].w \in Nat
  <2>1. \A i \in {1, 2, 3, 4} : n >= i => i \in 1..n
    BY <1>0
  <2> QED BY <2>1 DEF n
<1>9. item.used_size \in Nat
  BY DEF Object
<1>10. Object(f[n])
  BY <1>0, <1>1, <1>4, <1>5, <1>6, <1>7
<1> DEFINE w1 == WidthOf(fields, 1)
           w2 == WidthOf(fields, 2)
           w3 == WidthOf(fields, 3)
           w4 == WidthOf(fields, 4)
<1>11. /\ w1 = IF n >= 1 THEN fields[1].w ELSE 0
       /\ w2 = IF n >= 2 THEN fields[2].w ELSE 0
       /\ w3 = IF n >= 3 THEN fields[3].w ELSE 0
       /\ w4 = IF n >= 4 THEN fields[4].w ELSE 0
  BY <1>0 DEF n, WidthOf
<1> HIDE DEF w1, w2, w3, w4
<1>12. f[n].used_size = item.used_size + w1 + w2 + w3 + w4
  <2>1. CASE n = 0
    BY <1>1, <1>9, <1>11, <2>1
  <2>2. CASE n = 1
    BY <1>4, <1>8, <1>9, <1>11, <2>2
  <2>3. CASE n = 2
    BY <1>4, <1>5, <1>8, <1>9, <1>11, <2>3
  <2>4. CASE n = 3
    BY <1>4, <1>5, <1>6, <1>8, <1>9, <1>11, <2>4
  <2>5. CASE n = 4
    BY <1>4, <1>5, <1>6, <1>7, <1>8, <1>9, <1>11, <2>5
  <2> QED BY <1>0, <2>1, <2>2, <2>3, <2>4, <2>5
<1> QED BY <1>1, <1>10, <1>12 DEF w1, w2, w3, w4
\* The fields of a value: at most three of them, and at most 8 bytes besides its data.
LEMMA PayloadWidths ==
    ASSUME NEW storage, NEW n, NEW size \in Nat
    PROVE  LET p == Payload(storage, n, size)
           IN  /\ p = <<>> \/ (\E a : p = <<a>> /\ a.w \in 0..8)
                  \/ (\E a, b : p = <<a, b>> /\ a.w = 4 /\ b.w = size)
                  \/ (\E a, b, c : p = <<a, b, c>> /\ a.w \in {1, 4} /\ b.w = size /\ c.w = 1)
<1> DEFINE p == Payload(storage, n, size)
<1>1. FixedSize(storage) \in {-1, 0, 1, 2, 4, 8}
  BY DEF FixedSize
<1>2. CASE FixedSize(storage) >= 0
  <2> DEFINE a == Field("data", FixedSize(storage), n)
  <2>0. storage # STORAGE_BLOB /\ storage # STORAGE_STRING
    BY <1>2 DEF FixedSize, STORAGE_BLOB, STORAGE_STRING, STORAGE_NOBYTES, STORAGE_BYTE,
                STORAGE_WORD, STORAGE_DWORD, STORAGE_QWORD
  <2>1. p = <<a>>
    BY <1>2, <2>0 DEF Payload
  <2>2. a.w \in 0..8
    BY <1>1, <1>2 DEF Field
  <2> HIDE DEF a
  <2> QED BY <2>1, <2>2
<1>3. CASE ~(FixedSize(storage) >= 0) /\ storage = STORAGE_BLOB
  <2> DEFINE a == Field("int", 4, size)
             b == Field("data", size, n)
  <2>0. storage # STORAGE_STRING
    BY <1>3 DEF STORAGE_BLOB, STORAGE_STRING
  <2>1. p = <<a, b>>
    BY <1>3, <2>0 DEF Payload
  <2>2. a.w = 4 /\ b.w = size
    BY DEF Field
  <2> HIDE DEF a, b
  <2> QED BY <2>1, <2>2
<1>4. CASE ~(FixedSize(storage) >= 0) /\ storage = STORAGE_STRING
  <2> DEFINE a == LenField(size)
             b == Field("data", size, n)
             c == Field("data", 1, 0)
  <2>1. p = <<a, b, c>>
    BY <1>4 DEF Payload, STORAGE_BLOB, STORAGE_STRING
  <2>2. a.w \in {1, 4} /\ b.w = size /\ c.w = 1
    BY DEF Field, LenField, OneByte, FourBytes
  <2> HIDE DEF a, b, c
  <2> QED BY <2>1, <2>2
<1>5. CASE ~(FixedSize(storage) >= 0) /\ storage # STORAGE_BLOB /\ storage # STORAGE_STRING
  BY <1>5 DEF Payload
<1> QED BY <1>2, <1>3, <1>4, <1>5

\* The type and the value add at most 10 bytes to the value's size.
LEMMA WriteObject ==
    ASSUME NEW item, Object(item), NEW type, NEW storage, storage # STORAGE_CONTAINER,
           NEW v, NEW size \in Nat
    PROVE  Extended(item, Write(item, type, storage, v, size), size + 10)
<1> DEFINE p == Payload(storage, v.n, size)
           t == Field("type", IF type > 255 THEN 2 ELSE 1, type)
           fields == <<t>> \o p
           k == AppendFields(item, fields)
           r == Write(item, type, storage, v, size)
<1>1. t.w \in {1, 2}
  BY DEF Field
<1>2. p = <<>> \/ (\E a : p = <<a>> /\ a.w \in 0..8)
         \/ (\E a, b : p = <<a, b>> /\ a.w = 4 /\ b.w = size)
         \/ (\E a, b, c : p = <<a, b, c>> /\ a.w \in {1, 4} /\ b.w = size /\ c.w = 1)
  BY PayloadWidths
<1>3. r = [k EXCEPT !.dirty = TRUE]
  BY DEF Write
<1> HIDE DEF p, t
<1> DEFINE w(i) == WidthOf(fields, i)
<1>4. /\ Len(fields) \in 0..4 /\ \A i \in 1..Len(fields) : fields[i].w \in Nat
      /\ w(1) \in Nat /\ w(2) \in Nat /\ w(3) \in Nat /\ w(4) \in Nat
      /\ w(1) + w(2) + w(3) + w(4) <= size + 10
  <2>1. CASE p = <<>>
    BY <1>1, <2>1 DEF WidthOf
  <2>2. ASSUME NEW a, p = <<a>>, a.w \in 0..8 PROVE <1>4!:
    BY <1>1, <2>2 DEF WidthOf
  <2>3. ASSUME NEW a, NEW b, p = <<a, b>>, a.w = 4, b.w = size PROVE <1>4!:
    BY <1>1, <2>3 DEF WidthOf
  <2>4. ASSUME NEW a, NEW b, NEW c, p = <<a, b, c>>, a.w \in {1, 4}, b.w = size, c.w = 1 PROVE <1>4!:
    BY <1>1, <2>4 DEF WidthOf
  <2> QED BY <1>2, <2>1, <2>2, <2>3, <2>4
<1> HIDE DEF fields, w, k, r
<1>5. Object(k) /\ k.used_size = item.used_size + w(1) + w(2) + w(3) + w(4)
  BY <1>4, AppendFieldsObject DEF k, w
<1>6. /\ DOMAIN r = DOMAIN k /\ r.type = k.type /\ r.writable = k.writable
      /\ r.dirty = TRUE /\ r.used_size = k.used_size
  BY <1>3, <1>5 DEF Object
<1>7. Object(r) /\ r.used_size = k.used_size
  BY <1>5, <1>6 DEF Object
<1>8. item.used_size \in Nat
  BY DEF Object
<1>9. item.used_size <= r.used_size /\ r.used_size <= item.used_size + (size + 10)
  BY <1>4, <1>5, <1>7, <1>8
<1> QED BY <1>7, <1>9 DEF r, Extended
\* Storing a value that is no container adds it, or is refused.
LEMMA StoreObject ==
    ASSUME NEW item, Object(item), NEW type, NEW storage, NEW v, NEW size \in Nat,
           storage = STORAGE_CONTAINER => v.size <= 0
    PROVE  LET r == Store(item, type, storage, v, size) IN r.ok => Extended(item, r.item, size + 10)
<1> DEFINE r == Store(item, type, storage, v, size)
           room == CheckAllocation(item, ArgSize(storage, size))
           filled == Write(room, type, storage, v, size)
<1> SUFFICES ASSUME r.ok PROVE Extended(item, r.item, size + 10)
  OBVIOUS
<1>1. storage # STORAGE_CONTAINER /\ r = Accepted(filled)
  BY DEF Store, Refused
<1>2. r.item = filled
  BY <1>1 DEF Accepted
<1>3. Object(room) /\ room.used_size = item.used_size
  BY CheckAllocationObject
<1> HIDE DEF r, room
<1>4. Extended(room, filled, size + 10)
  BY <1>1, <1>3, WriteObject
<1> HIDE DEF filled
<1> QED BY <1>2, <1>3, <1>4 DEF Extended

\* The setters of dsm_send_msg, and the values they store.
SetterTypes == {BINN_INT32, BINN_INT16, BINN_BLOB}

\* An integer takes at most 10 bytes whatever type compress_int chooses for it, a blob
\* at most 10 bytes more than its data.
LEMMA AddValueObject ==
    ASSUME NEW item, Object(item), NEW type \in SetterTypes, NEW n, NEW size \in Nat,
           type # BINN_BLOB => size = 0
    PROVE  LET r == AddValue(item, type, Value(n, size)) IN r.ok => Extended(item, r.item, size + 10)
<1> DEFINE v == Value(n, size)
           r == AddValue(item, type, v)
<1>1. v.null = FALSE /\ v.size = size
  BY DEF Value
<1>2. CASE type = BINN_BLOB
  <2>1. binn_get_type_info(type) = STORAGE_BLOB
    BY <1>2 DEF binn_get_type_info, ShortTypeStorage, BINN_BLOB, STORAGE_BLOB
  <2>2. type_family(type) # "INT"
    BY <1>2 DEF type_family, Ints, SignedInts, UnsignedInts, BINN_BLOB, BINN_INT8, BINN_INT16, BINN_INT32,
                BINN_INT64, BINN_UINT8, BINN_UINT16, BINN_UINT32, BINN_UINT64, Containers, BINN_LIST, BINN_MAP,
                BINN_OBJECT, BINN_FLOAT32, BINN_FLOAT64, BINN_STRING, BINN_HTML, BINN_JPEG
  <2>3. r = Store(item, type, STORAGE_BLOB, v, size)
    BY <1>1, <2>1, <2>2 DEF AddValue, StoreOther, STORAGE_BLOB, STORAGE_STRING
  <2> HIDE DEF v, r
  <2>4. r.ok => Extended(item, r.item, size + 10)
    BY <2>3, StoreObject DEF STORAGE_BLOB, STORAGE_CONTAINER
  <2> QED BY <2>4 DEF v, r
<1>3. CASE type # BINN_BLOB
  <2> DEFINE x == compress_int(type, v.n)
             m == v.n % 2 ^ BitsOf(x)
             u == [v EXCEPT !.n = m]
             storage == binn_get_write_storage(x)
  <2>1. type_family(type) = "INT"
    <3>1. type \in Ints
      BY <1>3 DEF SetterTypes, Ints, SignedInts, BINN_INT16, BINN_INT32
    <3>2. type \notin Containers
      BY <1>3 DEF SetterTypes, BINN_INT16, BINN_INT32, Containers, BINN_LIST, BINN_MAP, BINN_OBJECT
    <3>3. type \notin {BINN_FLOAT32, BINN_FLOAT64, BINN_STRING, BINN_HTML, BINN_BLOB, BINN_JPEG, BINN_BOOL, BINN_NULL}
      BY <1>3 DEF SetterTypes, BINN_INT16, BINN_INT32, BINN_FLOAT32, BINN_FLOAT64, BINN_STRING, BINN_HTML,
                  BINN_BLOB, BINN_JPEG, BINN_BOOL, BINN_NULL
    <3> QED BY <3>1, <3>2, <3>3, Zenon DEF type_family
  <2>2. r = Store(item, x, storage, u, v.size)
    BY <1>1, <2>1 DEF AddValue, StoreInt
  <2>3. u.size = 0 /\ v.size = size /\ size = 0
    <3> HIDE DEF m
    <3> QED BY <1>1, <1>3 DEF Value
  <2> HIDE DEF v, r, u, x, storage
  <2>4. r.ok => Extended(item, r.item, size + 10)
    BY <2>2, <2>3, StoreObject
  <2> QED BY <2>4 DEF v, r
<1> QED BY <1>2, <1>3
MessageKeys == KeyTYPE..KeyBARRIER

\* The keys are short.
LEMMA KeyLength ==
    ASSUME NEW key \in MessageKeys
    PROVE  Len(KeyText[key]) \in Nat /\ Len(KeyText[key]) <= 9
<1> DEFINE l == Len(MsgKeys[key])
<1>1. key \in {1, 2, 3, 4, 5, 6, 7, 8}
  BY DEF MessageKeys, KeyTYPE, KeyBARRIER
<1>2. DOMAIN MsgKeys = 1..8
  BY DEF MsgKeys
<1>3. KeyText[key] = MsgKeys[key]
  BY <1>1, <1>2, KeysAssumption
<1>4. l \in 4..9
  <2>1. CASE key = 1
    BY <2>1 DEF MsgKeys
  <2>2. CASE key = 2
    BY <2>2 DEF MsgKeys
  <2>3. CASE key = 3
    BY <2>3 DEF MsgKeys
  <2>4. CASE key = 4
    BY <2>4 DEF MsgKeys
  <2>5. CASE key = 5
    BY <2>5 DEF MsgKeys
  <2>6. CASE key = 6
    BY <2>6 DEF MsgKeys
  <2>7. CASE key = 7
    BY <2>7 DEF MsgKeys
  <2>8. CASE key = 8
    BY <2>8 DEF MsgKeys
  <2> QED BY <1>1, <2>1, <2>2, <2>3, <2>4, <2>5, <2>6, <2>7, <2>8
<1>5. Len(KeyText[key]) = l
  BY <1>3
<1> HIDE DEF l
<1>6. l \in Nat /\ l <= 9
  BY <1>4
<1> QED BY <1>5, <1>6

\* What a setter of a message's argument adds besides the bytes of a page.
EntryMax == 20

\* Page sizes are numbers.
LEMMA PageSizeNat == PageSize \in Nat \ {0} /\ MIN_BUFFERSIZE \in Nat
BY MemoryAssumption

\* An entry is a length byte, a key and a value; of a refused one used_size counts
\* nothing.
LEMMA SetEntryObject ==
    ASSUME NEW item, Object(item), NEW key \in MessageKeys, NEW type \in SetterTypes,
           NEW n, NEW size \in Nat, type # BINN_BLOB => size = 0
    PROVE  Extended(item, SetEntry(item, KeyFields(key), 1 + Len(KeyText[key]), type, Value(n, size)).item, EntryMax + size)
<1> DEFINE head == KeyFields(key)
           len == Len(KeyText[key])
           room == CheckAllocation(item, 1 + len)
           keyed == AppendFields(room, head)
           r == AddValue(keyed, type, Value(n, size))
           c == r.item.count + 1
           s == SetEntry(item, head, 1 + len, type, Value(n, size))
           e == s.item
<1>1. len \in Nat /\ len <= 9
  BY KeyLength
<1>2. Object(room) /\ room.used_size = item.used_size /\ item.used_size \in Nat
  BY CheckAllocationObject DEF Object
<1>3. Object(keyed) /\ keyed.used_size = room.used_size + 1 + len
  <2>1. head = <<Field("keylen", 1, len), Field("key", len, key)>>
    BY DEF KeyFields
  <2>2. Len(head) = 2 /\ head[1].w = 1 /\ head[2].w = len
    BY <2>1 DEF Field
  <2> HIDE DEF head, len, room
  <2>3. WidthOf(head, 1) = 1 /\ WidthOf(head, 2) = len /\ WidthOf(head, 3) = 0 /\ WidthOf(head, 4) = 0
    BY <2>2 DEF WidthOf
  <2>4. Len(head) \in 0..4 /\ \A i \in 1..Len(head) : head[i].w \in Nat
    BY <1>1, <2>2
  <2>5. Object(keyed) /\ keyed.used_size = room.used_size + 1 + len + 0 + 0
    BY <1>2, <2>3, <2>4, AppendFieldsObject
  <2> HIDE DEF keyed
  <2> QED BY <1>1, <1>2, <2>5
<1>4. s = IF r.ok THEN Accepted([r.item EXCEPT !.count = c]) ELSE Refused([keyed EXCEPT !.used_size = @ - (1 + len)])
  BY DEF SetEntry, Started
<1> HIDE DEF head, len, room, keyed
<1>5. ASSUME r.ok PROVE Extended(item, e, EntryMax + size)
  <2>1. Extended(keyed, r.item, size + 10)
    BY <1>3, <1>5, AddValueObject
  <2>2. e = [r.item EXCEPT !.count = c]
    BY <1>4, <1>5 DEF Accepted
  <2> HIDE DEF r, e, s, c
  <2>3. /\ DOMAIN e = DOMAIN r.item /\ e.type = r.item.type /\ e.writable = r.item.writable
        /\ e.dirty = r.item.dirty /\ e.used_size = r.item.used_size
    BY <2>2
  <2>4. Object(e) /\ e.used_size = r.item.used_size /\ e.used_size \in Nat
    BY <2>1, <2>3 DEF Extended, Object
  <2>5. item.used_size <= e.used_size /\ e.used_size <= item.used_size + (EntryMax + size)
    BY <1>1, <1>2, <1>3, <2>1, <2>4 DEF Extended, EntryMax
  <2> QED BY <2>4, <2>5 DEF Extended
<1>6. ASSUME ~r.ok PROVE Extended(item, e, EntryMax + size)
  <2> DEFINE u == keyed.used_size - (1 + len)
  <2>1. e = [keyed EXCEPT !.used_size = u]
    BY <1>4, <1>6 DEF Refused
  <2>2. u = item.used_size
    BY <1>1, <1>2, <1>3
  <2> HIDE DEF e, s, u
  <2>3. /\ DOMAIN e = DOMAIN keyed /\ e.type = keyed.type /\ e.writable = keyed.writable
        /\ e.dirty = keyed.dirty /\ e.used_size = u
    BY <1>3, <2>1 DEF Object
  <2>4. Object(e)
    BY <1>2, <1>3, <2>2, <2>3 DEF Object
  <2>5. item.used_size <= e.used_size /\ e.used_size <= item.used_size + (EntryMax + size)
    BY <1>2, <2>2, <2>3 DEF EntryMax
  <2> QED BY <2>4, <2>5 DEF Extended
<1>7. Extended(item, e, EntryMax + size)
  BY <1>5, <1>6
<1> HIDE DEF e, s
<1> QED BY <1>7 DEF e, s, head, len

\* A setter call adds one entry, or nothing when the key is there already.
LEMMA SetArgObject ==
    ASSUME NEW item, Object(item), NEW key \in MessageKeys, NEW type \in SetterTypes, NEW n
    PROVE  Extended(item, SetArg(item, key, type, n), EntryMax + IF type = BINN_BLOB THEN PageSize ELSE 0)
<1> DEFINE size == IF type = BINN_BLOB THEN PageSize ELSE 0
           x == IF type = BINN_BLOB THEN n ELSE Cast(type, n)
           v == Value(x, size)
           r == SetArg(item, key, type, n)
           c == GetWriteConvertedData(type, v)
           e == SetEntry(item, KeyFields(key), 1 + Len(KeyText[key]), type, v)
<1>1. size \in Nat /\ (type # BINN_BLOB => size = 0)
  BY PageSizeNat
<1>2. r = binn_add_value(item, key, type, v).item
  BY DEF SetArg
<1>3. c.ok = TRUE /\ c.type = type
  <2>1. v.null = FALSE
    BY DEF Value
  <2>2. type # BINN_BOOL
    BY DEF SetterTypes, BINN_INT16, BINN_INT32, BINN_BLOB, BINN_BOOL
  <2> HIDE DEF v
  <2> QED BY <2>1, <2>2 DEF GetWriteConvertedData
<1>4. item.type = BINN_OBJECT /\ item.type # BINN_LIST /\ item.type # BINN_MAP /\ item.writable = TRUE
  BY DEF Object, BINN_OBJECT, BINN_LIST, BINN_MAP
<1>5. binn_add_value(item, key, type, v) \in {Refused(item), binn_object_set_raw(item, key, type, v)}
  <2> HIDE DEF v
  <2> QED BY <1>3, <1>4 DEF binn_add_value
<1>6. binn_object_set_raw(item, key, type, v) \in {Refused(item), e}
  <2> HIDE DEF v
  <2> QED BY DEF binn_object_set_raw
<1>7. r = item \/ r = e.item
  <2>1. Refused(item).item = item
    BY DEF Refused
  <2> HIDE DEF v, e, r
  <2> QED BY <1>2, <1>5, <1>6, <2>1
<1> HIDE DEF size, x
<1>8. CASE r = e.item
  <2> HIDE DEF r
  <2>1. Extended(item, e.item, EntryMax + size)
    BY <1>1, SetEntryObject
  <2> QED BY <1>8, <2>1 DEF size, r
<1>9. CASE r = item
  <2> HIDE DEF r
  <2>1. item.used_size \in Nat /\ EntryMax \in Nat
    BY DEF Object, EntryMax
  <2>2. item.used_size <= item.used_size /\ item.used_size <= item.used_size + (EntryMax + size)
    BY <1>1, <2>1
  <2>3. Extended(item, item, EntryMax + size)
    BY <2>2 DEF Extended
  <2> QED BY <1>9, <2>3 DEF size, r
<1> QED BY <1>7, <1>8, <1>9
\* dsm_send_msg uses few setters, each with a key of the messages.
LEMMA SentFieldsShort ==
    ASSUME NEW type
    PROVE  /\ Len(SentFields(type)) \in 0..3
           /\ \A i \in 1..Len(SentFields(type)) :
                /\ SentFields(type)[i][1] \in MessageKeys /\ SentFields(type)[i][2] \in SetterTypes
                /\ SentFields(type)[i][2] = BINN_BLOB => type = GIVEPAGE /\ i = 3
<1> DEFINE s == SentFields(type)
<1>0. \A k \in 1..8 : k \in MessageKeys
  BY DEF MessageKeys, KeyTYPE, KeyBARRIER
<1> DEFINE Fine == /\ Len(s) \in 0..3
                   /\ \A i \in 1..Len(s) : /\ s[i][1] \in MessageKeys /\ s[i][2] \in SetterTypes
                                           /\ s[i][2] = BINN_BLOB => type = GIVEPAGE /\ i = 3
<1>1. /\ CONNECT # CONNECT_ACK /\ CONNECT # LOCKPAGE /\ CONNECT # INVALIDATE /\ CONNECT # INVALIDATE_ACK
      /\ CONNECT # GIVEPAGE /\ CONNECT # SYNC_BARRIER /\ CONNECT_ACK # LOCKPAGE /\ CONNECT_ACK # INVALIDATE
      /\ CONNECT_ACK # INVALIDATE_ACK /\ CONNECT_ACK # GIVEPAGE /\ CONNECT_ACK # SYNC_BARRIER
      /\ LOCKPAGE # INVALIDATE /\ LOCKPAGE # INVALIDATE_ACK /\ LOCKPAGE # GIVEPAGE /\ LOCKPAGE # SYNC_BARRIER
      /\ INVALIDATE # GIVEPAGE /\ INVALIDATE # SYNC_BARRIER /\ INVALIDATE_ACK # GIVEPAGE
      /\ INVALIDATE_ACK # SYNC_BARRIER /\ GIVEPAGE # SYNC_BARRIER
  BY DEF CONNECT, CONNECT_ACK, LOCKPAGE, INVALIDATE, INVALIDATE_ACK, GIVEPAGE, SYNC_BARRIER
<1>2. /\ BINN_INT16 \in SetterTypes /\ BINN_INT32 \in SetterTypes /\ BINN_BLOB \in SetterTypes
      /\ BINN_INT16 # BINN_BLOB /\ BINN_INT32 # BINN_BLOB
      /\ KeyBITNESS \in MessageKeys /\ KeyPAGESIZE \in MessageKeys /\ KeyPAGECOUNT \in MessageKeys
      /\ KeyPAGEID \in MessageKeys /\ KeyRIGHTS \in MessageKeys /\ KeyDATA \in MessageKeys
      /\ KeyBARRIER \in MessageKeys
  BY <1>0 DEF KeyBITNESS, KeyPAGESIZE, KeyPAGECOUNT, KeyPAGEID, KeyRIGHTS, KeyDATA, KeyBARRIER,
              BINN_INT16, BINN_INT32, BINN_BLOB, SetterTypes
<1>3. ASSUME type = CONNECT PROVE Fine
  <2>1. s = <<<<KeyBITNESS, BINN_INT32>>, <<KeyPAGESIZE, BINN_INT32>>>>
    BY <1>1, <1>3, Zenon DEF SentFields
  <2> HIDE DEF s
  <2> QED BY <1>2, <1>3, <2>1
<1>4. ASSUME type = CONNECT_ACK PROVE Fine
  <2>1. s = <<<<KeyBITNESS, BINN_INT16>>, <<KeyPAGESIZE, BINN_INT16>>, <<KeyPAGECOUNT, BINN_INT32>>>>
    BY <1>1, <1>4, Zenon DEF SentFields
  <2> HIDE DEF s
  <2> QED BY <1>2, <1>4, <2>1
<1>5. ASSUME type = LOCKPAGE PROVE Fine
  <2>1. s = <<<<KeyPAGEID, BINN_INT32>>, <<KeyRIGHTS, BINN_INT16>>>>
    BY <1>1, <1>5, Zenon DEF SentFields
  <2> HIDE DEF s
  <2> QED BY <1>2, <1>5, <2>1
<1>6. ASSUME type = INVALIDATE PROVE Fine
  <2>1. s = <<<<KeyPAGEID, BINN_INT32>>>>
    BY <1>1, <1>6, Zenon DEF SentFields
  <2> HIDE DEF s
  <2> QED BY <1>2, <1>6, <2>1
<1>7. ASSUME type = INVALIDATE_ACK PROVE Fine
  <2>1. s = <<<<KeyPAGEID, BINN_INT32>>>>
    BY <1>1, <1>7, Zenon DEF SentFields
  <2> HIDE DEF s
  <2> QED BY <1>2, <1>7, <2>1
<1>8. ASSUME type = GIVEPAGE PROVE Fine
  <2>1. s = <<<<KeyPAGEID, BINN_INT32>>, <<KeyRIGHTS, BINN_INT16>>, <<KeyDATA, BINN_BLOB>>>>
    BY <1>1, <1>8, Zenon DEF SentFields
  <2> HIDE DEF s
  <2> QED BY <1>2, <1>8, <2>1
<1>9. ASSUME type = SYNC_BARRIER PROVE Fine
  <2>1. s = <<<<KeyBARRIER, BINN_INT16>>>>
    BY <1>1, <1>9, Zenon DEF SentFields
  <2> HIDE DEF s
  <2> QED BY <1>2, <1>9, <2>1
<1>10. ASSUME type \notin {CONNECT, CONNECT_ACK, LOCKPAGE, INVALIDATE, INVALIDATE_ACK, GIVEPAGE, SYNC_BARRIER} PROVE Fine
  <2>1. s = <<>>
    BY <1>10, Zenon DEF SentFields
  <2> HIDE DEF s
  <2> QED BY <2>1
<1>11. Fine
  <2> HIDE DEF Fine
  <2> QED BY <1>3, <1>4, <1>5, <1>6, <1>7, <1>8, <1>9, <1>10
<1> HIDE DEF s
<1> QED BY <1>11 DEF s

\* The recursive function of Encoded exists: one setter call after the other.
LEMMA EncodedRun ==
    ASSUME NEW msg
    PROVE  \E f : /\ f[0] = SetArg(binn_create(BINN_OBJECT), KeyTYPE, BINN_INT32, msg.type)
                  /\ \A i \in 1..Len(SentFields(msg.type)) :
                       f[i] = SetArg(f[i - 1], SentFields(msg.type)[i][1], SentFields(msg.type)[i][2],
                                     msg.args[SentFields(msg.type)[i][1]])
                  /\ Encoded(msg) = binn_ptr(f[Len(SentFields(msg.type))])
<1> DEFINE fields == SentFields(msg.type)
           first == SetArg(binn_create(BINN_OBJECT), KeyTYPE, BINN_INT32, msg.type)
           Next_(item, i) == SetArg(item, fields[i][1], fields[i][2], msg.args[fields[i][1]])
           Run(f, n) == f = [i \in 0..n |-> IF i = 0 THEN first ELSE Next_(f[i - 1], i)]
           I == {n \in Nat : \E f : Run(f, n)}
<1>1. 0 \in I
  <2> DEFINE f == [i \in 0..0 |-> first]
  <2> HIDE DEF first, Next_
  <2>1. f = [i \in 0..0 |-> IF i = 0 THEN first ELSE Next_(f[i - 1], i)]
    OBVIOUS
  <2> QED BY <2>1
<1>2. ASSUME NEW n \in I PROVE n + 1 \in I
  <2> HIDE DEF first, Next_
  <2>1. n \in Nat
    OBVIOUS
  <2>2. PICK f : Run(f, n)
    OBVIOUS
  <2> DEFINE g == [i \in 0..(n + 1) |-> IF i = n + 1 THEN Next_(f[n], n + 1) ELSE f[i]]
  <2>3. \A i \in 0..(n + 1) : g[i] = IF i = 0 THEN first ELSE Next_(g[i - 1], i)
    <3> SUFFICES ASSUME NEW i \in 0..(n + 1)
                 PROVE  g[i] = IF i = 0 THEN first ELSE Next_(g[i - 1], i)
      OBVIOUS
    <3>1. CASE i = n + 1
      <4>1. i # 0 /\ i - 1 = n /\ n \in 0..(n + 1) /\ n # n + 1
        BY <2>1, <3>1
      <4>2. g[n] = f[n]
        BY <4>1
      <4> QED BY <3>1, <4>1, <4>2
    <3>2. CASE i # n + 1
      <4>1. i \in 0..n /\ (i # 0 => i - 1 \in 0..(n + 1) /\ i - 1 # n + 1)
        BY <2>1, <3>2
      <4>2. g[i] = f[i] /\ (i # 0 => g[i - 1] = f[i - 1])
        BY <3>2, <4>1
      <4>3. f[i] = IF i = 0 THEN first ELSE Next_(f[i - 1], i)
        BY <2>2, <4>1
      <4> QED BY <4>2, <4>3
    <3> QED BY <3>1, <3>2
  <2> DEFINE h == [i \in 0..(n + 1) |-> IF i = 0 THEN first ELSE Next_(g[i - 1], i)]
  <2>4. g = h
    <3>1. \A i \in 0..(n + 1) : g[i] = h[i]
      BY <2>3
    <3> HIDE <2>3
    <3> QED BY <3>1
  <2>5. Run(g, n + 1)
    BY <2>4
  <2>6. n + 1 \in Nat
    BY <2>1
  <2> HIDE DEF g, h, Run
  <2> QED BY <2>5, <2>6
<1>3. I = Nat
  <2> HIDE DEF Run
  <2>1. I \in SUBSET Nat
    OBVIOUS
  <2> HIDE DEF I
  <2> QED BY <1>1, <1>2, <2>1, Induction
<1> DEFINE n == Len(fields)
           object == CHOOSE f : Run(f, n)
<1>4. n \in Nat
  BY SentFieldsShort
<1>5. Run(object, n)
  <2> HIDE DEF fields, first, Next_
  <2> QED BY <1>3, <1>4
<1>6. Encoded(msg) = binn_ptr(object[n])
  BY DEF Encoded
<1>7. object[0] = first /\ \A i \in 1..n : object[i] = Next_(object[i - 1], i)
  <2> HIDE DEF object, first, Next_, fields
  <2> QED BY <1>4, <1>5
<1> HIDE DEF object
<1> QED BY <1>6, <1>7

\* A new object holds its unused header.
LEMMA NewObject ==
    Object(binn_create(BINN_OBJECT)) /\ binn_create(BINN_OBJECT).used_size = MAX_BINN_HEADER
BY DEF binn_create, Object, MAX_BINN_HEADER

\* Saving the header gives the size: what is used, without the unused header bytes.
LEMMA SavedSize ==
    ASSUME NEW item, Object(item)
    PROVE  binn_ptr(item).size \in Nat \ {0} /\ binn_ptr(item).size <= item.used_size
<1> DEFINE count == LenField(item.count)
           n == item.used_size - MAX_BINN_HEADER + 3 + (count.w - 1)
           size == Widened(LenField(n))
           r == binn_ptr(item)
<1>1. count.w \in {1, 4}
  BY DEF LenField, OneByte, FourBytes, Field
<1>2. r = HeaderAt(item, count, size)
  BY DEF binn_ptr, binn_save_header, SavedWithCount, Object
<1>3. r.size = size.n
  <2> DEFINE m == Put(Put(Put(item.mem, (MAX_BINN_HEADER - count.w - size.w) + size.w, count),
                          (MAX_BINN_HEADER - count.w - size.w), size),
                      (MAX_BINN_HEADER - count.w - size.w) - 1, Field("type", 1, item.type))
             p == [block |-> item.pbuf, off |-> (MAX_BINN_HEADER - count.w - size.w) - 1]
             a == [item EXCEPT !.mem = m]
             b == [a EXCEPT !.ptr = p]
             c == [b EXCEPT !.size = size.n]
             e == [c EXCEPT !.dirty = FALSE]
  <2>1. r = e
    BY <1>2 DEF HeaderAt
  <2> HIDE DEF m, p, size, r
  <2>2. "size" \in DOMAIN b
    BY DEF Object
  <2> HIDE DEF b
  <2>3. c.size = size.n
    BY <2>2
  <2> HIDE DEF c
  <2>4. e.size = c.size
    OBVIOUS
  <2> QED BY <2>1, <2>3, <2>4
<1>4. LenField(n).n = n /\ LenField(n).w \in {1, 4}
  <2> HIDE DEF n
  <2> QED BY DEF LenField, OneByte, FourBytes, Field
<1>5. size.n = n + LenField(n).w - 1
  <2>1. "n" \in DOMAIN LenField(n)
    <3> HIDE DEF n
    <3> QED BY DEF LenField, OneByte, FourBytes, Field
  <2> HIDE DEF n
  <2> QED BY <1>4, <2>1 DEF Widened
<1>6. item.used_size \in Nat /\ 9 <= item.used_size
  BY DEF Object, MAX_BINN_HEADER
<1>7. n = item.used_size - 6 + (count.w - 1)
  BY <1>1, <1>6 DEF MAX_BINN_HEADER
<1> HIDE DEF n, count, size, r
<1>8. n \in Nat /\ 3 <= n /\ n <= item.used_size - 3
  BY <1>1, <1>6, <1>7
<1>9. r.size \in Nat \ {0} /\ r.size <= item.used_size
  BY <1>3, <1>4, <1>5, <1>6, <1>8
<1> QED BY <1>9 DEF r

\* No message is larger than its unused header, four entries and a page.
MessageMax(msg) == MAX_BINN_HEADER + 4 * EntryMax + IF msg.type = GIVEPAGE THEN PageSize ELSE 0

\* Whatever the arguments, dsm_send_msg hands dsm_send an object that has a size, at
\* least one byte and no more than MessageMax.
LEMMA EncodedSize ==
    ASSUME NEW msg
    PROVE  Encoded(msg).size \in Nat \ {0} /\ Encoded(msg).size <= MessageMax(msg)
<1> DEFINE fields == SentFields(msg.type)
           n == Len(fields)
           page == IF msg.type = GIVEPAGE THEN PageSize ELSE 0
           first == SetArg(binn_create(BINN_OBJECT), KeyTYPE, BINN_INT32, msg.type)
<1>1. PICK f : /\ f[0] = first
               /\ \A i \in 1..n : f[i] = SetArg(f[i - 1], fields[i][1], fields[i][2], msg.args[fields[i][1]])
               /\ Encoded(msg) = binn_ptr(f[n])
  BY EncodedRun
<1>2. /\ n \in 0..3
      /\ \A i \in 1..n : /\ fields[i][1] \in MessageKeys /\ fields[i][2] \in SetterTypes
                         /\ fields[i][2] = BINN_BLOB => msg.type = GIVEPAGE /\ i = 3
  BY SentFieldsShort
<1>3. page \in Nat
  BY PageSizeNat
<1>4. Object(f[0]) /\ f[0].used_size <= 29
  <2> DEFINE c == binn_create(BINN_OBJECT)
  <2>1. KeyTYPE \in MessageKeys /\ BINN_INT32 \in SetterTypes /\ BINN_INT32 # BINN_BLOB
    BY DEF KeyTYPE, KeyBARRIER, MessageKeys, SetterTypes, BINN_INT32, BINN_BLOB
  <2>2. Object(c) /\ c.used_size = 9
    BY NewObject DEF MAX_BINN_HEADER
  <2> HIDE DEF c
  <2>3. Extended(c, SetArg(c, KeyTYPE, BINN_INT32, msg.type), EntryMax + IF BINN_INT32 = BINN_BLOB THEN PageSize ELSE 0)
    BY <2>1, <2>2, SetArgObject
  <2>4. Extended(c, first, EntryMax + 0)
    BY <2>1, <2>3 DEF c
  <2> HIDE DEF first
  <2> QED BY <1>1, <2>2, <2>4 DEF Extended, EntryMax, Object
<1> HIDE DEF first
<1>5. ASSUME NEW i \in 1..n, Object(f[i - 1])
      PROVE  Object(f[i]) /\ f[i].used_size <= f[i - 1].used_size + 20 + (IF i = 3 THEN page ELSE 0)
  <2> DEFINE k == fields[i][1]
             t == fields[i][2]
             q == IF t = BINN_BLOB THEN PageSize ELSE 0
             p == IF i = 3 THEN page ELSE 0
  <2>1. PICK x : f[i] = SetArg(f[i - 1], k, t, x)
    BY <1>1
  <2>2. k \in MessageKeys /\ t \in SetterTypes /\ (t = BINN_BLOB => msg.type = GIVEPAGE /\ i = 3)
    BY <1>2
  <2> HIDE DEF k, t, fields
  <2>3. Extended(f[i - 1], f[i], EntryMax + q)
    BY <1>5, <2>1, <2>2, SetArgObject
  <2>4. q \in Nat /\ p \in Nat /\ q <= p
    BY <1>3, <2>2, PageSizeNat
  <2> HIDE DEF q, p
  <2>5. Object(f[i]) /\ f[i].used_size <= f[i - 1].used_size + 20 + p
    BY <1>5, <2>3, <2>4 DEF Extended, EntryMax, Object
  <2> QED BY <2>5 DEF p
<1> HIDE DEF fields, n, page
<1>6. 1 - 1 = 0 /\ 2 - 1 = 1 /\ 3 - 1 = 2
  OBVIOUS
<1>7. n >= 1 => Object(f[1]) /\ f[1].used_size <= 49
  <2> SUFFICES ASSUME n >= 1 PROVE Object(f[1]) /\ f[1].used_size <= 49
    OBVIOUS
  <2>1. 1 \in 1..n
    BY <1>2
  <2>2. Object(f[1]) /\ f[1].used_size <= f[0].used_size + 20 + (IF 1 = 3 THEN page ELSE 0)
    BY <1>4, <1>5, <1>6, <2>1
  <2> QED BY <1>4, <2>2 DEF Object
<1>8. n >= 2 => Object(f[2]) /\ f[2].used_size <= 69
  <2> SUFFICES ASSUME n >= 2 PROVE Object(f[2]) /\ f[2].used_size <= 69
    OBVIOUS
  <2>1. 2 \in 1..n /\ n >= 1
    BY <1>2
  <2>2. Object(f[2]) /\ f[2].used_size <= f[1].used_size + 20 + (IF 2 = 3 THEN page ELSE 0)
    BY <1>5, <1>6, <1>7, <2>1
  <2> QED BY <1>7, <2>1, <2>2 DEF Object
<1>9. n >= 3 => Object(f[3]) /\ f[3].used_size <= 89 + page
  <2> SUFFICES ASSUME n >= 3 PROVE Object(f[3]) /\ f[3].used_size <= 89 + page
    OBVIOUS
  <2>1. 3 \in 1..n /\ n >= 2
    BY <1>2
  <2>2. Object(f[3]) /\ f[3].used_size <= f[2].used_size + 20 + page
    BY <1>5, <1>6, <1>8, <2>1
  <2> QED BY <1>3, <1>8, <2>1, <2>2 DEF Object
<1>10. Object(f[n]) /\ f[n].used_size <= 89 + page
  <2>1. n \in {0, 1, 2, 3}
    BY <1>2
  <2>2. CASE n = 0
    BY <1>3, <1>4, <2>2 DEF Object
  <2>3. CASE n = 1
    BY <1>3, <1>7, <2>3 DEF Object
  <2>4. CASE n = 2
    BY <1>3, <1>8, <2>4 DEF Object
  <2>5. CASE n = 3
    BY <1>9, <2>5
  <2> QED BY <2>1, <2>2, <2>3, <2>4, <2>5
<1> DEFINE e == Encoded(msg).size
           u == f[n].used_size
<1>11. e \in Nat \ {0} /\ e <= u /\ u \in Nat
  BY <1>1, <1>10, SavedSize DEF Object
<1> HIDE DEF e, u
<1>12. e <= 89 + page
  BY <1>3, <1>10, <1>11 DEF u
<1>13. MessageMax(msg) = 89 + page
  BY <1>3 DEF MessageMax, MAX_BINN_HEADER, EntryMax, page
<1> QED BY <1>11, <1>12, <1>13 DEF e
-----------------------------------------------------------------------------
(* What recv() waits for.                                                  *)

\* A chunk in flight has at least one byte.
LEMMA ChunkWidth ==
    ASSUME NEW c, IsChunk(c)
    PROVE  Width(c) \in Nat \ {0}
BY DEF IsChunk, Width

\* The recursive function of Available exists: it adds up the widths one by one.
LEMMA AvailableRun ==
    ASSUME NEW d, Len(wire[d]) \in Nat
    PROVE  \E f : /\ f[0] = 0 /\ \A i \in 1..Len(wire[d]) : f[i] = f[i - 1] + Width(wire[d][i])
                  /\ Available(d) = f[Len(wire[d])]
<1> DEFINE n == Len(wire[d])
           W(i) == Width(wire[d][i])
           Run(f, m) == f = [i \in 0..m |-> IF i = 0 THEN 0 ELSE f[i - 1] + W(i)]
           I == {m \in Nat : \E f : Run(f, m)}
<1>1. 0 \in I
  <2> DEFINE f == [i \in 0..0 |-> 0]
  <2>1. f = [i \in 0..0 |-> IF i = 0 THEN 0 ELSE f[i - 1] + W(i)]
    OBVIOUS
  <2> QED BY <2>1
<1>2. ASSUME NEW m \in I PROVE m + 1 \in I
  <2> HIDE DEF W
  <2>1. m \in Nat
    OBVIOUS
  <2>2. PICK f : Run(f, m)
    OBVIOUS
  <2> DEFINE g == [i \in 0..(m + 1) |-> IF i = m + 1 THEN f[m] + W(m + 1) ELSE f[i]]
  <2>3. \A i \in 0..(m + 1) : g[i] = IF i = 0 THEN 0 ELSE g[i - 1] + W(i)
    <3> SUFFICES ASSUME NEW i \in 0..(m + 1)
                 PROVE  g[i] = IF i = 0 THEN 0 ELSE g[i - 1] + W(i)
      OBVIOUS
    <3>1. CASE i = m + 1
      <4>1. i # 0 /\ i - 1 = m /\ m \in 0..(m + 1) /\ m # m + 1
        BY <2>1, <3>1
      <4>2. g[m] = f[m]
        BY <4>1
      <4> QED BY <3>1, <4>1, <4>2
    <3>2. CASE i # m + 1
      <4>1. i \in 0..m /\ (i # 0 => i - 1 \in 0..(m + 1) /\ i - 1 # m + 1)
        BY <2>1, <3>2
      <4>2. g[i] = f[i] /\ (i # 0 => g[i - 1] = f[i - 1])
        BY <3>2, <4>1
      <4>3. f[i] = IF i = 0 THEN 0 ELSE f[i - 1] + W(i)
        BY <2>2, <4>1
      <4> QED BY <4>2, <4>3
    <3> QED BY <3>1, <3>2
  <2> DEFINE h == [i \in 0..(m + 1) |-> IF i = 0 THEN 0 ELSE g[i - 1] + W(i)]
  <2>4. g = h
    <3>1. \A i \in 0..(m + 1) : g[i] = h[i]
      BY <2>3
    <3> HIDE <2>3
    <3> QED BY <3>1
  <2>5. Run(g, m + 1)
    BY <2>4
  <2>6. m + 1 \in Nat
    BY <2>1
  <2> HIDE DEF g, h, Run
  <2> QED BY <2>5, <2>6
<1>3. I = Nat
  <2> HIDE DEF Run
  <2>1. I \in SUBSET Nat
    OBVIOUS
  <2> HIDE DEF I
  <2> QED BY <1>1, <1>2, <2>1, Induction
<1> DEFINE bytes == CHOOSE f : Run(f, n)
<1>4. Run(bytes, n)
  BY <1>3
<1>5. Available(d) = bytes[n]
  BY DEF Available
<1>6. bytes[0] = 0 /\ \A i \in 1..n : bytes[i] = bytes[i - 1] + W(i)
  <2> HIDE DEF bytes
  <2> QED BY <1>4
<1> QED BY <1>5, <1>6

\* With nothing in flight no byte is there; with a chunk in flight all its bytes are.
LEMMA AvailableBytes ==
    ASSUME NEW d, IsSeq(wire[d]), \A i \in DOMAIN wire[d] : IsChunk(wire[d][i])
    PROVE  /\ Available(d) \in Nat
           /\ wire[d] = <<>> => Available(d) = 0
           /\ \A i \in DOMAIN wire[d] : Width(wire[d][i]) <= Available(d)
<1> DEFINE n == Len(wire[d])
           W(i) == Width(wire[d][i])
<1>1. n \in Nat /\ DOMAIN wire[d] = 1..n /\ (wire[d] = <<>> <=> n = 0)
  BY SeqLen
<1>2. PICK f : f[0] = 0 /\ (\A i \in 1..n : f[i] = f[i - 1] + W(i)) /\ Available(d) = f[n]
  BY <1>1, AvailableRun
<1>3. \A i \in 1..n : W(i) \in Nat
  BY <1>1, ChunkWidth
<1> HIDE DEF n, W
<1> DEFINE I == {m \in Nat : m <= n => f[m] \in Nat /\ \A i \in 1..m : W(i) <= f[m]}
<1>4. 0 \in I
  BY <1>2
<1>5. ASSUME NEW m \in I PROVE m + 1 \in I
  <2>1. m \in Nat /\ m + 1 \in Nat /\ (m + 1) - 1 = m
    OBVIOUS
  <2> SUFFICES ASSUME m + 1 <= n PROVE f[m + 1] \in Nat /\ \A i \in 1..(m + 1) : W(i) <= f[m + 1]
    BY <2>1
  <2>2. f[m] \in Nat /\ \A i \in 1..m : W(i) <= f[m]
    BY <1>1, <2>1
  <2>3. m + 1 \in 1..n
    BY <1>1, <2>1
  <2>4. f[m + 1] = f[m] + W(m + 1) /\ W(m + 1) \in Nat
    BY <1>2, <1>3, <2>1, <2>3
  <2>5. ASSUME NEW i \in 1..(m + 1) PROVE W(i) <= f[m + 1]
    <3>1. i = m + 1 \/ i \in 1..m
      BY <2>1
    <3>2. i \in 1..n
      BY <1>1, <2>3
    <3>3. W(i) \in Nat
      BY <1>3, <3>2
    <3> QED BY <2>2, <2>4, <3>1, <3>3
  <2> QED BY <2>2, <2>4, <2>5
<1>6. I = Nat
  <2>1. I \in SUBSET Nat
    OBVIOUS
  <2> HIDE DEF I
  <2> QED BY <1>4, <1>5, <2>1, Induction
<1>7. f[n] \in Nat /\ \A i \in 1..n : W(i) <= f[n]
  BY <1>1, <1>6
<1> QED BY <1>1, <1>2, <1>7 DEF W
-----------------------------------------------------------------------------
(* Every step keeps the framing.                                           *)

\* The numbers of a direction.
LEMMA FrameNumbers ==
    ASSUME FrameTypes, NEW d \in Directions
    PROVE  /\ Expecting(d) \in {0, 1} /\ Unread(d) \in Nat /\ Len(wire[d]) \in Nat
           /\ Len(sent[d]) \in Nat /\ Len(received[d]) \in Nat
           /\ Len(sent[d]) = Len(received[d]) + Unread(d)
           /\ DOMAIN wire[d] = 1..Len(wire[d]) /\ (wire[d] = <<>> <=> Len(wire[d]) = 0)
<1>1. IsSeq(wire[d]) /\ IsSeq(sent[d]) /\ IsSeq(received[d]) /\ Len(received[d]) <= Len(sent[d])
  BY DEF FrameTypes
<1>2. Len(wire[d]) \in Nat /\ DOMAIN wire[d] = 1..Len(wire[d]) /\ (wire[d] = <<>> <=> Len(wire[d]) = 0)
  BY <1>1, SeqLen
<1>3. Len(sent[d]) \in Nat /\ Len(received[d]) \in Nat
  BY <1>1, SeqLen
<1>4. Unread(d) \in Nat /\ Len(sent[d]) = Len(received[d]) + Unread(d)
  BY <1>1, <1>3 DEF Unread
<1>5. Expecting(d) \in {0, 1}
  BY DEF Expecting
<1> QED BY <1>2, <1>3, <1>4, <1>5

\* What the two sends put on the connection are chunks.
LEMMA MessageChunks ==
    ASSUME NEW m
    PROVE  /\ IsChunk(SizeOf(m)) /\ IsChunk(BodyOf(m)) /\ SizeOf(m).kind = "size" /\ BodyOf(m).kind = "body"
           /\ SizeOf(m).n = Encoded(m).size /\ BodyOf(m).n = Encoded(m).size /\ BodyOf(m) # None
<1> DEFINE n == Encoded(m).size
           b == Slice(BufferOf(Encoded(m)), 0, n)
<1>1. n \in Nat \ {0}
  BY EncodedSize
<1>2. SizeOf(m) = Chunk("size", n, <<>>) /\ BodyOf(m) = Chunk("body", n, b)
  BY DEF SizeOf, BodyOf
<1> HIDE DEF n, b
<1>3. BodyOf(m).kind # None.kind
  BY <1>2 DEF Chunk, None
<1> QED BY <1>1, <1>2, <1>3 DEF Chunk, IsChunk, n

\* The framing of one direction depends on that direction only.
LEMMA OtherDirection ==
    ASSUME NEW d \in Directions, Frame(d), wire'[d] = wire[d], sent'[d] = sent[d], received'[d] = received[d],
           expecting'[d] = expecting[d], garbled'[d] = garbled[d], stopped'[d] = stopped[d],
           \A t \in Threads : DirOf(t) = d => sending'[t] = sending[t], overlapped => overlapped'
    PROVE  Frame(d)'
<1>1. \A k : UnreadMsg(d, k)' = UnreadMsg(d, k)
  BY DEF UnreadMsg
<1>2. \A k : SizeAt(d, k)' = SizeAt(d, k) /\ BodyAt(d, k)' = BodyAt(d, k)
  BY DEF SizeAt, BodyAt, Expecting
<1>3. Unread(d)' = Unread(d)
  BY DEF Unread
<1>4. \A k : (HasSize(d, k)' <=> HasSize(d, k)) /\ (HasBody(d, k)' <=> HasBody(d, k))
  BY <1>1, <1>2 DEF HasSize, HasBody
<1>5. \A t \in Threads : (Busy(t, d)' <=> Busy(t, d)) /\ (Busy(t, d) => sending'[t] = sending[t])
  BY DEF Busy
<1>6. ASSUME Framed(d) PROVE Framed(d)'
  BY <1>2, <1>3, <1>4, <1>5, <1>6 DEF Framed
<1>7. \A k : BrokenAt(d, k) => BrokenAt(d, k)'
  BY <1>1, <1>2, <1>4, <1>5 DEF BrokenAt
<1>8. Broken(d) => Broken(d)'
  BY <1>3, <1>7 DEF Broken
<1>9. SizeRead(d) => SizeRead(d)'
  BY <1>1, <1>3 DEF SizeRead
<1> QED BY <1>6, <1>8, <1>9 DEF Frame
\* The framing with what one direction's step changed: the types come first.
LEMMA SendSizeTypes ==
    ASSUME FrameTypes, NEW t \in Threads, NEW msg, SendSize(t, msg)
    PROVE  /\ FrameTypes'
           /\ DirOf(t) \in Directions /\ sending[t] = None
           /\ sending' = [sending EXCEPT ![t] = BodyOf(msg)]
           /\ wire' = [wire EXCEPT ![DirOf(t)] = Append(wire[DirOf(t)], SizeOf(msg))]
           /\ sent' = [sent EXCEPT ![DirOf(t)] = Append(sent[DirOf(t)], msg)]
           /\ overlapped' = (overlapped \/ \E u \in Threads \ {t} : DirOf(u) = DirOf(t) /\ sending[u] # None)
           /\ UNCHANGED <<expecting, mem, received, garbled, stopped>>
<1> DEFINE d == DirOf(t)
<1>1. d \in Directions
  BY DEF DirOf, Directions
<1>2. /\ sending[t] = None /\ Len(sent[d]) < MaxSends
      /\ sending' = [sending EXCEPT ![t] = BodyOf(msg)]
      /\ wire' = [wire EXCEPT ![d] = Append(wire[d], SizeOf(msg))]
      /\ sent' = [sent EXCEPT ![d] = Append(sent[d], msg)]
      /\ overlapped' = (overlapped \/ \E u \in Threads \ {t} : DirOf(u) = d /\ sending[u] # None)
      /\ UNCHANGED <<expecting, mem, received, garbled, stopped>>
  BY Zenon DEF SendSize, BodyOf, SizeOf
<1> HIDE DEF d
<1>3. /\ \A e \in Directions : wire'[e] = IF e = d THEN Append(wire[d], SizeOf(msg)) ELSE wire[e]
      /\ \A e \in Directions : sent'[e] = IF e = d THEN Append(sent[d], msg) ELSE sent[e]
      /\ \A u \in Threads : sending'[u] = IF u = t THEN BodyOf(msg) ELSE sending[u]
  BY <1>1, <1>2 DEF FrameTypes
<1>4. /\ IsSeq(wire[d]) /\ IsSeq(sent[d]) /\ Len(sent[d]) \in Nat /\ Len(received[d]) \in Nat
      /\ Len(received[d]) <= Len(sent[d]) /\ Len(wire[d]) \in Nat /\ DOMAIN wire[d] = 1..Len(wire[d])
  BY <1>1, SeqLen DEF FrameTypes
<1>5. ASSUME NEW e \in Directions
      PROVE  /\ IsSeq(wire'[e]) /\ \A i \in DOMAIN wire'[e] : IsChunk(wire'[e][i])
             /\ IsSeq(sent'[e]) /\ IsSeq(received'[e])
             /\ Len(sent'[e]) <= MaxSends /\ Len(received'[e]) <= Len(sent'[e])
             /\ expecting'[e] \in Nat \cup {NIL}
  <2>1. CASE e # d
    BY <1>2, <1>3, <2>1 DEF FrameTypes
  <2>2. CASE e = d
    <3>1. /\ IsSeq(wire'[d]) /\ DOMAIN wire'[d] = 1..(Len(wire[d]) + 1)
          /\ \A i \in 1..Len(wire[d]) : wire'[d][i] = wire[d][i]
          /\ wire'[d][Len(wire[d]) + 1] = SizeOf(msg)
      <4> DEFINE a == Append(wire[d], SizeOf(msg))
      <4>1. wire'[d] = a
        BY <1>1, <1>3
      <4>2. /\ IsSeq(a) /\ Len(a) = Len(wire[d]) + 1 /\ \A i \in 1..Len(wire[d]) : a[i] = wire[d][i]
            /\ a[Len(wire[d]) + 1] = SizeOf(msg)
        BY <1>4, SeqAppend
      <4> HIDE DEF a
      <4>3. DOMAIN a = 1..Len(a)
        BY <4>2, SeqLen
      <4> QED BY <4>1, <4>2, <4>3
    <3>2. IsSeq(sent'[d]) /\ Len(sent'[d]) = Len(sent[d]) + 1
      <4>1. sent'[d] = Append(sent[d], msg)
        BY <1>1, <1>3
      <4>2. IsSeq(Append(sent[d], msg)) /\ Len(Append(sent[d], msg)) = Len(sent[d]) + 1
        BY <1>4, SeqAppend
      <4> QED BY <4>1, <4>2
    <3>3. \A i \in DOMAIN wire'[d] : IsChunk(wire'[d][i])
      <4>1. \A i \in 1..Len(wire[d]) : IsChunk(wire[d][i])
        BY <1>1, <1>4 DEF FrameTypes
      <4>2. IsChunk(SizeOf(msg))
        BY MessageChunks
      <4> DEFINE l == Len(wire[d])
                 w == wire'[d]
      <4>3. l \in Nat /\ DOMAIN w = 1..(l + 1)
        BY <1>4, <3>1
      <4>4. \A i \in 1..l : IsChunk(w[i])
        BY <3>1, <4>1
      <4>5. IsChunk(w[l + 1])
        BY <3>1, <4>2
      <4> HIDE DEF l, w
      <4>6. \A i \in DOMAIN w : IsChunk(w[i])
        <5> SUFFICES ASSUME NEW i \in DOMAIN w PROVE IsChunk(w[i])
          OBVIOUS
        <5>1. i \in 1..l \/ i = l + 1
          BY <4>3
        <5> QED BY <4>4, <4>5, <5>1
      <4> QED BY <4>6 DEF w
    <3>4. Len(sent'[d]) <= MaxSends /\ Len(received'[d]) <= Len(sent'[d])
      <4>1. Len(sent[d]) + 1 <= MaxSends
        <5> DEFINE l == Len(sent[d])
        <5>1. l \in Nat /\ l < MaxSends
          BY <1>2, <1>4
        <5> HIDE DEF l
        <5>2. l + 1 <= MaxSends
          BY <5>1, MaxSendsAssumption
        <5> QED BY <5>2 DEF l
      <4> QED BY <1>2, <1>4, <3>2, <4>1
    <3> QED BY <1>1, <1>2, <2>2, <3>1, <3>2, <3>3, <3>4 DEF FrameTypes
  <2> QED BY <2>1, <2>2
<1>6. \A u \in Threads : sending'[u] # None => sending'[u].kind = "body" /\ IsChunk(sending'[u])
  BY <1>3, MessageChunks DEF FrameTypes
<1>7. /\ wire' = [e \in Directions |-> wire'[e]] /\ sending' = [u \in Threads |-> sending'[u]]
      /\ sent' = [e \in Directions |-> sent'[e]]
  BY <1>2 DEF FrameTypes
<1>8. overlapped' \in BOOLEAN
  BY <1>2
<1>9. FrameTypes'
  BY <1>2, <1>5, <1>6, <1>7, <1>8 DEF FrameTypes
<1> QED BY <1>1, <1>2, <1>9 DEF d
\* The size of a new message: behind everything when nobody is between two sends, and a
\* break when somebody is.
LEMMA SendSizeFrame ==
    ASSUME FrameInv, NEW t \in Threads, NEW msg, SendSize(t, msg)
    PROVE  FrameInv'
<1> DEFINE d == DirOf(t)
<1>1. /\ FrameTypes /\ FrameTypes' /\ d \in Directions /\ sending[t] = None
      /\ sending' = [sending EXCEPT ![t] = BodyOf(msg)]
      /\ wire' = [wire EXCEPT ![d] = Append(wire[d], SizeOf(msg))]
      /\ sent' = [sent EXCEPT ![d] = Append(sent[d], msg)]
      /\ overlapped' = (overlapped \/ \E v \in Threads \ {t} : DirOf(v) = d /\ sending[v] # None)
      /\ UNCHANGED <<expecting, mem, received, garbled, stopped>>
  BY SendSizeTypes DEF FrameInv
<1>2. Frame(d)
  BY <1>1 DEF FrameInv
<1>3. ASSUME NEW e \in Directions, e # d PROVE Frame(e)'
  <2>1. wire'[e] = wire[e] /\ sent'[e] = sent[e] /\ \A v \in Threads : DirOf(v) = e => sending'[v] = sending[v]
    BY <1>1, <1>3 DEF FrameTypes
  <2>2. Frame(e) /\ received'[e] = received[e] /\ expecting'[e] = expecting[e] /\ garbled'[e] = garbled[e]
        /\ stopped'[e] = stopped[e] /\ (overlapped => overlapped')
    BY <1>1 DEF FrameInv
  <2> QED BY <2>1, <2>2, OtherDirection
<1>0. PICK l \in Nat, u \in Nat, r \in Nat, x \in {0, 1} :
        l = Len(wire[d]) /\ u = Unread(d) /\ r = Len(received[d]) /\ x = Expecting(d)
  BY <1>1, FrameNumbers
<1>4. /\ l \in Nat /\ u \in Nat /\ r \in Nat /\ x \in {0, 1} /\ Len(sent[d]) = r + u /\ DOMAIN wire[d] = 1..l
      /\ IsSeq(wire[d]) /\ IsSeq(sent[d])
  BY <1>0, <1>1, FrameNumbers DEF FrameTypes
<1>5. /\ wire'[d] = Append(wire[d], SizeOf(msg)) /\ sent'[d] = Append(sent[d], msg)
      /\ \A v \in Threads : sending'[v] = IF v = t THEN BodyOf(msg) ELSE sending[v]
      /\ received'[d] = received[d] /\ expecting'[d] = expecting[d] /\ garbled'[d] = garbled[d]
      /\ stopped'[d] = stopped[d]
  BY <1>1 DEF FrameTypes
<1>6. /\ Len(wire'[d]) = l + 1 /\ DOMAIN wire'[d] = 1..(l + 1)
      /\ \A i \in 1..l : wire'[d][i] = wire[d][i]
      /\ wire'[d][l + 1] = SizeOf(msg)
  <2>1. /\ IsSeq(wire'[d]) /\ Len(wire'[d]) = l + 1
        /\ \A i \in 1..l : wire'[d][i] = wire[d][i]
        /\ wire'[d][l + 1] = SizeOf(msg)
    BY <1>0, <1>4, <1>5, SeqAppend
  <2>2. DOMAIN wire'[d] = 1..Len(wire'[d])
    BY <2>1, SeqLen
  <2> QED BY <2>1, <2>2
<1>7. /\ Len(sent'[d]) = r + u + 1
      /\ \A i \in 1..(r + u) : sent'[d][i] = sent[d][i]
      /\ sent'[d][r + u + 1] = msg
  BY <1>4, <1>5, SeqAppend
<1>8. Unread(d)' = u + 1 /\ Len(received'[d]) = r /\ Expecting(d)' = x
  <2>1. Len(received'[d]) = r /\ Expecting(d)' = x
    BY <1>0, <1>5 DEF Expecting
  <2>2. Unread(d)' = Len(sent'[d]) - Len(received'[d])
    BY DEF Unread
  <2> QED BY <1>4, <1>7, <2>1, <2>2
<1>9. /\ \A k \in 1..u : UnreadMsg(d, k)' = UnreadMsg(d, k)
      /\ UnreadMsg(d, u + 1)' = msg
  <2>1. \A k : UnreadMsg(d, k)' = sent'[d][r + k] /\ UnreadMsg(d, k) = sent[d][r + k]
    BY <1>0, <1>8 DEF UnreadMsg
  <2>2. \A k \in 1..u : r + k \in 1..(r + u)
    BY <1>4
  <2>3. r + (u + 1) = r + u + 1
    BY <1>4
  <2> QED BY <1>7, <2>1, <2>2, <2>3
<1>10. \A k : /\ SizeAt(d, k)' = 2 * k - 1 - x /\ SizeAt(d, k) = 2 * k - 1 - x
              /\ BodyAt(d, k)' = 2 * k - x /\ BodyAt(d, k) = 2 * k - x
  BY <1>0, <1>8 DEF SizeAt, BodyAt
<1>11. \A k \in 1..u : 2 * k - 1 - x <= l /\ HasSize(d, k) => HasSize(d, k)'
  <2> SUFFICES ASSUME NEW k \in 1..u, 2 * k - 1 - x <= l, HasSize(d, k), SizeAt(d, k)' \in DOMAIN wire'[d]
               PROVE  wire'[d][SizeAt(d, k)'] = SizeOf(UnreadMsg(d, k)')
    BY DEF HasSize
  <2> DEFINE p == 2 * k - 1 - x
  <2>1. p \in 1..(l + 1) /\ p <= l
    BY <1>6, <1>10
  <2> HIDE DEF p
  <2>2. p \in 1..l
    BY <1>4, <2>1
  <2> QED BY <1>4, <1>6, <1>9, <1>10, <2>2 DEF HasSize, p
<1>12. \A k \in 1..u : 2 * k - x <= l /\ HasBody(d, k) => HasBody(d, k)'
  <2> SUFFICES ASSUME NEW k \in 1..u, 2 * k - x <= l, HasBody(d, k), BodyAt(d, k)' \in DOMAIN wire'[d]
               PROVE  wire'[d][BodyAt(d, k)'] = BodyOf(UnreadMsg(d, k)')
    BY DEF HasBody
  <2> DEFINE p == 2 * k - x
  <2>1. p \in 1..(l + 1) /\ p <= l
    BY <1>6, <1>10
  <2> HIDE DEF p
  <2>2. p \in 1..l
    BY <1>4, <2>1
  <2> QED BY <1>4, <1>6, <1>9, <1>10, <2>2 DEF HasBody, p
<1>13. SizeRead(d) => SizeRead(d)'
  <2> SUFFICES ASSUME SizeRead(d), expecting'[d] # NIL
               PROVE  Unread(d)' > 0 /\ expecting'[d] = Encoded(UnreadMsg(d, 1)').size
    BY DEF SizeRead
  <2>1. u > 0 /\ expecting[d] = Encoded(UnreadMsg(d, 1)).size
    BY <1>0, <1>5 DEF SizeRead
  <2>2. 1 \in 1..u /\ u + 1 > 0
    BY <1>4, <2>1
  <2> QED BY <1>5, <1>8, <1>9, <2>1, <2>2
<1>14. ASSUME Framed(d), \A v \in Threads : ~Busy(v, d) PROVE Framed(d)'
  <2>1. /\ l = 2 * u - x
        /\ \A k \in 1..u : HasSize(d, k) /\ HasBody(d, k)
    BY <1>0, <1>10, <1>14 DEF Framed
  <2>2. ASSUME NEW k \in 1..(u + 1) PROVE HasSize(d, k)' /\ HasBody(d, k)'
    <3>1. CASE k \in 1..u
      <4>1. 2 * k - 1 - x <= l /\ 2 * k - x <= l
        BY <2>1, <3>1
      <4> QED BY <1>11, <1>12, <2>1, <3>1, <4>1
    <3>2. CASE k = u + 1
      <4>1. 2 * k - 1 - x = l + 1 /\ 2 * k - x = l + 2
        BY <2>1, <3>2
      <4>2. l + 2 \notin 1..(l + 1) /\ l + 1 \in 1..(l + 1)
        OBVIOUS
      <4>3. UnreadMsg(d, k)' = msg
        BY <1>9, <3>2
      <4>4. SizeAt(d, k)' = l + 1 /\ BodyAt(d, k)' = l + 2
        BY <1>10, <4>1
      <4>5. HasSize(d, k)'
        BY <1>6, <4>3, <4>4 DEF HasSize
      <4>6. HasBody(d, k)'
        BY <1>6, <4>2, <4>4 DEF HasBody
      <4> QED BY <4>5, <4>6
    <3>3. k \in 1..u \/ k = u + 1
      OBVIOUS
    <3> QED BY <3>1, <3>2, <3>3
  <2>3. u + 1 > 0 /\ Len(wire'[d]) = 2 * (u + 1) - 1 - x
    BY <1>6, <2>1
  <2>4. SizeAt(d, Unread(d))' = 2 * (u + 1) - 1 - x
    BY <1>8 DEF SizeAt
  <2>5. Busy(t, d)' /\ sending'[t] = BodyOf(sent'[d][Len(sent'[d])])
    BY <1>5, <1>7, MessageChunks DEF Busy
  <2>6. ASSUME NEW v \in Threads, Busy(v, d)' PROVE v = t
    BY <1>5, <1>14, <2>6 DEF Busy
  <2> QED BY <1>8, <2>2, <2>3, <2>4, <2>5, <2>6 DEF Framed
<1>15. ASSUME NEW k \in 1..u, BodyAt(d, k) <= l + 1, \A i \in 1..k : HasSize(d, i) /\ (i < k => HasBody(d, i))
       PROVE  \A i \in 1..k : HasSize(d, i)' /\ (i < k => HasBody(d, i)')
  <2> SUFFICES ASSUME NEW i \in 1..k PROVE HasSize(d, i)' /\ (i < k => HasBody(d, i)')
    OBVIOUS
  <2>1. i \in 1..u /\ 2 * i - 1 - x <= l /\ (i < k => 2 * i - x <= l)
    BY <1>10, <1>15
  <2> QED BY <1>11, <1>12, <1>15, <2>1
<1>16. ASSUME Framed(d), NEW v \in Threads, Busy(v, d) PROVE Broken(d)'
  <2>1. PICK w \in Threads : /\ u > 0 /\ l = 2 * u - 1 - x
                             /\ Busy(w, d) /\ sending[w] = BodyOf(sent[d][Len(sent[d])])
    BY <1>0, <1>10, <1>16 DEF Framed
  <2>2. w # t /\ DirOf(w) = d /\ sending[w] # None
    BY <1>1, <2>1 DEF Busy
  <2>3. overlapped'
    BY <1>1, <2>2
  <2>4. d = "up"
    BY <2>2 DEF DirOf, Threads
  <2>5. u \in 1..u /\ BodyAt(d, u) = l + 1 /\ BodyAt(d, u)' = l + 1
    BY <1>10, <2>1
  <2>6. \A i \in 1..u : HasSize(d, i)' /\ (i < u => HasBody(d, i)')
    <3>1. \A i \in 1..u : HasSize(d, i) /\ (i < u => HasBody(d, i))
      BY <1>0, <1>16 DEF Framed
    <3> QED BY <1>15, <2>5, <3>1
  <2>7. wire'[d][l + 1].kind = "size" /\ l + 1 \in DOMAIN wire'[d]
    BY <1>6, MessageChunks
  <2>8. Busy(w, d)' /\ sending'[w] = BodyOf(UnreadMsg(d, u)')
    <3>1. sending'[w] = sending[w]
      BY <1>5, <2>2
    <3>2. sent[d][Len(sent[d])] = UnreadMsg(d, u)
      BY <1>0, <1>4 DEF UnreadMsg
    <3>3. UnreadMsg(d, u)' = UnreadMsg(d, u)
      BY <1>9, <2>5
    <3> QED BY <2>1, <2>2, <3>1, <3>2, <3>3 DEF Busy
  <2>9. BrokenAt(d, u)'
    BY <2>5, <2>6, <2>7, <2>8 DEF BrokenAt
  <2>10. u \in 1..Unread(d)'
    BY <1>8, <2>1
  <2> QED BY <2>3, <2>4, <2>9, <2>10 DEF Broken
<1>17. ASSUME Broken(d) PROVE Broken(d)'
  <2>1. PICK k \in 1..u : BrokenAt(d, k)
    BY <1>0, <1>17 DEF Broken
  <2>2. BodyAt(d, k) \in 1..l /\ BodyAt(d, k)' = BodyAt(d, k) /\ wire[d][BodyAt(d, k)].kind = "size"
    BY <1>4, <1>10, <2>1 DEF BrokenAt
  <2>3. \A i \in 1..k : HasSize(d, i)' /\ (i < k => HasBody(d, i)')
    <3>1. BodyAt(d, k) <= l + 1
      BY <2>2
    <3>2. \A i \in 1..k : HasSize(d, i) /\ (i < k => HasBody(d, i))
      BY <2>1 DEF BrokenAt
    <3> QED BY <1>15, <3>1, <3>2
  <2>4. BodyAt(d, k)' \in DOMAIN wire'[d] /\ wire'[d][BodyAt(d, k)'].kind = "size"
    BY <1>6, <2>2
  <2>5. UnreadMsg(d, k)' = UnreadMsg(d, k)
    BY <1>9
  <2>8. k \in 1..Unread(d)'
    BY <1>8
  <2>9. d = "up" /\ overlapped'
    BY <1>1, <1>17 DEF Broken
  <2>6. CASE \E w \in Threads : Busy(w, d) /\ sending[w] = BodyOf(UnreadMsg(d, k))
    <3>1. PICK w \in Threads : Busy(w, d) /\ sending[w] = BodyOf(UnreadMsg(d, k))
      BY <2>6
    <3>2. w # t
      BY <1>1, <3>1 DEF Busy
    <3>3. Busy(w, d)' /\ sending'[w] = BodyOf(UnreadMsg(d, k)')
      BY <1>5, <2>5, <3>1, <3>2 DEF Busy
    <3>4. BrokenAt(d, k)'
      BY <2>3, <2>4, <3>3 DEF BrokenAt
    <3> QED BY <2>8, <2>9, <3>4, Zenon DEF Broken
  <2>7. CASE \E i \in DOMAIN wire[d] : i > BodyAt(d, k) /\ wire[d][i] = BodyOf(UnreadMsg(d, k))
    <3>1. PICK i \in 1..l : i > BodyAt(d, k) /\ wire[d][i] = BodyOf(UnreadMsg(d, k))
      BY <1>4, <2>7
    <3>2. i \in DOMAIN wire'[d] /\ i > BodyAt(d, k)' /\ wire'[d][i] = BodyOf(UnreadMsg(d, k)')
      BY <1>6, <2>2, <2>5, <3>1
    <3>3. BrokenAt(d, k)'
      BY <2>3, <2>4, <3>2 DEF BrokenAt
    <3> QED BY <2>8, <2>9, <3>3, Zenon DEF Broken
  <2> QED BY <2>1, <2>6, <2>7 DEF BrokenAt
<1>18. ASSUME ~garbled[d], ~stopped[d] PROVE SizeRead(d)' /\ (Framed(d)' \/ Broken(d)')
  BY <1>2, <1>13, <1>14, <1>16, <1>17, <1>18 DEF Frame
<1>19. Frame(d)'
  BY <1>1, <1>2, <1>5, <1>18 DEF Frame
<1> QED BY <1>1, <1>3, <1>19 DEF FrameInv
\* The bytes of a message close its frame, or are the ones behind the break.
LEMMA SendBodyFrame ==
    ASSUME FrameInv, NEW t \in Threads, SendBody(t)
    PROVE  FrameInv'
<1> DEFINE d == DirOf(t)
<1>1. /\ FrameTypes /\ d \in Directions /\ sending[t] # None
      /\ sending' = [sending EXCEPT ![t] = None]
      /\ wire' = [wire EXCEPT ![d] = Append(wire[d], sending[t])]
      /\ UNCHANGED <<expecting, mem, sent, received, overlapped, garbled, stopped>>
  BY DEF FrameInv, SendBody, DirOf, Directions
<1>2. Frame(d)
  BY <1>1 DEF FrameInv
<1>3. PICK l \in Nat, u \in Nat, r \in Nat, x \in {0, 1} :
        l = Len(wire[d]) /\ u = Unread(d) /\ r = Len(received[d]) /\ x = Expecting(d)
  BY <1>1, FrameNumbers
<1>4. /\ Len(sent[d]) = r + u /\ DOMAIN wire[d] = 1..l /\ IsSeq(wire[d])
      /\ \A i \in 1..l : IsChunk(wire[d][i])
      /\ IsChunk(sending[t])
  BY <1>1, <1>3, FrameNumbers DEF FrameTypes
<1>5. /\ wire'[d] = Append(wire[d], sending[t])
      /\ \A e \in Directions : e # d => wire'[e] = wire[e]
      /\ \A v \in Threads : sending'[v] = IF v = t THEN None ELSE sending[v]
      /\ sent' = sent /\ received' = received /\ expecting' = expecting /\ garbled' = garbled
      /\ stopped' = stopped /\ overlapped' = overlapped /\ mem' = mem
  BY <1>1 DEF FrameTypes
<1>6. /\ IsSeq(wire'[d]) /\ Len(wire'[d]) = l + 1 /\ DOMAIN wire'[d] = 1..(l + 1)
      /\ \A i \in 1..l : wire'[d][i] = wire[d][i]
      /\ wire'[d][l + 1] = sending[t]
  <2>1. /\ IsSeq(wire'[d]) /\ Len(wire'[d]) = l + 1
        /\ \A i \in 1..l : wire'[d][i] = wire[d][i]
        /\ wire'[d][l + 1] = sending[t]
    BY <1>3, <1>4, <1>5, SeqAppend
  <2>2. DOMAIN wire'[d] = 1..Len(wire'[d])
    BY <2>1, SeqLen
  <2> QED BY <2>1, <2>2
<1>7. FrameTypes'
  <2>1. \A e \in Directions : IsSeq(wire'[e]) /\ \A i \in DOMAIN wire'[e] : IsChunk(wire'[e][i])
    <3> SUFFICES ASSUME NEW e \in Directions
                 PROVE  IsSeq(wire'[e]) /\ \A i \in DOMAIN wire'[e] : IsChunk(wire'[e][i])
      OBVIOUS
    <3>1. CASE e # d
      BY <1>5, <3>1, <1>1 DEF FrameTypes
    <3>2. CASE e = d
      <4>1. \A i \in 1..l : IsChunk(wire'[d][i])
        BY <1>4, <1>6
      <4>2. IsChunk(wire'[d][l + 1])
        BY <1>4, <1>6
      <4>3. \A i \in 1..(l + 1) : i \in 1..l \/ i = l + 1
        OBVIOUS
      <4> QED BY <1>6, <3>2, <4>1, <4>2, <4>3
    <3> QED BY <3>1, <3>2
  <2>2. \A v \in Threads : sending'[v] # None => sending'[v].kind = "body" /\ IsChunk(sending'[v])
    BY <1>1, <1>5 DEF FrameTypes
  <2>3. wire' = [e \in Directions |-> wire'[e]] /\ sending' = [v \in Threads |-> sending'[v]]
    BY <1>1 DEF FrameTypes
  <2> QED BY <1>1, <1>5, <2>1, <2>2, <2>3 DEF FrameTypes
<1>8. ASSUME NEW e \in Directions, e # d PROVE Frame(e)'
  <2>1. wire'[e] = wire[e] /\ sent'[e] = sent[e] /\ \A v \in Threads : DirOf(v) = e => sending'[v] = sending[v]
    BY <1>5, <1>8
  <2>2. Frame(e) /\ received'[e] = received[e] /\ expecting'[e] = expecting[e] /\ garbled'[e] = garbled[e]
        /\ stopped'[e] = stopped[e] /\ (overlapped => overlapped')
    BY <1>5 DEF FrameInv
  <2> QED BY <2>1, <2>2, OtherDirection
<1>9. Unread(d)' = u /\ \A k : UnreadMsg(d, k)' = UnreadMsg(d, k)
  BY <1>3, <1>5 DEF Unread, UnreadMsg
<1>10. \A k : /\ SizeAt(d, k)' = 2 * k - 1 - x /\ SizeAt(d, k) = 2 * k - 1 - x
              /\ BodyAt(d, k)' = 2 * k - x /\ BodyAt(d, k) = 2 * k - x
  BY <1>3, <1>5 DEF SizeAt, BodyAt, Expecting
<1>11. ASSUME NEW k \in 1..u, 2 * k - 1 - x <= l, HasSize(d, k) PROVE HasSize(d, k)'
  <2> SUFFICES ASSUME SizeAt(d, k)' \in DOMAIN wire'[d]
               PROVE  wire'[d][SizeAt(d, k)'] = SizeOf(UnreadMsg(d, k)')
    BY DEF HasSize
  <2>1. 2 * k - 1 - x \in 1..l
    BY <1>6, <1>10, <1>11
  <2> QED BY <1>4, <1>6, <1>9, <1>10, <1>11, <2>1 DEF HasSize
<1>12. ASSUME NEW k \in 1..u, 2 * k - x <= l, HasBody(d, k) PROVE HasBody(d, k)'
  <2> SUFFICES ASSUME BodyAt(d, k)' \in DOMAIN wire'[d]
               PROVE  wire'[d][BodyAt(d, k)'] = BodyOf(UnreadMsg(d, k)')
    BY DEF HasBody
  <2>1. 2 * k - x \in 1..l
    BY <1>6, <1>10, <1>12
  <2> QED BY <1>4, <1>6, <1>9, <1>10, <1>12, <2>1 DEF HasBody
<1>13. SizeRead(d) => SizeRead(d)'
  BY <1>3, <1>5, <1>9 DEF SizeRead
<1>14. ASSUME Framed(d) PROVE Framed(d)'
  <2>1. Busy(t, d)
    BY <1>1 DEF Busy
  <2>2. /\ u > 0 /\ l = 2 * u - 1 - x /\ sending[t] = BodyOf(sent[d][Len(sent[d])])
        /\ \A v \in Threads : Busy(v, d) => v = t
        /\ \A k \in 1..u : HasSize(d, k) /\ HasBody(d, k)
    BY <1>3, <1>10, <1>14, <2>1 DEF Framed
  <2>3. \A v \in Threads : ~Busy(v, d)'
    BY <1>5, <2>2 DEF Busy
  <2>4. ASSUME NEW k \in 1..u PROVE HasSize(d, k)' /\ HasBody(d, k)'
    <3>1. HasSize(d, k)'
      <4>1. 2 * k - 1 - x <= l
        BY <2>2
      <4> QED BY <1>11, <2>2, <4>1
    <3>2. CASE k < u
      <4>1. 2 * k - x <= l
        BY <2>2, <3>2
      <4> QED BY <1>12, <2>2, <3>1, <4>1
    <3>3. CASE k = u
      <4>1. BodyAt(d, k)' = l + 1
        BY <1>10, <2>2, <3>3
      <4>2. UnreadMsg(d, k) = sent[d][Len(sent[d])]
        BY <1>3, <1>4, <3>3 DEF UnreadMsg
      <4>3. HasBody(d, k)'
        BY <1>6, <1>9, <2>2, <4>1, <4>2 DEF HasBody
      <4> QED BY <3>1, <4>3
    <3> QED BY <3>2, <3>3
  <2>5. Len(wire'[d]) = BodyAt(d, Unread(d))'
    <3>1. BodyAt(d, Unread(d))' = 2 * u - x
      BY <1>3, <1>5, <1>9 DEF BodyAt, Expecting
    <3> QED BY <1>6, <2>2, <3>1
  <2> QED BY <1>9, <2>3, <2>4, <2>5 DEF Framed
<1>15. ASSUME Broken(d) PROVE Broken(d)'
  <2>1. PICK k \in 1..u : BrokenAt(d, k)
    BY <1>3, <1>15 DEF Broken
  <2>2. /\ 2 * k - x \in 1..l /\ BodyAt(d, k)' = 2 * k - x /\ BodyAt(d, k) = 2 * k - x
        /\ wire[d][2 * k - x].kind = "size"
    BY <1>4, <1>10, <2>1 DEF BrokenAt
  <2>3. \A i \in 1..k : HasSize(d, i)' /\ (i < k => HasBody(d, i)')
    <3> SUFFICES ASSUME NEW i \in 1..k PROVE HasSize(d, i)' /\ (i < k => HasBody(d, i)')
      OBVIOUS
    <3>1. i \in 1..u /\ 2 * i - 1 - x <= l /\ (i < k => 2 * i - x <= l)
      BY <2>2
    <3>2. HasSize(d, i) /\ (i < k => HasBody(d, i))
      BY <2>1 DEF BrokenAt
    <3> QED BY <1>11, <1>12, <3>1, <3>2
  <2>4. BodyAt(d, k)' \in DOMAIN wire'[d] /\ wire'[d][BodyAt(d, k)'].kind = "size"
    BY <1>6, <2>2
  <2>5. k \in 1..Unread(d)' /\ d = "up" /\ overlapped'
    BY <1>5, <1>9, <1>15 DEF Broken
  <2>6. CASE \E w \in Threads : Busy(w, d) /\ sending[w] = BodyOf(UnreadMsg(d, k))
    <3>1. PICK w \in Threads : Busy(w, d) /\ sending[w] = BodyOf(UnreadMsg(d, k))
      BY <2>6
    <3>2. CASE w # t
      <4>1. Busy(w, d)' /\ sending'[w] = BodyOf(UnreadMsg(d, k)')
        BY <1>5, <1>9, <3>1, <3>2 DEF Busy
      <4>2. BrokenAt(d, k)'
        BY <2>3, <2>4, <4>1 DEF BrokenAt
      <4> QED BY <2>5, <4>2, Zenon DEF Broken
    <3>3. CASE w = t
      <4>1. l + 1 \in DOMAIN wire'[d] /\ l + 1 > BodyAt(d, k)' /\ wire'[d][l + 1] = BodyOf(UnreadMsg(d, k)')
        BY <1>6, <1>9, <2>2, <3>1, <3>3
      <4>2. BrokenAt(d, k)'
        BY <2>3, <2>4, <4>1 DEF BrokenAt
      <4> QED BY <2>5, <4>2, Zenon DEF Broken
    <3> QED BY <3>2, <3>3
  <2>7. CASE \E i \in DOMAIN wire[d] : i > BodyAt(d, k) /\ wire[d][i] = BodyOf(UnreadMsg(d, k))
    <3>1. PICK i \in 1..l : i > 2 * k - x /\ wire[d][i] = BodyOf(UnreadMsg(d, k))
      BY <1>4, <2>2, <2>7
    <3>2. i \in DOMAIN wire'[d] /\ i > BodyAt(d, k)' /\ wire'[d][i] = BodyOf(UnreadMsg(d, k)')
      BY <1>6, <1>9, <2>2, <3>1
    <3>3. BrokenAt(d, k)'
      BY <2>3, <2>4, <3>2 DEF BrokenAt
    <3> QED BY <2>5, <3>3, Zenon DEF Broken
  <2> QED BY <2>1, <2>6, <2>7 DEF BrokenAt
<1>16. Frame(d)'
  BY <1>2, <1>5, <1>13, <1>14, <1>15 DEF Frame
<1> QED BY <1>7, <1>8, <1>16 DEF FrameInv
\* When a chunk is taken from the front, the others move up by one place.
LEMMA TakeChunk ==
    ASSUME FrameTypes, NEW d \in Directions, wire[d] # <<>>, wire' = [wire EXCEPT ![d] = Tail(wire[d])]
    PROVE  /\ \A e \in Directions : IsSeq(wire'[e]) /\ \A i \in DOMAIN wire'[e] : IsChunk(wire'[e][i])
           /\ wire' = [e \in Directions |-> wire'[e]]
           /\ \A e \in Directions : e # d => wire'[e] = wire[e]
           /\ Len(wire'[d]) = Len(wire[d]) - 1 /\ DOMAIN wire'[d] = 1..(Len(wire[d]) - 1)
           /\ \A i \in 1..(Len(wire[d]) - 1) : wire'[d][i] = wire[d][i + 1]
           /\ Len(wire[d]) > 0 /\ Head(wire[d]) = wire[d][1] /\ IsChunk(Head(wire[d]))
<1>1. /\ IsSeq(wire[d]) /\ Len(wire[d]) \in Nat /\ DOMAIN wire[d] = 1..Len(wire[d])
      /\ \A i \in 1..Len(wire[d]) : IsChunk(wire[d][i])
  BY FrameNumbers DEF FrameTypes
<1>2. wire'[d] = Tail(wire[d]) /\ \A e \in Directions : e # d => wire'[e] = wire[e]
  BY DEF FrameTypes
<1>3. wire' = [e \in Directions |-> wire'[e]]
  BY DEF FrameTypes
<1>4. /\ IsSeq(wire'[d]) /\ Len(wire'[d]) = Len(wire[d]) - 1 /\ Head(wire[d]) = wire[d][1]
      /\ 1 \in DOMAIN wire[d] /\ \A i \in 1..(Len(wire[d]) - 1) : wire'[d][i] = wire[d][i + 1]
  <2> DEFINE s == Tail(wire[d])
  <2>1. /\ IsSeq(s) /\ Len(s) = Len(wire[d]) - 1 /\ Head(wire[d]) = wire[d][1] /\ 1 \in DOMAIN wire[d]
        /\ \A i \in 1..Len(s) : s[i] = wire[d][i + 1]
    BY <1>1, SeqTail
  <2>2. wire'[d] = s
    BY <1>2
  <2> HIDE DEF s
  <2> QED BY <2>1, <2>2
<1>5. DOMAIN wire'[d] = 1..(Len(wire[d]) - 1)
  BY <1>4, SeqLen
<1>6. Len(wire[d]) > 0 /\ IsChunk(Head(wire[d]))
  BY <1>1, <1>4
<1>7. \A i \in DOMAIN wire'[d] : IsChunk(wire'[d][i])
  <2> SUFFICES ASSUME NEW i \in 1..(Len(wire[d]) - 1) PROVE IsChunk(wire'[d][i])
    BY <1>5
  <2>1. i + 1 \in 1..Len(wire[d])
    BY <1>1
  <2> QED BY <1>1, <1>4, <2>1
<1>8. \A e \in Directions : IsSeq(wire'[e]) /\ \A i \in DOMAIN wire'[e] : IsChunk(wire'[e][i])
  <2> SUFFICES ASSUME NEW e \in Directions
               PROVE  IsSeq(wire'[e]) /\ \A i \in DOMAIN wire'[e] : IsChunk(wire'[e][i])
    OBVIOUS
  <2>1. CASE e = d
    BY <1>4, <1>7, <2>1
  <2>2. CASE e # d
    BY <1>2, <2>2 DEF FrameTypes
  <2> QED BY <2>1, <2>2
<1> QED BY <1>2, <1>3, <1>4, <1>5, <1>6, <1>8

\* The size that dsm_receive reads is that of the next message.
LEMMA ReceiveSizeFrame ==
    ASSUME FrameInv, NEW d \in Directions, ReceiveSize(d)
    PROVE  FrameInv'
<1> DEFINE n == Head(wire[d]).n
<1>1. /\ FrameTypes /\ wire[d] # <<>> /\ expecting[d] = NIL /\ ~garbled[d] /\ ~stopped[d]
      /\ wire' = [wire EXCEPT ![d] = Tail(wire[d])]
      /\ \/ stopped' = [stopped EXCEPT ![d] = TRUE] /\ expecting' = expecting
         \/ expecting' = [expecting EXCEPT ![d] = n] /\ stopped' = stopped
      /\ UNCHANGED <<sending, mem, sent, received, overlapped, garbled>>
  BY DEF FrameInv, ReceiveSize
<1>2. Frame(d)
  BY DEF FrameInv
<1>3. PICK l \in Nat, u \in Nat, r \in Nat :
        l = Len(wire[d]) /\ u = Unread(d) /\ r = Len(received[d])
  BY <1>1, FrameNumbers
<1>4. Len(sent[d]) = r + u /\ DOMAIN wire[d] = 1..l /\ Expecting(d) = 0
  BY <1>1, <1>3, FrameNumbers DEF Expecting
<1>5. /\ \A e \in Directions : IsSeq(wire'[e]) /\ \A i \in DOMAIN wire'[e] : IsChunk(wire'[e][i])
      /\ wire' = [e \in Directions |-> wire'[e]]
      /\ \A e \in Directions : e # d => wire'[e] = wire[e]
      /\ Len(wire'[d]) = l - 1 /\ DOMAIN wire'[d] = 1..(l - 1)
      /\ \A i \in 1..(l - 1) : wire'[d][i] = wire[d][i + 1]
      /\ l > 0 /\ Head(wire[d]) = wire[d][1] /\ IsChunk(Head(wire[d]))
  BY <1>1, <1>3, TakeChunk
<1>6. n \in Nat \ {0} /\ n # NIL
  BY <1>5 DEF IsChunk, NIL
<1> HIDE DEF n
<1>7. FrameTypes'
  <2>1. /\ \A e \in Directions : expecting'[e] \in Nat \cup {NIL}
        /\ expecting' = [e \in Directions |-> expecting'[e]]
        /\ stopped' \in [Directions -> BOOLEAN]
    BY <1>1, <1>6 DEF FrameTypes
  <2> QED BY <1>1, <1>5, <2>1 DEF FrameTypes
<1>8. ASSUME NEW e \in Directions, e # d PROVE Frame(e)'
  <2>1. wire'[e] = wire[e] /\ expecting'[e] = expecting[e] /\ stopped'[e] = stopped[e]
    BY <1>1, <1>5, <1>8 DEF FrameTypes
  <2>2. Frame(e) /\ received'[e] = received[e] /\ sent'[e] = sent[e] /\ garbled'[e] = garbled[e]
        /\ (overlapped => overlapped') /\ \A v \in Threads : DirOf(v) = e => sending'[v] = sending[v]
    BY <1>1 DEF FrameInv
  <2> QED BY <2>1, <2>2, OtherDirection
<1>9. CASE stopped' = [stopped EXCEPT ![d] = TRUE] /\ expecting' = expecting
  <2>1. stopped'[d] = TRUE /\ expecting'[d] = NIL /\ garbled'[d] = garbled[d]
    BY <1>1, <1>9 DEF FrameTypes
  <2>2. Frame(d)'
    BY <1>1, <2>1 DEF Frame
  <2> QED BY <1>7, <1>8, <2>2 DEF FrameInv
<1>10. CASE expecting' = [expecting EXCEPT ![d] = n] /\ stopped' = stopped
  <2>1. expecting'[d] = n /\ Expecting(d)' = 1
    BY <1>1, <1>6, <1>10 DEF FrameTypes, Expecting
  <2>2. Unread(d)' = u /\ \A k : UnreadMsg(d, k)' = UnreadMsg(d, k)
    BY <1>1, <1>3 DEF Unread, UnreadMsg
  <2>3. /\ \A k \in Int : /\ SizeAt(d, k)' = 2 * k - 2 /\ SizeAt(d, k) = 2 * k - 1 - 0
                          /\ BodyAt(d, k)' = 2 * k - 1 /\ BodyAt(d, k) = 2 * k - 0
        /\ SizeAt(d, 1) = 1 /\ SizeAt(d, u) = 2 * u - 1 - 0 /\ BodyAt(d, u) = 2 * u - 0
    <3>1. \A k : /\ SizeAt(d, k)' = 2 * k - 1 - 1 /\ SizeAt(d, k) = 2 * k - 1 - 0
                 /\ BodyAt(d, k)' = 2 * k - 1 /\ BodyAt(d, k) = 2 * k - 0
      BY <1>4, <2>1 DEF SizeAt, BodyAt
    <3> QED BY <3>1
  <2>4. ASSUME NEW k \in 1..u, HasSize(d, k) PROVE HasSize(d, k)'
    <3> SUFFICES ASSUME SizeAt(d, k)' \in DOMAIN wire'[d]
                 PROVE  wire'[d][SizeAt(d, k)'] = SizeOf(UnreadMsg(d, k)')
      BY DEF HasSize
    <3>1. k \in Int /\ SizeAt(d, k)' = 2 * k - 2 /\ SizeAt(d, k) = 2 * k - 1 - 0
      BY <2>3
    <3>2. 2 * k - 2 \in 1..(l - 1)
      BY <1>5, <3>1
    <3>3. 2 * k - 1 - 0 = (2 * k - 2) + 1 /\ 2 * k - 1 - 0 \in 1..l
      BY <3>2
    <3>4. wire'[d][2 * k - 2] = wire[d][2 * k - 1 - 0]
      BY <1>5, <3>2, <3>3
    <3>5. wire[d][2 * k - 1 - 0] = SizeOf(UnreadMsg(d, k))
      BY <1>4, <2>4, <3>1, <3>3 DEF HasSize
    <3> QED BY <2>2, <3>1, <3>4, <3>5
  <2>5. ASSUME NEW k \in 1..u, HasBody(d, k) PROVE HasBody(d, k)'
    <3> SUFFICES ASSUME BodyAt(d, k)' \in DOMAIN wire'[d]
                 PROVE  wire'[d][BodyAt(d, k)'] = BodyOf(UnreadMsg(d, k)')
      BY DEF HasBody
    <3>1. k \in Int /\ BodyAt(d, k)' = 2 * k - 1 /\ BodyAt(d, k) = 2 * k - 0
      BY <2>3
    <3>2. 2 * k - 1 \in 1..(l - 1)
      BY <1>5, <3>1
    <3>3. 2 * k - 0 = (2 * k - 1) + 1 /\ 2 * k - 0 \in 1..l
      BY <3>2
    <3>4. wire'[d][2 * k - 1] = wire[d][2 * k - 0]
      BY <1>5, <3>2, <3>3
    <3>5. wire[d][2 * k - 0] = BodyOf(UnreadMsg(d, k))
      BY <1>4, <2>5, <3>1, <3>3 DEF HasBody
    <3> QED BY <2>2, <3>1, <3>4, <3>5
  <2>6. ASSUME u > 0, HasSize(d, 1) PROVE SizeRead(d)'
    <3>1. 1 \in DOMAIN wire[d] /\ SizeAt(d, 1) = 1
      BY <1>4, <1>5, <2>3
    <3>2. wire[d][1] = SizeOf(UnreadMsg(d, 1))
      BY <2>6, <3>1 DEF HasSize
    <3>3. n = Encoded(UnreadMsg(d, 1)).size
      BY <1>5, <3>2, MessageChunks DEF n
    <3> QED BY <2>1, <2>2, <2>6, <3>3 DEF SizeRead
  <2>7. ASSUME Framed(d) PROVE SizeRead(d)' /\ Framed(d)'
    <3>1. /\ \A k \in 1..u : HasSize(d, k) /\ HasBody(d, k)
          /\ \/ (\A v \in Threads : ~Busy(v, d)) /\ l = 2 * u - 0
             \/ /\ u > 0 /\ l = 2 * u - 1 - 0
                /\ \E v \in Threads : /\ Busy(v, d) /\ sending[v] = BodyOf(sent[d][Len(sent[d])])
                                      /\ \A w \in Threads : Busy(w, d) => w = v
      BY <1>3, <2>3, <2>7 DEF Framed
    <3>2. u > 0 /\ 1 \in 1..u
      BY <1>5, <3>1
    <3>3. SizeRead(d)'
      BY <2>6, <3>1, <3>2
    <3>4. \A k \in 1..u : HasSize(d, k)' /\ HasBody(d, k)'
      BY <2>4, <2>5, <3>1
    <3>5. \A v \in Threads : Busy(v, d)' <=> Busy(v, d)
      BY <1>1 DEF Busy
    <3>6. SizeAt(d, Unread(d))' = 2 * u - 2 /\ BodyAt(d, Unread(d))' = 2 * u - 1
      <4>1. SizeAt(d, Unread(d))' = 2 * u - 1 - 1 /\ BodyAt(d, Unread(d))' = 2 * u - 1
        BY <2>1, <2>2 DEF SizeAt, BodyAt
      <4> QED BY <4>1
    <3>7. l = 2 * u - 0 => Len(wire'[d]) = 2 * u - 1
      BY <1>5
    <3>8. l = 2 * u - 1 - 0 => Len(wire'[d]) = 2 * u - 2
      BY <1>5
    <3>9. Framed(d)'
      <4>1. CASE (\A v \in Threads : ~Busy(v, d)) /\ l = 2 * u - 0
        BY <2>2, <3>4, <3>5, <3>6, <3>7, <4>1 DEF Framed
      <4>2. CASE /\ u > 0 /\ l = 2 * u - 1 - 0
                 /\ \E v \in Threads : /\ Busy(v, d) /\ sending[v] = BodyOf(sent[d][Len(sent[d])])
                                       /\ \A w \in Threads : Busy(w, d) => w = v
        BY <1>1, <2>2, <3>4, <3>5, <3>6, <3>8, <4>2 DEF Framed
      <4> QED BY <3>1, <4>1, <4>2
    <3> QED BY <3>3, <3>9
  <2>8. ASSUME Broken(d) PROVE SizeRead(d)' /\ Broken(d)'
    <3>1. PICK k \in 1..u : BrokenAt(d, k)
      BY <1>3, <2>8 DEF Broken
    <3>2. \A i \in 1..k : i \in 1..u /\ HasSize(d, i) /\ (i < k => HasBody(d, i))
      BY <3>1 DEF BrokenAt
    <3>3. SizeRead(d)'
      <4>1. u > 0 /\ 1 \in 1..k
        OBVIOUS
      <4> QED BY <2>6, <3>2, <4>1
    <3>4. \A i \in 1..k : HasSize(d, i)' /\ (i < k => HasBody(d, i)')
      BY <2>4, <2>5, <3>2
    <3>11. k \in Int /\ BodyAt(d, k)' = 2 * k - 1 /\ BodyAt(d, k) = 2 * k - 0
      BY <2>3
    <3>5. 2 * k - 0 \in 1..l /\ wire[d][2 * k - 0].kind = "size"
      BY <1>4, <3>1, <3>11 DEF BrokenAt
    <3>6. /\ BodyAt(d, k)' = 2 * k - 1 /\ 2 * k - 1 \in 1..(l - 1)
          /\ wire'[d][2 * k - 1] = wire[d][2 * k - 0]
      <4>1. 2 * k - 1 \in 1..(l - 1) /\ (2 * k - 1) + 1 = 2 * k - 0
        BY <3>5
      <4> QED BY <1>5, <3>11, <4>1
    <3>7. BodyAt(d, k)' \in DOMAIN wire'[d] /\ wire'[d][BodyAt(d, k)'].kind = "size"
      BY <1>5, <3>5, <3>6
    <3>8. BrokenAt(d, k)'
      <4>1. CASE \E w \in Threads : Busy(w, d) /\ sending[w] = BodyOf(UnreadMsg(d, k))
        <5>1. PICK w \in Threads : Busy(w, d) /\ sending[w] = BodyOf(UnreadMsg(d, k))
          BY <4>1
        <5>2. Busy(w, d)' /\ sending'[w] = BodyOf(UnreadMsg(d, k)')
          BY <1>1, <2>2, <5>1 DEF Busy
        <5> QED BY <3>4, <3>7, <5>2 DEF BrokenAt
      <4>2. CASE \E i \in DOMAIN wire[d] : i > BodyAt(d, k) /\ wire[d][i] = BodyOf(UnreadMsg(d, k))
        <5>1. PICK i \in 1..l : i > 2 * k - 0 /\ wire[d][i] = BodyOf(UnreadMsg(d, k))
          BY <1>4, <3>11, <4>2
        <5>2. i - 1 \in 1..(l - 1) /\ (i - 1) + 1 = i /\ i - 1 > 2 * k - 1
          BY <3>5, <5>1
        <5>3. i - 1 \in DOMAIN wire'[d] /\ i - 1 > BodyAt(d, k)' /\ wire'[d][i - 1] = BodyOf(UnreadMsg(d, k)')
          BY <1>5, <2>2, <3>6, <5>1, <5>2
        <5> QED BY <3>4, <3>7, <5>3 DEF BrokenAt
      <4> QED BY <3>1, <4>1, <4>2 DEF BrokenAt
    <3>9. k \in 1..Unread(d)' /\ d = "up" /\ overlapped'
      BY <1>1, <2>2, <2>8 DEF Broken
    <3>10. Broken(d)'
      BY <3>8, <3>9, Zenon DEF Broken
    <3> QED BY <3>3, <3>10
  <2>9. Framed(d) \/ Broken(d)
    BY <1>1, <1>2 DEF Frame
  <2>10. SizeRead(d)' /\ (Framed(d)' \/ Broken(d)') /\ ~garbled'[d] /\ ~stopped'[d]
    BY <1>1, <1>10, <2>7, <2>8, <2>9
  <2>11. Frame(d)'
    BY <2>10 DEF Frame
  <2> QED BY <1>7, <1>8, <2>11 DEF FrameInv
<1> QED BY <1>1, <1>9, <1>10
\* dsm_receive asks for at least one byte, so something is in flight when it gets them;
\* and the bytes are those of the next message, unless two sends overlapped.
LEMMA BodyToReceive ==
    ASSUME FrameInv, NEW d \in Directions, expecting[d] # NIL, ~garbled[d], Available(d) >= expecting[d]
    PROVE  /\ wire[d] # <<>> /\ ~stopped[d] /\ Unread(d) > 0
           /\ \/ Framed(d) /\ Head(wire[d]) = BodyOf(UnreadMsg(d, 1))
                 /\ Head(wire[d]).kind = "body" /\ Head(wire[d]).n = expecting[d]
              \/ Broken(d)
<1>1. FrameTypes /\ Frame(d)
  BY DEF FrameInv
<1>2. ~stopped[d] /\ SizeRead(d) /\ (Framed(d) \/ Broken(d))
  BY <1>1 DEF Frame
<1>3. Unread(d) > 0 /\ expecting[d] = Encoded(UnreadMsg(d, 1)).size
  BY <1>2 DEF SizeRead
<1>4. expecting[d] \in Nat \ {0}
  BY <1>3, EncodedSize
<1>5. /\ Available(d) \in Nat
      /\ wire[d] = <<>> => Available(d) = 0
  BY <1>1, AvailableBytes DEF FrameTypes
<1>6. wire[d] # <<>>
  BY <1>4, <1>5
<1>7. /\ Len(wire[d]) > 0 /\ Unread(d) \in Nat /\ DOMAIN wire[d] = 1..Len(wire[d])
      /\ Len(wire[d]) \in Nat /\ IsSeq(wire[d])
  BY <1>1, <1>6, FrameNumbers DEF FrameTypes
<1>8. ASSUME Framed(d)
      PROVE  /\ Head(wire[d]) = BodyOf(UnreadMsg(d, 1)) /\ Head(wire[d]).kind = "body"
             /\ Head(wire[d]).n = expecting[d]
  <2>1. 1 \in 1..Unread(d) /\ 1 \in DOMAIN wire[d]
    BY <1>3, <1>7
  <2>2. BodyAt(d, 1) = 1
    BY DEF BodyAt, Expecting
  <2>3. wire[d][1] = BodyOf(UnreadMsg(d, 1))
    BY <1>8, <2>1, <2>2 DEF Framed, HasBody
  <2>4. Head(wire[d]) = wire[d][1]
    BY <1>6, <1>7, SeqTail
  <2> QED BY <1>3, <2>3, <2>4, MessageChunks
<1> QED BY <1>2, <1>3, <1>6, <1>8

\* The body of the next message ends its frame; a body that is not there garbles the
\* connection, which takes two sends at once.
LEMMA ReceiveBodyFrame ==
    ASSUME FrameInv, NEW d \in Directions, ReceiveBody(d)
    PROVE  FrameInv'
<1> DEFINE dec == Decoded(Head(wire[d]).bytes)
           connected == mem[d] \/ dec.msg.type = CONNECT_ACK
<1>1. /\ FrameTypes /\ expecting[d] # NIL /\ ~garbled[d] /\ Available(d) >= expecting[d]
      /\ expecting' = [expecting EXCEPT ![d] = NIL]
      /\ UNCHANGED <<sending, sent, overlapped>>
      /\ \/ /\ Head(wire[d]).kind = "body" /\ Head(wire[d]).n = expecting[d]
            /\ wire' = [wire EXCEPT ![d] = Tail(wire[d])]
            /\ received' = [received EXCEPT ![d] = IF dec.ok THEN Append(received[d], dec.msg) ELSE received[d]]
            /\ stopped' = [stopped EXCEPT ![d] = ~dec.ok]
            /\ mem' = [mem EXCEPT ![d] = connected]
            /\ garbled' = garbled
         \/ /\ ~(Head(wire[d]).kind = "body" /\ Head(wire[d]).n = expecting[d])
            /\ garbled' = [garbled EXCEPT ![d] = TRUE]
            /\ wire' = wire /\ received' = received /\ mem' = mem /\ stopped' = stopped
  BY Zenon DEF FrameInv, ReceiveBody
<1> HIDE DEF dec
<1>2. /\ wire[d] # <<>> /\ ~stopped[d] /\ Unread(d) > 0
      /\ \/ Framed(d) /\ Head(wire[d]).kind = "body" /\ Head(wire[d]).n = expecting[d]
         \/ Broken(d)
  BY <1>1, BodyToReceive
<1>3. /\ expecting'[d] = NIL
      /\ \A e \in Directions : e # d => expecting'[e] = expecting[e]
      /\ \A e \in Directions : expecting'[e] \in Nat \cup {NIL}
      /\ expecting' = [e \in Directions |-> expecting'[e]]
  BY <1>1 DEF FrameTypes
<1>4. CASE ~(Head(wire[d]).kind = "body" /\ Head(wire[d]).n = expecting[d])
  <2>1. /\ garbled' = [garbled EXCEPT ![d] = TRUE]
        /\ wire' = wire /\ received' = received /\ mem' = mem /\ stopped' = stopped
    BY <1>1, <1>4
  <2>2. FrameTypes'
    BY <1>1, <1>3, <2>1 DEF FrameTypes
  <2>3. d = "up" /\ overlapped
    BY <1>2, <1>4 DEF Broken
  <2>4. garbled'[d]
    BY <1>1, <2>1 DEF FrameTypes
  <2>5. Frame(d)'
    BY <1>1, <1>3, <2>3, <2>4 DEF Frame
  <2>6. ASSUME NEW e \in Directions, e # d PROVE Frame(e)'
    <3>1. garbled'[e] = garbled[e]
      BY <2>1, <2>6, <1>1 DEF FrameTypes
    <3>2. Frame(e)
      BY DEF FrameInv
    <3> QED BY <1>1, <1>3, <2>1, <2>6, <3>1, <3>2, OtherDirection
  <2> QED BY <2>2, <2>5, <2>6 DEF FrameInv
<1>5. CASE Head(wire[d]).kind = "body" /\ Head(wire[d]).n = expecting[d]
  <2>1. /\ wire' = [wire EXCEPT ![d] = Tail(wire[d])]
        /\ received' = [received EXCEPT ![d] = IF dec.ok THEN Append(received[d], dec.msg) ELSE received[d]]
        /\ stopped' = [stopped EXCEPT ![d] = ~dec.ok]
        /\ mem' = [mem EXCEPT ![d] = connected]
        /\ garbled' = garbled
    BY <1>1, <1>5
  <2>2. PICK l \in Nat, u \in Nat, r \in Nat :
          l = Len(wire[d]) /\ u = Unread(d) /\ r = Len(received[d])
    BY <1>1, FrameNumbers
  <2>3. Len(sent[d]) = r + u /\ DOMAIN wire[d] = 1..l /\ Expecting(d) = 1 /\ u > 0 /\ IsSeq(received[d])
    BY <1>1, <1>2, <2>2, FrameNumbers DEF Expecting, FrameTypes
  <2>4. /\ \A e \in Directions : IsSeq(wire'[e]) /\ \A i \in DOMAIN wire'[e] : IsChunk(wire'[e][i])
        /\ wire' = [e \in Directions |-> wire'[e]]
        /\ \A e \in Directions : e # d => wire'[e] = wire[e]
        /\ Len(wire'[d]) = l - 1 /\ DOMAIN wire'[d] = 1..(l - 1)
        /\ \A i \in 1..(l - 1) : wire'[d][i] = wire[d][i + 1]
        /\ l > 0 /\ Head(wire[d]) = wire[d][1]
    BY <1>1, <1>2, <2>1, <2>2, TakeChunk
  <2>5. /\ \A e \in Directions : e # d => received'[e] = received[e] /\ stopped'[e] = stopped[e]
        /\ received' = [e \in Directions |-> received'[e]]
        /\ stopped' \in [Directions -> BOOLEAN] /\ mem' \in [Directions -> BOOLEAN]
    <3>1. connected \in BOOLEAN
      BY <1>1 DEF FrameTypes
    <3> HIDE DEF connected
    <3> QED BY <1>1, <2>1, <3>1 DEF FrameTypes
  <2>6. CASE ~dec.ok
    <3>1. received'[d] = received[d] /\ stopped'[d] = TRUE /\ received' = received
      <4>1. received'[d] = received[d] /\ stopped'[d] = TRUE
        BY <1>1, <2>1, <2>6 DEF FrameTypes
      <4>2. received = [e \in Directions |-> received[e]]
        BY <1>1 DEF FrameTypes
      <4> QED BY <2>5, <4>1, <4>2
    <3>2. FrameTypes'
      BY <1>1, <1>3, <2>1, <2>4, <2>5, <3>1 DEF FrameTypes
    <3>3. Frame(d)'
      BY <1>1, <1>3, <2>1, <3>1 DEF Frame
    <3>4. ASSUME NEW e \in Directions, e # d PROVE Frame(e)'
      <4>1. Frame(e)
        BY DEF FrameInv
      <4> QED BY <1>1, <1>3, <2>1, <2>4, <2>5, <3>4, <4>1, OtherDirection
    <3> QED BY <3>2, <3>3, <3>4 DEF FrameInv
  <2>7. CASE dec.ok
    <3>1. received'[d] = Append(received[d], dec.msg) /\ stopped'[d] = FALSE
      BY <1>1, <2>1, <2>7 DEF FrameTypes
    <3>2. IsSeq(received'[d]) /\ Len(received'[d]) = r + 1
      BY <2>2, <2>3, <3>1, SeqAppend
    <3>3. \A e \in Directions : IsSeq(received'[e]) /\ Len(received'[e]) <= Len(sent[e])
      <4> SUFFICES ASSUME NEW e \in Directions PROVE IsSeq(received'[e]) /\ Len(received'[e]) <= Len(sent[e])
        OBVIOUS
      <4>1. CASE e = d
        BY <2>2, <2>3, <3>2, <4>1
      <4>2. CASE e # d
        BY <1>1, <2>5, <4>2 DEF FrameTypes
      <4> QED BY <4>1, <4>2
    <3>4. FrameTypes'
      BY <1>1, <1>3, <2>1, <2>4, <2>5, <3>3 DEF FrameTypes
    <3>5. ASSUME NEW e \in Directions, e # d PROVE Frame(e)'
      <4>1. Frame(e)
        BY DEF FrameInv
      <4> QED BY <1>1, <1>3, <2>1, <2>4, <2>5, <3>5, <4>1, OtherDirection
    <3>6. Expecting(d)' = 0 /\ Unread(d)' = u - 1 /\ SizeRead(d)'
      <4>1. Expecting(d)' = 0 /\ SizeRead(d)'
        BY <1>3 DEF Expecting, SizeRead
      <4>2. Unread(d)' = (r + u) - (r + 1)
        BY <1>1, <2>3, <3>2 DEF Unread
      <4> QED BY <4>1, <4>2
    <3>7. ASSUME NEW k \in 1..u, k > 1
          PROVE  /\ k - 1 \in 1..(u - 1) /\ UnreadMsg(d, k - 1)' = UnreadMsg(d, k)
                 /\ SizeAt(d, k - 1)' = 2 * k - 3 /\ SizeAt(d, k) = 2 * k - 2
                 /\ BodyAt(d, k - 1)' = 2 * k - 2 /\ BodyAt(d, k) = 2 * k - 1
                 /\ HasSize(d, k) => HasSize(d, k - 1)'
                 /\ HasBody(d, k) => HasBody(d, k - 1)'
      <4>1. k - 1 \in 1..(u - 1)
        BY <3>7
      <4>2. UnreadMsg(d, k - 1)' = UnreadMsg(d, k)
        <5>1. UnreadMsg(d, k - 1)' = sent[d][(r + 1) + (k - 1)] /\ UnreadMsg(d, k) = sent[d][r + k]
          BY <1>1, <2>2, <3>2 DEF UnreadMsg
        <5>2. (r + 1) + (k - 1) = r + k
          OBVIOUS
        <5> QED BY <5>1, <5>2
      <4>3. /\ SizeAt(d, k - 1)' = 2 * k - 3 /\ SizeAt(d, k) = 2 * k - 2
            /\ BodyAt(d, k - 1)' = 2 * k - 2 /\ BodyAt(d, k) = 2 * k - 1
        <5>1. /\ SizeAt(d, k - 1)' = 2 * (k - 1) - 1 - 0 /\ SizeAt(d, k) = 2 * k - 1 - 1
              /\ BodyAt(d, k - 1)' = 2 * (k - 1) - 0 /\ BodyAt(d, k) = 2 * k - 1
          BY <2>3, <3>6 DEF SizeAt, BodyAt
        <5> QED BY <5>1
      <4>4. ASSUME HasSize(d, k), SizeAt(d, k - 1)' \in DOMAIN wire'[d]
            PROVE  wire'[d][SizeAt(d, k - 1)'] = SizeOf(UnreadMsg(d, k - 1)')
        <5>1. 2 * k - 3 \in 1..(l - 1) /\ (2 * k - 3) + 1 = 2 * k - 2
          BY <2>4, <4>3, <4>4
        <5>2. 2 * k - 2 \in 1..l
          BY <5>1
        <5>3. wire'[d][2 * k - 3] = wire[d][2 * k - 2]
          BY <2>4, <5>1
        <5>4. wire[d][2 * k - 2] = SizeOf(UnreadMsg(d, k))
          BY <2>3, <4>3, <4>4, <5>2 DEF HasSize
        <5> QED BY <4>2, <4>3, <5>3, <5>4
      <4>5. ASSUME HasBody(d, k), BodyAt(d, k - 1)' \in DOMAIN wire'[d]
            PROVE  wire'[d][BodyAt(d, k - 1)'] = BodyOf(UnreadMsg(d, k - 1)')
        <5>1. 2 * k - 2 \in 1..(l - 1) /\ (2 * k - 2) + 1 = 2 * k - 1
          BY <2>4, <4>3, <4>5
        <5>2. 2 * k - 1 \in 1..l
          BY <5>1
        <5>3. wire'[d][2 * k - 2] = wire[d][2 * k - 1]
          BY <2>4, <5>1
        <5>4. wire[d][2 * k - 1] = BodyOf(UnreadMsg(d, k))
          BY <2>3, <4>3, <4>5, <5>2 DEF HasBody
        <5> QED BY <4>2, <4>3, <5>3, <5>4
      <4>6. HasSize(d, k) => HasSize(d, k - 1)'
        BY <4>4 DEF HasSize
      <4>7. HasBody(d, k) => HasBody(d, k - 1)'
        BY <4>5 DEF HasBody
      <4> QED BY <4>1, <4>2, <4>3, <4>6, <4>7
    <3>8. Framed(d)' \/ Broken(d)'
      <4>1. \A v \in Threads : Busy(v, d)' <=> Busy(v, d)
        BY <1>1 DEF Busy
      <4>2. CASE Framed(d)
        <5>1. /\ \A k \in 1..u : HasSize(d, k) /\ HasBody(d, k)
              /\ \/ (\A v \in Threads : ~Busy(v, d)) /\ l = 2 * u - 1
                 \/ /\ l = 2 * u - 2
                    /\ \E v \in Threads : /\ Busy(v, d) /\ sending[v] = BodyOf(sent[d][Len(sent[d])])
                                          /\ \A w \in Threads : Busy(w, d) => w = v
          <6>1. BodyAt(d, u) = 2 * u - 1 /\ SizeAt(d, u) = 2 * u - 2
            <7>1. BodyAt(d, u) = 2 * u - 1 /\ SizeAt(d, u) = 2 * u - 1 - 1
              BY <2>3 DEF BodyAt, SizeAt
            <7> QED BY <7>1
          <6> QED BY <2>2, <4>2, <6>1 DEF Framed
        <5>2. \A k \in 1..(u - 1) : HasSize(d, k)' /\ HasBody(d, k)'
          <6> SUFFICES ASSUME NEW k \in 1..(u - 1) PROVE HasSize(d, k)' /\ HasBody(d, k)'
            OBVIOUS
          <6>1. k + 1 \in 1..u /\ k + 1 > 1 /\ (k + 1) - 1 = k
            OBVIOUS
          <6>2. HasSize(d, k + 1) /\ HasBody(d, k + 1)
            BY <5>1, <6>1
          <6>3. HasSize(d, (k + 1) - 1)' /\ HasBody(d, (k + 1) - 1)'
            BY <3>7, <6>1, <6>2
          <6> QED BY <6>1, <6>3
        <5>3. BodyAt(d, Unread(d))' = 2 * u - 2 /\ SizeAt(d, Unread(d))' = 2 * u - 3
          <6>1. BodyAt(d, Unread(d))' = 2 * (u - 1) - 0 /\ SizeAt(d, Unread(d))' = 2 * (u - 1) - 1 - 0
            BY <3>6 DEF BodyAt, SizeAt
          <6> QED BY <6>1
        <5>4. CASE (\A v \in Threads : ~Busy(v, d)) /\ l = 2 * u - 1
          <6>1. Len(wire'[d]) = BodyAt(d, Unread(d))'
            BY <2>4, <5>3, <5>4
          <6> QED BY <3>6, <4>1, <5>2, <5>4, <6>1 DEF Framed
        <5>5. CASE /\ l = 2 * u - 2
                   /\ \E v \in Threads : /\ Busy(v, d) /\ sending[v] = BodyOf(sent[d][Len(sent[d])])
                                         /\ \A w \in Threads : Busy(w, d) => w = v
          <6>1. Len(wire'[d]) = SizeAt(d, Unread(d))' /\ u - 1 > 0
            BY <2>4, <5>3, <5>5
          <6> QED BY <1>1, <3>6, <4>1, <5>2, <5>5, <6>1 DEF Framed
        <5> QED BY <5>1, <5>4, <5>5
      <4>3. CASE Broken(d)
        <5>1. PICK k \in 1..u : BrokenAt(d, k)
          BY <2>2, <4>3 DEF Broken
        <5>2. k > 1
          <6>1. ASSUME k = 1 PROVE FALSE
            <7>1. BodyAt(d, k) = 1
              BY <2>3, <6>1 DEF BodyAt
            <7>2. wire[d][1].kind = "size"
              BY <5>1, <7>1 DEF BrokenAt
            <7> QED BY <1>5, <2>4, <7>2
          <6> QED BY <6>1
        <5>3. \A i \in 1..k : HasSize(d, i) /\ (i < k => HasBody(d, i))
          BY <5>1 DEF BrokenAt
        <5>4. \A i \in 1..(k - 1) : HasSize(d, i)' /\ (i < k - 1 => HasBody(d, i)')
          <6> SUFFICES ASSUME NEW i \in 1..(k - 1) PROVE HasSize(d, i)' /\ (i < k - 1 => HasBody(d, i)')
            OBVIOUS
          <6>1. i + 1 \in 1..u /\ i + 1 \in 1..k /\ i + 1 > 1 /\ (i + 1) - 1 = i /\ (i < k - 1 => i + 1 < k)
            OBVIOUS
          <6>2. HasSize(d, i + 1) /\ (i < k - 1 => HasBody(d, i + 1))
            BY <5>3, <6>1
          <6>3. HasSize(d, (i + 1) - 1)' /\ (i < k - 1 => HasBody(d, (i + 1) - 1)')
            BY <3>7, <6>1, <6>2
          <6> QED BY <6>1, <6>3
        <5>5. /\ k - 1 \in 1..(u - 1) /\ UnreadMsg(d, k - 1)' = UnreadMsg(d, k)
              /\ BodyAt(d, k - 1)' = 2 * k - 2 /\ BodyAt(d, k) = 2 * k - 1
          BY <3>7, <5>2
        <5>6. 2 * k - 1 \in 1..l /\ wire[d][2 * k - 1].kind = "size"
          BY <2>3, <5>1, <5>5 DEF BrokenAt
        <5>7. BodyAt(d, k - 1)' \in DOMAIN wire'[d] /\ wire'[d][BodyAt(d, k - 1)'].kind = "size"
          <6>1. 2 * k - 2 \in 1..(l - 1) /\ (2 * k - 2) + 1 = 2 * k - 1
            BY <5>2, <5>6
          <6>2. wire'[d][2 * k - 2] = wire[d][2 * k - 1]
            BY <2>4, <6>1
          <6> QED BY <2>4, <5>5, <5>6, <6>1, <6>2
        <5>8. BrokenAt(d, k - 1)'
          <6>1. CASE \E w \in Threads : Busy(w, d) /\ sending[w] = BodyOf(UnreadMsg(d, k))
            <7>1. PICK w \in Threads : Busy(w, d) /\ sending[w] = BodyOf(UnreadMsg(d, k))
              BY <6>1
            <7>2. Busy(w, d)' /\ sending'[w] = BodyOf(UnreadMsg(d, k - 1)')
              BY <1>1, <4>1, <5>5, <7>1
            <7> QED BY <5>4, <5>7, <7>2 DEF BrokenAt
          <6>2. CASE \E i \in DOMAIN wire[d] : i > BodyAt(d, k) /\ wire[d][i] = BodyOf(UnreadMsg(d, k))
            <7>1. PICK i \in 1..l : i > 2 * k - 1 /\ wire[d][i] = BodyOf(UnreadMsg(d, k))
              BY <2>3, <5>5, <6>2
            <7>2. i - 1 \in 1..(l - 1) /\ (i - 1) + 1 = i /\ i - 1 > 2 * k - 2
              BY <5>2, <7>1
            <7>3. wire'[d][i - 1] = wire[d][i]
              BY <2>4, <7>2
            <7>4. /\ i - 1 \in DOMAIN wire'[d] /\ i - 1 > BodyAt(d, k - 1)'
                  /\ wire'[d][i - 1] = BodyOf(UnreadMsg(d, k - 1)')
              BY <2>4, <5>5, <7>1, <7>2, <7>3
            <7> QED BY <5>4, <5>7, <7>4 DEF BrokenAt
          <6> QED BY <5>1, <6>1, <6>2 DEF BrokenAt
        <5>9. k - 1 \in 1..Unread(d)' /\ d = "up" /\ overlapped'
          BY <1>1, <3>6, <4>3, <5>5 DEF Broken
        <5>10. Broken(d)'
          BY <5>8, <5>9, Zenon DEF Broken
        <5> QED BY <5>10
      <4> QED BY <1>2, <4>2, <4>3
    <3>9. Frame(d)'
      BY <1>1, <1>3, <2>1, <3>1, <3>6, <3>8 DEF Frame
    <3> QED BY <3>4, <3>5, <3>9 DEF FrameInv
  <2> QED BY <2>6, <2>7
<1> QED BY <1>4, <1>5
-----------------------------------------------------------------------------
(* What holds whatever is sent.                                            *)

\* Nothing is in flight at first, and nobody is sending.
LEMMA FrameInit == Init => FrameInv
<1> SUFFICES ASSUME Init PROVE FrameInv
  OBVIOUS
<1>1. /\ wire = [d \in Directions |-> <<>>] /\ sending = [t \in Threads |-> None]
      /\ expecting = [d \in Directions |-> NIL] /\ mem = [d \in Directions |-> d = "up"]
      /\ sent = [d \in Directions |-> <<>>] /\ received = [d \in Directions |-> <<>>]
      /\ overlapped = FALSE
      /\ garbled = [d \in Directions |-> FALSE] /\ stopped = [d \in Directions |-> FALSE]
  BY DEF Init
<1>2. IsSeq(<<>>) /\ Len(<<>>) = 0 /\ DOMAIN <<>> = {}
  <2>1. <<>> \in Seq({})
    OBVIOUS
  <2> QED BY <2>1 DEF IsSeq
<1>3. FrameTypes
  <2>1. mem \in [Directions -> BOOLEAN]
    BY <1>1, Zenon
  <2>2. ASSUME NEW d \in Directions
        PROVE  /\ IsSeq(wire[d]) /\ \A i \in DOMAIN wire[d] : IsChunk(wire[d][i])
               /\ IsSeq(sent[d]) /\ IsSeq(received[d])
               /\ Len(sent[d]) <= MaxSends /\ Len(received[d]) <= Len(sent[d])
               /\ expecting[d] \in Nat \cup {NIL}
    <3>1. wire[d] = <<>> /\ sent[d] = <<>> /\ received[d] = <<>> /\ expecting[d] = NIL
      BY <1>1
    <3>2. Len(sent[d]) = 0 /\ Len(received[d]) = 0
      BY <1>2, <3>1
    <3>3. 0 <= MaxSends /\ 0 <= 0
      BY MaxSendsAssumption
    <3>4. IsSeq(wire[d]) /\ IsSeq(sent[d]) /\ IsSeq(received[d]) /\ DOMAIN wire[d] = {}
      BY <1>2, <3>1
    <3> QED BY <3>1, <3>2, <3>3, <3>4
  <2>3. \A t \in Threads : sending[t] = None
    BY <1>1
  <2>4. /\ wire = [d \in Directions |-> wire[d]] /\ sending = [t \in Threads |-> sending[t]]
        /\ sent = [d \in Directions |-> sent[d]] /\ received = [d \in Directions |-> received[d]]
        /\ expecting = [d \in Directions |-> expecting[d]]
    BY <1>1
  <2>5. overlapped \in BOOLEAN /\ garbled \in [Directions -> BOOLEAN] /\ stopped \in [Directions -> BOOLEAN]
    BY <1>1
  <2> QED BY <2>1, <2>2, <2>3, <2>4, <2>5 DEF FrameTypes
<1>4. ASSUME NEW d \in Directions PROVE Frame(d)
  <2>1. Unread(d) = 0 /\ Expecting(d) = 0 /\ Len(wire[d]) = 0
    BY <1>1, <1>2 DEF Unread, Expecting
  <2>2. BodyAt(d, Unread(d)) = 0
    BY <2>1 DEF BodyAt
  <2>3. \A t \in Threads : ~Busy(t, d)
    BY <1>1 DEF Busy
  <2>4. Framed(d)
    BY <2>1, <2>2, <2>3 DEF Framed
  <2> QED BY <1>1, <2>4 DEF Frame, SizeRead
<1> QED BY <1>3, <1>4 DEF FrameInv

\* Every step keeps the framing.
LEMMA FrameStep == FrameInv /\ [Next]_vars => FrameInv'
<1> SUFFICES ASSUME FrameInv, [Next]_vars PROVE FrameInv'
  OBVIOUS
<1>1. CASE \E t \in Threads : \E msg \in Messages(t, sent, received) : SendSize(t, msg)
  BY <1>1, SendSizeFrame
<1>2. CASE \E t \in Threads : SendBody(t)
  BY <1>2, SendBodyFrame
<1>3. CASE \E d \in Directions : ReceiveSize(d)
  BY <1>3, ReceiveSizeFrame
<1>4. CASE \E d \in Directions : ReceiveBody(d)
  BY <1>4, ReceiveBodyFrame
<1>5. CASE UNCHANGED vars
  <2>1. FrameTypes'
    BY <1>5 DEF FrameInv, FrameTypes, vars
  <2>2. ASSUME NEW d \in Directions PROVE Frame(d)'
    <3>1. Frame(d)
      BY DEF FrameInv
    <3> QED BY <1>5, <3>1, OtherDirection DEF vars
  <2> QED BY <2>1, <2>2 DEF FrameInv
<1> QED BY <1>1, <1>2, <1>3, <1>4, <1>5 DEF Next

\* What is in flight between dsm_send and dsm_receive is, for any messages, the sizes and
\* the bodies of the messages that were sent and not received, in turn; until two sends
\* on the socket of a slave overlap.
THEOREM FrameCorrect == Spec => []FrameInv
BY FrameInit, FrameStep, PTL DEF Spec

\* Only two sends under way at once on one socket, by the application and the listener of
\* a slave, make dsm_receive take the bytes of two messages for one.
THEOREM OnlyOverlapGarblesCorrect == Spec => []OnlyOverlapGarbles
<1>1. FrameInv => OnlyOverlapGarbles
  <2>1. "up" \in Directions /\ "down" \in Directions
    BY DEF Directions
  <2>2. ASSUME FrameInv PROVE OnlyOverlapGarbles
    <3>1. Frame("up") /\ Frame("down")
      BY <2>1, <2>2 DEF FrameInv
    <3> QED BY <3>1 DEF Frame, OnlyOverlapGarbles
  <2> QED BY <2>2
<1> QED BY <1>1, FrameCorrect, PTL

\* When nobody is between two sends, the bytes that dsm_receive waits for are there.
LEMMA BytesAreThere ==
    ASSUME FrameInv, NEW d \in Directions, ~garbled[d], ~stopped[d], \A t \in Threads : ~Busy(t, d),
           expecting[d] # NIL
    PROVE  Available(d) >= expecting[d]
<1>1. FrameTypes /\ SizeRead(d) /\ (Framed(d) \/ Broken(d))
  BY DEF FrameInv, Frame
<1>2. Unread(d) > 0 /\ expecting[d] = Encoded(UnreadMsg(d, 1)).size /\ BodyAt(d, 1) = 1
  BY <1>1 DEF SizeRead, BodyAt, Expecting
<1>3. Unread(d) \in Nat /\ Len(wire[d]) \in Nat /\ DOMAIN wire[d] = 1..Len(wire[d])
  BY <1>1, FrameNumbers
<1>4. /\ Available(d) \in Nat
      /\ \A i \in DOMAIN wire[d] : Width(wire[d][i]) <= Available(d)
  BY <1>1, AvailableBytes DEF FrameTypes
<1>5. ASSUME NEW i \in DOMAIN wire[d], wire[d][i] = BodyOf(UnreadMsg(d, 1))
      PROVE  Available(d) >= expecting[d]
  <2>1. Width(wire[d][i]) = expecting[d]
    BY <1>2, <1>5, MessageChunks DEF Width
  <2>2. expecting[d] \in Nat
    BY <1>2, EncodedSize
  <2> QED BY <1>4, <2>1, <2>2
<1>6. CASE Framed(d)
  <2>1. Len(wire[d]) = BodyAt(d, Unread(d))
    BY <1>6 DEF Framed
  <2>2. Len(wire[d]) = 2 * Unread(d) - 1
    BY <1>2, <2>1 DEF BodyAt, Expecting
  <2>3. 1 \in DOMAIN wire[d] /\ 1 \in 1..Unread(d)
    BY <1>2, <1>3, <2>2
  <2> QED BY <1>2, <1>5, <1>6, <2>3 DEF Framed, HasBody
<1>7. CASE Broken(d)
  <2>1. PICK k \in 1..Unread(d) : BrokenAt(d, k)
    BY <1>7 DEF Broken
  <2>2. BodyAt(d, k) = 2 * k - 1 /\ BodyAt(d, k) \in DOMAIN wire[d]
    BY <2>1 DEF BrokenAt, BodyAt, Expecting
  <2>3. CASE k = 1
    <3>1. PICK i \in DOMAIN wire[d] : wire[d][i] = BodyOf(UnreadMsg(d, 1))
      BY <2>1, <2>3 DEF BrokenAt
    <3> QED BY <1>5, <3>1
  <2>4. CASE k > 1
    <3>1. 1 \in 1..k /\ 1 < k /\ 1 \in DOMAIN wire[d]
      BY <1>3, <2>2, <2>4
    <3>2. HasBody(d, 1)
      BY <2>1, <3>1 DEF BrokenAt
    <3> QED BY <1>2, <1>5, <3>1, <3>2 DEF HasBody
  <2> QED BY <2>3, <2>4
<1> QED BY <1>1, <1>6, <1>7

\* When nobody is between two sends and nothing is in flight, everything was received.
LEMMA EverythingReceived ==
    ASSUME FrameInv, NEW d \in Directions, ~garbled[d], ~stopped[d], \A t \in Threads : ~Busy(t, d),
           wire[d] = <<>>, expecting[d] = NIL
    PROVE  Len(received[d]) = Len(sent[d])
<1>1. FrameTypes /\ (Framed(d) \/ Broken(d))
  BY DEF FrameInv, Frame
<1>2. /\ Unread(d) \in Nat /\ Len(wire[d]) = 0 /\ DOMAIN wire[d] = 1..Len(wire[d])
      /\ Len(sent[d]) = Len(received[d]) + Unread(d) /\ Len(received[d]) \in Nat
  BY <1>1, FrameNumbers
<1>3. ~Broken(d)
  BY <1>2 DEF Broken, BrokenAt
<1>4. Len(wire[d]) = BodyAt(d, Unread(d))
  BY <1>1, <1>3 DEF Framed
<1>5. 0 = 2 * Unread(d) - 0
  BY <1>2, <1>4 DEF BodyAt, Expecting
<1>6. Unread(d) = 0
  BY <1>2, <1>5
<1> QED BY <1>2, <1>6

\* dsm_receive never waits for bytes that nobody is going to send, and it has taken every
\* message when nothing is in flight, whatever the messages; two sends that overlapped
\* have garbled the connection or are still ahead of it.
THEOREM NothingLeftWaitingCorrect == Spec => []NothingLeftWaiting
<1>1. ASSUME FrameInv PROVE NothingLeftWaiting
  <2> SUFFICES ASSUME NEW d \in Directions, ~garbled[d], ~stopped[d],
                      \A t \in Threads : DirOf(t) = d => sending[t] = None
               PROVE  /\ expecting[d] # NIL => Available(d) >= expecting[d]
                      /\ wire[d] = <<>> /\ expecting[d] = NIL => Len(received[d]) = Len(sent[d])
    BY DEF NothingLeftWaiting
  <2>1. \A t \in Threads : ~Busy(t, d)
    BY DEF Busy
  <2> QED BY <1>1, <2>1, BytesAreThere, EverythingReceived
<1>2. FrameInv => NothingLeftWaiting
  BY <1>1
<1> QED BY <1>2, FrameCorrect, PTL
-----------------------------------------------------------------------------
(* One message through the codec: setters, header, walk and getters.       *)

\* Decoding gives back what was encoded.
RoundTrip(m) ==
  LET decoded == Decoded(BodyOf(m).bytes)
  IN  decoded.ok /\ decoded.msg.type = m.type /\ decoded.msg.args = m.args

\* The fields that the sender of a message of a type writes, besides the type.
FieldsOf(type) == {SentFields(type)[i] : i \in DOMAIN SentFields(type)}

\* The arguments a setter's type and a getter's type carry over: numbers of the size of
\* the integer sent, whose bits a signed setter keeps.
Carried(type) == CASE type = BINN_INT32 -> 0..MaxOf(BINN_INT32)
                   [] type = BINN_INT16 -> 0..MaxOf(BINN_UINT16)
                   [] OTHER -> Nat

\* A message of the protocol: the arguments of its type, in their ranges.
Proper(m) ==
  /\ m.type \in CONNECT..TERMINATE
  /\ m.args = [k \in {f[1] : f \in FieldsOf(m.type)} |-> m.args[k]]
  /\ \A f \in FieldsOf(m.type) : m.args[f[1]] \in Carried(f[2])

\* What a field tells the sender and the receiver of a type.
FieldFine(type, f) ==
  /\ f[1] \in MessageKeys \ {KeyTYPE} /\ f[2] \in SetterTypes
  /\ f[2] = BINN_INT32 => ArgType(type, f[1]) = BINN_UINT64
  /\ f[2] = BINN_INT16 => ArgType(type, f[1]) = BINN_UINT16

\* dsm_receive_msg reads the fields that dsm_send_msg writes, each under a key of its own
\* and into an argument of the right size.
LEMMA FieldsAgree ==
    ASSUME NEW type
    PROVE  /\ ReceivedFields(type) = FieldsOf(type)
           /\ \A i \in 1..Len(SentFields(type)) : FieldFine(type, SentFields(type)[i])
           /\ \A i, j \in 1..Len(SentFields(type)) : SentFields(type)[i][1] = SentFields(type)[j][1] => i = j
           /\ DOMAIN SentFields(type) = 1..Len(SentFields(type))
<1> DEFINE s == SentFields(type)
           r == ReceivedFields(type)
           Fine == /\ r = {s[i] : i \in DOMAIN s}
                   /\ \A i \in 1..Len(s) : FieldFine(type, s[i])
                   /\ \A i, j \in 1..Len(s) : s[i][1] = s[j][1] => i = j
                   /\ DOMAIN s = 1..Len(s)
<1>1. /\ CONNECT # CONNECT_ACK /\ CONNECT # LOCKPAGE /\ CONNECT # INVALIDATE /\ CONNECT # INVALIDATE_ACK
      /\ CONNECT # GIVEPAGE /\ CONNECT # SYNC_BARRIER /\ CONNECT_ACK # LOCKPAGE /\ CONNECT_ACK # INVALIDATE
      /\ CONNECT_ACK # INVALIDATE_ACK /\ CONNECT_ACK # GIVEPAGE /\ CONNECT_ACK # SYNC_BARRIER
      /\ LOCKPAGE # INVALIDATE /\ LOCKPAGE # INVALIDATE_ACK /\ LOCKPAGE # GIVEPAGE /\ LOCKPAGE # SYNC_BARRIER
      /\ INVALIDATE # GIVEPAGE /\ INVALIDATE # SYNC_BARRIER /\ INVALIDATE_ACK # GIVEPAGE
      /\ INVALIDATE_ACK # SYNC_BARRIER /\ GIVEPAGE # SYNC_BARRIER
  BY DEF CONNECT, CONNECT_ACK, LOCKPAGE, INVALIDATE, INVALIDATE_ACK, GIVEPAGE, SYNC_BARRIER
<1>2. /\ KeyBITNESS # KeyPAGESIZE /\ KeyBITNESS # KeyPAGECOUNT /\ KeyPAGESIZE # KeyPAGECOUNT
      /\ KeyPAGEID # KeyRIGHTS /\ KeyPAGEID # KeyDATA /\ KeyRIGHTS # KeyDATA
  BY DEF KeyBITNESS, KeyPAGESIZE, KeyPAGECOUNT, KeyPAGEID, KeyRIGHTS, KeyDATA
<1>3. /\ \A k \in {KeyBITNESS, KeyPAGESIZE} : type = CONNECT => FieldFine(type, <<k, BINN_INT32>>)
      /\ \A k \in {KeyBITNESS, KeyPAGESIZE} : type = CONNECT_ACK => FieldFine(type, <<k, BINN_INT16>>)
      /\ \A k \in {KeyPAGECOUNT, KeyPAGEID} : FieldFine(type, <<k, BINN_INT32>>)
      /\ \A k \in {KeyRIGHTS, KeyBARRIER} : FieldFine(type, <<k, BINN_INT16>>)
      /\ FieldFine(type, <<KeyDATA, BINN_BLOB>>)
  <2>1. \A k \in 2..8 : k \in MessageKeys \ {KeyTYPE}
    BY DEF MessageKeys, KeyTYPE, KeyBARRIER
  <2>2. BINN_INT32 # BINN_INT16 /\ BINN_BLOB # BINN_INT16 /\ BINN_BLOB # BINN_INT32 /\ CONNECT # CONNECT_ACK
    BY DEF BINN_INT32, BINN_INT16, BINN_BLOB, CONNECT, CONNECT_ACK
  <2>3. KeyBITNESS = 2 /\ KeyPAGESIZE = 3 /\ KeyPAGECOUNT = 4 /\ KeyPAGEID = 5 /\ KeyRIGHTS = 6 /\ KeyDATA = 7 /\ KeyBARRIER = 8
    BY DEF KeyBITNESS, KeyPAGESIZE, KeyPAGECOUNT, KeyPAGEID, KeyRIGHTS, KeyDATA, KeyBARRIER
  <2>4. ASSUME NEW k, NEW t PROVE <<k, t>>[1] = k /\ <<k, t>>[2] = t
    OBVIOUS
  <2> QED BY <2>1, <2>2, <2>3, <2>4 DEF FieldFine, ArgType, SetterTypes
<1>4. ASSUME type = CONNECT PROVE Fine
  <2>1. /\ s = <<<<KeyBITNESS, BINN_INT32>>, <<KeyPAGESIZE, BINN_INT32>>>>
        /\ r = {<<KeyBITNESS, BINN_INT32>>, <<KeyPAGESIZE, BINN_INT32>>}
    BY <1>1, <1>4, Zenon DEF SentFields, ReceivedFields
  <2> HIDE DEF s, r
  <2> QED BY <1>2, <1>3, <1>4, <2>1
<1>5. ASSUME type = CONNECT_ACK PROVE Fine
  <2>1. /\ s = <<<<KeyBITNESS, BINN_INT16>>, <<KeyPAGESIZE, BINN_INT16>>, <<KeyPAGECOUNT, BINN_INT32>>>>
        /\ r = {<<KeyBITNESS, BINN_INT16>>, <<KeyPAGESIZE, BINN_INT16>>, <<KeyPAGECOUNT, BINN_INT32>>}
    BY <1>1, <1>5, Zenon DEF SentFields, ReceivedFields
  <2> HIDE DEF s, r
  <2> QED BY <1>2, <1>3, <1>5, <2>1
<1>6. ASSUME type = LOCKPAGE PROVE Fine
  <2>1. /\ s = <<<<KeyPAGEID, BINN_INT32>>, <<KeyRIGHTS, BINN_INT16>>>>
        /\ r = {<<KeyPAGEID, BINN_INT32>>, <<KeyRIGHTS, BINN_INT16>>}
    BY <1>1, <1>6, Zenon DEF SentFields, ReceivedFields
  <2> HIDE DEF s, r
  <2> QED BY <1>2, <1>3, <2>1
<1>7. ASSUME type \in {INVALIDATE, INVALIDATE_ACK} PROVE Fine
  <2>1. s = <<<<KeyPAGEID, BINN_INT32>>>> /\ r = {<<KeyPAGEID, BINN_INT32>>}
    <3>1. CASE type = INVALIDATE
      BY <1>1, <3>1, Zenon DEF SentFields, ReceivedFields
    <3>2. CASE type = INVALIDATE_ACK
      BY <1>1, <3>2, Zenon DEF SentFields, ReceivedFields
    <3> QED BY <1>7, <3>1, <3>2
  <2> HIDE DEF s, r
  <2> QED BY <1>3, <2>1
<1>8. ASSUME type = GIVEPAGE PROVE Fine
  <2>1. /\ s = <<<<KeyPAGEID, BINN_INT32>>, <<KeyRIGHTS, BINN_INT16>>, <<KeyDATA, BINN_BLOB>>>>
        /\ r = {<<KeyPAGEID, BINN_INT32>>, <<KeyRIGHTS, BINN_INT16>>, <<KeyDATA, BINN_BLOB>>}
    BY <1>1, <1>8, Zenon DEF SentFields, ReceivedFields
  <2> HIDE DEF s, r
  <2> QED BY <1>2, <1>3, <2>1
<1>9. ASSUME type = SYNC_BARRIER PROVE Fine
  <2>1. s = <<<<KeyBARRIER, BINN_INT16>>>> /\ r = {<<KeyBARRIER, BINN_INT16>>}
    BY <1>1, <1>9, Zenon DEF SentFields, ReceivedFields
  <2> HIDE DEF s, r
  <2> QED BY <1>3, <2>1
<1>10. ASSUME type \notin {CONNECT, CONNECT_ACK, LOCKPAGE, INVALIDATE, INVALIDATE_ACK, GIVEPAGE, SYNC_BARRIER} PROVE Fine
  <2>1. s = <<>> /\ r = {}
    BY <1>10, Zenon DEF SentFields, ReceivedFields
  <2> HIDE DEF s, r
  <2> QED BY <2>1
<1>11. Fine
  <2> HIDE DEF Fine
  <2> QED BY <1>4, <1>5, <1>6, <1>7, <1>8, <1>9, <1>10
<1> QED BY <1>11, Zenon DEF FieldsOf
\* What one setter call of dsm_send_msg adds to the object.
EntryOf(key, type, n) ==
  [key |-> key, type |-> type, v |-> IF type = BINN_BLOB THEN Value(n, PageSize) ELSE Value(Cast(type, n), 0)]

LEMMA SetArgAdds ==
    ASSUME NEW item, NEW key, NEW type, NEW n, NEW x, x = EntryOf(key, type, n)
    PROVE  SetArg(item, key, type, n) = binn_add_value(item, x.key, x.type, x.v).item
<1> DEFINE v == IF type = BINN_BLOB THEN Value(n, PageSize) ELSE Value(Cast(type, n), 0)
<1>1. SetArg(item, key, type, n) = binn_add_value(item, key, type, v).item
  BY DEF SetArg
<1> HIDE DEF v
<1>2. x = [key |-> key, type |-> type, v |-> v]
  BY DEF EntryOf, v
<1> QED BY <1>1, <1>2

\* The keys are different texts, short enough.
LEMMA KeysFit ==
    /\ \A k \in MessageKeys : k \in DOMAIN KeyText /\ Len(KeyText[k]) <= MaxKeyLen
    /\ \A k, l \in MessageKeys : SameKey(k, l) => k = l
<1>1. DOMAIN MsgKeys = 1..8
  BY DEF MsgKeys
<1>2. MessageKeys = 1..8
  BY DEF MessageKeys, KeyTYPE, KeyBARRIER
<1>3. \A k \in DOMAIN MsgKeys : k \in DOMAIN KeyText /\ Len(KeyText[k]) <= MaxKeyLen
  BY KeysAssumption
<1> QED BY <1>1, <1>2, <1>3, KeysAssumption

\* The setters' types are three, of two families.
LEMMA SetterFamilies ==
    /\ BINN_INT32 \in Ints /\ BINN_INT16 \in Ints /\ BINN_BLOB \notin Ints
    /\ SetterTypes \subseteq DataTypes
    /\ \A t \in SetterTypes : t \notin Containers \cup {BINN_BOOL, BINN_NULL, BINN_STRING, BINN_HTML, BINN_FLOAT32}
    /\ BINN_INT32 # BINN_BLOB /\ BINN_INT16 # BINN_BLOB
BY DEF SetterTypes, Ints, SignedInts, UnsignedInts, DataTypes, Containers, BINN_INT8, BINN_INT16, BINN_INT32, BINN_INT64,
       BINN_UINT8, BINN_UINT16, BINN_UINT32, BINN_UINT64, BINN_BLOB, BINN_BOOL, BINN_NULL, BINN_STRING, BINN_HTML,
       BINN_LIST, BINN_MAP, BINN_OBJECT, BINN_FLOAT32, BINN_FLOAT64, BINN_JPEG

\* No setter refuses it.
LEMMA EntrySettable ==
    ASSUME NEW key \in MessageKeys, NEW type \in SetterTypes, NEW n, type # BINN_BLOB => n \in Int
    PROVE  Settable(EntryOf(key, type, n))
<1> DEFINE x == EntryOf(key, type, n)
           c == IF type = BINN_BLOB THEN n ELSE Cast(type, n)
           size == IF type = BINN_BLOB THEN PageSize ELSE 0
           v == Value(c, size)
<1>1. size \in Nat
  BY PageSizeNat
<1>2. type \in Ints => c \in MinOf(type)..MaxOf(type)
  <2>1. CASE type = BINN_BLOB
    BY <2>1, SetterFamilies
  <2>2. CASE type # BINN_BLOB
    <3>1. type \in Ints
      BY <2>2, SetterFamilies DEF SetterTypes
    <3> QED BY <2>2, <3>1, ReadIntBack DEF Cast
  <2> QED BY <2>1, <2>2
<1>3. x = [key |-> key, type |-> type, v |-> v]
  <2>1. v = IF type = BINN_BLOB THEN Value(n, PageSize) ELSE Value(Cast(type, n), 0)
    OBVIOUS
  <2> HIDE DEF v
  <2> QED BY <2>1 DEF EntryOf
<1> HIDE DEF c, size
<1>4. v.n = c /\ v.size = size /\ v.null = FALSE /\ DOMAIN v = {"n", "size", "null", "sub"}
  BY DEF Value
<1> HIDE DEF v, x
<1>5. x.key = key /\ x.type = type /\ x.v = v
  BY <1>3
<1>6. Acceptable(type, v)
  <2>1. /\ type \notin Containers /\ type # BINN_BOOL /\ type # BINN_NULL /\ type # BINN_STRING /\ type # BINN_HTML
        /\ type # BINN_FLOAT32
    BY SetterFamilies
  <2>2. v.size \in Int
    BY <1>1, <1>4
  <2>3. v.null \in BOOLEAN
    BY <1>4, Zenon
  <2> QED BY <1>2, <1>4, <2>1, <2>2, <2>3 DEF Acceptable
<1>7. Given(x)
  BY <1>5, <1>6, SetterFamilies DEF Given
<1>8. EntryGiven(BINN_OBJECT, x)
  BY <1>5, <1>7, KeysFit, ContainersApart DEF EntryGiven, KeyFits
<1> QED BY <1>1, <1>4, <1>5, <1>8, SetterFamilies, KeysFit DEF Settable, x

\* What a setter's parameter makes of an argument.
Passed(type, n) == IF type = BINN_BLOB THEN n ELSE Cast(type, n)

\* The object that was opened has the entry x.
Answers(l, x) == l.ok = TRUE /\ Exactly(binn_object_get_value(BufferOf(l.item), x.key), x)

\* A getter of the setter's type answers what the setter stored.
LEMMA GetArgIs ==
    ASSUME NEW key \in MessageKeys, NEW type \in SetterTypes, NEW n, type # BINN_BLOB => n \in Int,
           NEW l, Answers(l, EntryOf(key, type, n))
    PROVE  GetArg(l, key, type) = Passed(type, n)
<1> DEFINE x == EntryOf(key, type, n)
           val == binn_object_get_value(BufferOf(l.item), key)
           c == IF type = BINN_BLOB THEN n ELSE Cast(type, n)
<1>1. l.ok = TRUE /\ Exactly(val, x)
  BY DEF Answers, EntryOf
<1>2. GetArg(l, key, type) = copy_value(val, type).n
  BY <1>1 DEF GetArg, binn_object_typed, binn_object_get
<1>3. x.type = type /\ x.v.n = c /\ (type = BINN_BLOB => x.v.size = PageSize) /\ Given(x)
  <2>1. Settable(x)
    BY EntrySettable
  <2>2. Given(x)
    BY <2>1 DEF Settable, EntryGiven
  <2>3. CASE type = BINN_BLOB
    <3>1. x = [key |-> key, type |-> type, v |-> Value(n, PageSize)]
      BY <2>3 DEF EntryOf
    <3> QED BY <2>2, <2>3, <3>1 DEF Value
  <2>4. CASE type # BINN_BLOB
    <3> DEFINE k == Cast(type, n)
    <3>1. x = [key |-> key, type |-> type, v |-> Value(k, 0)] /\ c = k
      BY <2>4 DEF EntryOf
    <3> HIDE DEF k, c
    <3> QED BY <2>2, <2>4, <3>1 DEF Value
  <2> QED BY <2>3, <2>4
<1> HIDE DEF val, x
<1>4. CASE type # BINN_BLOB
  <2>1. type \in Ints /\ type \in GetterTypes
    BY <1>4, SetterFamilies DEF SetterTypes, GetterTypes
  <2>2. copy_value(val, type) = Converted(x, type)
    BY <1>1, <1>3, <2>1, CopyIs
  <2>3. c \in MinOf(type)..MaxOf(type)
    BY <1>4, <2>1, ReadIntBack DEF Cast
  <2>4. type_family(type) # "BINN"
    BY <2>1, TypesApart DEF type_family
  <2> HIDE DEF c
  <2>5. Converted(x, type).n = c
    BY <1>3, <2>3, <2>4 DEF Converted
  <2> QED BY <1>2, <1>4, <2>2, <2>5 DEF c, Passed
<1>5. CASE type = BINN_BLOB
  <2>1. val.ok = TRUE /\ val.type = BINN_BLOB /\ val.n = IF StoredSize(x) = 0 THEN 0 ELSE x.v.n
    BY <1>1, <1>3, <1>5, SetterFamilies DEF Exactly
  <2>2. StoredSize(x) = PageSize
    <3>1. binn_get_type_info(BINN_BLOB) # STORAGE_STRING
      BY DEF binn_get_type_info, ShortTypeStorage, BINN_BLOB, STORAGE_STRING
    <3> QED BY <1>3, <1>5, <3>1 DEF StoredSize
  <2>3. val.n = n
    BY <1>3, <1>5, <2>1, <2>2, PageSizeNat
  <2>4. type_family(BINN_BLOB) # "INT"
    BY SetterFamilies DEF type_family
  <2>5. copy_value(val, BINN_BLOB) = copy_raw_value(n, BINN_BLOB)
    BY <2>1, <2>3, <2>4 DEF copy_value
  <2>6. copy_raw_value(n, BINN_BLOB).n = n
    <3>1. binn_get_read_storage(BINN_BLOB) = 192 /\ STORAGE_NOBYTES = 0
      BY DEF binn_get_read_storage, binn_get_type_info, ShortTypeStorage, BINN_BLOB, BINN_BOOL, BINN_TRUE, BINN_FALSE, STORAGE_NOBYTES
    <3> QED BY <3>1, SetterFamilies DEF copy_raw_value
  <2> QED BY <1>2, <1>5, <2>5, <2>6 DEF Passed
<1> QED BY <1>4, <1>5
\* The bits of the integers a message travels in.
LEMMA MessageInts ==
    /\ BitsOf(BINN_INT16) = IntBits[64] /\ BitsOf(BINN_UINT16) = IntBits[64]
    /\ BitsOf(BINN_INT32) = IntBits[96] /\ BitsOf(BINN_UINT64) = IntBits[128]
    /\ BINN_INT16 \in SignedInts /\ BINN_INT32 \in SignedInts
    /\ BINN_UINT16 \notin SignedInts /\ BINN_UINT64 \notin SignedInts
    /\ BINN_UINT16 \in Ints /\ BINN_UINT64 \in Ints
BY DEF BitsOf, binn_get_type_info, ShortTypeStorage, SignedInts, UnsignedInts, Ints, BINN_INT8, BINN_INT16, BINN_INT32, BINN_INT64,
       BINN_UINT8, BINN_UINT16, BINN_UINT32, BINN_UINT64

\* An argument that a type carries comes back from the integer it was sent in.
LEMMA CastBack ==
    ASSUME NEW n
    PROVE  /\ n \in 0..MaxOf(BINN_INT32) => n \in Int /\ Cast(BINN_INT32, n) = n /\ Cast(BINN_UINT64, n) = n
           /\ n \in 0..MaxOf(BINN_UINT16) => n \in Int /\ Cast(BINN_UINT16, Cast(BINN_INT16, n)) = n
<1>1. ASSUME n \in 0..MaxOf(BINN_INT32)
      PROVE  n \in Int /\ Cast(BINN_INT32, n) = n /\ Cast(BINN_UINT64, n) = n
  <2> DEFINE b == IntBits[96]
             w == IntBits[128]
             p == 2 ^ (b - 1)
             m == 2 ^ b
             q == 2 ^ w
  <2>1. b \in Nat \ {0} /\ w \in Nat \ {0} /\ b < w
    BY WidthsAssumption
  <2>2. p \in Nat /\ m = p + p
    BY IntWidth, MessageInts, SetterFamilies
  <2>3. MaxOf(BINN_INT32) = p - 1
    BY MessageInts DEF MaxOf
  <2>4. q \in Nat /\ p <= q
    <3> HIDE DEF b, w
    <3>1. b - 1 \in Nat /\ b - 1 <= w
      BY <2>1
    <3> QED BY <2>1, <3>1, PowerCounts, PowerGrows
  <2>5. /\ Cast(BINN_INT32, n) = SignedRead(n % m, b)
        /\ Cast(BINN_UINT64, n) = n % q
    BY MessageInts, Zenon DEF Cast, ReadInt
  <2>6. SignedRead(n, b) = IF n >= p THEN n - m ELSE n
    BY DEF SignedRead
  <2> HIDE DEF p, q, m
  <2>7. n \in Nat /\ n < p /\ p <= m
    BY <1>1, <2>2, <2>3
  <2>8. n % m = n /\ n % q = n
    <3>1. m \in Nat \ {0} /\ q \in Nat \ {0} /\ n \in 0..(m - 1) /\ n \in 0..(q - 1)
      BY <2>2, <2>4, <2>7
    <3> QED BY <3>1, Remainders
  <2>9. ~(n >= p)
    BY <2>2, <2>7
  <2> QED BY <2>5, <2>6, <2>7, <2>8, <2>9
<1>2. ASSUME n \in 0..MaxOf(BINN_UINT16)
      PROVE  n \in Int /\ Cast(BINN_UINT16, Cast(BINN_INT16, n)) = n
  <2> DEFINE b == IntBits[64]
             p == 2 ^ (b - 1)
             m == 2 ^ b
             c == Cast(BINN_INT16, n)
  <2>1. p \in Nat \ {0} /\ m = p + p
    BY IntWidth, MessageInts, SetterFamilies
  <2>2. MaxOf(BINN_UINT16) = m - 1
    BY MessageInts DEF MaxOf
  <2>3. c = SignedRead(n % m, b) /\ Cast(BINN_UINT16, c) = c % m
    BY MessageInts, Zenon DEF Cast, ReadInt
  <2>4. SignedRead(n, b) = IF n >= p THEN n - m ELSE n
    BY DEF SignedRead
  <2> HIDE DEF p, m, c
  <2>5. n \in 0..(m - 1) /\ m \in Nat \ {0} /\ n \in Int
    BY <1>2, <2>1, <2>2
  <2>6. n % m = n
    BY <2>5, Remainders
  <2>7. c = n \/ c = n - m
    BY <2>3, <2>4, <2>6
  <2>8. c % m = n
    <3>1. CASE c = n
      BY <2>6, <3>1
    <3>2. CASE c = n - m
      <4>1. c \in (-m)..(-1) /\ c + m = n
        BY <2>5, <3>2
      <4> QED BY <2>5, <4>1, Remainders
    <3> QED BY <2>7, <3>1, <3>2
  <2> QED BY <2>3, <2>5, <2>8 DEF c
<1> QED BY <1>1, <1>2
\* The number of a message's type, and a field's argument, are integers where they
\* travel as one.
LEMMA ProperArguments ==
    ASSUME NEW m, Proper(m), NEW i \in 1..Len(SentFields(m.type))
    PROVE  LET f == SentFields(m.type)[i]
           IN  /\ f[1] \in MessageKeys /\ f[2] \in SetterTypes
               /\ f[2] # BINN_BLOB => /\ m.args[f[1]] \in Int
                                      /\ Cast(ArgType(m.type, f[1]), Cast(f[2], m.args[f[1]])) = m.args[f[1]]
<1> DEFINE f == SentFields(m.type)[i]
           n == m.args[f[1]]
<1>1. f \in FieldsOf(m.type) /\ FieldFine(m.type, f)
  BY FieldsAgree DEF FieldsOf
<1>2. n \in Carried(f[2])
  BY <1>1 DEF Proper
<1>3. f[1] \in MessageKeys /\ f[2] \in SetterTypes
  BY <1>1 DEF FieldFine
<1> HIDE DEF f
<1>4. BINN_INT32 # BINN_INT16
  BY DEF BINN_INT32, BINN_INT16
<1>5. CASE f[2] = BINN_INT32
  <2>1. n \in 0..MaxOf(BINN_INT32) /\ ArgType(m.type, f[1]) = BINN_UINT64
    BY <1>1, <1>2, <1>4, <1>5 DEF Carried, FieldFine
  <2> HIDE DEF n
  <2>2. n \in Int /\ Cast(BINN_INT32, n) = n /\ Cast(BINN_UINT64, n) = n
    BY <2>1, CastBack
  <2> QED BY <1>3, <1>5, <2>1, <2>2 DEF n, f
<1>6. CASE f[2] = BINN_INT16
  <2>1. n \in 0..MaxOf(BINN_UINT16) /\ ArgType(m.type, f[1]) = BINN_UINT16
    BY <1>1, <1>2, <1>4, <1>6 DEF Carried, FieldFine
  <2> HIDE DEF n
  <2>2. n \in Int /\ Cast(BINN_UINT16, Cast(BINN_INT16, n)) = n
    BY <2>1, CastBack
  <2> QED BY <1>3, <1>6, <2>1, <2>2 DEF n, f
<1>7. CASE f[2] = BINN_BLOB
  BY <1>3, <1>7 DEF f
<1> QED BY <1>3, <1>5, <1>6, <1>7 DEF SetterTypes

\* The setter call behind the i-th entry of the object.
EntryOfMsg(m, i) ==
  IF i = 1 THEN EntryOf(KeyTYPE, BINN_INT32, m.type)
  ELSE EntryOf(SentFields(m.type)[i - 1][1], SentFields(m.type)[i - 1][2], m.args[SentFields(m.type)[i - 1][1]])

\* The entries of a message's object are settable, and their keys differ.
LEMMA MessageEntries ==
    ASSUME NEW m, Proper(m)
    PROVE  /\ \A i \in 1..(Len(SentFields(m.type)) + 1) : Settable(EntryOfMsg(m, i))
           /\ \A i, j \in 1..(Len(SentFields(m.type)) + 1) :
                SameKey(EntryOfMsg(m, i).key, EntryOfMsg(m, j).key) => i = j
<1> DEFINE s == SentFields(m.type)
           n == Len(s)
           K(i) == EntryOfMsg(m, i).key
<1>1. n \in Nat
  BY SentFieldsShort
<1>2. m.type \in Int /\ KeyTYPE \in MessageKeys /\ BINN_INT32 \in SetterTypes
  BY DEF Proper, CONNECT, TERMINATE, KeyTYPE, KeyBARRIER, MessageKeys, SetterTypes
<1>3. \A key, type, x : EntryOf(key, type, x).key = key
  BY DEF EntryOf
<1>4. /\ EntryOfMsg(m, 1) = EntryOf(KeyTYPE, BINN_INT32, m.type)
      /\ \A i \in 2..(n + 1) : EntryOfMsg(m, i) = EntryOf(s[i - 1][1], s[i - 1][2], m.args[s[i - 1][1]])
  BY DEF EntryOfMsg
<1>5. Settable(EntryOfMsg(m, 1))
  BY <1>2, <1>4, EntrySettable
<1>6. ASSUME NEW i \in 1..n
      PROVE  s[i][1] \in MessageKeys /\ s[i][2] \in SetterTypes /\ (s[i][2] # BINN_BLOB => m.args[s[i][1]] \in Int)
  BY ProperArguments
<1>7. ASSUME NEW i \in 1..n PROVE s[i][1] # KeyTYPE /\ \A j \in 1..n : s[i][1] = s[j][1] => i = j
  <2>1. FieldFine(m.type, s[i])
    BY FieldsAgree
  <2>2. \A j \in 1..n : s[i][1] = s[j][1] => i = j
    BY FieldsAgree
  <2> QED BY <2>1, <2>2 DEF FieldFine
<1> HIDE DEF s, n
<1>8. ASSUME NEW i \in 2..(n + 1) PROVE Settable(EntryOfMsg(m, i))
  <2>1. i - 1 \in 1..n
    BY <1>1
  <2> DEFINE f == s[i - 1]
             a == m.args[f[1]]
             k == f[1]
             t == f[2]
  <2>2. k \in MessageKeys /\ t \in SetterTypes /\ (t # BINN_BLOB => a \in Int)
    BY <1>6, <2>1
  <2>3. EntryOfMsg(m, i) = EntryOf(k, t, a)
    BY <1>4
  <2> HIDE DEF a, k, t
  <2> QED BY <2>2, <2>3, EntrySettable
<1>9. /\ K(1) = KeyTYPE /\ \A i \in 2..(n + 1) : K(i) = s[i - 1][1]
  BY <1>3, <1>4
<1>10. ASSUME NEW i \in 1..(n + 1), NEW j \in 1..(n + 1), SameKey(K(i), K(j)) PROVE i = j
  <2> HIDE DEF K
  <2>1. \A k \in 1..(n + 1) : K(k) \in MessageKeys
    <3> SUFFICES ASSUME NEW k \in 1..(n + 1) PROVE K(k) \in MessageKeys
      OBVIOUS
    <3>1. k = 1 \/ (k \in 2..(n + 1) /\ k - 1 \in 1..n)
      BY <1>1
    <3> QED BY <1>2, <1>6, <1>9, <3>1
  <2>2. K(i) = K(j)
    BY <1>10, <2>1, KeysFit
  <2>3. (i = 1 \/ (i \in 2..(n + 1) /\ i - 1 \in 1..n)) /\ (j = 1 \/ (j \in 2..(n + 1) /\ j - 1 \in 1..n))
    BY <1>1
  <2>4. CASE i = 1 /\ j = 1
    BY <2>4
  <2>5. CASE i = 1 /\ j # 1
    BY <1>7, <1>9, <2>2, <2>3, <2>5
  <2>6. CASE i # 1 /\ j = 1
    BY <1>7, <1>9, <2>2, <2>3, <2>6
  <2>7. CASE i # 1 /\ j # 1
    <3>1. i - 1 = j - 1
      BY <1>7, <1>9, <2>2, <2>3, <2>7
    <3> QED BY <1>1, <3>1
  <2> QED BY <2>4, <2>5, <2>6, <2>7
<1>11. ASSUME NEW i \in 1..(n + 1) PROVE Settable(EntryOfMsg(m, i))
  <2>1. i = 1 \/ i \in 2..(n + 1)
    BY <1>1
  <2> QED BY <1>5, <1>8, <2>1
<1> QED BY <1>10, <1>11 DEF n, s
\* What dsm_send_msg builds holds these entries.
LEMMA MessageFilled ==
    ASSUME NEW m, Proper(m)
    PROVE  \E item, es : /\ Encoded(m) = binn_ptr(item) /\ Filled(item, es)
                         /\ Len(es) = Len(SentFields(m.type)) + 1
                         /\ \A i \in 1..Len(es) : es[i] = EntryOfMsg(m, i)
<1> DEFINE s == SentFields(m.type)
           n == Len(s)
           E(i) == EntryOfMsg(m, i)
<1>1. PICK f : /\ f[0] = SetArg(binn_create(BINN_OBJECT), KeyTYPE, BINN_INT32, m.type)
               /\ \A i \in 1..n : f[i] = SetArg(f[i - 1], s[i][1], s[i][2], m.args[s[i][1]])
               /\ Encoded(m) = binn_ptr(f[n])
  BY EncodedRun
<1>2. n \in 0..3
  BY SentFieldsShort
<1>3. /\ \A i \in 1..(n + 1) : Settable(E(i))
      /\ \A i, j \in 1..(n + 1) : SameKey(E(i).key, E(j).key) => i = j
  BY MessageEntries
<1> DEFINE P(k) == \E es : Filled(f[k], es) /\ Len(es) = k + 1 /\ \A i \in 1..(k + 1) : es[i] = E(i)
<1>4. ASSUME NEW k \in 0..n, NEW item, NEW es, Filled(item, es), Len(es) = k, \A i \in 1..k : es[i] = E(i),
             f[k] = binn_add_value(item, E(k + 1).key, E(k + 1).type, E(k + 1).v).item
      PROVE  P(k)
  <2> DEFINE x == E(k + 1)
             fs == Append(es, x)
  <2>1. k \in Nat /\ k + 1 \in 1..(n + 1)
    BY <1>2
  <2>2. Settable(x)
    BY <1>3, <2>1
  <2>3. ASSUME NEW i \in 1..Len(es) PROVE ~SameKey(es[i].key, x.key)
    <3>1. i \in 1..(n + 1) /\ i # k + 1 /\ es[i] = E(i)
      BY <1>2, <1>4, <2>1
    <3> QED BY <1>3, <2>1, <3>1
  <2> HIDE DEF x
  <2>4. Filled(f[k], fs)
    BY <1>4, <2>2, <2>3, FilledMore DEF x
  <2>5. IsSeq(es)
    BY <1>4 DEF Filled
  <2>6. Len(fs) = k + 1 /\ fs[k + 1] = x /\ \A i \in 1..k : fs[i] = es[i]
    BY <1>4, <2>5, SeqAppend
  <2> HIDE DEF fs, E
  <2>7. ASSUME NEW i \in 1..(k + 1) PROVE fs[i] = E(i)
    <3>1. i = k + 1 \/ i \in 1..k
      BY <2>1
    <3> QED BY <1>4, <2>6, <3>1 DEF x
  <2> QED BY <2>4, <2>6, <2>7
<1> HIDE DEF P
<1>5. P(0)
  <2> DEFINE k == 0
             item == binn_create(BINN_OBJECT)
             es == <<>>
  <2>1. E(1) = EntryOf(KeyTYPE, BINN_INT32, m.type) /\ k + 1 = 1
    BY DEF EntryOfMsg
  <2>2. Filled(item, es) /\ Len(es) = k /\ k \in 0..n
    BY <1>2, FilledNew
  <2>3. \A i \in 1..k : es[i] = E(i)
    OBVIOUS
  <2> HIDE DEF item, es, E
  <2>4. f[k] = binn_add_value(item, E(k + 1).key, E(k + 1).type, E(k + 1).v).item
    BY <1>1, <2>1, SetArgAdds DEF item
  <2> HIDE DEF k
  <2>5. P(k)
    BY <1>4, <2>2, <2>3, <2>4
  <2> QED BY <2>5 DEF k
<1>6. ASSUME NEW k \in 1..n, P(k - 1) PROVE P(k)
  <2>1. PICK es : Filled(f[k - 1], es) /\ Len(es) = k /\ \A i \in 1..k : es[i] = E(i)
    <3>1. k - 1 + 1 = k
      BY <1>2
    <3> QED BY <1>6, <3>1 DEF P
  <2>2. E(k + 1) = EntryOf(s[k][1], s[k][2], m.args[s[k][1]])
    <3>1. k + 1 # 1 /\ (k + 1) - 1 = k
      BY <1>2
    <3> HIDE DEF s
    <3> QED BY <3>1 DEF EntryOfMsg, s
  <2>3. k \in 0..n
    BY <1>2
  <2> DEFINE a == m.args[s[k][1]]
             key == s[k][1]
             t == s[k][2]
             item == f[k - 1]
  <2>4. f[k] = SetArg(item, key, t, a) /\ E(k + 1) = EntryOf(key, t, a)
    BY <1>1, <2>2
  <2> HIDE DEF a, key, t, E
  <2>5. f[k] = binn_add_value(item, E(k + 1).key, E(k + 1).type, E(k + 1).v).item
    BY <2>4, SetArgAdds
  <2> QED BY <1>4, <2>1, <2>3, <2>5
<1>7. P(n)
  <2> HIDE DEF n
  <2>1. n = 0 \/ n = 1 \/ n = 2 \/ n = 3
    BY <1>2
  <2>2. /\ n >= 1 => 1 \in 1..n /\ 1 - 1 = 0
        /\ n >= 2 => 2 \in 1..n /\ 2 - 1 = 1
        /\ n >= 3 => 3 \in 1..n /\ 3 - 1 = 2
    BY <1>2
  <2>3. n >= 1 => P(1)
    BY <1>5, <1>6, <2>2
  <2>4. n >= 2 => P(2)
    BY <1>6, <2>1, <2>2, <2>3
  <2>5. n >= 3 => P(3)
    BY <1>6, <2>1, <2>2, <2>4
  <2> QED BY <1>5, <2>1, <2>3, <2>4, <2>5
<1>8. PICK es : Filled(f[n], es) /\ Len(es) = n + 1 /\ \A i \in 1..(n + 1) : es[i] = E(i)
  BY <1>7 DEF P
<1> QED BY <1>1, <1>8

\* Every message of the protocol is decoded as it was encoded: its type and every argument
\* survive the setters' casts, the compression of integers, the saved header, the walk to
\* the key and the getters' conversions, whatever the widths of the integers.
THEOREM RoundTripCorrect ==
    ASSUME NEW m, Proper(m)
    PROVE  RoundTrip(m)
<1> DEFINE s == SentFields(m.type)
           n == Len(s)
           bytes == BodyOf(m).bytes
           l == binn_load(bytes)
           keys == {f[1] : f \in FieldsOf(m.type)}
           decoded == Decoded(bytes)
<1>1. PICK item, es : /\ Encoded(m) = binn_ptr(item) /\ Filled(item, es)
                      /\ Len(es) = n + 1 /\ \A i \in 1..Len(es) : es[i] = EntryOfMsg(m, i)
  BY MessageFilled
<1>2. n \in 0..3 /\ DOMAIN s = 1..n
  BY SentFieldsShort, FieldsAgree
<1>3. bytes = Slice(BufferOf(Encoded(m)), 0, Encoded(m).size)
  BY DEF BodyOf, Chunk
<1> HIDE DEF bytes, l
<1>4. /\ l.ok = TRUE
      /\ \A i \in 1..Len(es) : Exactly(binn_object_get_value(BufferOf(l.item), es[i].key), es[i])
  <2> DEFINE e == Encoded(m)
  <2>1. l = binn_load(Slice(BufferOf(e), 0, e.size)) /\ e = binn_ptr(item)
    BY <1>1, <1>3 DEF l
  <2> HIDE DEF e
  <2> QED BY <1>1, <2>1, FilledReads
<1>5. ASSUME NEW i \in 1..(n + 1), NEW key \in MessageKeys, NEW type \in SetterTypes, NEW a, type # BINN_BLOB => a \in Int,
             EntryOfMsg(m, i) = EntryOf(key, type, a)
      PROVE  GetArg(l, key, type) = Passed(type, a)
  <2>1. es[i] = EntryOf(key, type, a) /\ i \in 1..Len(es)
    BY <1>1, <1>5
  <2>2. Answers(l, EntryOf(key, type, a))
    BY <1>4, <2>1 DEF Answers
  <2> QED BY <1>5, <2>2, GetArgIs
<1>6. GetArg(l, KeyTYPE, BINN_INT32) = m.type
  <2>1. m.type \in Int /\ m.type \in 0..MaxOf(BINN_INT32)
    <3>1. m.type \in 0..8 /\ TERMINATE = 8
      BY DEF Proper, CONNECT, TERMINATE
    <3>2. MaxOf(BINN_INT32) \in Int
      BY MessageInts, IntWidth, SetterFamilies DEF MaxOf
    <3> QED BY <3>1, <3>2, TypesAssumption
  <2>2. KeyTYPE \in MessageKeys /\ BINN_INT32 \in SetterTypes /\ BINN_INT32 # BINN_BLOB
    BY SetterFamilies DEF KeyTYPE, KeyBARRIER, MessageKeys, SetterTypes
  <2>3. EntryOfMsg(m, 1) = EntryOf(KeyTYPE, BINN_INT32, m.type) /\ 1 \in 1..(n + 1)
    BY <1>2 DEF EntryOfMsg
  <2> DEFINE a == m.type
  <2> HIDE DEF a
  <2>4. GetArg(l, KeyTYPE, BINN_INT32) = Cast(BINN_INT32, a)
    BY <1>5, <2>1, <2>2, <2>3 DEF a, Passed
  <2> QED BY <2>1, <2>4, CastBack DEF a
<1>7. decoded = DecodedAs(l, m.type)
  BY <1>6 DEF Decoded, DecodedObject, l
<1> HIDE DEF decoded
<1> DEFINE args == DecodedArgs(l, m.type, FieldsOf(m.type))
<1>8. decoded.ok = (m.type \in CONNECT..TERMINATE) /\ decoded.msg.type = m.type /\ decoded.msg.args = args
  <2> HIDE DEF args
  <2>1. decoded = [ok |-> m.type \in CONNECT..TERMINATE, msg |-> [type |-> m.type, args |-> args]]
    BY <1>7, FieldsAgree DEF DecodedAs, args
  <2> QED BY <2>1
<1>9. ASSUME NEW k \in keys
      PROVE  args[k] = m.args[k]
  <2>1. PICK i \in 1..n : s[i][1] = k /\ s[i] \in FieldsOf(m.type)
    BY <1>2 DEF FieldsOf
  <2> DEFINE f == CHOOSE g \in FieldsOf(m.type) : g[1] = k
             t == s[i][2]
             a == m.args[k]
  <2>2. \A g \in FieldsOf(m.type) : g[1] = k => g = s[i]
    <3>1. \A j \in 1..n : s[j][1] = s[i][1] => j = i
      BY FieldsAgree
    <3> QED BY <1>2, <2>1, <3>1 DEF FieldsOf
  <2>3. f = s[i]
    BY <2>1, <2>2
  <2>4. args[k] = IF t = BINN_BLOB THEN GetArg(l, k, BINN_BLOB) ELSE Cast(ArgType(m.type, k), GetArg(l, k, t))
    <3> HIDE DEF t
    <3>1. args[k] = IF f[2] = BINN_BLOB THEN GetArg(l, k, BINN_BLOB) ELSE Cast(ArgType(m.type, k), GetArg(l, k, f[2]))
      BY DEF DecodedArgs
    <3> HIDE DEF f
    <3> QED BY <2>3, <3>1 DEF t
  <2>5. /\ k \in MessageKeys /\ t \in SetterTypes
        /\ t # BINN_BLOB => a \in Int /\ Cast(ArgType(m.type, k), Cast(t, a)) = a
    BY <2>1, ProperArguments
  <2>6. EntryOfMsg(m, i + 1) = EntryOf(k, t, a) /\ i + 1 \in 1..(n + 1)
    <3>1. i + 1 # 1 /\ (i + 1) - 1 = i /\ i + 1 \in 1..(n + 1)
      BY <1>2
    <3> HIDE DEF n
    <3> QED BY <2>1, <3>1 DEF EntryOfMsg
  <2> HIDE DEF args, f, t, a
  <2>7. GetArg(l, k, t) = IF t = BINN_BLOB THEN a ELSE Cast(t, a)
    BY <1>5, <2>5, <2>6 DEF Passed
  <2> QED BY <2>4, <2>5, <2>7 DEF a
<1>10. args = m.args
  <2>1. m.args = [k \in keys |-> m.args[k]]
    BY DEF Proper
  <2>2. args = [k \in keys |-> args[k]]
    BY DEF DecodedArgs
  <2> HIDE DEF args, keys
  <2>3. [k \in keys |-> m.args[k]] = [k \in keys |-> args[k]]
    BY <1>9
  <2> QED BY <2>1, <2>2, <2>3
<1>11. m.type \in CONNECT..TERMINATE
  BY DEF Proper
<1> HIDE DEF args
<1> QED BY <1>8, <1>10, <1>11 DEF RoundTrip, decoded, bytes
-----------------------------------------------------------------------------
(* What holds of the messages of the system.  The hypotheses are about the *)
(* messages that are sent, which the transport does not choose.            *)

\* The messages are those of the protocol, with arguments in the ranges of their types.
SentProper == \A d \in Directions : \A i \in DOMAIN sent[d] : Proper(sent[d][i])

\* The master sends a page only behind its answer to CONNECT.
PageAfterAck ==
  \A i \in DOMAIN sent["down"] :
    sent["down"][i].type = GIVEPAGE => \E j \in 1..(i - 1) : sent["down"][j].type = CONNECT_ACK

\* The page of an address is the one lock_page and unlock_page send, and the address is
\* in the memory.
SentPages ==
  \A d \in Directions : \A i \in DOMAIN sent[d] :
    sent[d][i].addr # NIL => /\ sent[d][i].addr \in 0..(PageCount * PageSize - 1)
                             /\ sent[d][i].args[KeyPAGEID] = get_page_from_addr(sent[d][i].addr)

\* What was received is what was sent, and a receiver that has the answer to CONNECT has
\* its memory set up.
Delivered ==
  /\ \A d \in Directions : \A i \in DOMAIN received[d] :
       received[d][i].type = sent[d][i].type /\ received[d][i].args = sent[d][i].args
  /\ mem["up"]
  /\ \A i \in DOMAIN received["down"] : received["down"][i].type = CONNECT_ACK => mem["down"]
\* The body that dsm_receive takes is that of the next message.
LEMMA NextBody ==
    ASSUME FrameInv, NEW d \in Directions, expecting[d] # NIL, ~garbled[d], Available(d) >= expecting[d],
           Head(wire[d]).kind = "body"
    PROVE  /\ Len(received[d]) + 1 \in DOMAIN sent[d]
           /\ Head(wire[d]) = BodyOf(sent[d][Len(received[d]) + 1])
<1>1. FrameTypes
  BY DEF FrameInv
<1>2. /\ wire[d] # <<>> /\ Unread(d) > 0
      /\ Head(wire[d]) = BodyOf(UnreadMsg(d, 1)) \/ Broken(d)
  BY BodyToReceive
<1>3. /\ Len(wire[d]) > 0 /\ Unread(d) \in Nat /\ DOMAIN wire[d] = 1..Len(wire[d]) /\ IsSeq(wire[d])
      /\ Len(wire[d]) \in Nat /\ Len(received[d]) \in Nat /\ Len(sent[d]) = Len(received[d]) + Unread(d)
  BY <1>1, <1>2, FrameNumbers DEF FrameTypes
<1>4. ASSUME Broken(d) PROVE Head(wire[d]) = BodyOf(UnreadMsg(d, 1))
  <2>1. PICK k \in 1..Unread(d) : BrokenAt(d, k)
    BY <1>4 DEF Broken
  <2>2. BodyAt(d, 1) = 1 /\ BodyAt(d, k) = 2 * k - 1
    BY DEF BodyAt, Expecting
  <2>3. Head(wire[d]) = wire[d][1]
    BY <1>2, <1>3, SeqTail
  <2>4. k # 1
    <3> SUFFICES ASSUME k = 1 PROVE FALSE
      OBVIOUS
    <3>1. wire[d][1].kind = "size"
      BY <2>1, <2>2 DEF BrokenAt
    <3> QED BY <2>3, <3>1
  <2>5. 1 \in 1..k /\ 1 < k /\ 1 \in DOMAIN wire[d]
    BY <1>3, <2>4
  <2>6. HasBody(d, 1)
    BY <2>1, <2>5 DEF BrokenAt
  <2> QED BY <2>2, <2>3, <2>5, <2>6 DEF HasBody
<1>5. Head(wire[d]) = BodyOf(sent[d][Len(received[d]) + 1])
  BY <1>2, <1>4 DEF UnreadMsg
<1>6. DOMAIN sent[d] = 1..Len(sent[d])
  BY <1>1, SeqLen DEF FrameTypes
<1>7. Len(received[d]) + 1 \in DOMAIN sent[d]
  BY <1>2, <1>3, <1>6
<1> QED BY <1>5, <1>7

\* The messages already sent stay as they are: dsm_send_msg only adds to them.
LEMMA SentKept ==
    ASSUME FrameInv, [Next]_vars, NEW d \in Directions, NEW i \in DOMAIN sent[d]
    PROVE  i \in DOMAIN sent'[d] /\ sent'[d][i] = sent[d][i]
<1>1. FrameTypes /\ IsSeq(sent[d])
  BY DEF FrameInv, FrameTypes
<1>2. CASE sent' = sent
  BY <1>2
<1>3. ASSUME NEW t \in Threads, NEW msg, SendSize(t, msg)
      PROVE  i \in DOMAIN sent'[d] /\ sent'[d][i] = sent[d][i]
  <2>1. sent' = [sent EXCEPT ![DirOf(t)] = Append(sent[DirOf(t)], msg)]
    BY <1>1, <1>3, SendSizeTypes
  <2>2. sent'[d] = sent[d] \/ sent'[d] = Append(sent[d], msg)
    BY <1>1, <2>1 DEF FrameTypes
  <2>3. i \in DOMAIN Append(sent[d], msg) /\ Append(sent[d], msg)[i] = sent[d][i]
    BY <1>1, SeqAppend, SeqLen
  <2> QED BY <2>2, <2>3
<1>4. CASE UNCHANGED vars
  BY <1>2, <1>4 DEF vars
<1>5. CASE Next
  BY <1>2, <1>3, <1>5 DEF Next, SendBody, ReceiveSize, ReceiveBody
<1> QED BY <1>4, <1>5
\* A received message is recorded as it was sent; and with the answer to CONNECT the
\* slave has its memory.
LEMMA DeliveredStep ==
    ASSUME FrameInv, SentProper, Delivered, [Next]_vars
    PROVE  Delivered'
<1>1. FrameTypes
  BY DEF FrameInv
<1>2. "up" \in Directions /\ "down" \in Directions /\ "up" # "down"
  BY DEF Directions
<1>3. ASSUME NEW d \in Directions, NEW i \in DOMAIN received[d]
      PROVE  sent'[d][i] = sent[d][i]
  <2>1. DOMAIN received[d] = 1..Len(received[d]) /\ DOMAIN sent[d] = 1..Len(sent[d])
    BY <1>1, SeqLen DEF FrameTypes
  <2>2. i \in DOMAIN sent[d]
    BY <1>1, <2>1, FrameNumbers DEF FrameTypes
  <2> QED BY <2>2, SentKept
<1>4. ASSUME received' = received, mem' = mem PROVE Delivered'
  <2>1. \A d \in Directions : \A i \in DOMAIN received'[d] :
          received'[d][i].type = sent'[d][i].type /\ received'[d][i].args = sent'[d][i].args
    BY <1>3, <1>4 DEF Delivered
  <2> QED BY <1>4, <2>1 DEF Delivered
<1>5. ASSUME NEW d \in Directions, ReceiveBody(d) PROVE Delivered'
  <2> DEFINE dec == Decoded(Head(wire[d]).bytes)
             n == Len(received[d]) + 1
  <2>1. /\ expecting[d] # NIL /\ ~garbled[d] /\ Available(d) >= expecting[d] /\ sent' = sent
        /\ \/ /\ Head(wire[d]).kind = "body"
              /\ received' = [received EXCEPT ![d] = IF dec.ok THEN Append(received[d], dec.msg) ELSE received[d]]
              /\ mem' = [mem EXCEPT ![d] = mem[d] \/ dec.msg.type = CONNECT_ACK]
           \/ received' = received /\ mem' = mem
    BY <1>5, Zenon DEF ReceiveBody
  <2>2. CASE received' = received /\ mem' = mem
    BY <1>4, <2>2
  <2>3. CASE /\ Head(wire[d]).kind = "body"
             /\ received' = [received EXCEPT ![d] = IF dec.ok THEN Append(received[d], dec.msg) ELSE received[d]]
             /\ mem' = [mem EXCEPT ![d] = mem[d] \/ dec.msg.type = CONNECT_ACK]
    <3>1. n \in DOMAIN sent[d] /\ Head(wire[d]) = BodyOf(sent[d][n])
      BY <2>1, <2>3, NextBody
    <3>2. RoundTrip(sent[d][n])
      BY <3>1, RoundTripCorrect DEF SentProper
    <3>3. dec.ok /\ dec.msg.type = sent[d][n].type /\ dec.msg.args = sent[d][n].args
      BY <3>1, <3>2 DEF RoundTrip
    <3> HIDE DEF dec
    <3>4. /\ received'[d] = Append(received[d], dec.msg)
          /\ \A e \in Directions : e # d => received'[e] = received[e]
      BY <1>1, <2>3, <3>3 DEF FrameTypes
    <3>5. /\ mem'[d] <=> mem[d] \/ dec.msg.type = CONNECT_ACK
          /\ \A e \in Directions : e # d => mem'[e] = mem[e]
      BY <1>1, <2>3 DEF FrameTypes
    <3>6. /\ IsSeq(received[d]) /\ Len(received[d]) \in Nat
          /\ DOMAIN received[d] = 1..Len(received[d]) /\ DOMAIN Append(received[d], dec.msg) = 1..n
      <4>1. IsSeq(received[d])
        BY <1>1 DEF FrameTypes
      <4>2. IsSeq(Append(received[d], dec.msg)) /\ Len(Append(received[d], dec.msg)) = n
        BY <4>1, SeqAppend
      <4> QED BY <4>1, <4>2, SeqLen
    <3>7. ASSUME NEW i \in DOMAIN received'[d]
          PROVE  (i \in DOMAIN received[d] /\ received'[d][i] = received[d][i]) \/ (i = n /\ received'[d][i] = dec.msg)
      <4>1. /\ \A j \in 1..Len(received[d]) : Append(received[d], dec.msg)[j] = received[d][j]
            /\ Append(received[d], dec.msg)[n] = dec.msg
        BY <3>6, SeqAppend
      <4>2. i \in 1..n
        BY <3>4, <3>6
      <4>3. CASE i = n
        BY <3>4, <4>1, <4>3
      <4>4. CASE i # n
        <5>1. i \in 1..Len(received[d])
          BY <3>6, <4>2, <4>4
        <5> QED BY <3>4, <3>6, <4>1, <5>1
      <4> QED BY <4>3, <4>4
    <3> HIDE DEF n
    <3>8. ASSUME NEW e \in Directions, NEW i \in DOMAIN received'[e]
          PROVE  received'[e][i].type = sent'[e][i].type /\ received'[e][i].args = sent'[e][i].args
      <4>1. CASE e = d
        BY <2>1, <3>3, <3>7, <4>1 DEF Delivered
      <4>2. CASE e # d
        BY <2>1, <3>4, <4>2 DEF Delivered
      <4> QED BY <4>1, <4>2
    <3>9. mem'["up"]
      BY <1>2, <3>5 DEF Delivered
    <3>10. ASSUME NEW i \in DOMAIN received'["down"], received'["down"][i].type = CONNECT_ACK
           PROVE  mem'["down"]
      <4>1. CASE d = "down"
        BY <3>5, <3>7, <3>10, <4>1 DEF Delivered
      <4>2. CASE d # "down"
        BY <1>2, <3>4, <3>5, <3>10, <4>2 DEF Delivered
      <4> QED BY <4>1, <4>2
    <3> QED BY <3>8, <3>9, <3>10 DEF Delivered
  <2> QED BY <2>1, <2>2, <2>3
<1>6. CASE UNCHANGED vars
  BY <1>4, <1>6 DEF vars
<1>7. CASE Next
  BY <1>4, <1>5, <1>7, Zenon DEF Next, SendSize, SendBody, ReceiveSize
<1> QED BY <1>6, <1>7

\* Nothing is received at first.
LEMMA DeliveredInit == Init => Delivered
<1> SUFFICES ASSUME Init PROVE Delivered
  OBVIOUS
<1>1. \A d \in Directions : received[d] = <<>>
  BY DEF Init
<1>2. mem["up"]
  BY DEF Init, Directions
<1>3. "down" \in Directions /\ DOMAIN <<>> = {}
  BY DEF Directions
<1> QED BY <1>1, <1>2, <1>3 DEF Delivered

\* What dsm_receive decodes is, message by message, what dsm_send_msg was given, if the
\* messages sent are those of the protocol.
THEOREM DeliveredCorrect == Spec /\ []SentProper => []Delivered
BY DeliveredInit, DeliveredStep, FrameCorrect, PTL DEF Spec

\* What arrives is what was sent, in order and with every argument, if the messages
\* sent are those of the protocol.
THEOREM MessagesSurviveCorrect == Spec /\ []SentProper => []MessagesSurvive
<1>1. FrameInv /\ Delivered => MessagesSurvive
  BY DEF FrameInv, FrameTypes, Delivered, MessagesSurvive
<1> QED BY <1>1, FrameCorrect, DeliveredCorrect, PTL
\* The arguments of a message of the protocol are unsigned.
LEMMA ProperUnsigned ==
    ASSUME NEW m, Proper(m), NEW k \in DOMAIN m.args
    PROVE  m.args[k] \in Nat
<1> DEFINE keys == {f[1] : f \in FieldsOf(m.type)}
<1>1. PICK f \in FieldsOf(m.type) : f[1] = k
  <2>1. m.args = [q \in keys |-> m.args[q]]
    BY DEF Proper
  <2>2. DOMAIN m.args = keys
    BY <2>1
  <2> QED BY <2>2
<1>2. m.args[k] \in Carried(f[2])
  BY <1>1 DEF Proper
<1>3. MaxOf(BINN_INT32) \in Int /\ MaxOf(BINN_UINT16) \in Int
  BY MessageInts, IntWidth, SetterFamilies DEF MaxOf
<1> QED BY <1>2, <1>3 DEF Carried

\* The variables keep their types, and the arguments that arrive are unsigned, if the
\* messages sent are those of the protocol.
THEOREM TypeCorrect == Spec /\ []SentProper => []TypeOK
<1>1. ASSUME FrameInv, Delivered, SentProper PROVE TypeOK
  <2>1. FrameTypes
    BY <1>1 DEF FrameInv
  <2>2. ASSUME NEW d \in Directions, NEW i \in DOMAIN received[d], NEW k \in DOMAIN received[d][i].args
        PROVE  received[d][i].args[k] \in Nat
    <3>1. DOMAIN received[d] = 1..Len(received[d]) /\ DOMAIN sent[d] = 1..Len(sent[d])
      BY <2>1, SeqLen DEF FrameTypes
    <3>2. i \in DOMAIN sent[d]
      BY <2>1, <3>1, FrameNumbers DEF FrameTypes
    <3>3. received[d][i].args = sent[d][i].args
      BY <1>1 DEF Delivered
    <3>4. Proper(sent[d][i])
      BY <1>1, <3>2 DEF SentProper
    <3> QED BY <2>2, <3>3, <3>4, ProperUnsigned
  <2> QED BY <2>1, <2>2 DEF FrameTypes, TypeOK
<1>2. FrameInv /\ Delivered /\ SentProper => TypeOK
  BY <1>1
<1> QED BY <1>2, FrameCorrect, DeliveredCorrect, PTL

\* The size that dsm_receive reads is that of the next message.
LEMMA NextSize ==
    ASSUME FrameInv, NEW d \in Directions, expecting[d] = NIL, ~garbled[d], ~stopped[d], wire[d] # <<>>
    PROVE  /\ Len(received[d]) + 1 \in DOMAIN sent[d]
           /\ Head(wire[d]).n = Encoded(sent[d][Len(received[d]) + 1]).size
<1>1. FrameTypes /\ (Framed(d) \/ Broken(d))
  BY DEF FrameInv, Frame
<1>2. /\ Len(wire[d]) > 0 /\ Unread(d) \in Nat /\ DOMAIN wire[d] = 1..Len(wire[d]) /\ IsSeq(wire[d])
      /\ Len(wire[d]) \in Nat /\ Len(received[d]) \in Nat /\ Len(sent[d]) = Len(received[d]) + Unread(d)
  BY <1>1, FrameNumbers DEF FrameTypes
<1>3. Expecting(d) = 0 /\ SizeAt(d, 1) = 1 /\ 1 \in DOMAIN wire[d]
  BY <1>2 DEF SizeAt, Expecting
<1>4. Len(received[d]) + 1 \in DOMAIN sent[d] <=> Unread(d) > 0
  <2>1. DOMAIN sent[d] = 1..Len(sent[d])
    BY <1>1, SeqLen DEF FrameTypes
  <2> QED BY <1>2, <2>1
<1>5. CASE Framed(d)
  <2>1. Unread(d) > 0
    BY <1>2, <1>3, <1>5 DEF Framed, BodyAt
  <2>2. HasSize(d, 1)
    BY <1>2, <1>5, <2>1 DEF Framed
  <2> QED BY <1>2, <1>3, <1>4, <2>1, <2>2, SeqTail, MessageChunks DEF HasSize, UnreadMsg
<1>6. CASE Broken(d)
  <2>1. PICK k \in 1..Unread(d) : BrokenAt(d, k)
    BY <1>6 DEF Broken
  <2>2. Unread(d) > 0 /\ 1 \in 1..k
    BY <1>2, <2>1
  <2>3. HasSize(d, 1)
    BY <2>1, <2>2 DEF BrokenAt
  <2> QED BY <1>2, <1>3, <1>4, <2>2, <2>3, SeqTail, MessageChunks DEF HasSize, UnreadMsg
<1> QED BY <1>1, <1>5, <1>6
\* What dsm_receive has read when it decides on a size: no more than MessageMax says, and
\* a page only if its memory is set up.
LEMMA SizeReadFits ==
    ASSUME MIN_BUFFERSIZE >= MAX_BINN_HEADER + 4 * EntryMax, FrameInv, Delivered, PageAfterAck,
           NEW d \in Directions, expecting[d] = NIL, ~garbled[d], ~stopped[d], wire[d] # <<>>
    PROVE  Head(wire[d]).n <= BufferSize(d)
<1> DEFINE n == Len(received[d]) + 1
           m == sent[d][n]
<1>1. /\ FrameTypes /\ IsSeq(received[d]) /\ Len(received[d]) \in Nat
      /\ DOMAIN received[d] = 1..Len(received[d])
  BY FrameNumbers, SeqLen DEF FrameInv, FrameTypes
<1>2. n \in DOMAIN sent[d] /\ Head(wire[d]).n = Encoded(m).size
  BY NextSize
<1>3. Encoded(m).size \in Nat /\ Encoded(m).size <= MessageMax(m)
  BY EncodedSize
<1>4. ASSUME m.type = GIVEPAGE PROVE mem[d]
  <2>1. d = "up" \/ d = "down"
    BY DEF Directions
  <2>2. CASE d = "up"
    BY <2>2 DEF Delivered
  <2>3. CASE d = "down"
    <3>1. PICK j \in 1..(n - 1) : sent["down"][j].type = CONNECT_ACK
      BY <1>2, <1>4, <2>3 DEF PageAfterAck
    <3>2. j \in DOMAIN received["down"]
      BY <1>1, <2>3, <3>1
    <3>3. received["down"][j].type = CONNECT_ACK
      BY <2>3, <3>1, <3>2 DEF Delivered
    <3> QED BY <2>3, <3>2, <3>3 DEF Delivered
  <2> QED BY <2>1, <2>2, <2>3
<1> HIDE DEF m, n
<1>5. MessageMax(m) <= BufferSize(d)
  <2>1. PageSize \in Nat /\ MIN_BUFFERSIZE \in Nat /\ MAX_BINN_HEADER + 4 * EntryMax \in Nat
    BY PageSizeNat DEF MAX_BINN_HEADER, EntryMax
  <2>2. CASE m.type = GIVEPAGE
    BY <1>4, <2>1, <2>2 DEF MessageMax, BufferSize
  <2>3. CASE m.type # GIVEPAGE
    BY <2>1, <2>3 DEF MessageMax, BufferSize
  <2> QED BY <2>2, <2>3
<1>6. MessageMax(m) \in Nat /\ BufferSize(d) \in Nat
  BY PageSizeNat DEF MessageMax, BufferSize, MAX_BINN_HEADER, EntryMax
<1> QED BY <1>2, <1>3, <1>5, <1>6

\* A receiver that gives up does so on a garbled connection.
LEMMA NobodyGivesUpStep ==
    ASSUME MIN_BUFFERSIZE >= MAX_BINN_HEADER + 4 * EntryMax, FrameInv, Delivered, SentProper, PageAfterAck,
           NobodyGivesUp, [Next]_vars
    PROVE  NobodyGivesUp'
<1>1. FrameTypes
  BY DEF FrameInv
<1>2. ASSUME garbled' = garbled, stopped' = stopped PROVE NobodyGivesUp'
  BY <1>2 DEF NobodyGivesUp
<1>3. ASSUME NEW d \in Directions, ReceiveSize(d) PROVE NobodyGivesUp'
  <2>1. Head(wire[d]).n <= BufferSize(d) /\ Head(wire[d]).n \in Nat
    <3>1. expecting[d] = NIL /\ ~garbled[d] /\ ~stopped[d] /\ wire[d] # <<>>
      BY <1>3 DEF ReceiveSize
    <3> QED BY <3>1, SizeReadFits, NextSize, EncodedSize
  <2>2. BufferSize(d) \in Nat
    BY PageSizeNat DEF BufferSize
  <2>3. ~(Head(wire[d]).n > BufferSize(d))
    BY <2>1, <2>2
  <2>4. garbled' = garbled /\ stopped' = stopped
    BY <1>3, <2>3, Zenon DEF ReceiveSize
  <2> QED BY <1>2, <2>4
<1>4. ASSUME NEW d \in Directions, ReceiveBody(d) PROVE NobodyGivesUp'
  <2> DEFINE dec == Decoded(Head(wire[d]).bytes)
             n == Len(received[d]) + 1
  <2>1. /\ expecting[d] # NIL /\ ~garbled[d] /\ Available(d) >= expecting[d]
        /\ \/ /\ Head(wire[d]).kind = "body" /\ garbled' = garbled
              /\ stopped' = [stopped EXCEPT ![d] = ~dec.ok]
           \/ /\ garbled' = [garbled EXCEPT ![d] = TRUE] /\ stopped' = stopped
    BY <1>4, Zenon DEF ReceiveBody
  <2>2. CASE garbled' = [garbled EXCEPT ![d] = TRUE] /\ stopped' = stopped
    BY <1>1, <2>2 DEF FrameTypes, NobodyGivesUp
  <2>3. CASE Head(wire[d]).kind = "body" /\ garbled' = garbled /\ stopped' = [stopped EXCEPT ![d] = ~dec.ok]
    <3>1. n \in DOMAIN sent[d] /\ Head(wire[d]) = BodyOf(sent[d][n])
      BY <2>1, <2>3, NextBody
    <3>2. RoundTrip(sent[d][n])
      BY <3>1, RoundTripCorrect DEF SentProper
    <3>3. dec.ok
      BY <3>1, <3>2 DEF RoundTrip
    <3> HIDE DEF dec
    <3> QED BY <1>1, <2>3, <3>3 DEF FrameTypes, NobodyGivesUp
  <2> QED BY <2>1, <2>2, <2>3
<1>5. CASE UNCHANGED vars
  BY <1>2, <1>5 DEF vars
<1>6. CASE Next
  BY <1>2, <1>3, <1>4, <1>6, Zenon DEF Next, SendSize, SendBody
<1> QED BY <1>5, <1>6

\* With a buffer of 89 bytes besides a page (the code has 512), no message the system sends
\* is too big for its receiver, if the messages sent are those of the protocol and the
\* master sends no page to a slave before the answer to its CONNECT.
THEOREM NobodyGivesUpCorrect ==
    ASSUME MIN_BUFFERSIZE >= MAX_BINN_HEADER + 4 * EntryMax
    PROVE  Spec /\ []SentProper /\ []PageAfterAck => []NobodyGivesUp
<1>1. Init => NobodyGivesUp
  BY DEF Init, NobodyGivesUp
<1>2. /\ FrameInv /\ Delivered /\ SentProper /\ PageAfterAck /\ NobodyGivesUp /\ [Next]_vars
      => NobodyGivesUp'
  BY NobodyGivesUpStep
<1> QED BY <1>1, <1>2, FrameCorrect, DeliveredCorrect, PTL DEF Spec
\* Page identifiers fit the unsigned int that get_page_from_id takes.
LEMMA IdentifiersFit ==
    /\ PageCount \in Nat \ {0} /\ 2 ^ BitsOf(BINN_UINT32) \in Nat
    /\ PageCount <= 2 ^ BitsOf(BINN_UINT32)
<1> DEFINE b == IntBits[96]
<1>1. BitsOf(BINN_UINT32) = b /\ BitsOf(BINN_INT32) = b
  BY DEF BitsOf, binn_get_type_info, ShortTypeStorage, BINN_UINT32, BINN_INT32
<1>2. b \in Nat \ {0}
  BY WidthsAssumption
<1>3. PageCount \in 1..(2 ^ (b - 1) - 1)
  BY <1>1, MemoryAssumption DEF MaxOf, SignedInts
<1> HIDE DEF b
<1> DEFINE p == 2 ^ (b - 1)
           q == 2 ^ b
<1>4. b - 1 \in Nat /\ b - 1 <= b
  BY <1>2
<1>5. p \in Nat /\ q \in Nat /\ p <= q
  BY <1>2, <1>4, PowerCounts, PowerGrows
<1>6. PageCount \in 1..(p - 1)
  BY <1>3
<1> HIDE DEF p, q
<1>7. PageCount \in Nat \ {0} /\ PageCount <= q
  BY <1>5, <1>6
<1> QED BY <1>1, <1>5, <1>7 DEF q

\* The page of an address in the memory: get_page_from_addr finds it, and its bytes are
\* those from page_base_addr on.
LEMMA PageOfAddr ==
    ASSUME NEW addr \in 0..(PageCount * PageSize - 1)
    PROVE  LET page == get_page_from_id(get_page_from_addr(addr))
           IN  page # NIL /\ addr \in page_base_addr(page)..(page_base_addr(page + 1) - 1)
<1> DEFINE q == addr \div PageSize
<1>1. /\ PageSize \in Nat \ {0} /\ PageCount \in Nat \ {0}
      /\ 2 ^ BitsOf(BINN_UINT32) \in Nat /\ PageCount <= 2 ^ BitsOf(BINN_UINT32)
  BY PageSizeNat, IdentifiersFit
<1>2. q \in Nat /\ q * PageSize <= addr /\ addr < (q + 1) * PageSize
  BY <1>1
<1>3. q < PageCount
  <2> SUFFICES ASSUME q >= PageCount PROVE FALSE
    BY <1>1, <1>2
  <2>1. q * PageSize >= PageCount * PageSize
    BY <1>1, <1>2
  <2> QED BY <1>1, <1>2, <2>1
<1>4. ASSUME NEW id \in Nat, id < PageCount PROVE get_page_from_id(id) = id
  <2>1. Cast(BINN_UINT32, id) = id % 2 ^ BitsOf(BINN_UINT32)
    BY DEF Cast, ReadInt, SignedInts, BINN_UINT32, BINN_INT8, BINN_INT16, BINN_INT32, BINN_INT64
  <2>2. id % 2 ^ BitsOf(BINN_UINT32) = id
    BY <1>1, <1>4
  <2> QED BY <1>1, <1>4, <2>1, <2>2 DEF get_page_from_id
<1> HIDE DEF q
<1>5. get_page_from_addr(addr) = q /\ get_page_from_id(q) = q
  BY <1>2, <1>3, <1>4 DEF get_page_from_addr, q
<1>6. q # NIL
  BY <1>2 DEF NIL
<1> QED BY <1>1, <1>2, <1>5, <1>6 DEF page_base_addr

\* The page that a handler finds for a page identifier it received is the page of the
\* address the sending application gave, if the messages sent are those of the protocol and
\* the addresses are in the memory; identifiers are 32 bits wide.
THEOREM SamePageBothEndsCorrect == Spec /\ []SentProper /\ []SentPages => []SamePageBothEnds
<1>1. ASSUME FrameInv, Delivered, SentPages PROVE SamePageBothEnds
  <2> SUFFICES ASSUME NEW d \in Directions, NEW i \in DOMAIN received[d], sent[d][i].addr # NIL
               PROVE  LET page == get_page_from_id(received[d][i].args[KeyPAGEID])
                      IN  page # NIL /\ sent[d][i].addr \in page_base_addr(page)..(page_base_addr(page + 1) - 1)
    BY DEF SamePageBothEnds
  <2>1. i \in DOMAIN sent[d]
    <3>1. FrameTypes
      BY <1>1 DEF FrameInv
    <3>2. DOMAIN received[d] = 1..Len(received[d]) /\ DOMAIN sent[d] = 1..Len(sent[d])
      BY <3>1, SeqLen DEF FrameTypes
    <3> QED BY <3>1, <3>2, FrameNumbers DEF FrameTypes
  <2>2. /\ sent[d][i].addr \in 0..(PageCount * PageSize - 1)
        /\ sent[d][i].args[KeyPAGEID] = get_page_from_addr(sent[d][i].addr)
    BY <1>1, <2>1 DEF SentPages
  <2>3. received[d][i].args = sent[d][i].args
    BY <1>1 DEF Delivered
  <2> QED BY <2>2, <2>3, PageOfAddr
<1>2. FrameInv /\ Delivered /\ SentPages => SamePageBothEnds
  BY <1>1
<1> QED BY <1>2, FrameCorrect, DeliveredCorrect, PTL
=============================================================================
