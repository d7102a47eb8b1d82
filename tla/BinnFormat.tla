----------------------------- MODULE BinnFormat -----------------------------
(***************************************************************************)
(* The buffers of binn.c as pure operators: the writers that append to a   *)
(* container and the readers that walk it.                                 *)
(*                                                                         *)
(* A buffer is a sparse function from byte offsets to fields.  A field has *)
(* its width in bytes, so offsets are the real byte counts of the code;    *)
(* what a field holds is one number.  Writers and readers compute their    *)
(* widths independently: when they disagree the reader meets an offset     *)
(* where no field starts and reads Garbage.                                *)
(***************************************************************************)
EXTENDS BinnTypes, SequencesExt

CONSTANTS
  ShortMax,     \* largest length that fits one byte with the high bit clear (127)
  CHUNK_SIZE,   \* first allocation (256)
  MaxKeyLen,    \* longest key (255)
  KeyText,      \* key -> its characters, a sequence
  Lower,        \* character -> its lower case form (strnicmp)
  StrLen        \* string or blob content -> strlen of it

NIL == -1                  \* the null pointer
MIN_BINN_SIZE == 3
MAX_BINN_HEADER == 9       \* [1:type][4:size][4:count]

\* A new block has room for a header; a key is its text, and texts have a length.
ASSUME FormatAssumption ==
  /\ ShortMax \in Nat \ {0} /\ MaxKeyLen \in Nat
  /\ CHUNK_SIZE \in Nat /\ CHUNK_SIZE >= MAX_BINN_HEADER
  /\ \A k \in DOMAIN KeyText : KeyText[k] \in Seq(DOMAIN Lower)
  /\ \A k, l \in DOMAIN KeyText : KeyText[k] = KeyText[l] => k = l
  /\ \A c \in DOMAIN StrLen : StrLen[c] \in Nat

-----------------------------------------------------------------------------
(* Fields and buffers.                                                     *)

Field(kind, w, n) == [kind |-> kind, w |-> w, n |-> n, hi |-> FALSE]
Garbage == Field("garbage", 1, 0)
At(buf, p) == IF p \in DOMAIN buf THEN buf[p] ELSE Garbage

\* One byte has its high bit set when it is above ShortMax; four bytes have it
\* set by size | 0x80000000.
OneByte(n) == [Field("len", 1, n) EXCEPT !.hi = n > ShortMax]
FourBytes(n) == [Field("len", 4, n) EXCEPT !.hi = TRUE]

\* Mutant: the limit of one byte is off by one.
LenFieldLate(n) == IF n > ShortMax + 1 THEN FourBytes(n) ELSE OneByte(n)

\* A length, size or count as the writers store it.
LenField(n) == IF n > ShortMax THEN FourBytes(n) ELSE OneByte(n)

\* The readers' side: the high bit decides how many bytes the length takes.
ReadLen(buf, p) == [n |-> At(buf, p).n, next |-> p + IF At(buf, p).hi THEN 4 ELSE 1]

\* Writing a field overwrites the fields that started in its bytes.
Put(mem, p, f) ==
  [o \in (DOMAIN mem \ (p..(p + f.w - 1))) \cup {p} |-> IF o = p THEN f ELSE mem[o]]

\* memcpy of a buffer of n bytes to offset p.
PutBuffer(mem, p, buf, n) ==
  LET there == {p + o : o \in DOMAIN buf}
  IN  [o \in (DOMAIN mem \ (p..(p + n - 1))) \cup there |-> IF o \in there THEN buf[o - p] ELSE mem[o]]

\* The bytes from offset p on, n of them.
Slice(mem, p, n) ==
  [o \in {d - p : d \in {e \in DOMAIN mem : e >= p /\ e < p + n}} |-> mem[o + p]]

-----------------------------------------------------------------------------
(* Writers.  An item is the binn structure; pbuf names the memory block of *)
(* its buffer and ptr the place of the header that was last saved.         *)

Refused(item) == [ok |-> FALSE, item |-> item]
Accepted(item) == [ok |-> TRUE, item |-> item]

binn_create(type) ==
  [type |-> type, writable |-> TRUE, dirty |-> TRUE, pbuf |-> 1, alloc_size |-> CHUNK_SIZE,
   used_size |-> MAX_BINN_HEADER, count |-> 0, size |-> 0, ptr |-> [block |-> 0, off |-> 0],
   mem |-> <<>>]

CalcAllocation(needed_size, alloc_size) ==
  alloc_size * 2 ^ (CHOOSE k \in 0..needed_size :
    alloc_size * 2 ^ k >= needed_size /\ \A j \in 0..(k - 1) : alloc_size * 2 ^ j < needed_size)

\* CheckAllocation: realloc gives a new block.
CheckAllocation(item, add_size) ==
  IF item.used_size + add_size <= item.alloc_size THEN item
  ELSE [item EXCEPT !.alloc_size = CalcAllocation(item.used_size + add_size, @), !.pbuf = @ + 1]

\* Mutant: an empty field is written too.
AppendFieldsRaw(item, fields) ==
  FoldLeft(LAMBDA it, f : [it EXCEPT !.mem = Put(it.mem, it.used_size, f), !.used_size = @ + f.w],
           item, fields)

\* A field written at used_size; one without bytes leaves no trace.
AppendField(item, f) ==
  IF f.w = 0 THEN item
  ELSE [item EXCEPT !.mem = Put(item.mem, item.used_size, f), !.used_size = @ + f.w]

\* Appends fields at used_size.
AppendFields(item, fields) ==
  LET after[i \in 0..Len(fields)] ==
        IF i = 0 THEN item ELSE AppendField(after[i - 1], fields[i])
  IN  after[Len(fields)]

\* The bytes of a fixed-size value; -1 for the variable ones.
FixedSize(storage) ==
  CASE storage = STORAGE_NOBYTES -> 0 [] storage = STORAGE_BYTE -> 1 [] storage = STORAGE_WORD -> 2
    [] storage = STORAGE_DWORD -> 4 [] storage = STORAGE_QWORD -> 8 [] OTHER -> -1

\* The fields AddValue writes after the type byte.
Payload(storage, n, size) ==
  CASE FixedSize(storage) >= 0 -> <<Field("data", FixedSize(storage), n)>>
    [] storage = STORAGE_BLOB -> <<Field("int", 4, size), Field("data", size, n)>>
    [] storage = STORAGE_STRING -> <<LenField(size), Field("data", size, n), Field("data", 1, 0)>>
    [] OTHER -> <<>>

\* A value to store: null is (pvalue == NULL), sub the buffer of a container.
Value(n, size) == [n |-> n, size |-> size, null |-> FALSE, sub |-> <<>>]

\* Mutant: no bytes for the type.
ArgSizeNoType(storage, size) ==
  CASE FixedSize(storage) >= 0 -> FixedSize(storage)
    [] storage = STORAGE_BLOB -> size + 4
    [] storage = STORAGE_STRING -> size + 5
    [] OTHER -> size

\* The bytes AddValue asks CheckAllocation for: the value and two for the type.
ArgSize(storage, size) ==
  2 + CASE FixedSize(storage) >= 0 -> FixedSize(storage)
        [] storage = STORAGE_BLOB -> size + 4
        [] storage = STORAGE_STRING -> size + 5
        [] OTHER -> size

\* Mutant: the structure is not marked dirty.
WriteClean(item, type, storage, v, size) ==
  IF storage = STORAGE_CONTAINER
  THEN [item EXCEPT !.mem = PutBuffer(@, item.used_size, Slice(v.sub, 0, size), size), !.used_size = @ + size]
  ELSE AppendFields(item, <<Field("type", IF type > 255 THEN 2 ELSE 1, type)>> \o Payload(storage, v.n, size))

\* The type's bytes and the value's behind used_size, in a block with room for them.
Write(item, type, storage, v, size) ==
  [(IF storage = STORAGE_CONTAINER
    THEN [item EXCEPT !.mem = PutBuffer(@, item.used_size, Slice(v.sub, 0, size), size), !.used_size = @ + size]
    ELSE AppendFields(item, <<Field("type", IF type > 255 THEN 2 ELSE 1, type)>> \o Payload(storage, v.n, size)))
   EXCEPT !.dirty = TRUE]

\* AddValue once the storage is known: an unusable size or storage is refused.
Store(item, type, storage, v, size) ==
  IF \/ storage \in {STORAGE_BLOB, STORAGE_STRING} /\ v.size < 0
     \/ storage = STORAGE_CONTAINER /\ v.size <= 0
     \/ storage = -1
  THEN Refused(item)
  ELSE Accepted(Write(CheckAllocation(item, ArgSize(storage, size)), type, storage, v, size))

\* An integer, in the type compress_int chose for it.
StoreInt(item, type, v) ==
  Store(item, type, binn_get_write_storage(type), [v EXCEPT !.n = @ % 2 ^ BitsOf(type)], v.size)

StoreOther(item, type, storage, v) ==
  Store(item, type, storage, v,
        IF storage = STORAGE_STRING /\ v.size = 0 /\ ~v.null THEN StrLen[v.n] ELSE v.size)

NullRefused(storage, size) ==
  storage # STORAGE_NOBYTES /\ ~(storage \in {STORAGE_BLOB, STORAGE_STRING} /\ size = 0)

AddValue(item, type, v) ==
  IF v.null /\ NullRefused(binn_get_type_info(type), v.size) THEN Refused(item)
  ELSE IF type_family(type) = "INT" THEN StoreInt(item, compress_int(type, v.n), v)
  ELSE StoreOther(item, type, binn_get_type_info(type), v)

\* binn_save_header: written backwards from the first byte of data.
HeaderAt(item, count, size) ==
  LET ps == MAX_BINN_HEADER - count.w - size.w
  IN  [item EXCEPT !.mem = Put(Put(Put(@, ps + size.w, count), ps, size), ps - 1, Field("type", 1, item.type)),
                   !.ptr = [block |-> item.pbuf, off |-> ps - 1],
                   !.size = size.n,
                   !.dirty = FALSE]
Widened(f) == [f EXCEPT !.n = @ + f.w - 1]       \* size += 3 when it takes four bytes
SavedWithCount(item, count) ==
  HeaderAt(item, count, Widened(LenField(item.used_size - MAX_BINN_HEADER + 3 + (count.w - 1))))
binn_save_header(item) == SavedWithCount(item, LenField(item.count))

\* What binn_ptr and binn_size do to a structure.
binn_ptr(item) == IF item.writable /\ item.dirty THEN binn_save_header(item) ELSE item

\* The bytes behind the pointer binn_ptr returns (garbage when the block is gone).
BufferOf(item) ==
  IF item.ptr.block = item.pbuf THEN Slice(item.mem, item.ptr.off, item.alloc_size) ELSE <<>>

-----------------------------------------------------------------------------
(* Readers.                                                                *)

\* IsValidBinnHeader.
HeaderFields(type, size, count) ==
  [ok |-> type.kind = "type" /\ type.n \in Containers /\ size.n >= MIN_BINN_SIZE /\ count.n >= 0,
   type |-> type.n, size |-> size.n, count |-> count.n, header_size |-> count.next]
HeaderWithSize(buf, size) == HeaderFields(At(buf, 0), size, ReadLen(buf, size.next))
IsValidBinnHeader(buf) == HeaderWithSize(buf, ReadLen(buf, 1))

\* The offset behind the bytes of the type at p, and of a length and its data.
TypeEnd(buf, p) == p + IF At(buf, p).n > 255 THEN 2 ELSE 1
DataEnd(len) == len.next + len.n

\* Mutant: the null byte behind a string is forgotten.
AdvanceDataPosNoNull(buf, p) ==
  LET ValueEnd(storage, d) ==
        CASE FixedSize(storage) >= 0 -> d + FixedSize(storage)
          [] storage = STORAGE_BLOB -> d + 4 + At(buf, d).n
          [] storage = STORAGE_CONTAINER -> d + At(buf, d).n - 1
          [] OTHER -> DataEnd(ReadLen(buf, d))
  IN  IF At(buf, p).kind # "type" THEN NIL
      ELSE ValueEnd(binn_get_type_info(At(buf, p).n), TypeEnd(buf, p))

\* AdvanceDataPos: the offset behind the value at p, whose bytes start at d.
AdvanceDataPos(buf, p) ==
  LET ValueEnd(storage, d) ==
        CASE FixedSize(storage) >= 0 -> d + FixedSize(storage)
          [] storage = STORAGE_BLOB -> d + 4 + At(buf, d).n
          [] storage = STORAGE_CONTAINER -> d + At(buf, d).n - 1
          [] storage = STORAGE_STRING -> DataEnd(ReadLen(buf, d)) + 1
          [] OTHER -> NIL
  IN  IF At(buf, p).kind # "type" THEN NIL
      ELSE ValueEnd(binn_get_type_info(At(buf, p).n), TypeEnd(buf, p))

\* The offset of an entry's value when the entry starts at p: behind the length
\* byte and the text of an object's key, or the four bytes of a map's id.
ValuePos(buf, type, p) ==
  CASE type = BINN_OBJECT -> p + 1 + At(buf, p).n
    [] type = BINN_MAP -> p + 4
    [] OTHER -> p

\* The entry behind the one at p; an offset behind limit ends the walk.
UpTo(limit, q) == IF q > limit THEN NIL ELSE q
ValueBehind(buf, type, limit, v) == IF type # BINN_LIST /\ v > limit THEN NIL ELSE AdvanceDataPos(buf, v)
NextEntry(buf, type, limit, p) ==
  IF p = NIL THEN NIL ELSE UpTo(limit, ValueBehind(buf, type, limit, ValuePos(buf, type, p)))

\* Where entry i (from 0) starts, NIL when the walk broke off before it: the
\* loops of SearchForKey, SearchForID, binn_read_pair and binn_list_get_value.
EntryPos(buf, type, header_size, limit, numitems) ==
  LET pos[i \in 0..numitems] ==
        IF i = 0 THEN header_size ELSE NextEntry(buf, type, limit, pos[i - 1])
  IN  pos

\* The key or id of the entry at p; a key of length 0 has no text.
KeyAt(buf, type, p) ==
  IF type = BINN_MAP THEN At(buf, p).n
  ELSE IF At(buf, p).n = 0 THEN CHOOSE k \in DOMAIN KeyText : KeyText[k] = <<>>
  ELSE At(buf, p + 1).n

\* strnicmp of len characters: the text of the stored key is not terminated.
SameText(stored, key, len) ==
  /\ Len(key) >= len
  /\ \A i \in 1..len : Lower[stored[i]] = Lower[key[i]]

\* Mutant: the comparison minds the case.
KeyMatchesExact(buf, p, key) ==
  At(buf, p).n = Len(KeyText[key]) /\ (At(buf, p).n > 0 => KeyText[At(buf, p + 1).n] = KeyText[key])

\* An entry's key matches: same text, and same length.
KeyMatches(buf, p, key) ==
  LET len == At(buf, p).n
  IN  /\ len = Len(KeyText[key])
      /\ len > 0 => SameText(KeyText[At(buf, p + 1).n], KeyText[key], len)

\* The value of the first entry whose own bytes are inside and match, or NIL.
Hits(pos, numitems, last, Matches(_)) ==
  {i \in 0..(numitems - 1) : pos[i] # NIL /\ pos[i] <= last /\ Matches(pos[i])}
FirstHit(buf, type, pos, hits) == IF hits = {} THEN NIL ELSE ValuePos(buf, type, pos[Min(hits)])

KeyFound(buf, pos, size, numitems, key) ==
  FirstHit(buf, BINN_OBJECT, pos, Hits(pos, numitems, size - 2, LAMBDA p : KeyMatches(buf, p, key)))
SearchForKey(buf, header_size, size, numitems, key) ==
  KeyFound(buf, EntryPos(buf, BINN_OBJECT, header_size, size - 1, numitems), size, numitems, key)

IDFound(buf, pos, size, numitems, id) ==
  FirstHit(buf, BINN_MAP, pos, Hits(pos, numitems, size - 5, LAMBDA p : At(buf, p).n = id))
SearchForID(buf, header_size, size, numitems, id) ==
  IDFound(buf, EntryPos(buf, BINN_MAP, header_size, size - 1, numitems), size, numitems, id)

\* GetWriteConvertedData: a bool becomes BINN_TRUE or BINN_FALSE, and a null
\* pointer is refused where the type needs a value.
GetWriteConvertedData(type, v) ==
  [ok |-> \/ ~v.null
          \/ type \in {BINN_NULL, BINN_TRUE, BINN_FALSE}
          \/ type \in {BINN_STRING, BINN_BLOB} /\ v.size = 0,
   type |-> IF type # BINN_BOOL THEN type ELSE IF v.n = 0 THEN BINN_FALSE ELSE BINN_TRUE]

\* The item with the entry's own bytes behind used_size, width of them.
Started(item, head, width) == AppendFields(CheckAllocation(item, width), head)

\* Mutant: used_size is not put back when the value is refused.
SetEntryKeepsHead(item, head, width, type, v) ==
  LET Counted(started, r) == IF r.ok THEN Accepted([r.item EXCEPT !.count = @ + 1]) ELSE Refused(started)
      From(started) == Counted(started, AddValue(started, type, v))
  IN  From(Started(item, head, width))

\* The three raw setters: the entry's own bytes (none in a list, the length and the
\* text of an object's key, a map's id), then the value.  When AddValue refuses the
\* value, used_size is put back: the entry's own bytes stay behind it, and so does
\* a block that was grown for them.
SetEntry(item, head, width, type, v) ==
  LET Counted(started, r) == IF r.ok THEN Accepted([r.item EXCEPT !.count = @ + 1])
                             ELSE Refused([started EXCEPT !.used_size = @ - width])
      From(started) == Counted(started, AddValue(started, type, v))
  IN  From(Started(item, head, width))

binn_list_add_raw(item, type, v) ==
  IF item.type # BINN_LIST \/ ~item.writable THEN Refused(item) ELSE SetEntry(item, <<>>, 0, type, v)

KeyFields(key) ==
  LET len == Len(KeyText[key]) IN <<Field("keylen", 1, len), Field("key", len, key)>>

binn_object_set_raw(item, key, type, v) ==
  IF \/ item.type # BINN_OBJECT \/ ~item.writable \/ Len(KeyText[key]) > MaxKeyLen
     \/ SearchForKey(item.mem, MAX_BINN_HEADER, item.used_size, item.count, key) # NIL
  THEN Refused(item)
  ELSE SetEntry(item, KeyFields(key), 1 + Len(KeyText[key]), type, v)

binn_map_set_raw(item, id, type, v) ==
  IF \/ item.type # BINN_MAP \/ ~item.writable
     \/ SearchForID(item.mem, MAX_BINN_HEADER, item.used_size, item.count, id) # NIL
  THEN Refused(item)
  ELSE SetEntry(item, <<Field("id", 4, id)>>, 4, type, v)

\* binn_add_value, through binn_list_add, binn_map_set and binn_object_set.
binn_add_value(item, key, type, v) ==
  LET Set(t) == CASE item.type = BINN_LIST -> binn_list_add_raw(item, t, v)
                  [] item.type = BINN_MAP -> binn_map_set_raw(item, key, t, v)
                  [] OTHER -> binn_object_set_raw(item, key, t, v)
      Add(c) == IF c.ok THEN Set(c.type) ELSE Refused(item)
  IN  Add(GetWriteConvertedData(type, v))

\* GetValue: the value whose type is at p and whose bytes start at d, as a binn
\* structure.
ValueIs(type, n, size, inner) == [ok |-> TRUE, type |-> type, n |-> n, size |-> size, sub |-> inner]
NoValue == [ValueIs(0, 0, 0, <<>>) EXCEPT !.ok = FALSE]
BlobAt(buf, type, d) == ValueIs(type, IF At(buf, d).n = 0 THEN 0 ELSE At(buf, d + 4).n, At(buf, d).n, <<>>)
StringAt(buf, type, len) == ValueIs(type, At(buf, len.next).n, len.n, <<>>)
ContainerAt(buf, p, h) == [ValueIs(h.type, 0, h.size, Slice(buf, p, h.size)) EXCEPT !.ok = h.ok]
GetValue(buf, p) ==
  LET Read(type, storage, d) ==
        IF type \in {BINN_TRUE, BINN_FALSE} THEN ValueIs(BINN_BOOL, IF type = BINN_TRUE THEN 1 ELSE 0, 0, <<>>)
        ELSE CASE storage = STORAGE_NOBYTES -> ValueIs(type, 0, 0, <<>>)
               [] FixedSize(storage) > 0 -> ValueIs(type, At(buf, d).n, 0, <<>>)
               [] storage = STORAGE_BLOB -> BlobAt(buf, type, d)
               [] storage = STORAGE_STRING -> StringAt(buf, type, ReadLen(buf, d))
               [] OTHER -> ContainerAt(buf, p, IsValidBinnHeader(Slice(buf, p, MAX_BINN_HEADER)))
  IN  IF At(buf, p).kind # "type" THEN NoValue
      ELSE Read(At(buf, p).n, binn_get_type_info(At(buf, p).n), TypeEnd(buf, p))

Found(buf, p) == IF p = NIL THEN NoValue ELSE GetValue(buf, p)

binn_object_get_value(buf, key) ==
  LET In(h) == IF ~h.ok \/ h.type # BINN_OBJECT \/ h.count = 0 THEN NoValue
               ELSE Found(buf, SearchForKey(buf, h.header_size, h.size, h.count, key))
  IN  In(IsValidBinnHeader(buf))

binn_map_get_value(buf, id) ==
  LET In(h) == IF ~h.ok \/ h.type # BINN_MAP \/ h.count = 0 THEN NoValue
               ELSE Found(buf, SearchForID(buf, h.header_size, h.size, h.count, id))
  IN  In(IsValidBinnHeader(buf))

binn_list_get_value(buf, pos) ==
  LET In(h) == IF ~h.ok \/ h.type # BINN_LIST \/ h.count = 0 \/ ~(pos \in 1..h.count) THEN NoValue
               ELSE Found(buf, EntryPos(buf, BINN_LIST, h.header_size, h.size, h.count)[pos - 1])
  IN  In(IsValidBinnHeader(buf))

\* binn_read_pair: the key or id and the value at a position.
NoPair == [key |-> NIL, value |-> NoValue]
PairAt(buf, type, limit, p) ==
  IF p = NIL \/ ValuePos(buf, type, p) > limit THEN NoPair
  ELSE [key |-> KeyAt(buf, type, p), value |-> GetValue(buf, ValuePos(buf, type, p))]
binn_read_pair(expected_type, buf, pos) ==
  LET In(h) == IF ~h.ok \/ h.type # expected_type \/ ~(pos \in 1..h.count) THEN NoPair
               ELSE PairAt(buf, h.type, h.size - 1, EntryPos(buf, h.type, h.header_size, h.size - 1, h.count)[pos - 1])
  IN  In(IsValidBinnHeader(buf))

\* copy_raw_value: the bytes as they are, read through the destination's type.
copy_raw_value(n, dest_type) ==
  LET data_store == binn_get_read_storage(dest_type)
  IN  [ok |-> data_store # -1,
       n |-> CASE data_store = STORAGE_NOBYTES -> 0
               [] dest_type \in Ints -> ReadInt(dest_type, n)
               [] OTHER -> n]

\* copy_float_value: TRUE whatever the number; a double is rounded to a float.
copy_float_value(n, source_type) ==
  [ok |-> TRUE, n |-> IF source_type = BINN_FLOAT64 THEN Float32(n) ELSE n]

\* copy_value after zero_value: what a typed getter leaves in *pvalue.
copy_value(v, dest_type) ==
  IF ~v.ok \/ type_family(v.type) # type_family(dest_type) THEN [ok |-> FALSE, n |-> 0]
  ELSE IF type_family(v.type) = "INT" /\ v.type # dest_type THEN copy_int_value(v.n, v.type, dest_type)
  ELSE IF type_family(v.type) = "FLOAT" /\ v.type # dest_type THEN copy_float_value(v.n, v.type)
  ELSE copy_raw_value(v.n, dest_type)

binn_list_get(buf, pos, type) == copy_value(binn_list_get_value(buf, pos), type)
binn_map_get(buf, id, type) == copy_value(binn_map_get_value(buf, id), type)
binn_object_get(buf, key, type) == copy_value(binn_object_get_value(buf, key), type)

\* The getters that return the value itself: 0 or a null pointer when there is none.
binn_list_typed(buf, pos, type) == binn_list_get(buf, pos, type).n
binn_map_typed(buf, id, type) == binn_map_get(buf, id, type).n
binn_object_typed(buf, key, type) == binn_object_get(buf, key, type).n

\* binn_is_valid: walks every entry; its test (p == 0) > (p > plimit) only
\* refuses a type it does not know.
WalkEnd(buf, h) ==
  LET walk[i \in 0..h.count] ==     \* where the walk stands after i entries
        IF i = 0 THEN h.header_size
        ELSE IF walk[i - 1] = NIL THEN NIL ELSE AdvanceDataPos(buf, ValuePos(buf, h.type, walk[i - 1]))
  IN  walk[h.count]
binn_is_valid(buf) == IsValidBinnHeader(buf).ok /\ WalkEnd(buf, IsValidBinnHeader(buf)) # NIL

-----------------------------------------------------------------------------
(* Leaving and entering a structure.                                       *)

\* binn_release: the header is saved and the bytes are moved to the front of
\* the block, which outlives the structure.
SavedBytes(item) == Slice(BufferOf(item), 0, item.size)
binn_release(item) == SavedBytes(binn_ptr(item))

\* binn_load and binn_open: a read-only structure over received bytes.
binn_load(buf) ==
  LET h == IsValidBinnHeader(buf)
  IN  IF ~binn_is_valid(buf) THEN Refused(binn_create(0))
      ELSE Accepted([binn_create(h.type) EXCEPT
                       !.writable = FALSE, !.dirty = FALSE, !.count = h.count, !.size = h.size,
                       !.alloc_size = h.size, !.used_size = 0, !.ptr = [block |-> 1, off |-> 0],
                       !.mem = buf])

\* binn_iter_init, and binn_list_next / binn_read_next_pair for one step.
binn_iter_init(item, expected_type) ==
  LET h == IsValidBinnHeader(BufferOf(item))
  IN  [ok |-> h.ok /\ h.type = expected_type, block |-> item.ptr.block, type |-> expected_type,
       pnext |-> item.ptr.off + h.header_size, plimit |-> item.ptr.off + h.size - 1,
       count |-> h.count, current |-> 0]

\* One step of an iterator: the entry at pnext, whose value is at v, and where the
\* next one starts.
Step(mem, iter, v, pnext) ==
  [iter |-> [iter EXCEPT !.current = @ + 1, !.pnext = pnext], value |-> GetValue(mem, v),
   key |-> IF iter.type = BINN_LIST THEN NIL ELSE KeyAt(mem, iter.type, iter.pnext)]
NoStep(iter) == [iter |-> iter, value |-> NoValue, key |-> NIL]
Inside(iter) == iter.pnext # NIL /\ iter.pnext <= iter.plimit

\* Mutant: the next entry is looked for behind the value's type only.
binn_next_flat(mem, iter) ==
  LET From(v) == Step(mem, iter, v, TypeEnd(mem, v))
  IN  IF Inside(iter) /\ iter.current < iter.count THEN From(ValuePos(mem, iter.type, iter.pnext)) ELSE NoStep(iter)

\* current counts the call even when it finds that there is nothing left.
binn_next(mem, iter) ==
  LET counted == [iter EXCEPT !.current = @ + 1]
      From(v) == IF iter.current = iter.count \/ (iter.type # BINN_LIST /\ v > iter.plimit) THEN NoStep(counted)
                 ELSE Step(mem, iter, v, AdvanceDataPos(mem, v))
  IN  IF ~Inside(iter) \/ iter.current > iter.count THEN NoStep(iter)
      ELSE From(ValuePos(mem, iter.type, iter.pnext))

-----------------------------------------------------------------------------
(* What the setters may be given.                                          *)

\* The bytes of a container of that type and size, header first.
WholeContainer(sub, type, size) ==
  LET h == IsValidBinnHeader(sub)
  IN  /\ h.ok /\ h.type = type /\ h.size = size /\ h.header_size <= size
      /\ \A o \in DOMAIN sub : o \in Nat /\ sub[o].w \in Nat \ {0} /\ (o < size => o + sub[o].w <= size)

\* What a caller in C passes with a type: integers of that type, strings that end,
\* and buffers of containers.
Acceptable(type, v) ==
  /\ DOMAIN v = {"n", "size", "null", "sub"} /\ v.size \in Int /\ v.null \in BOOLEAN
  /\ type \in Ints => v.n \in MinOf(type)..MaxOf(type)
  /\ type = BINN_BOOL => v.n \in {0, 1}
  /\ type = BINN_NULL => v.n = 0
  /\ type = BINN_FLOAT32 => v.n = Float32(v.n)
  /\ type \in {BINN_STRING, BINN_HTML} /\ v.size = 0 /\ ~v.null => v.n \in DOMAIN StrLen
  /\ type \in Containers /\ v.size > 0 => WholeContainer(v.sub, type, v.size)

-----------------------------------------------------------------------------
(* What an entry should read back as.                                      *)

StoredSize(e) == IF binn_get_type_info(e.type) = STORAGE_STRING /\ e.v.size = 0 /\ ~e.v.null
                 THEN StrLen[e.v.n] ELSE e.v.size

\* The value val is entry e: the type up to integer width, the number, the size
\* and, for a container, every byte.
Denotes(val, e) ==
  /\ val.ok /\ type_family(val.type) = type_family(e.type)
  /\ CASE type_family(e.type) = "INT" -> ReadInt(val.type, val.n) = e.v.n
       [] type_family(e.type) \in {"STRING", "BLOB"} ->
            /\ val.type = e.type /\ val.size = StoredSize(e)
            /\ val.n = IF StoredSize(e) = 0 THEN 0 ELSE e.v.n
       [] type_family(e.type) = "BINN" -> val.type = e.type /\ val.sub = Slice(e.v.sub, 0, e.v.size)
       [] OTHER -> val.n = e.v.n

\* What a getter of the given type must answer for entry e.
Converted(e, type) ==
  LET ok == /\ type_family(e.type) = type_family(type)
            /\ type \in Ints => e.v.n \in MinOf(type)..MaxOf(type)
  IN  [ok |-> ok, n |-> IF ok /\ type_family(type) # "BINN" THEN e.v.n ELSE 0]

\* Keys that strnicmp calls equal.
SameKey(k, l) == [i \in DOMAIN KeyText[k] |-> Lower[KeyText[k][i]]] = [i \in DOMAIN KeyText[l] |-> Lower[KeyText[l][i]]]

=============================================================================
