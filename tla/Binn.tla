-------------------------------- MODULE Binn --------------------------------
(***************************************************************************)
(* A program uses one binn container: it creates it, adds values, asks for *)
(* its bytes, iterates over it, releases the bytes and opens them again,   *)
(* in any order the library accepts.  History variables keep what was      *)
(* really added and what the iterator really returned.                     *)
(***************************************************************************)
EXTENDS BinnFormat

CONSTANTS
  MaxItems,        \* bound on the entries of the container
  Entries,         \* entries that programs add, [key, type, v]
  Offers(_)        \* those it may add to a container that holds these

ASSUME EntriesAssumption ==
  /\ MaxItems \in Nat
  /\ \A e \in Entries : e = [key |-> e.key, type |-> e.type, v |-> e.v] /\ e.type \in DataTypes /\ Acceptable(e.type, e.v)

VARIABLES
  phase,   \* "none", "struct" (being written), "buffer" (released bytes), "loaded",
           \* "lost" (the released pointer is into a block that was given back)
  item,    \* the binn structure and its block
  added,   \* history: the entries accepted so far, [key, type, v]
  iter,    \* the binn_iter
  seen,    \* history: what the iterator returned, [key, value]
  ended    \* history: the iterator has returned FALSE

vars == <<phase, item, added, iter, seen, ended>>

NoIter == [ok |-> FALSE, block |-> 0, type |-> 0, pnext |-> NIL, plimit |-> NIL, count |-> 0, current |-> 0]
ResetIter == iter' = NoIter /\ seen' = <<>> /\ ended' = FALSE

Init ==
  /\ phase = "none" /\ item = binn_create(BINN_LIST) /\ added = <<>>
  /\ iter = NoIter /\ seen = <<>> /\ ended = FALSE

\* binn_list(), binn_map(), binn_object().
Create(type) ==
  /\ phase = "none"
  /\ phase' = "struct" /\ item' = binn_create(type) /\ added' = <<>>
  /\ ResetIter

\* binn_list_add, binn_map_set, binn_object_set and the typed setters on them; an
\* object's take a text.
Add(e) ==
  LET r == binn_add_value(item, e.key, e.type, e.v)
  IN  /\ phase \in {"struct", "loaded"} /\ Len(added) < MaxItems
      /\ item.type = BINN_OBJECT => e.key \in DOMAIN KeyText
      /\ item' = r.item
      /\ added' = IF r.ok THEN Append(added, [e EXCEPT !.key = IF item.type = BINN_LIST THEN NIL ELSE @])
                  ELSE added
      /\ UNCHANGED <<phase, iter, seen, ended>>

\* binn_ptr, binn_size: the header is brought up to date.
Save ==
  /\ phase = "struct" /\ item.dirty
  /\ item' = binn_ptr(item)
  /\ UNCHANGED <<phase, added, iter, seen, ended>>

\* binn_iter_init, which asks for the bytes first.
IterInit ==
  /\ phase \in {"struct", "loaded"} /\ ~iter.ok
  /\ item' = binn_ptr(item)
  /\ iter' = binn_iter_init(item', item.type) /\ seen' = <<>> /\ ended' = FALSE
  /\ UNCHANGED <<phase, added>>

\* binn_list_next, binn_map_next, binn_object_next.  The iterator holds a pointer
\* into the block it was made from: using it after the block has been replaced is
\* the caller's mistake and not modelled.
IterNext ==
  LET r == binn_next(item.mem, iter)
  IN  /\ phase \in {"struct", "loaded"} /\ iter.ok /\ iter.block = item.pbuf /\ ~ended
      /\ iter' = r.iter
      /\ seen' = IF r.value.ok THEN Append(seen, [key |-> r.key, value |-> r.value]) ELSE seen
      /\ ended' = ~r.value.ok
      /\ UNCHANGED <<phase, item, added>>

\* The saved pointer is into a block that realloc has given back.
Dangling == phase = "struct" /\ ~item.dirty /\ item.ptr.block # item.pbuf

\* binn_release: only the bytes are left.
Release ==
  /\ phase = "struct"
  /\ phase' = IF Dangling THEN "lost" ELSE "buffer"
  /\ item' = [item EXCEPT !.mem = binn_release(item)]
  /\ ResetIter /\ UNCHANGED added

\* binn_open of those bytes.
Open ==
  LET r == binn_load(item.mem)
  IN  /\ phase = "buffer" /\ r.ok
      /\ phase' = "loaded" /\ item' = r.item
      /\ UNCHANGED <<added, iter, seen, ended>>

\* binn_free.
Free ==
  /\ phase \in {"struct", "loaded", "lost"}
  /\ phase' = "none" /\ item' = binn_create(BINN_LIST) /\ added' = <<>>
  /\ ResetIter

Next ==
  \/ \E type \in Containers : Create(type)
  \/ \E e \in Entries \cap Offers(added) : Add(e)
  \/ Save \/ IterInit \/ IterNext \/ Release \/ Open \/ Free

Spec == Init /\ [][Next]_vars

-----------------------------------------------------------------------------
(* What the program reads.                                                 *)

\* The typed getters with a result, binn_list_get_int8 and so on, and without.
TypedGet(buf, ctype, key, type) ==
  CASE ctype = BINN_LIST -> binn_list_get(buf, key, type)
    [] ctype = BINN_MAP -> binn_map_get(buf, key, type)
    [] OTHER -> binn_object_get(buf, key, type)
TypedValue(buf, ctype, key, type) ==
  CASE ctype = BINN_LIST -> binn_list_typed(buf, key, type)
    [] ctype = BINN_MAP -> binn_map_typed(buf, key, type)
    [] OTHER -> binn_object_typed(buf, key, type)

\* The bytes the program could be reading now.
Readable ==
  \/ phase = "struct" /\ ~item.dirty /\ ~Dangling
  \/ phase \in {"buffer", "loaded"}
Bytes == IF phase = "buffer" THEN item.mem ELSE BufferOf(item)

-----------------------------------------------------------------------------
(* Properties.                                                             *)

\* The variables have their types, and the structure counts what was added.
TypeOK ==
  /\ phase \in {"none", "struct", "buffer", "loaded", "lost"}
  /\ item.type \in Containers /\ item.alloc_size \in Nat /\ item.used_size \in Nat
  /\ \A o \in DOMAIN item.mem : o \in Nat /\ item.mem[o].w \in Nat \ {0}
  /\ Len(added) <= MaxItems /\ ended \in BOOLEAN

\* Every byte AddValue, the setters and binn_save_header write lies inside the
\* block that CheckAllocation asked for, and none lies across used_size: an entry
\* is before it as a whole, and what a refused setter left is behind it.
WritesFit ==
  phase = "struct" => \A o \in DOMAIN item.mem :
    /\ o + item.mem[o].w <= item.alloc_size
    /\ o < item.used_size => o + item.mem[o].w <= item.used_size

\* The header binn_save_header wrote is the header IsValidBinnHeader reads: the
\* type, the number of entries, a size that ends where the data ends, and a
\* header that ends where the data starts, on both sides of every length limit.
HeaderTruthful ==
  Readable =>
    LET h == IsValidBinnHeader(Bytes)
    IN  /\ h.ok /\ h.type = item.type /\ h.count = Len(added)
        /\ phase = "struct" => /\ item.ptr.off + h.size = item.used_size
                               /\ item.ptr.off + h.header_size = MAX_BINN_HEADER

\* What was added can be read back by every path: position, key or id, pair;
\* a key that was never added is not found; and binn_is_valid accepts the bytes.
ReadsBack ==
  Readable =>
    /\ binn_is_valid(Bytes)
    /\ \A i \in DOMAIN added :
         CASE item.type = BINN_LIST -> Denotes(binn_list_get_value(Bytes, i), added[i])
           [] item.type = BINN_MAP -> Denotes(binn_map_get_value(Bytes, added[i].key), added[i])
           [] OTHER -> Denotes(binn_object_get_value(Bytes, added[i].key), added[i])
    /\ item.type # BINN_LIST => \A i \in DOMAIN added :
         LET r == binn_read_pair(item.type, Bytes, i)
         IN  r.key = added[i].key /\ Denotes(r.value, added[i])
    /\ item.type = BINN_OBJECT => \A k \in DOMAIN KeyText :
         (\A i \in DOMAIN added : ~SameKey(k, added[i].key)) => ~binn_object_get_value(Bytes, k).ok

\* A getter of an integer type, of bool or of null returns the number that was
\* stored when its type can hold it, and 0 with FALSE otherwise: compress_int and
\* copy_int_value lose no value and invent none, whatever type the setter had.
\* Not so a float's getter: copy_float_value answers TRUE with a rounded number.
GettersConvert ==
  Readable => \A i \in DOMAIN added : \A type \in Ints \cup {BINN_BOOL, BINN_NULL} :
    LET key == IF item.type = BINN_LIST THEN i ELSE added[i].key
        want == Converted(added[i], type)
    IN  TypedGet(Bytes, item.type, key, type) = want /\ TypedValue(Bytes, item.type, key, type) = want.n

\* No two entries of an object have keys that strnicmp calls equal, and no two
\* entries of a map have the same id.
KeysDistinct ==
  \A i, j \in DOMAIN added : i # j /\ phase = "struct" =>
    /\ item.type = BINN_OBJECT => ~SameKey(added[i].key, added[j].key)
    /\ item.type = BINN_MAP => added[i].key # added[j].key

\* An iterator returns the entries the container had when it was made, in order,
\* even when entries are added meanwhile without leaving the block, and then FALSE.
IteratorInOrder ==
  /\ Len(seen) <= iter.count
  /\ ended => Len(seen) = iter.count
  /\ \A i \in DOMAIN seen :
       Denotes(seen[i].value, added[i]) /\ seen[i].key = added[i].key

\* A setter that refuses its value has written the entry's key before: the count
\* and the size in use are as they were, and so is every byte before used_size; the
\* key's own bytes are behind it, over those of entries refused earlier.
RefusedSetHarmless ==
  [][(phase = "struct" /\ phase' = "struct" /\ added' = added /\ item'.dirty = item.dirty) =>
       /\ item'.count = item.count /\ item'.used_size = item.used_size
       /\ \A o \in 0..(item.used_size - 1) :
            /\ o \in DOMAIN item'.mem <=> o \in DOMAIN item.mem
            /\ o \in DOMAIN item.mem => item'.mem[o] = item.mem[o]]_vars

\* realloc may move the block under the pointer that binn_ptr has saved.  The structure
\* is dirty then, so that the next binn_ptr renews it, unless the block was moved for
\* an entry that was refused: only such a setter leaves a stale pointer behind.
StaleOnlyByRefusal ==
  [][Dangling' /\ ~Dangling => phase = "struct" /\ added' = added /\ item'.used_size = item.used_size]_vars

=============================================================================
