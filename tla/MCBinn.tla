------------------------------- MODULE MCBinn -------------------------------
(* A small instance of Binn: 2, 3, 4 and 5 bit integers, lengths of one     *)
(* byte up to 5, and blocks that start at 20 bytes.                         *)
EXTENDS Binn

MCIntBits == [s \in {32, 64, 96, 128} |-> s \div 32 + 1]
MCFloat32(n) == 2 * (n \div 2)     \* a float holds the even numbers

\* Keys: "", "a", "A", "ab", one that is too long, and two more.
MCKeyText == <<<<>>, <<1>>, <<11>>, <<1, 2>>, <<1, 2, 1>>, <<2>>, <<3>>, <<4>>, <<5>>>>
MCLower == [c \in {1, 2, 3, 4, 5, 11} |-> c % 10]
MCStrLen == [c \in 0..3 |-> <<0, 1, ShortMax, ShortMax + 1>>[c + 1]]

E(k, t, v) == [key |-> k, type |-> t, v |-> v]

\* A container to nest: a list built by the library itself.
Inner == LET one == binn_list_add_raw(binn_create(BINN_LIST), BINN_INT16, Value(-3, 0)).item
         IN  binn_ptr(binn_list_add_raw(one, BINN_STRING, Value(1, 0)).item)
InnerValue == [Value(0, Inner.size) EXCEPT !.sub = BufferOf(Inner)]

\* Every integer of every type.
AllInts == UNION {{<<t, Value(n, 0)>> : n \in MinOf(t)..MaxOf(t)} : t \in Ints}

\* One value of each kind, and arguments the setters refuse.
Sorts == {<<BINN_NULL, [Value(0, 0) EXCEPT !.null = TRUE]>>, <<BINN_BOOL, Value(1, 0)>>,
          <<BINN_INT32, Value(-5, 0)>>, <<BINN_FLOAT64, Value(3, 0)>>,
          <<BINN_STRING, [Value(0, 0) EXCEPT !.null = TRUE]>>,
          <<BINN_STRING, Value(2, 0)>>, <<BINN_HTML, Value(3, 0)>>,
          <<BINN_FLOAT32, Value(2, 0)>>,
          <<BINN_BLOB, Value(3, 3)>>, <<BINN_BLOB, Value(3, 7)>>, <<BINN_LIST, InnerValue>>,
          <<BINN_BLOB, Value(1, -1)>>, <<BINN_INT32, [Value(0, 0) EXCEPT !.null = TRUE]>>}

First == {E(2, s[1], s[2]) : s \in Sorts \cup AllInts} \cup {E(k, BINN_INT32, Value(-5, 0)) : k \in 1..5}
Null(k) == E(k, BINN_NULL, [Value(0, 0) EXCEPT !.null = TRUE])
Second == {E(k, s[1], s[2]) : k \in {1, 3, 4}, s \in {<<BINN_HTML, Value(3, 0)>>, <<BINN_BLOB, Value(1, -1)>>}}

MCEntries == First \cup Second \cup {Null(k) : k \in 4..9}

\* Any value first; then a long string, a refused blob or nulls up to MaxItems.
MCOffers(entries) ==
  CASE entries = <<>> -> First
    [] Len(entries) = 1 /\ entries[1].type \notin Ints \ {BINN_INT32} -> Second \cup {Null(4)}
    [] Len(entries) > 1 /\ entries[2].type = BINN_NULL /\ entries[1].type \in {BINN_BOOL, BINN_HTML} -> {Null(Len(entries) + 4)}
    [] OTHER -> {}
=============================================================================
