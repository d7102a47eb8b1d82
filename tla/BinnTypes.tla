------------------------------ MODULE BinnTypes ------------------------------
(***************************************************************************)
(* The item types of binn.c, their storage, and what happens to an integer *)
(* when it is compressed on its way into a buffer and converted on its way *)
(* out.  Integer widths are a parameter (8, 16, 32 and 64 bits in the      *)
(* code): TLC checks them scaled down.                                     *)
(***************************************************************************)
EXTENDS Integers, Sequences, FiniteSetsExt

CONSTANTS
  IntBits,      \* storage type -> bits of its integers
  Float32(_)    \* the number a float holds after a double was cast to it

ASSUME WidthsAssumption ==
  /\ DOMAIN IntBits = {32, 64, 96, 128}
  /\ \A s \in DOMAIN IntBits : IntBits[s] \in Nat \ {0}
  /\ IntBits[32] < IntBits[64] /\ IntBits[64] < IntBits[96] /\ IntBits[96] < IntBits[128]

\* Storage types (the high three bits of a type byte).
STORAGE_NOBYTES == 0
STORAGE_BYTE == 32
STORAGE_WORD == 64
STORAGE_DWORD == 96
STORAGE_QWORD == 128
STORAGE_STRING == 160
STORAGE_BLOB == 192
STORAGE_CONTAINER == 224

\* Data types.
BINN_NULL == 0
BINN_TRUE == 1
BINN_FALSE == 2
BINN_UINT8 == 32
BINN_INT8 == 33
BINN_UINT16 == 64
BINN_INT16 == 65
BINN_UINT32 == 96
BINN_INT32 == 97
BINN_FLOAT32 == 98
BINN_UINT64 == 128
BINN_INT64 == 129
BINN_FLOAT64 == 130
BINN_STRING == 160
BINN_BLOB == 192
BINN_LIST == 224
BINN_MAP == 225
BINN_OBJECT == 226
BINN_HTML == 45057         \* 0xB001, a type of two bytes
BINN_JPEG == 53249         \* 0xD001
BINN_BOOL == 524385        \* 0x80061, a virtual type: never in a buffer
VIRTUAL == 524288          \* 0x80000

Containers == {BINN_LIST, BINN_MAP, BINN_OBJECT}
SignedInts == {BINN_INT8, BINN_INT16, BINN_INT32, BINN_INT64}
UnsignedInts == {BINN_UINT8, BINN_UINT16, BINN_UINT32, BINN_UINT64}
Ints == SignedInts \cup UnsignedInts

\* The types a caller passes: BINN_TRUE and BINN_FALSE are only found in buffers.
DataTypes == {BINN_NULL, BINN_BOOL, BINN_FLOAT32, BINN_FLOAT64, BINN_STRING, BINN_HTML, BINN_BLOB, BINN_JPEG}
             \cup Ints \cup Containers

\* binn_get_type_info: the storage of a type; -1 for an invalid one.
ShortTypeStorage(t) == (t \div IF t < 256 THEN 32 ELSE 8192) * 32
binn_get_type_info(type) ==
  CASE 0 <= type /\ type < 65536 -> ShortTypeStorage(type)
    [] 65536 <= type /\ (type \div VIRTUAL) % 2 = 1 -> ShortTypeStorage(type % 65536)
    [] OTHER -> -1

binn_get_write_storage(type) ==
  IF type = BINN_BOOL THEN STORAGE_NOBYTES ELSE binn_get_type_info(type)

binn_get_read_storage(type) ==
  IF type \in {BINN_BOOL, BINN_TRUE, BINN_FALSE} THEN STORAGE_DWORD ELSE binn_get_type_info(type)

type_family(type) ==
  CASE type \in Containers -> "BINN"
    [] type \in Ints -> "INT"
    [] type \in {BINN_FLOAT32, BINN_FLOAT64} -> "FLOAT"
    [] type \in {BINN_STRING, BINN_HTML} -> "STRING"
    [] type \in {BINN_BLOB, BINN_JPEG} -> "BLOB"
    [] type = BINN_BOOL -> "BOOL"
    [] type = BINN_NULL -> "NULL"
    [] OTHER -> "NONE"

int_type(type) ==
  CASE type \in SignedInts -> "SIGNED" [] type \in UnsignedInts -> "UNSIGNED" [] OTHER -> "0"

-----------------------------------------------------------------------------
(* Integers: a stored integer is its bit pattern, 0 .. 2^bits - 1.         *)

BitsOf(type) == IntBits[binn_get_type_info(type)]

\* The least and the greatest value of an integer type.
MinOf(type) == IF type \in SignedInts THEN -(2 ^ (BitsOf(type) - 1)) ELSE 0
MaxOf(type) == IF type \in SignedInts THEN 2 ^ (BitsOf(type) - 1) - 1 ELSE 2 ^ BitsOf(type) - 1

\* A C read of a bit pattern through a pointer to the type.
SignedRead(r, bits) == IF r >= 2 ^ (bits - 1) THEN r - 2 ^ bits ELSE r
ReadInt(type, raw) ==
  IF type \in SignedInts THEN SignedRead(raw % 2 ^ BitsOf(type), BitsOf(type)) ELSE raw % 2 ^ BitsOf(type)

\* A C assignment of a value to a variable of the type: the low bits are kept.
Cast(type, n) == ReadInt(type, n)

\* compress_int: the narrowest type that holds the value.  Only 64-bit values
\* outside every narrower range keep their type (type2 = 0).
Narrower(n) == IF n >= 0 THEN <<BINN_UINT8, BINN_UINT16, BINN_UINT32>> ELSE <<BINN_INT8, BINN_INT16, BINN_INT32>>
Fitting(n) == {i \in 1..3 : n \in MinOf(Narrower(n)[i])..MaxOf(Narrower(n)[i])}
compress_int(type, n) ==
  IF binn_get_type_info(type) = STORAGE_BYTE \/ Fitting(n) = {} THEN type ELSE Narrower(n)[Min(Fitting(n))]

Checked(fits, n) == [ok |-> fits, n |-> IF fits THEN n ELSE 0]
InRange(type, n) == type \in {BINN_INT64, BINN_UINT64} \/ n \in MinOf(type)..MaxOf(type)

\* Mutant: a negative value is not refused by an unsigned 64-bit destination.
copy_int_value_signless(raw, source_type, dest_type) ==
  Checked(InRange(dest_type, ReadInt(source_type, raw)), ReadInt(source_type, raw))

\* copy_int_value: FALSE unless the destination type can hold the value.
Convert(n, source_type, dest_type) ==
  Checked(/\ ~(int_type(source_type) = "UNSIGNED" /\ int_type(dest_type) = "SIGNED" /\ n > MaxOf(BINN_INT64))
          /\ ~(int_type(source_type) = "SIGNED" /\ int_type(dest_type) = "UNSIGNED" /\ n < 0)
          /\ InRange(dest_type, n), n)
copy_int_value(raw, source_type, dest_type) == Convert(ReadInt(source_type, raw), source_type, dest_type)

=============================================================================
