------------------------------ MODULE Protocol ------------------------------
(***************************************************************************)
(* dsm_protocol.c: a message becomes a binn object on its way out and a    *)
(* message again on its way in; and dsm_memory.c's translation between     *)
(* addresses, page identifiers and pages.  A message is its type and a     *)
(* function from keys to the C values of its arguments.                    *)
(***************************************************************************)
EXTENDS BinnFormat

CONSTANTS
  PageSize,        \* mem->pagesize
  PageCount,       \* mem->page_count
  MIN_BUFFERSIZE   \* what a receive buffer holds besides a page (512)

\* Page identifiers and the page count travel as 32-bit signed integers.
ASSUME MemoryAssumption ==
  /\ PageCount \in 1..MaxOf(BINN_INT32)
  /\ PageSize \in 1..MaxOf(BINN_INT32)
  /\ MIN_BUFFERSIZE \in Nat

CONNECT == 0
CONNECT_ACK == 1
LOCKPAGE == 2
INVALIDATE == 3
INVALIDATE_ACK == 4
GIVEPAGE == 5
SYNC_BARRIER == 6
BARRIER_ACK == 7
TERMINATE == 8

KeyTYPE == 1
KeyBITNESS == 2
KeyPAGESIZE == 3
KeyPAGECOUNT == 4
KeyPAGEID == 5
KeyRIGHTS == 6
KeyDATA == 7
KeyBARRIER == 8

\* The texts of the keys (DSM_MSG_KEY_*).
MsgKeys == <<<<"t","y","p","e">>, <<"b","i","t","n","e","s","s">>, <<"p","a","g","e","s","i","z","e">>,
             <<"p","a","g","e","c","o","u","n","t">>, <<"p","a","g","e","i","d">>,
             <<"r","i","g","h","t","s">>, <<"d","a","t","a">>, <<"b","a","r","r","i","e","r">>>>

\* The keys of a message are keys of its object, which takes texts of that length
\* and tells them apart whatever their case.
ASSUME KeysAssumption ==
  /\ \A k \in DOMAIN MsgKeys : k \in DOMAIN KeyText /\ KeyText[k] = MsgKeys[k] /\ Len(MsgKeys[k]) <= MaxKeyLen
  /\ \A k, l \in DOMAIN MsgKeys : SameKey(k, l) => k = l

\* The type of a message fits the integer it travels in.
ASSUME TypesAssumption == TERMINATE <= MaxOf(BINN_INT32)

\* Mutant: the fields of the argument structures are signed.
ArgTypeSigned(type, key) ==
  IF key \in {KeyRIGHTS, KeyBARRIER} THEN BINN_INT16 ELSE BINN_INT64

\* The C type of an argument: unsigned long, or unsigned short for the flags,
\* the rights and the barrier's count.  (bitness and pagesize are flags in a
\* CONNECT_ACK.)
ArgType(type, key) ==
  IF \/ key \in {KeyRIGHTS, KeyBARRIER}
     \/ type = CONNECT_ACK /\ key \in {KeyBITNESS, KeyPAGESIZE}
  THEN BINN_UINT16 ELSE BINN_UINT64

\* dsm_send_msg: which setter is used for which argument, in order.
SentFields(type) ==
  CASE type = CONNECT -> <<<<KeyBITNESS, BINN_INT32>>, <<KeyPAGESIZE, BINN_INT32>>>>
    [] type = CONNECT_ACK -> <<<<KeyBITNESS, BINN_INT16>>, <<KeyPAGESIZE, BINN_INT16>>, <<KeyPAGECOUNT, BINN_INT32>>>>
    [] type = LOCKPAGE -> <<<<KeyPAGEID, BINN_INT32>>, <<KeyRIGHTS, BINN_INT16>>>>
    [] type \in {INVALIDATE, INVALIDATE_ACK} -> <<<<KeyPAGEID, BINN_INT32>>>>
    [] type = GIVEPAGE -> <<<<KeyPAGEID, BINN_INT32>>, <<KeyRIGHTS, BINN_INT16>>, <<KeyDATA, BINN_BLOB>>>>
    [] type = SYNC_BARRIER -> <<<<KeyBARRIER, BINN_INT16>>>>
    [] OTHER -> <<>>

\* Mutant: every integer goes through binn_object_set_int16.
SetArgShort(obj, key, type, n) ==
  binn_add_value(obj, key, IF type = BINN_INT32 THEN BINN_INT16 ELSE type,
                 IF type = BINN_BLOB THEN Value(n, PageSize) ELSE Value(Cast(BINN_INT16, n), 0)).item

\* One setter call: the argument is converted to the setter's parameter.
SetArg(obj, key, type, n) ==
  binn_add_value(obj, key, type,
                 IF type = BINN_BLOB THEN Value(n, PageSize) ELSE Value(Cast(type, n), 0)).item

\* The object dsm_send_msg hands to dsm_send, with its header saved.
Encoded(msg) ==
  LET fields == SentFields(msg.type)
      object[i \in 0..Len(fields)] ==
        IF i = 0 THEN SetArg(binn_create(BINN_OBJECT), KeyTYPE, BINN_INT32, msg.type)
        ELSE SetArg(object[i - 1], fields[i][1], fields[i][2], msg.args[fields[i][1]])
  IN  binn_ptr(object[Len(fields)])

\* dsm_receive_msg: which getter is used for which argument.
ReceivedFields(type) ==
  CASE type = CONNECT -> {<<KeyBITNESS, BINN_INT32>>, <<KeyPAGESIZE, BINN_INT32>>}
    [] type = CONNECT_ACK -> {<<KeyBITNESS, BINN_INT16>>, <<KeyPAGESIZE, BINN_INT16>>, <<KeyPAGECOUNT, BINN_INT32>>}
    [] type = LOCKPAGE -> {<<KeyPAGEID, BINN_INT32>>, <<KeyRIGHTS, BINN_INT16>>}
    [] type \in {INVALIDATE, INVALIDATE_ACK} -> {<<KeyPAGEID, BINN_INT32>>}
    [] type = GIVEPAGE -> {<<KeyPAGEID, BINN_INT32>>, <<KeyRIGHTS, BINN_INT16>>, <<KeyDATA, BINN_BLOB>>}
    [] type = SYNC_BARRIER -> {<<KeyBARRIER, BINN_INT16>>}
    [] OTHER -> {}

\* A getter on the opened object, which is NULL when binn_open refused the bytes.
GetArg(obj, key, type) ==
  IF obj.ok THEN binn_object_typed(BufferOf(obj.item), key, type) ELSE 0

\* The message in the received bytes, or none when the type is unknown.
DecodedArgs(obj, type, fields) ==
  [k \in {f[1] : f \in fields} |->
    LET f == CHOOSE g \in fields : g[1] = k
    IN  IF f[2] = BINN_BLOB THEN GetArg(obj, k, BINN_BLOB) ELSE Cast(ArgType(type, k), GetArg(obj, k, f[2]))]
DecodedAs(obj, type) ==
  [ok |-> type \in CONNECT..TERMINATE,
   msg |-> [type |-> type, args |-> DecodedArgs(obj, type, ReceivedFields(type))]]
DecodedObject(obj) == DecodedAs(obj, GetArg(obj, KeyTYPE, BINN_INT32))
Decoded(bytes) == DecodedObject(binn_load(bytes))

-----------------------------------------------------------------------------
(* Addresses and pages.  The identifier is an unsigned int.                *)

\* Mutant: the bound is off by one.
get_page_from_id_short(page_id) ==
  LET id == Cast(BINN_UINT32, page_id) IN IF id >= PageCount - 1 THEN NIL ELSE id

get_page_from_id(page_id) ==
  LET id == Cast(BINN_UINT32, page_id) IN IF id > PageCount - 1 THEN NIL ELSE id

\* Addresses count from base_addr.
get_page_from_addr(addr) == get_page_from_id(addr \div PageSize)

\* Where the handlers store a page they received: base_addr + page_id * pagesize.
page_base_addr(page_id) == page_id * PageSize

=============================================================================
