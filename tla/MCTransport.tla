----------------------------- MODULE MCTransport -----------------------------
(* Pages of 4096 bytes, the library's own limits, integers of 8, 12, 16 and  *)
(* 20 bits, and addresses on both sides of every integer width.              *)
EXTENDS Transport

MCIntBits == [s \in {32, 64, 96, 128} |-> s \div 8 + 4]
MCFloat32(n) == n              \* no message carries a float
MCLower == [c \in UNION {Range(MsgKeys[k]) : k \in DOMAIN MsgKeys} |-> c]
MCStrLen == [c \in 0..1 |-> 0]

Addresses == {0, 4095, 4096} \cup {n * 4096 + 7 : n \in {127, 128, 255, 256, 2047, 2048, 4095, 32766}}
Msg(type, args) == [type |-> type, args |-> args, addr |-> NIL]
AboutPage(addr, type, args) == [type |-> type, addr |-> addr, args |-> KeyPAGEID :> get_page_from_addr(addr) @@ args]

Lock(a, r) == AboutPage(a, LOCKPAGE, KeyRIGHTS :> r)
Give(a, r) == AboutPage(a, GIVEPAGE, KeyRIGHTS :> r @@ KeyDATA :> 1)
Connect == Msg(CONNECT, KeyBITNESS :> 8 @@ KeyPAGESIZE :> PageSize)
Ack(ok) == Msg(CONNECT_ACK, KeyBITNESS :> 1 @@ KeyPAGESIZE :> ok @@ KeyPAGECOUNT :> PageCount)
Of(msgs, type) == {m \in Range(msgs) : m.type = type}

FromApp(msgs) == SelectSeq(msgs, LAMBDA m : m.type # INVALIDATE_ACK)
Has(msgs, type, rights) == \E m \in Of(msgs, type) : m.args[KeyRIGHTS] = rights

\* What each thread may send after what it has received.  The application waits
\* for the answer to CONNECT, then makes one call, and another one when it has got
\* a page: unlock_write gives it back.  The master answers, and asks for the read
\* copies it has sent to be invalidated; the slave's listener acknowledges.
AppMessages(out, got) ==
  LET calls == {Msg(SYNC_BARRIER, KeyBARRIER :> 1), Msg(TERMINATE, <<>>)}
      mine == FromApp(out)
  IN  CASE mine = <<>> -> {Connect}
        [] Len(mine) = 1 /\ Len(got) = 1 /\ got[1].args[KeyPAGESIZE] = 1 ->
             {Lock(a, r) : a \in Addresses, r \in {1, 3}} \cup calls
             \cup {Msg(SYNC_BARRIER, KeyBARRIER :> w) : w \in {0, 2047, 2048, 4095}}
        [] Len(mine) = 2 /\ Has(got, GIVEPAGE, 3) -> {Give(mine[2].addr, 3)}
        [] Len(mine) = 2 /\ Has(got, GIVEPAGE, 1) -> {Lock(4096, 1)} \cup calls
        [] OTHER -> {}

MasterMessages(out, got, asked) ==
  IF out = <<>> THEN {Ack(ok) : ok \in IF got = <<>> THEN {} ELSE {0, 1}}
  ELSE (IF Of(got, LOCKPAGE) = {} \/ Of(out, GIVEPAGE) # {} THEN {}
        ELSE {Give(asked[2].addr, asked[2].args[KeyRIGHTS])})
       \cup {Msg(INVALIDATE, KeyPAGEID :> m.args[KeyPAGEID]) : m \in {g \in Of(out, GIVEPAGE) : g.args[KeyRIGHTS] = 1}}
       \cup {Msg(BARRIER_ACK, <<>>) : m \in Of(got, SYNC_BARRIER)}

MCMessages(t, out, got) ==
  CASE t = "app" -> AppMessages(out["up"], got["down"])
    [] t = "listener" -> {Msg(INVALIDATE_ACK, m.args) : m \in Of(got["down"], INVALIDATE)} \ Range(out["up"])
    [] OTHER -> MasterMessages(out["down"], got["up"], out["up"]) \ Range(out["down"])
=============================================================================
