------------------------------ MODULE Transport ------------------------------
(***************************************************************************)
(* The TCP connection of one slave: dsm_send writes a message as two       *)
(* send() calls, four bytes of size and the body; dsm_receive reads them   *)
(* back with MSG_WAITALL.  On the way up the slave's application and its   *)
(* listener send on the same socket without a lock; on the way down the    *)
(* master's listener is the only sender.                                   *)
(***************************************************************************)
EXTENDS Protocol

CONSTANTS
  MaxSends,          \* bound on the messages sent in one direction
  Messages(_, _, _)  \* messages a thread may send, given what was sent and received

ASSUME MaxSendsAssumption == MaxSends \in Nat

VARIABLES
  wire,         \* direction -> chunks in flight, [kind, n, bytes]
  sending,      \* thread -> the body dsm_send has still to send, or None
  expecting,    \* direction -> the size dsm_receive has read, or NIL
  mem,          \* receiving direction -> dsm_g->mem is set up
  sent,         \* history: direction -> messages in the order of their sizes, with
                \* the address the application gave, if any
  received,     \* history: direction -> messages decoded
  overlapped,   \* history: a send began while another on the same socket was under way
  garbled,      \* direction -> the receiver took bytes of two messages for one
  stopped       \* direction -> the receiver gave up: message too big, or of unknown type

vars == <<wire, sending, expecting, mem, sent, received, overlapped, garbled, stopped>>

Directions == {"up", "down"}
Threads == {"app", "listener", "master"}
DirOf(t) == IF t = "master" THEN "down" ELSE "up"

\* What one send() puts on the connection.
Chunk(kind, n, bytes) == [kind |-> kind, n |-> n, bytes |-> bytes]
None == Chunk("none", 0, <<>>)
Width(c) == IF c.kind = "size" THEN 4 ELSE c.n

Init ==
  /\ wire = [d \in Directions |-> <<>>]
  /\ sending = [t \in Threads |-> None]
  /\ expecting = [d \in Directions |-> NIL]
  /\ mem = [d \in Directions |-> d = "up"]     \* the slave has no memory yet
  /\ sent = [d \in Directions |-> <<>>] /\ received = [d \in Directions |-> <<>>]
  /\ overlapped = FALSE
  /\ garbled = [d \in Directions |-> FALSE] /\ stopped = [d \in Directions |-> FALSE]

\* Mutant: the announced size is one byte short.
SendSizeShort(t, msg) ==
  LET d == DirOf(t)
      Announce(obj) ==
        /\ sending' = [sending EXCEPT ![t] = Chunk("body", obj.size, Slice(BufferOf(obj), 0, obj.size))]
        /\ wire' = [wire EXCEPT ![d] = Append(@, Chunk("size", obj.size - 1, <<>>))]
  IN  /\ sending[t] = None /\ Len(sent[d]) < MaxSends
      /\ Announce(Encoded(msg))
      /\ sent' = [sent EXCEPT ![d] = Append(@, msg)]
      /\ UNCHANGED <<overlapped, expecting, mem, received, garbled, stopped>>

\* Mutant: the announced size is the size in use, unused header bytes included.
SendSizeUsed(t, msg) ==
  LET d == DirOf(t)
      Announce(obj) ==
        /\ sending' = [sending EXCEPT ![t] = Chunk("body", obj.size, Slice(BufferOf(obj), 0, obj.size))]
        /\ wire' = [wire EXCEPT ![d] = Append(@, Chunk("size", obj.used_size, <<>>))]
  IN  /\ sending[t] = None /\ Len(sent[d]) < MaxSends
      /\ Announce(Encoded(msg))
      /\ sent' = [sent EXCEPT ![d] = Append(@, msg)]
      /\ UNCHANGED <<overlapped, expecting, mem, received, garbled, stopped>>

\* dsm_send_msg up to the first send() of dsm_send.
SendSize(t, msg) ==
  LET d == DirOf(t)
      Announce(obj) ==
        /\ sending' = [sending EXCEPT ![t] = Chunk("body", obj.size, Slice(BufferOf(obj), 0, obj.size))]
        /\ wire' = [wire EXCEPT ![d] = Append(@, Chunk("size", obj.size, <<>>))]
  IN  /\ sending[t] = None /\ Len(sent[d]) < MaxSends
      /\ Announce(Encoded(msg))
      /\ sent' = [sent EXCEPT ![d] = Append(@, msg)]
      /\ overlapped' = (overlapped \/ \E u \in Threads \ {t} : DirOf(u) = d /\ sending[u] # None)
      /\ UNCHANGED <<expecting, mem, received, garbled, stopped>>

\* The second send(): the bytes of the object.
SendBody(t) ==
  /\ sending[t] # None
  /\ wire' = [wire EXCEPT ![DirOf(t)] = Append(@, sending[t])]
  /\ sending' = [sending EXCEPT ![t] = None]
  /\ UNCHANGED <<expecting, mem, sent, received, overlapped, garbled, stopped>>

\* Mutant: no room besides a page.
BufferSizePage(d) == IF mem[d] THEN PageSize ELSE 0

\* The receive buffer: a page fits only once the memory is set up.
BufferSize(d) == MIN_BUFFERSIZE + IF mem[d] THEN PageSize ELSE 0

\* dsm_receive, first recv(): the size, which ends the process when it is too big.
ReceiveSize(d) ==
  LET size == Head(wire[d]).n
  IN  /\ wire[d] # <<>> /\ expecting[d] = NIL /\ ~garbled[d] /\ ~stopped[d]
      /\ wire' = [wire EXCEPT ![d] = Tail(@)]
      /\ IF size > BufferSize(d)
         THEN stopped' = [stopped EXCEPT ![d] = TRUE] /\ UNCHANGED expecting
         ELSE expecting' = [expecting EXCEPT ![d] = size] /\ UNCHANGED stopped
      /\ UNCHANGED <<sending, mem, sent, received, overlapped, garbled>>

\* Bytes in flight: recv() with MSG_WAITALL waits for all it was asked for.
Available(d) ==
  LET bytes[i \in 0..Len(wire[d])] == IF i = 0 THEN 0 ELSE bytes[i - 1] + Width(wire[d][i])
  IN  bytes[Len(wire[d])]

\* dsm_receive, second recv(), and the decoding in dsm_receive_msg.  The bytes
\* are one message only when the next chunk is a body of the expected size.
ReceiveBody(d) ==
  LET Take(decoded) ==
        /\ received' = [received EXCEPT ![d] = IF decoded.ok THEN Append(@, decoded.msg) ELSE @]
        /\ stopped' = [stopped EXCEPT ![d] = ~decoded.ok]
        /\ mem' = [mem EXCEPT ![d] = @ \/ decoded.msg.type = CONNECT_ACK]
  IN  /\ expecting[d] # NIL /\ ~garbled[d] /\ Available(d) >= expecting[d]
      /\ expecting' = [expecting EXCEPT ![d] = NIL]
      /\ IF Head(wire[d]).kind = "body" /\ Head(wire[d]).n = expecting[d]
         THEN /\ wire' = [wire EXCEPT ![d] = Tail(@)]
              /\ Take(Decoded(Head(wire[d]).bytes))
              /\ UNCHANGED garbled
         ELSE garbled' = [garbled EXCEPT ![d] = TRUE] /\ UNCHANGED <<wire, received, mem, stopped>>
      /\ UNCHANGED <<sending, sent, overlapped>>

Next ==
  \/ \E t \in Threads : \E msg \in Messages(t, sent, received) : SendSize(t, msg)
  \/ \E t \in Threads : SendBody(t)
  \/ \E d \in Directions : ReceiveSize(d) \/ ReceiveBody(d)

Spec == Init /\ [][Next]_vars

-----------------------------------------------------------------------------
(* Properties.                                                             *)

\* The variables have their types; the arguments are unsigned, as declared.
TypeOK ==
  /\ \A d \in Directions : Len(sent[d]) <= MaxSends /\ expecting[d] \in Nat \cup {NIL}
  /\ overlapped \in BOOLEAN /\ mem \in [Directions -> BOOLEAN]
  /\ \A d \in Directions : \A i \in DOMAIN received[d] : \A k \in DOMAIN received[d][i].args :
       received[d][i].args[k] \in Nat
  /\ garbled \in [Directions -> BOOLEAN] /\ stopped \in [Directions -> BOOLEAN]

\* What arrives is what was sent, in order and with every argument: the trip
\* through the setters' and the getters' integer types, the compression of
\* integers and the object's keys changes nothing.
MessagesSurvive ==
  \A d \in Directions :
    /\ Len(received[d]) <= Len(sent[d])
    /\ \A i \in DOMAIN received[d] :
         received[d][i].type = sent[d][i].type /\ received[d][i].args = sent[d][i].args

\* Only two sends under way at once on one socket can make the receiver take
\* parts of two messages for one; the direction with one sender never garbles.
OnlyOverlapGarbles == ~garbled["down"] /\ (garbled["up"] => overlapped)

\* No message the system sends is too big for the buffer of its receiver, or
\* unknown to it, not even the answer to CONNECT, which arrives before the memory
\* is set up.
NobodyGivesUp == \A d \in Directions : ~garbled[d] => ~stopped[d]

\* The page that get_page_from_id finds at the other end is the page that contains
\* the address the application passed to lock or unlock.
SamePageBothEnds ==
  \A d \in Directions : \A i \in DOMAIN received[d] :
    sent[d][i].addr # NIL =>
      LET page == get_page_from_id(received[d][i].args[KeyPAGEID])
      IN  page # NIL /\ sent[d][i].addr \in page_base_addr(page)..(page_base_addr(page + 1) - 1)

\* The receiver never waits for bytes that nobody is going to send, and has taken
\* every message once nothing is in flight, unless two sends overlapped.
NothingLeftWaiting ==
  \A d \in Directions :
    (~garbled[d] /\ ~stopped[d] /\ \A t \in Threads : DirOf(t) = d => sending[t] = None) =>
      /\ expecting[d] # NIL => Available(d) >= expecting[d]
      /\ wire[d] = <<>> /\ expecting[d] = NIL => Len(received[d]) = Len(sent[d])

=============================================================================
