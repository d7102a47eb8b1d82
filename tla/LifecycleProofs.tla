--------------------------- MODULE LifecycleProofs ---------------------------
(***************************************************************************)
(* Theorems about start-up and termination for any set of slaves and any   *)
(* length of the queue of accept.                                          *)
(***************************************************************************)
EXTENDS Lifecycle, SequenceFacts

-----------------------------------------------------------------------------
(* What is in a queue or a stream, before and after.                       *)

\* If e is in the sequence at all, it is at its end, once.
LastOnly(s, e) == \A i \in DOMAIN s : s[i] = e => i = Len(s)

\* Nothing is twice in the sequence.
Once(s) == \A i, j \in DOMAIN s : s[i] = s[j] => i = j

\* The empty sequence.
LEMMA EmptyHoldsNothing ==
    /\ \A e : ~InList(e, <<>>) /\ LastOnly(<<>>, e)
    /\ Once(<<>>)
BY DEF InList, LastOnly, Once

\* What Append puts into a sequence.
LEMMA AppendHolds ==
    ASSUME NEW S, NEW s \in Seq(S), NEW m \in S
    PROVE  /\ Append(s, m) \in Seq(S) /\ Append(s, m) # <<>>
           /\ \A e : InList(e, Append(s, m)) <=> (InList(e, s) \/ e = m)
           /\ s = <<>> => Head(Append(s, m)) = m /\ Tail(Append(s, m)) = <<>>
           /\ \A e : ~InList(e, s) => LastOnly(Append(s, m), e)
           /\ Once(s) /\ ~InList(m, s) => Once(Append(s, m))
<1> DEFINE t == Append(s, m)
           l == Len(s)
<1>1. /\ t \in Seq(S) /\ t # <<>> /\ l \in Nat /\ DOMAIN s = 1..l /\ DOMAIN t = 1..(l + 1)
      /\ Len(t) = l + 1 /\ t[l + 1] = m /\ \A i \in 1..l : t[i] = s[i]
  BY AppendProperties, LenProperties
<1>2. s = <<>> => Head(t) = m /\ Tail(t) = <<>>
  <2> SUFFICES ASSUME s = <<>> PROVE Head(t) = m /\ Tail(t) = <<>>
    OBVIOUS
  <2>1. l = 0
    BY EmptySeq
  <2>2. Head(t) = t[1] /\ Tail(t) \in Seq(S) /\ Len(Tail(t)) = Len(t) - 1
    BY <1>1, HeadTailProperties
  <2>3. Len(Tail(t)) = 0
    BY <1>1, <2>1, <2>2
  <2>4. t[1] = m
    BY <1>1, <2>1
  <2> QED BY <2>2, <2>3, <2>4, EmptySeq
<1> HIDE DEF t, l
<1>3. \A e : InList(e, t) <=> (InList(e, s) \/ e = m)
  <2> SUFFICES ASSUME NEW e PROVE InList(e, t) <=> (InList(e, s) \/ e = m)
    OBVIOUS
  <2>1. l + 1 \in 1..(l + 1) /\ \A i \in 1..(l + 1) : i \in 1..l \/ i = l + 1
    BY <1>1
  <2>2. \A i \in 1..l : i \in 1..(l + 1)
    BY <1>1
  <2> QED BY <1>1, <2>1, <2>2, Zenon DEF InList
<1>4. \A e : ~InList(e, s) => LastOnly(t, e)
  BY <1>1 DEF InList, LastOnly
<1>5. Once(s) /\ ~InList(m, s) => Once(t)
  BY <1>1 DEF InList, Once
<1> QED BY <1>1, <1>2, <1>3, <1>4, <1>5 DEF t

\* What Tail leaves of a sequence.
LEMMA TailHolds ==
    ASSUME NEW S, NEW s \in Seq(S), s # <<>>
    PROVE  /\ Tail(s) \in Seq(S) /\ Head(s) \in S
           /\ \A e : InList(e, s) <=> (InList(e, Tail(s)) \/ e = Head(s))
           /\ \A e : LastOnly(s, e) => LastOnly(Tail(s), e)
           /\ LastOnly(s, Head(s)) => Tail(s) = <<>>
           /\ Once(s) => Once(Tail(s)) /\ ~InList(Head(s), Tail(s))
<1> DEFINE t == Tail(s)
           l == Len(s)
<1>1. /\ t \in Seq(S) /\ Head(s) \in S /\ l \in Nat /\ l >= 1 /\ DOMAIN s = 1..l
      /\ Len(t) = l - 1 /\ DOMAIN t = 1..(l - 1)
      /\ Head(s) = s[1] /\ \A i \in 1..(l - 1) : t[i] = s[i + 1]
  BY HeadTailProperties, LenProperties, EmptySeq
<1> HIDE DEF t, l
<1>2. \A e : InList(e, s) <=> (InList(e, t) \/ e = Head(s))
  <2> SUFFICES ASSUME NEW e PROVE InList(e, s) <=> (InList(e, t) \/ e = Head(s))
    OBVIOUS
  <2>1. ASSUME InList(e, s), e # Head(s) PROVE InList(e, t)
    <3>1. PICK i \in 1..l : s[i] = e
      BY <1>1, <2>1 DEF InList
    <3>2. i - 1 \in 1..(l - 1) /\ (i - 1) + 1 = i
      BY <1>1, <2>1, <3>1
    <3> QED BY <1>1, <3>1, <3>2 DEF InList
  <2>2. ASSUME InList(e, t) PROVE InList(e, s)
    <3>1. PICK i \in 1..(l - 1) : t[i] = e
      BY <1>1, <2>2 DEF InList
    <3>2. i + 1 \in 1..l
      BY <1>1, <3>1
    <3> QED BY <1>1, <3>1, <3>2 DEF InList
  <2>3. InList(Head(s), s)
    BY <1>1 DEF InList
  <2> QED BY <2>1, <2>2, <2>3
<1>3. \A e : LastOnly(s, e) => LastOnly(t, e)
  <2> SUFFICES ASSUME NEW e, LastOnly(s, e), NEW i \in 1..(l - 1), t[i] = e PROVE i = l - 1
    BY <1>1 DEF LastOnly
  <2>1. i + 1 \in 1..l /\ s[i + 1] = e
    BY <1>1
  <2>2. i + 1 = l
    BY <1>1, <2>1 DEF LastOnly, l
  <2> QED BY <1>1, <2>2
<1>4. LastOnly(s, Head(s)) => t = <<>>
  <2> SUFFICES ASSUME LastOnly(s, Head(s)) PROVE t = <<>>
    OBVIOUS
  <2>1. 1 = l
    BY <1>1 DEF LastOnly, l
  <2> QED BY <1>1, <2>1, EmptySeq
<1>5. Once(s) => Once(t) /\ ~InList(Head(s), t)
  <2> SUFFICES ASSUME Once(s) PROVE Once(t) /\ ~InList(Head(s), t)
    OBVIOUS
  <2>1. ASSUME NEW i \in 1..(l - 1), NEW j \in 1..(l - 1), t[i] = t[j] PROVE i = j
    <3>1. i + 1 \in 1..l /\ j + 1 \in 1..l /\ s[i + 1] = s[j + 1]
      BY <1>1, <2>1
    <3>2. i + 1 = j + 1
      BY <1>1, <3>1 DEF Once
    <3> QED BY <3>2
  <2>2. ASSUME NEW i \in 1..(l - 1), t[i] = Head(s) PROVE FALSE
    <3>1. i + 1 \in 1..l /\ 1 \in 1..l /\ s[i + 1] = s[1]
      BY <1>1, <2>2
    <3>2. i + 1 = 1
      BY <1>1, <3>1 DEF Once
    <3> QED BY <3>2
  <2> QED BY <1>1, <2>1, <2>2 DEF Once, InList
<1> QED BY <1>1, <1>2, <1>3, <1>4, <1>5 DEF t

\* The streams of all clients when m is sent on the one of a ...
LEMMA SentHolds ==
    ASSUME NEW N, NEW S, NEW f \in Streams(N, S), NEW a \in N, NEW m \in S,
           NEW g, SentOn(f, g, a, m)
    PROVE  /\ g \in Streams(N, S) /\ \A n \in N : n # a => g[n] = f[n]
           /\ g[a] # <<>> /\ \A e : InList(e, g[a]) <=> (InList(e, f[a]) \/ e = m)
           /\ f[a] = <<>> => Head(g[a]) = m /\ Tail(g[a]) = <<>>
           /\ \A e : ~InList(e, f[a]) => LastOnly(g[a], e)
<1>1. f[a] \in Seq(S) /\ g[a] = Append(f[a], m)
  BY DEF Streams, SentOn
<1>2. \A n \in N : n # a => g[n] = f[n]
  BY DEF Streams, SentOn
<1>3. Append(f[a], m) \in Seq(S)
  BY <1>1, AppendHolds
<1>4. g \in Streams(N, S)
  BY <1>3 DEF Streams, SentOn
<1> QED BY <1>1, <1>2, <1>4, AppendHolds

\* ... and when the first message on the one of a is received.
LEMMA ReceivedHolds ==
    ASSUME NEW N, NEW S, NEW f \in Streams(N, S), NEW a \in N,
           NEW g, ReceivedOn(f, g, a)
    PROVE  /\ g \in Streams(N, S) /\ \A n \in N : n # a => g[n] = f[n]
           /\ g[a] = Tail(f[a]) /\ Head(f[a]) \in S /\ f[a] # <<>>
           /\ \A e : InList(e, f[a]) <=> (InList(e, g[a]) \/ e = Head(f[a]))
           /\ \A e : LastOnly(f[a], e) => LastOnly(g[a], e)
           /\ LastOnly(f[a], Head(f[a])) => g[a] = <<>>
<1>1. f[a] \in Seq(S) /\ g[a] = Tail(f[a]) /\ f[a] # <<>>
  BY DEF Streams, ReceivedOn
<1>2. \A n \in N : n # a => g[n] = f[n]
  BY DEF Streams, ReceivedOn
<1>3. Tail(f[a]) \in Seq(S) /\ Head(f[a]) \in S
  BY <1>1, TailHolds
<1>4. g \in Streams(N, S)
  BY <1>3 DEF Streams, ReceivedOn
<1> QED BY <1>1, <1>2, <1>3, <1>4, TailHolds
-----------------------------------------------------------------------------
(* The inductive invariant.                                                *)

MainState == {"start", "created", "connected", "running", "calling", "asking", "quitting",
              "waiting", "leaving", "left", "exited", "dead"}
SlaveState == {"start", "refused", "connected", "waiting", "joined", "asking", "quit", "gone", "failed"}
UpMsg == {"CONNECT", "CONNECT_OTHER", "SYNC_BARRIER", "LOCKREAD", "LOCKWRITE", "GIVEPAGE",
          "INVALIDATE_ACK", "TERMINATE"}
DownMsg == {"ACK", "NACK", "BARRIER_ACK", "GIVEREAD", "GIVEWRITE", "INVALIDATE"}
Request == [from : Clients, rights : {"read", "write"}]
InLoop == {"top", "select", "serve", "pages"}

\* The types of all variables but client_count; select has not been called before
\* pthread_create; the listener runs until dsm_destroy, and is in
\* process_list_requests only with the page and a request.
Shapes ==
  /\ main \in MainState /\ garbage \in {"negative", "closed", "idle", "input"}
  /\ sockfd \in {"garbage", "own"} /\ slave \in [Slaves -> SlaveState]
  /\ fds \subseteq Clients /\ active \subseteq Clients \cup {"garbage", "server", "own"}
  /\ ready \subseteq active /\ (main = "start" => ready = {} /\ fds = {} /\ listener = "off")
  /\ backlog \in Seq(Clients) /\ Len(backlog) <= MAX_WAITING_NODES
  /\ up \in Streams(Clients, UpMsg) /\ down \in Streams(Clients, DownMsg)
  /\ uptodate \in BOOLEAN /\ copy \in [Slaves -> {"none", "read", "write"}]
  /\ requests \in Seq(Request) /\ readers \in Seq(Clients)
  /\ listener \in InLoop \cup {"off", "spin", "cancelled"}
  /\ main \notin {"start", "left", "exited", "dead"} => listener \in InLoop \cup {"spin"}
  /\ listener = "pages" => uptodate = TRUE /\ requests # <<>>
  /\ listener = "spin" => uptodate = TRUE

\* The watched clients are those with an open socket; what select reported is still
\* so when the loop comes to it.
Watched ==
  /\ active \cap Clients = fds
  /\ "garbage" \in ready => garbage # "idle"
  /\ "server" \in ready => backlog # <<>>
  /\ "own" \in ready => down[Master] # <<>>

\* A connection is queued once, by a client that has connected, is not watched yet
\* and has got no message.
Queued ==
  /\ Once(backlog)
  /\ \A c \in Clients : InList(c, backlog) => c \notin active
  /\ \A s \in Slaves : /\ InList(s, backlog) => slave[s] \in {"connected", "waiting", "failed"} /\ down[s] = <<>>
                       /\ s \in active => slave[s] \notin {"start", "refused"}
                       /\ slave[s] \in {"start", "refused", "connected"} => up[s] = <<>>
                       /\ slave[s] \in {"start", "refused"} => down[s] = <<>>
  /\ (InList(Master, backlog) \/ Master \in active) => main \notin {"start", "created"}

\* TERMINATE is the last message of a client, which has quit; it is there until it
\* is handled, and it cannot be handled before the connection is accepted.
Ended(c) ==
  /\ InList("TERMINATE", up[c]) => HasQuit(c)
  /\ LastOnly(up[c], "TERMINATE")
  /\ HasQuit(c) /\ up[c] # <<>> => InList("TERMINATE", up[c])
  /\ HasQuit(c) /\ InList(c, backlog) => up[c] # <<>>
Ends == main # "dead" => \A c \in Clients : Ended(c)

\* The lists name clients that the master has accepted or that have closed.
Known(c) == c \in fds \/ Closed(c)
Named == /\ \A i \in DOMAIN requests : Known(requests[i].from)
         /\ \A i \in DOMAIN readers : Known(readers[i])

Counted == client_count \in Nat /\ CountExact

\* As long as no accepted slave has failed and the listener neither spins nor is
\* gone, the messages follow the protocol.
Quiet == /\ listener \in InLoop \/ main = "start"
         /\ \A s \in Slaves : slave[s] = "failed" => InList(s, backlog)

\* A slave has sent nothing before CONNECT and nothing after it until the answer,
\* of which there is one.  While it is in lock_page its request is on its way, or in
\* the queue, or the page is on its way back; otherwise nothing is.
Locks(s) == InList("LOCKREAD", up[s]) \/ InList("LOCKWRITE", up[s])
Connects(s) == InList("CONNECT", up[s]) \/ InList("CONNECT_OTHER", up[s])
Filed(s) == \E i \in DOMAIN requests : requests[i].from = s
Follows(s) ==
  /\ slave[s] = "connected" => down[s] = <<>>
  /\ slave[s] = "waiting" =>
        \/ /\ up[s] # <<>> /\ Head(up[s]) \in {"CONNECT", "CONNECT_OTHER"}
           /\ Tail(up[s]) = <<>> /\ down[s] = <<>>
        \/ up[s] = <<>> /\ down[s] # <<>> /\ Tail(down[s]) = <<>>
  /\ slave[s] \in {"joined", "quit", "gone"} => down[s] = <<>> /\ ~Connects(s) /\ ~Locks(s)
  /\ slave[s] = "asking" =>
        /\ ~Connects(s) /\ LastOnly(up[s], "LOCKREAD") /\ LastOnly(up[s], "LOCKWRITE")
        /\ Locks(s) => ~Filed(s) /\ down[s] = <<>>
        /\ Filed(s) => down[s] = <<>>
        /\ down[s] # <<>> => Tail(down[s]) = <<>>
Handshake == \A s \in Slaves : Follows(s)

\* The requests are those of slaves in lock_page, one of each.
Asked ==
  /\ \A i \in DOMAIN requests : requests[i].from \in Slaves /\ slave[requests[i].from] = "asking"
  /\ \A i, j \in DOMAIN requests : requests[i].from = requests[j].from => i = j

\* The page is with the master, or a slave that is in the system has it or will get
\* it, or it is on its way back from an accepted slave.
Holds(s) == \/ slave[s] = "joined" /\ copy[s] = "write"
            \/ slave[s] = "asking" /\ InList("GIVEWRITE", down[s])
            \/ slave[s] \in {"joined", "asking", "quit", "gone"} /\ InList("GIVEPAGE", up[s])
Located == uptodate = TRUE \/ \E s \in Slaves : Holds(s)

Protocol == Quiet => Handshake /\ Asked /\ Located

\* All of it.
LifecycleInv == /\ Shapes /\ Watched /\ Queued /\ Ends /\ Named
                /\ Counted /\ DeathExplained /\ Protocol

-----------------------------------------------------------------------------
(* What an action does to the streams and to the queue.                    *)

\* The names of the constants.
LEMMA Names ==
    /\ Master \in Clients /\ Master \notin Slaves /\ Slaves \subseteq Clients
    /\ Clients \cap {"garbage", "server", "own"} = {}
    /\ \A c \in Clients : c \in Slaves \/ c = Master
BY LifecycleAssumption, NamesAssumption DEF Clients

\* The queue and the streams have the shape the lemmas on sequences ask for.
LEMMA StreamShapes ==
    ASSUME Shapes
    PROVE  /\ backlog \in Seq(Clients) /\ up \in Streams(Clients, UpMsg)
           /\ down \in Streams(Clients, DownMsg)
           /\ \A c \in Clients : up[c] \in Seq(UpMsg) /\ down[c] \in Seq(DownMsg)
BY DEF Shapes, Streams

\* A message is received from a watched client whose connection select reported.
LEMMA ReceiveEffect ==
    ASSUME Shapes, NEW c \in Clients, NEW type, Receive(c, type)
    PROVE  /\ ReceivedOn(up, up', c) /\ Head(up[c]) = type
           /\ c \in ready /\ c \in active /\ Alive
BY DEF Receive, Serving, Shapes, ReceivedOn

\* QuitDSM of a slave sends GIVEPAGE if it has the page, and then TERMINATE.
LEMMA QuitEffect ==
    ASSUME Shapes, NEW s \in Slaves, QuitSlave(s)
    PROVE  \E h : /\ h = up \/ (copy[s] = "write" /\ SentOn(up, h, s, "GIVEPAGE"))
                  /\ copy[s] = "write" => SentOn(up, h, s, "GIVEPAGE")
                  /\ SentOn(h, up', s, "TERMINATE")
<1> DEFINE u == up[s]
<1>1. s \in Clients /\ up \in [Clients -> Seq(UpMsg)] /\ u \in Seq(UpMsg)
  BY Names, StreamShapes DEF Streams
<1>2. up' = [up EXCEPT ![s] = u \o (IF copy[s] = "write" THEN <<"GIVEPAGE">> ELSE <<>>) \o <<"TERMINATE">>]
  BY DEF QuitSlave
<1>3. "GIVEPAGE" \in UpMsg /\ "TERMINATE" \in UpMsg
  BY DEF UpMsg
<1>4. Append(u, "GIVEPAGE") \in Seq(UpMsg) /\ Append(u, "GIVEPAGE") = u \o <<"GIVEPAGE">>
  BY <1>1, <1>3, AppendIsConcat, AppendProperties
<1>5. CASE copy[s] = "write"
  <2> DEFINE h == [up EXCEPT ![s] = Append(u, "GIVEPAGE")]
  <2>1. SentOn(up, h, s, "GIVEPAGE")
    BY DEF SentOn
  <2>2. h[s] = Append(u, "GIVEPAGE")
    BY <1>1
  <2>3. Append(h[s], "TERMINATE") = u \o <<"GIVEPAGE">> \o <<"TERMINATE">>
    BY <1>3, <1>4, <2>2, AppendIsConcat
  <2>4. up' = [h EXCEPT ![s] = Append(h[s], "TERMINATE")]
    BY <1>1, <1>2, <1>5, <2>3
  <2> QED BY <1>5, <2>1, <2>4 DEF SentOn
<1>6. CASE copy[s] # "write"
  <2>1. u \o <<>> = u
    BY <1>1, ConcatEmptySeq
  <2>2. Append(u, "TERMINATE") = u \o <<"TERMINATE">>
    BY <1>1, <1>3, AppendIsConcat
  <2>3. SentOn(up, up', s, "TERMINATE")
    BY <1>2, <1>6, <2>1, <2>2 DEF SentOn
  <2> QED BY <1>6, <2>3
<1> QED BY <1>5, <1>6
\* The messages.
LEMMA Messages ==
    /\ "CONNECT" \in UpMsg /\ "CONNECT_OTHER" \in UpMsg /\ "SYNC_BARRIER" \in UpMsg
    /\ "LOCKREAD" \in UpMsg /\ "LOCKWRITE" \in UpMsg /\ "GIVEPAGE" \in UpMsg
    /\ "INVALIDATE_ACK" \in UpMsg /\ "TERMINATE" \in UpMsg
    /\ "ACK" \in DownMsg /\ "NACK" \in DownMsg /\ "BARRIER_ACK" \in DownMsg
    /\ "GIVEREAD" \in DownMsg /\ "GIVEWRITE" \in DownMsg /\ "INVALIDATE" \in DownMsg
BY DEF UpMsg, DownMsg

\* A message is sent to the master ...
LEMMA UpSent ==
    ASSUME Shapes, NEW c \in Clients, NEW m \in UpMsg, SentOn(up, up', c, m)
    PROVE  /\ up' \in Streams(Clients, UpMsg) /\ \A d \in Clients : d # c => up'[d] = up[d]
           /\ up'[c] # <<>> /\ \A e : InList(e, up'[c]) <=> (InList(e, up[c]) \/ e = m)
           /\ up[c] = <<>> => Head(up'[c]) = m /\ Tail(up'[c]) = <<>>
           /\ \A e : ~InList(e, up[c]) => LastOnly(up'[c], e)
<1>1. up \in Streams(Clients, UpMsg)
  BY DEF Shapes
<1> QED BY <1>1, SentHolds

\* ... or is received by it ...
LEMMA UpReceived ==
    ASSUME Shapes, NEW c \in Clients, ReceivedOn(up, up', c)
    PROVE  /\ up' \in Streams(Clients, UpMsg) /\ \A d \in Clients : d # c => up'[d] = up[d]
           /\ up'[c] = Tail(up[c]) /\ Head(up[c]) \in UpMsg /\ up[c] # <<>>
           /\ \A e : InList(e, up[c]) <=> (InList(e, up'[c]) \/ e = Head(up[c]))
           /\ \A e : LastOnly(up[c], e) => LastOnly(up'[c], e)
           /\ LastOnly(up[c], Head(up[c])) => up'[c] = <<>>
<1>1. up \in Streams(Clients, UpMsg)
  BY DEF Shapes
<1> QED BY <1>1, ReceivedHolds

\* ... or is sent by it ...
LEMMA DownSent ==
    ASSUME Shapes, NEW c \in Clients, NEW m \in DownMsg, SentOn(down, down', c, m)
    PROVE  /\ down' \in Streams(Clients, DownMsg) /\ \A d \in Clients : d # c => down'[d] = down[d]
           /\ down'[c] # <<>> /\ \A e : InList(e, down'[c]) <=> (InList(e, down[c]) \/ e = m)
           /\ down[c] = <<>> => Head(down'[c]) = m /\ Tail(down'[c]) = <<>>
<1>1. down \in Streams(Clients, DownMsg)
  BY DEF Shapes
<1> QED BY <1>1, SentHolds

\* ... or is received from it.
LEMMA DownReceived ==
    ASSUME Shapes, NEW c \in Clients, ReceivedOn(down, down', c)
    PROVE  /\ down' \in Streams(Clients, DownMsg) /\ \A d \in Clients : d # c => down'[d] = down[d]
           /\ down'[c] = Tail(down[c]) /\ Head(down[c]) \in DownMsg /\ down[c] # <<>>
           /\ \A e : InList(e, down[c]) <=> (InList(e, down'[c]) \/ e = Head(down[c]))
<1>1. down \in Streams(Clients, DownMsg)
  BY DEF Shapes
<1> QED BY <1>1, ReceivedHolds

\* A connection is queued for accept ...
LEMMA QueueGrows ==
    ASSUME Shapes, NEW c \in Clients, Len(backlog) < MAX_WAITING_NODES,
           backlog' = Append(backlog, c)
    PROVE  /\ backlog' \in Seq(Clients) /\ Len(backlog') <= MAX_WAITING_NODES /\ backlog' # <<>>
           /\ \A e : InList(e, backlog') <=> (InList(e, backlog) \/ e = c)
           /\ Once(backlog) /\ ~InList(c, backlog) => Once(backlog')
<1>1. backlog \in Seq(Clients)
  BY DEF Shapes
<1>2. Len(backlog') = Len(backlog) + 1 /\ Len(backlog) \in Nat
  BY <1>1, AppendProperties, LenProperties
<1>3. Len(backlog') <= MAX_WAITING_NODES
  BY <1>2, LifecycleAssumption
<1> QED BY <1>1, <1>3, AppendHolds

\* ... and is accepted.
LEMMA QueueShrinks ==
    ASSUME Shapes, backlog # <<>>, backlog' = Tail(backlog)
    PROVE  /\ backlog' \in Seq(Clients) /\ Len(backlog') <= MAX_WAITING_NODES
           /\ Head(backlog) \in Clients
           /\ \A e : InList(e, backlog) <=> (InList(e, backlog') \/ e = Head(backlog))
           /\ Once(backlog) => Once(backlog') /\ ~InList(Head(backlog), backlog')
<1>1. backlog \in Seq(Clients) /\ Len(backlog) <= MAX_WAITING_NODES
  BY DEF Shapes
<1>2. Len(backlog') = Len(backlog) - 1 /\ Len(backlog) \in Nat
  BY <1>1, HeadTailProperties, LenProperties
<1>3. Len(backlog') <= MAX_WAITING_NODES
  BY <1>1, <1>2, LifecycleAssumption
<1> QED BY <1>1, <1>3, TailHolds

\* Client c is counted.
Here(c) == Connected(c) /\ ~InList(c, backlog) /\ ~(HasQuit(c) /\ ~InList("TERMINATE", up[c]))

\* A step that changes neither client_count nor who is counted keeps the count.
LEMMA CountKept ==
    ASSUME Counted, client_count' = client_count, main' # "dead" => main # "dead",
           main' # "dead" => \A c \in Clients : Here(c)' <=> Here(c)
    PROVE  Counted'
<1>1. ASSUME main' # "dead" PROVE Present' = Present
  BY <1>1 DEF Present, Here
<1> QED BY <1>1 DEF Counted, CountExact

\* The frame of a step: what the invariant says of the lists, of the explanation of a
\* death and of the protocol stays so when what it speaks of stays.
LEMMA NamedKept ==
    ASSUME Named, UNCHANGED <<requests, readers>>, fds \subseteq fds',
           \A c \in Slaves : Closed(c) => Closed(c)'
    PROVE  Named'
<1>1. \A c : Known(c) => Known(c)'
  BY DEF Known, Closed
<1> QED BY <1>1 DEF Named

\* See NamedKept.
LEMMA ExplainedKept ==
    ASSUME DeathExplained, main' = "dead" => main = "dead", garbage' = garbage,
           readers' = readers \/ main' # "dead",
           \A s \in Slaves : /\ slave[s] = "failed" => slave'[s] = "failed"
                             /\ slave[s] = "gone" => slave'[s] = "gone"
    PROVE  DeathExplained'
BY DEF DeathExplained

\* See NamedKept.
LEMMA ProtocolKept ==
    ASSUME Protocol, Quiet' => Quiet, UNCHANGED <<slave, copy, requests>>,
           uptodate' = uptodate \/ uptodate' = TRUE,
           \A s \in Slaves : up'[s] = up[s] /\ down'[s] = down[s]
    PROVE  Protocol'
<1> SUFFICES ASSUME Quiet' PROVE Handshake' /\ Asked' /\ Located'
  BY DEF Protocol
<1>1. Handshake /\ Asked /\ Located
  BY DEF Protocol
<1>2. Handshake'
  BY <1>1 DEF Handshake, Follows, Connects, Locks, Filed
<1>3. Asked' /\ Located'
  BY <1>1 DEF Asked, Located, Holds
<1> QED BY <1>2, <1>3

\* A step in which the master's process dies has to be explained; of the rest of the
\* invariant little is left to show.
LEMMA ExitStep ==
    ASSUME LifecycleInv, main # "start", Exit, DeathExplained', Named',
           UNCHANGED <<garbage, sockfd, active, ready, fds, backlog, client_count, slave,
                       uptodate, copy>>,
           up' \in Streams(Clients, UpMsg), down' \in Streams(Clients, DownMsg),
           requests' \in Seq(Request), readers' \in Seq(Clients),
           \A s \in Slaves : /\ slave[s] \in {"start", "refused", "connected"} => up'[s] = up[s]
                             /\ slave[s] \in {"start", "refused"} \/ InList(s, backlog) => down'[s] = down[s],
           down[Master] # <<>> => down'[Master] # <<>>
    PROVE  LifecycleInv'
<1> USE Names DEF LifecycleInv, Exit
<1>1. Shapes'
  BY DEF Shapes, MainState
<1>2. Watched' /\ Queued'
  BY DEF Watched, Queued
<1>3. Ends'
  BY DEF Ends
<1>4. Counted'
  BY CountKept
<1>5. Protocol'
  BY DEF Protocol, Quiet, InLoop
<1> QED BY <1>1, <1>2, <1>3, <1>4, <1>5

-----------------------------------------------------------------------------
(* The steps of the main thread and of the slaves that send.               *)

\* sync_barrier and QuitDSM of the master.
LEMMA MainSendsStep ==
    ASSUME LifecycleInv, wait_barrier_send \/ QuitMaster
    PROVE  LifecycleInv'
<1> USE Names DEF LifecycleInv
<1>1. PICK m \in {"SYNC_BARRIER", "TERMINATE"} :
         /\ SentOn(up, up', Master, m)
         /\ main' = IF m = "TERMINATE" THEN "quitting" ELSE "calling"
  BY DEF wait_barrier_send, QuitMaster, SentOn
<1>2. /\ main = "running"
      /\ UNCHANGED <<garbage, sockfd, listener, active, ready, fds, backlog, down, client_count,
                     slave, uptodate, requests, readers, copy>>
  BY DEF wait_barrier_send, QuitMaster, lst, pages
<1>3. /\ up' \in Streams(Clients, UpMsg) /\ \A c \in Clients : c # Master => up'[c] = up[c]
      /\ up'[Master] # <<>>
      /\ \A e : InList(e, up'[Master]) <=> (InList(e, up[Master]) \/ e = m)
      /\ \A e : ~InList(e, up[Master]) => LastOnly(up'[Master], e)
  BY <1>1, Messages, UpSent
<1>4. Shapes'
  BY <1>1, <1>2, <1>3 DEF Shapes, MainState
<1>5. Watched' /\ Queued'
  BY <1>1, <1>2, <1>3 DEF Watched, Queued
<1>6. Ends'
  BY <1>1, <1>2, <1>3 DEF Ends, Ended, HasQuit
<1>7. Named' /\ DeathExplained'
  BY <1>1, <1>2, NamedKept, ExplainedKept DEF Closed
<1>8. Counted'
  BY <1>1, <1>2, <1>3, CountKept DEF Here, Connected, HasQuit
<1>9. Protocol'
  <2>1. Quiet' => Quiet
    BY <1>1, <1>2 DEF Quiet
  <2> QED BY <1>2, <1>3, <2>1, ProtocolKept
<1> QED BY <1>4, <1>5, <1>6, <1>7, <1>8, <1>9

\* The master connects to itself.
LEMMA ConnectSelfStep ==
    ASSUME LifecycleInv, ConnectSelf
    PROVE  LifecycleInv'
<1> USE Names DEF LifecycleInv
<1>1. /\ main = "created" /\ main' = "connected" /\ backlog' = Append(backlog, Master)
      /\ Len(backlog) < MAX_WAITING_NODES
      /\ UNCHANGED <<garbage, sockfd, listener, active, ready, fds, up, down, client_count,
                     slave, uptodate, requests, readers, copy>>
  BY DEF ConnectSelf, lst, pages
<1>2. ~InList(Master, backlog) /\ Master \notin active
  BY <1>1 DEF Queued
<1>3. /\ backlog' \in Seq(Clients) /\ Len(backlog') <= MAX_WAITING_NODES /\ backlog' # <<>>
      /\ \A e : InList(e, backlog') <=> (InList(e, backlog) \/ e = Master)
      /\ Once(backlog')
  BY <1>1, <1>2, QueueGrows DEF Queued
<1>4. Shapes'
  BY <1>1, <1>3 DEF Shapes, MainState
<1>5. Watched' /\ Queued'
  BY <1>1, <1>2, <1>3 DEF Watched, Queued
<1>6. Ends'
  BY <1>1, <1>3 DEF Ends, Ended, HasQuit
<1>7. Named' /\ DeathExplained'
  BY <1>1, NamedKept, ExplainedKept DEF Closed
<1>8. Counted'
  BY <1>1, <1>3, CountKept DEF Here, Connected, HasQuit
<1>9. Protocol'
  <2>1. Quiet' => Quiet
    BY <1>1, <1>3 DEF Quiet
  <2> QED BY <1>1, <2>1, ProtocolKept
<1> QED BY <1>4, <1>5, <1>6, <1>7, <1>8, <1>9

\* A slave connects, or finds nobody listening.
LEMMA SlaveConnectStep ==
    ASSUME LifecycleInv, NEW s \in Slaves, SlaveConnect(s)
    PROVE  LifecycleInv'
<1> USE Names DEF LifecycleInv
<1>1. /\ slave[s] = "start" /\ slave \in [Slaves -> SlaveState]
      /\ UNCHANGED <<main, garbage, sockfd, listener, active, ready, fds, up, down, client_count,
                     uptodate, requests, readers, copy>>
  BY DEF SlaveConnect, lst, pages, Shapes
<1>2. PICK st \in {"connected", "refused"} :
         /\ slave' = [slave EXCEPT ![s] = st]
         /\ st = "connected" => backlog' = Append(backlog, s) /\ Len(backlog) < MAX_WAITING_NODES
         /\ st = "refused" => backlog' = backlog
  BY DEF SlaveConnect
<1>3. ~InList(s, backlog) /\ s \notin active /\ up[s] = <<>> /\ down[s] = <<>>
  BY <1>1 DEF Queued
<1>4. /\ backlog' \in Seq(Clients) /\ Len(backlog') <= MAX_WAITING_NODES
      /\ backlog # <<>> => backlog' # <<>>
      /\ \A e : InList(e, backlog') <=> (InList(e, backlog) \/ (e = s /\ st = "connected"))
      /\ Once(backlog')
  <2>1. CASE st = "connected"
    BY <1>2, <1>3, <2>1, QueueGrows DEF Queued
  <2>2. CASE st = "refused"
    BY <1>2, <2>2 DEF Queued, Shapes
  <2> QED BY <2>1, <2>2
<1>5. slave'[s] = st /\ \A t \in Slaves : t # s => slave'[t] = slave[t]
  BY <1>1, <1>2
<1>6. Shapes'
  BY <1>1, <1>2, <1>4 DEF Shapes, SlaveState
<1>7. Watched' /\ Queued'
  BY <1>1, <1>3, <1>4, <1>5 DEF Watched, Queued
<1>8. Ends'
  BY <1>1, <1>4, <1>5 DEF Ends, Ended, HasQuit
<1>9. Named' /\ DeathExplained'
  BY <1>1, <1>5, NamedKept, ExplainedKept DEF Closed
<1>10. Counted'
  BY <1>1, <1>4, <1>5, CountKept DEF Here, Connected, HasQuit
<1>11. Protocol'
  <2> SUFFICES ASSUME Quiet' PROVE Handshake' /\ Asked' /\ Located'
    BY DEF Protocol
  <2>1. Quiet
    BY <1>1, <1>4, <1>5 DEF Quiet
  <2>2. Handshake /\ Asked /\ Located
    BY <2>1 DEF Protocol
  <2>3. Handshake'
    BY <1>1, <1>3, <1>5, <2>2 DEF Handshake, Follows, Connects, Locks, Filed
  <2>4. Asked' /\ Located'
    BY <1>1, <1>5, <2>2 DEF Asked, Located, Holds
  <2> QED BY <2>3, <2>4
<1> QED BY <1>6, <1>7, <1>8, <1>9, <1>10, <1>11

\* A slave sends CONNECT.
LEMMA SendConnectStep ==
    ASSUME LifecycleInv, NEW s \in Slaves, SendConnect(s)
    PROVE  LifecycleInv'
<1> USE Names DEF LifecycleInv
<1>1. PICK m \in {"CONNECT", "CONNECT_OTHER"} : SentOn(up, up', s, m)
  BY DEF SendConnect, SentOn
<1>2. /\ slave[s] = "connected" /\ slave \in [Slaves -> SlaveState]
      /\ slave' = [slave EXCEPT ![s] = "waiting"]
      /\ UNCHANGED <<main, garbage, sockfd, listener, active, ready, fds, backlog, down, client_count,
                     uptodate, requests, readers, copy>>
  BY DEF SendConnect, lst, pages, Shapes
<1>3. slave'[s] = "waiting" /\ \A t \in Slaves : t # s => slave'[t] = slave[t]
  BY <1>2
<1>4. up[s] = <<>>
  BY <1>2 DEF Queued
<1>5. /\ up' \in Streams(Clients, UpMsg) /\ \A c \in Clients : c # s => up'[c] = up[c]
      /\ up'[s] # <<>> /\ Head(up'[s]) = m /\ Tail(up'[s]) = <<>>
      /\ \A e : InList(e, up'[s]) <=> (InList(e, up[s]) \/ e = m)
      /\ \A e : ~InList(e, up[s]) => LastOnly(up'[s], e)
  BY <1>1, <1>4, Messages, UpSent
<1>6. Shapes'
  BY <1>2, <1>5 DEF Shapes, SlaveState
<1>7. Watched' /\ Queued'
  BY <1>2, <1>3, <1>5 DEF Watched, Queued
<1>8. Ends'
  BY <1>2, <1>3, <1>5 DEF Ends, Ended, HasQuit
<1>9. Named' /\ DeathExplained'
  BY <1>2, <1>3, NamedKept, ExplainedKept DEF Closed
<1>10. Counted'
  BY <1>2, <1>3, <1>5, CountKept DEF Here, Connected, HasQuit
<1>11. Protocol'
  <2> SUFFICES ASSUME Quiet' PROVE Handshake' /\ Asked' /\ Located'
    BY DEF Protocol
  <2>1. Quiet
    BY <1>2, <1>3 DEF Quiet
  <2>2. Handshake /\ Asked /\ Located
    BY <2>1 DEF Protocol
  <2>3. Handshake'
    BY <1>2, <1>3, <1>5, <2>2 DEF Handshake, Follows, Connects, Locks, Filed
  <2>4. Asked' /\ Located'
    BY <1>2, <1>3, <1>5, <2>2 DEF Asked, Located, Holds
  <2> QED BY <2>3, <2>4
<1> QED BY <1>6, <1>7, <1>8, <1>9, <1>10, <1>11

\* A slave calls lock_read or lock_write.
LEMMA LockPageStep ==
    ASSUME LifecycleInv, NEW s \in Slaves, lock_page(s)
    PROVE  LifecycleInv'
<1> USE Names DEF LifecycleInv
<1>1. PICK m \in {"LOCKREAD", "LOCKWRITE"} : SentOn(up, up', s, m)
  BY DEF lock_page, SentOn
<1>2. /\ slave[s] = "joined" /\ copy[s] = "none" /\ slave \in [Slaves -> SlaveState]
      /\ slave' = [slave EXCEPT ![s] = "asking"]
      /\ UNCHANGED <<main, garbage, sockfd, listener, active, ready, fds, backlog, down, client_count,
                     uptodate, requests, readers, copy>>
  BY DEF lock_page, lst, pages, Shapes
<1>3. slave'[s] = "asking" /\ \A t \in Slaves : t # s => slave'[t] = slave[t]
  BY <1>2
<1>4. /\ up' \in Streams(Clients, UpMsg) /\ \A c \in Clients : c # s => up'[c] = up[c]
      /\ \A e : InList(e, up'[s]) <=> (InList(e, up[s]) \/ e = m)
      /\ \A e : ~InList(e, up[s]) => LastOnly(up'[s], e)
  BY <1>1, Messages, UpSent
<1>5. Shapes'
  BY <1>2, <1>4 DEF Shapes, SlaveState
<1>6. Watched' /\ Queued'
  BY <1>2, <1>3, <1>4 DEF Watched, Queued
<1>7. Ends'
  BY <1>2, <1>3, <1>4 DEF Ends, Ended, HasQuit
<1>8. Named' /\ DeathExplained'
  BY <1>2, <1>3, NamedKept, ExplainedKept DEF Closed
<1>9. Counted'
  BY <1>2, <1>3, <1>4, CountKept DEF Here, Connected, HasQuit
<1>10. Protocol'
  <2> SUFFICES ASSUME Quiet' PROVE Handshake' /\ Asked' /\ Located'
    BY DEF Protocol
  <2>1. Quiet
    BY <1>2, <1>3 DEF Quiet
  <2>2. Handshake /\ Asked /\ Located
    BY <2>1 DEF Protocol
  <2>3. ~Filed(s) /\ ~Connects(s) /\ ~Locks(s) /\ down[s] = <<>>
    BY <1>2, <2>2 DEF Handshake, Follows, Asked, Filed
  <2>4. Follows(s)'
    BY <1>2, <1>3, <1>4, <2>3 DEF Follows, Connects, Locks, Filed
  <2>5. Handshake'
    <3>1. ASSUME NEW t \in Slaves, t # s PROVE Follows(t)'
      BY <1>2, <1>3, <1>4, <2>2, <3>1 DEF Handshake, Follows, Connects, Locks, Filed
    <3> QED BY <2>4, <3>1 DEF Handshake
  <2>6. Asked' /\ Located'
    BY <1>2, <1>3, <1>4, <2>2 DEF Asked, Located, Holds
  <2> QED BY <2>5, <2>6
<1> QED BY <1>5, <1>6, <1>7, <1>8, <1>9, <1>10

\* A slave calls unlock_write.
LEMMA UnlockWriteStep ==
    ASSUME LifecycleInv, NEW s \in Slaves, unlock_write(s)
    PROVE  LifecycleInv'
<1> USE Names DEF LifecycleInv
<1>1. /\ slave[s] = "joined" /\ SentOn(up, up', s, "GIVEPAGE")
      /\ copy \in [Slaves -> {"none", "read", "write"}] /\ copy' = [copy EXCEPT ![s] = "none"]
      /\ UNCHANGED <<main, garbage, sockfd, listener, active, ready, fds, backlog, down, client_count,
                     slave, uptodate, requests, readers>>
  BY DEF unlock_write, SentOn, lst, Shapes
<1>2. /\ up' \in Streams(Clients, UpMsg) /\ \A c \in Clients : c # s => up'[c] = up[c]
      /\ \A e : InList(e, up'[s]) <=> (InList(e, up[s]) \/ e = "GIVEPAGE")
      /\ \A e : ~InList(e, up[s]) => LastOnly(up'[s], e)
  BY <1>1, Messages, UpSent
<1>3. Shapes'
  BY <1>1, <1>2 DEF Shapes
<1>4. Watched' /\ Queued'
  BY <1>1, <1>2 DEF Watched, Queued
<1>5. Ends'
  BY <1>1, <1>2 DEF Ends, Ended, HasQuit
<1>6. Named' /\ DeathExplained'
  BY <1>1, NamedKept, ExplainedKept DEF Closed
<1>7. Counted'
  BY <1>1, <1>2, CountKept DEF Here, Connected, HasQuit
<1>8. Protocol'
  <2> SUFFICES ASSUME Quiet' PROVE Handshake' /\ Asked' /\ Located'
    BY DEF Protocol
  <2>1. Quiet
    BY <1>1 DEF Quiet
  <2>2. Handshake /\ Asked /\ Located
    BY <2>1 DEF Protocol
  <2>3. Handshake'
    BY <1>1, <1>2, <2>2 DEF Handshake, Follows, Connects, Locks, Filed
  <2>4. Asked'
    BY <1>1, <2>2 DEF Asked
  <2>5. Located'
    <3>1. Holds(s)'
      BY <1>1, <1>2 DEF Holds
    <3> QED BY <3>1 DEF Located
  <2> QED BY <2>3, <2>4, <2>5
<1> QED BY <1>3, <1>4, <1>5, <1>6, <1>7, <1>8

\* QuitDSM of a slave.
LEMMA QuitSlaveStep ==
    ASSUME LifecycleInv, NEW s \in Slaves, QuitSlave(s)
    PROVE  LifecycleInv'
<1> USE Names DEF LifecycleInv
<1>1. /\ slave[s] = "joined" /\ slave \in [Slaves -> SlaveState]
      /\ copy \in [Slaves -> {"none", "read", "write"}]
      /\ slave' = [slave EXCEPT ![s] = "quit"] /\ copy' = [copy EXCEPT ![s] = "none"]
      /\ UNCHANGED <<main, garbage, sockfd, listener, active, ready, fds, backlog, down, client_count,
                     uptodate, requests, readers>>
  BY DEF QuitSlave, lst, Shapes
<1>2. /\ slave'[s] = "quit" /\ \A t \in Slaves : t # s => slave'[t] = slave[t] /\ copy'[t] = copy[t]
  BY <1>1
<1>3. PICK h : /\ h = up \/ (copy[s] = "write" /\ SentOn(up, h, s, "GIVEPAGE"))
               /\ copy[s] = "write" => SentOn(up, h, s, "GIVEPAGE")
               /\ SentOn(h, up', s, "TERMINATE")
  BY QuitEffect
<1>4. /\ h \in Streams(Clients, UpMsg) /\ \A c \in Clients : c # s => h[c] = up[c]
      /\ \A e : InList(e, h[s]) <=> (InList(e, up[s]) \/ (copy[s] = "write" /\ e = "GIVEPAGE"))
  <2>1. up \in Streams(Clients, UpMsg)
    BY DEF Shapes
  <2>2. CASE h = up /\ copy[s] # "write"
    BY <2>1, <2>2
  <2>3. CASE copy[s] = "write" /\ SentOn(up, h, s, "GIVEPAGE")
    BY <2>1, <2>3, Messages, SentHolds
  <2> QED BY <1>3, <2>2, <2>3
<1>5. /\ up' \in Streams(Clients, UpMsg) /\ \A c \in Clients : c # s => up'[c] = h[c]
      /\ up'[s] # <<>> /\ \A e : InList(e, up'[s]) <=> (InList(e, h[s]) \/ e = "TERMINATE")
      /\ \A e : ~InList(e, h[s]) => LastOnly(up'[s], e)
  <2>1. /\ h \in Streams(Clients, UpMsg) /\ s \in Clients /\ "TERMINATE" \in UpMsg
        /\ SentOn(h, up', s, "TERMINATE")
    BY <1>3, <1>4, Messages
  <2>2. ASSUME NEW g, SentOn(h, g, s, "TERMINATE")
        PROVE  /\ g \in Streams(Clients, UpMsg) /\ \A c \in Clients : c # s => g[c] = h[c]
               /\ g[s] # <<>> /\ \A e : InList(e, g[s]) <=> (InList(e, h[s]) \/ e = "TERMINATE")
               /\ \A e : ~InList(e, h[s]) => LastOnly(g[s], e)
    <3>1. g \in Streams(Clients, UpMsg) /\ \A c \in Clients : c # s => g[c] = h[c]
      BY <2>1, <2>2, SentHolds
    <3>2. g[s] # <<>>
      BY <2>1, <2>2, SentHolds
    <3>3. h[s] \in Seq(UpMsg) /\ g[s] = Append(h[s], "TERMINATE")
      BY <2>1, <2>2 DEF Streams, SentOn
    <3>4. ASSUME NEW e PROVE InList(e, g[s]) <=> (InList(e, h[s]) \/ e = "TERMINATE")
      <4>1. InList(e, Append(h[s], "TERMINATE")) <=> (InList(e, h[s]) \/ e = "TERMINATE")
        BY <2>1, <3>3, AppendHolds
      <4> QED BY <3>3, <4>1
    <3>5. ASSUME NEW e, ~InList(e, h[s]) PROVE LastOnly(g[s], e)
      <4>1. LastOnly(Append(h[s], "TERMINATE"), e)
        BY <2>1, <3>3, <3>5, AppendHolds
      <4> QED BY <3>3, <4>1
    <3> QED BY <3>1, <3>2, <3>4, <3>5
  <2> QED BY <2>1, <2>2
<1>6. /\ \A c \in Clients : c # s => up'[c] = up[c]
      /\ \A e : InList(e, up'[s]) <=>
                  (InList(e, up[s]) \/ (copy[s] = "write" /\ e = "GIVEPAGE") \/ e = "TERMINATE")
      /\ ~InList("TERMINATE", up[s]) => LastOnly(up'[s], "TERMINATE")
  BY <1>4, <1>5
<1>7. Shapes'
  BY <1>1, <1>5 DEF Shapes, SlaveState
<1>8. Watched' /\ Queued'
  BY <1>1, <1>2, <1>6 DEF Watched, Queued
<1>9. Ends'
  BY <1>1, <1>2, <1>5, <1>6 DEF Ends, Ended, HasQuit
<1>10. Named' /\ DeathExplained'
  BY <1>1, <1>2, NamedKept, ExplainedKept DEF Closed
<1>11. Counted'
  BY <1>1, <1>2, <1>6, CountKept DEF Here, Connected, HasQuit
<1>12. Protocol'
  <2> SUFFICES ASSUME Quiet' PROVE Handshake' /\ Asked' /\ Located'
    BY DEF Protocol
  <2>1. Quiet
    BY <1>1, <1>2 DEF Quiet
  <2>2. Handshake /\ Asked /\ Located
    BY <2>1 DEF Protocol
  <2>3. Handshake'
    BY <1>1, <1>2, <1>6, <2>2 DEF Handshake, Follows, Connects, Locks, Filed
  <2>4. Asked'
    BY <1>1, <1>2, <2>2 DEF Asked
  <2>5. \A t \in Slaves : Holds(t) => Holds(t)'
    BY <1>1, <1>2, <1>6 DEF Holds
  <2> QED BY <1>1, <2>2, <2>3, <2>4, <2>5 DEF Located
<1> QED BY <1>7, <1>8, <1>9, <1>10, <1>11, <1>12

\* A slave receives the answer to CONNECT.
LEMMA ReceiveAckStep ==
    ASSUME LifecycleInv, NEW s \in Slaves, ReceiveAck(s)
    PROVE  LifecycleInv'
<1> USE Names DEF LifecycleInv
<1>1. /\ slave[s] = "waiting" /\ slave \in [Slaves -> SlaveState] /\ ReceivedOn(down, down', s)
      /\ down[s] # <<>>
      /\ UNCHANGED <<main, garbage, sockfd, listener, active, ready, fds, backlog, up, client_count,
                     uptodate, requests, readers, copy>>
  BY DEF ReceiveAck, ReceivedOn, lst, pages, Shapes
<1>2. /\ down' \in Streams(Clients, DownMsg) /\ \A c \in Clients : c # s => down'[c] = down[c]
      /\ down'[s] = Tail(down[s])
  BY <1>1, DownReceived
<1>3. PICK st \in {"joined", "failed"} : slave' = [slave EXCEPT ![s] = st]
  BY DEF ReceiveAck
<1>4. slave'[s] = st /\ \A t \in Slaves : t # s => slave'[t] = slave[t]
  BY <1>1, <1>3
<1>5. ~InList(s, backlog)
  BY <1>1 DEF Queued
<1>6. Shapes'
  BY <1>1, <1>2, <1>3 DEF Shapes, SlaveState
<1>7. Watched' /\ Queued'
  BY <1>1, <1>2, <1>4, <1>5 DEF Watched, Queued
<1>8. Ends'
  BY <1>1, <1>4 DEF Ends, Ended, HasQuit
<1>9. Named' /\ DeathExplained'
  BY <1>1, <1>4, NamedKept, ExplainedKept DEF Closed
<1>10. Counted'
  BY <1>1, <1>4, CountKept DEF Here, Connected, HasQuit
<1>11. Protocol'
  <2> SUFFICES ASSUME Quiet' PROVE Handshake' /\ Asked' /\ Located'
    BY DEF Protocol
  <2>1. Quiet /\ slave'[s] = "joined"
    BY <1>1, <1>4, <1>5 DEF Quiet
  <2>2. Handshake /\ Asked /\ Located
    BY <2>1 DEF Protocol
  <2>3. up[s] = <<>> /\ down'[s] = <<>>
    BY <1>1, <1>2, <2>2 DEF Handshake, Follows
  <2>4. ~Connects(s) /\ ~Locks(s)
    BY <2>3, EmptyHoldsNothing DEF Connects, Locks
  <2>5. Handshake'
    BY <1>1, <1>2, <1>4, <2>1, <2>2, <2>3, <2>4 DEF Handshake, Follows, Connects, Locks, Filed
  <2>6. Asked'
    BY <1>1, <1>4, <2>2 DEF Asked
  <2>7. \A t \in Slaves : Holds(t) => Holds(t)'
    BY <1>1, <1>2, <1>4 DEF Holds
  <2> QED BY <1>1, <2>2, <2>5, <2>6, <2>7 DEF Located
<1> QED BY <1>6, <1>7, <1>8, <1>9, <1>10, <1>11

\* The page arrives at a slave.
LEMMA ReceivePageStep ==
    ASSUME LifecycleInv, NEW s \in Slaves, ReceivePage(s)
    PROVE  LifecycleInv'
<1> USE Names DEF LifecycleInv
<1>1. /\ slave[s] \in {"joined", "asking"} /\ slave \in [Slaves -> SlaveState]
      /\ copy \in [Slaves -> {"none", "read", "write"}] /\ ReceivedOn(down, down', s)
      /\ Head(down[s]) \in {"GIVEREAD", "GIVEWRITE"}
      /\ slave' = [slave EXCEPT ![s] = "joined"]
      /\ copy' = [copy EXCEPT ![s] = IF Head(down[s]) = "GIVEREAD" THEN "read" ELSE "write"]
      /\ UNCHANGED <<main, garbage, sockfd, listener, active, ready, fds, backlog, up, client_count,
                     uptodate, requests, readers>>
  BY DEF ReceivePage, AtMessage, ReceivedOn, lst, Shapes
<1>2. /\ down' \in Streams(Clients, DownMsg) /\ \A c \in Clients : c # s => down'[c] = down[c]
      /\ down'[s] = Tail(down[s]) /\ down[s] # <<>>
      /\ \A e : InList(e, down[s]) <=> (InList(e, down'[s]) \/ e = Head(down[s]))
  BY <1>1, DownReceived
<1>3. /\ slave'[s] = "joined" /\ \A t \in Slaves : t # s => slave'[t] = slave[t] /\ copy'[t] = copy[t]
      /\ copy'[s] = IF Head(down[s]) = "GIVEREAD" THEN "read" ELSE "write"
  BY <1>1
<1>4. ~InList(s, backlog)
  BY <1>1 DEF Queued
<1>5. Shapes'
  BY <1>1, <1>2 DEF Shapes, SlaveState
<1>6. Watched' /\ Queued'
  BY <1>1, <1>2, <1>3, <1>4 DEF Watched, Queued
<1>7. Ends'
  BY <1>1, <1>3 DEF Ends, Ended, HasQuit
<1>8. Named' /\ DeathExplained'
  BY <1>1, <1>3, NamedKept, ExplainedKept DEF Closed
<1>9. Counted'
  BY <1>1, <1>3, CountKept DEF Here, Connected, HasQuit
<1>10. Protocol'
  <2> SUFFICES ASSUME Quiet' PROVE Handshake' /\ Asked' /\ Located'
    BY DEF Protocol
  <2>1. Quiet
    BY <1>1, <1>3 DEF Quiet
  <2>2. Handshake /\ Asked /\ Located
    BY <2>1 DEF Protocol
  <2>3. /\ slave[s] = "asking" /\ down'[s] = <<>>
        /\ ~Connects(s) /\ ~Locks(s) /\ ~Filed(s)
    BY <1>1, <1>2, <2>2 DEF Handshake, Follows
  <2>4. Handshake'
    BY <1>1, <1>2, <1>3, <2>2, <2>3 DEF Handshake, Follows, Connects, Locks, Filed
  <2>5. Asked'
    BY <1>1, <1>3, <2>2, <2>3 DEF Asked, Filed
  <2>6. \A t \in Slaves : Holds(t) => Holds(t)'
    <3>1. ~InList("GIVEWRITE", down'[s])
      BY <2>3, EmptyHoldsNothing
    <3>2. Holds(s) => Holds(s)'
      BY <1>1, <1>2, <1>3, <2>3, <3>1 DEF Holds
    <3> QED BY <1>1, <1>2, <1>3, <3>2 DEF Holds
  <2> QED BY <1>1, <2>2, <2>4, <2>5, <2>6 DEF Located
<1> QED BY <1>5, <1>6, <1>7, <1>8, <1>9, <1>10

\* INVALIDATE arrives at a slave.
LEMMA InvalidateStep ==
    ASSUME LifecycleInv, NEW s \in Slaves, handle_invalidate_msg(s)
    PROVE  LifecycleInv'
<1> USE Names DEF LifecycleInv
<1>1. /\ slave[s] \in {"joined", "asking"} /\ copy[s] # "write"
      /\ copy \in [Slaves -> {"none", "read", "write"}] /\ copy' = [copy EXCEPT ![s] = "none"]
      /\ ReceivedOn(down, down', s) /\ Head(down[s]) = "INVALIDATE"
      /\ SentOn(up, up', s, "INVALIDATE_ACK")
      /\ UNCHANGED <<main, garbage, sockfd, listener, active, ready, fds, backlog, client_count,
                     slave, uptodate, requests, readers>>
  BY DEF handle_invalidate_msg, AtMessage, ReceivedOn, SentOn, lst, Shapes
<1>2. /\ down' \in Streams(Clients, DownMsg) /\ \A c \in Clients : c # s => down'[c] = down[c]
      /\ down'[s] = Tail(down[s]) /\ down[s] # <<>>
      /\ \A e : InList(e, down[s]) <=> (InList(e, down'[s]) \/ e = Head(down[s]))
  BY <1>1, DownReceived
<1>3. /\ up' \in Streams(Clients, UpMsg) /\ \A c \in Clients : c # s => up'[c] = up[c]
      /\ \A e : InList(e, up'[s]) <=> (InList(e, up[s]) \/ e = "INVALIDATE_ACK")
      /\ \A e : ~InList(e, up[s]) => LastOnly(up'[s], e)
  BY <1>1, Messages, UpSent
<1>4. \A t \in Slaves : copy[t] = "write" => copy'[t] = "write"
  BY <1>1
<1>5. ~InList(s, backlog)
  BY <1>1 DEF Queued
<1>6. Shapes'
  BY <1>1, <1>2, <1>3 DEF Shapes
<1>7. Watched' /\ Queued'
  BY <1>1, <1>2, <1>3, <1>5 DEF Watched, Queued
<1>8. Ends'
  BY <1>1, <1>3 DEF Ends, Ended, HasQuit
<1>9. Named' /\ DeathExplained'
  BY <1>1, NamedKept, ExplainedKept DEF Closed
<1>10. Counted'
  BY <1>1, <1>3, CountKept DEF Here, Connected, HasQuit
<1>11. Protocol'
  <2> SUFFICES ASSUME Quiet' PROVE Handshake' /\ Asked' /\ Located'
    BY DEF Protocol
  <2>1. Quiet
    BY <1>1 DEF Quiet
  <2>2. Handshake /\ Asked /\ Located
    BY <2>1 DEF Protocol
  <2>3. /\ slave[s] = "asking" /\ down'[s] = <<>>
        /\ ~Connects(s) /\ ~Locks(s) /\ ~Filed(s)
    BY <1>1, <1>2, <2>2 DEF Handshake, Follows
  <2>4. Follows(s)'
    BY <1>1, <1>3, <2>3 DEF Follows, Connects, Locks
  <2>5. Handshake'
    <3>1. ASSUME NEW t \in Slaves, t # s PROVE Follows(t)'
      <4>1. up'[t] = up[t] /\ down'[t] = down[t] /\ slave' = slave /\ requests' = requests
        BY <1>1, <1>2, <1>3, <3>1
      <4>2. Follows(t)
        BY <2>2 DEF Handshake
      <4> QED BY <4>1, <4>2 DEF Follows, Connects, Locks, Filed
    <3> QED BY <2>4, <3>1 DEF Handshake
  <2>6. Asked'
    BY <1>1, <2>2 DEF Asked
  <2>7. \A t \in Slaves : Holds(t) => Holds(t)'
    BY <1>1, <1>2, <1>3, <1>4 DEF Holds
  <2> QED BY <1>1, <2>2, <2>5, <2>6, <2>7 DEF Located
<1> QED BY <1>6, <1>7, <1>8, <1>9, <1>10, <1>11

\* A slave's process ends.
LEMMA EndSlaveStep ==
    ASSUME LifecycleInv, NEW s \in Slaves, MasterLost(s) \/ ExitSlave(s)
    PROVE  LifecycleInv'
<1> USE Names DEF LifecycleInv
<1>1. /\ UNCHANGED <<main, garbage, sockfd, listener, active, ready, fds, backlog, up, down, client_count,
                     uptodate, requests, readers, copy>>
      /\ slave \in [Slaves -> SlaveState]
  BY DEF MasterLost, ExitSlave, net, lst, pages, Shapes
<1>2. PICK st \in {"gone", "failed"} :
         /\ slave' = [slave EXCEPT ![s] = st]
         /\ st = "gone" => slave[s] = "quit"
         /\ st = "failed" => slave[s] \in {"connected", "waiting", "joined", "asking"}
  BY <1>1 DEF MasterLost, ExitSlave
<1>3. slave'[s] = st /\ \A t \in Slaves : t # s => slave'[t] = slave[t]
  BY <1>1, <1>2
<1>4. Shapes'
  BY <1>1, <1>2 DEF Shapes, SlaveState
<1>5. Watched' /\ Queued'
  BY <1>1, <1>2, <1>3 DEF Watched, Queued
<1>6. Ends'
  BY <1>1, <1>2, <1>3 DEF Ends, Ended, HasQuit
<1>7. Named'
  BY <1>1, <1>3, NamedKept DEF Closed
<1>8. DeathExplained'
  BY <1>1, <1>2, <1>3, ExplainedKept
<1>9. Counted'
  BY <1>1, <1>2, <1>3, CountKept DEF Here, Connected, HasQuit
<1>10. Protocol'
  <2> SUFFICES ASSUME Quiet' PROVE Handshake' /\ Asked' /\ Located'
    BY DEF Protocol
  <2>1. Quiet /\ (st = "failed" => InList(s, backlog))
    BY <1>1, <1>2, <1>3 DEF Quiet
  <2>2. Handshake /\ Asked /\ Located
    BY <2>1 DEF Protocol
  <2>3. slave[s] \in {"connected", "waiting", "quit"}
    BY <1>2, <2>1 DEF Queued
  <2>4. Handshake'
    BY <1>1, <1>2, <1>3, <2>2, <2>3 DEF Handshake, Follows, Connects, Locks, Filed
  <2>5. Asked'
    BY <1>1, <1>3, <2>2, <2>3 DEF Asked
  <2>6. \A t \in Slaves : Holds(t) => Holds(t)'
    BY <1>1, <1>2, <1>3, <2>3 DEF Holds
  <2> QED BY <1>1, <2>2, <2>4, <2>5, <2>6 DEF Located
<1> QED BY <1>4, <1>5, <1>6, <1>7, <1>8, <1>9, <1>10

-----------------------------------------------------------------------------
(* The steps of the master's listener.                                     *)

\* The listener serves a descriptor while the process runs.
LEMMA ServingAlive ==
    ASSUME NEW fd, Serving(fd)
    PROVE  fd \in ready /\ main \notin {"start", "dead", "exited"} /\ listener = "serve"
BY DEF Serving, Alive, Listening

\* After a descriptor the listener goes on.
LEMMA ServedOn ==
    ASSUME NEW fd, Served(fd)
    PROVE  ready' = ready \ {fd} /\ listener' \in {"top", "serve"}
BY DEF Served, Onward

\* What a client whose message is being read is: watched, accepted, connected.
LEMMA ReaderKnown ==
    ASSUME LifecycleInv, NEW c \in Clients, NEW type, Receive(c, type)
    PROVE  /\ ReceivedOn(up, up', c) /\ Head(up[c]) = type /\ c \in ready /\ c \in active /\ c \in fds
           /\ main \notin {"start", "dead", "exited"} /\ listener = "serve"
           /\ ~InList(c, backlog) /\ Connected(c)
           /\ c \in Slaves => slave[c] \notin {"start", "refused", "connected"}
<1>1. /\ ReceivedOn(up, up', c) /\ Head(up[c]) = type /\ c \in ready /\ c \in active
      /\ main \notin {"start", "dead", "exited"} /\ up[c] # <<>>
  BY ReceiveEffect DEF LifecycleInv, Alive, Listening, ReceivedOn
<1>2. ~InList(c, backlog) /\ Connected(c) /\ c \in fds
  BY <1>1, Names DEF LifecycleInv, Queued, Watched, Connected
<1>3. c \in Slaves => slave[c] \notin {"start", "refused", "connected"}
  BY <1>1 DEF LifecycleInv, Queued
<1> QED BY <1>1, <1>2, <1>3 DEF Receive, Serving

\* CONNECT.
LEMMA ConnectStep ==
    ASSUME LifecycleInv, NEW s \in Slaves, handle_connect_msg(s)
    PROVE  LifecycleInv'
<1> USE Names DEF LifecycleInv
<1>1. PICK type \in {"CONNECT", "CONNECT_OTHER"}, msg \in {"ACK", "NACK"} : Receive(s, type) /\ Reply(s, msg)
  BY DEF handle_connect_msg
<1>2. UNCHANGED <<garbage, sockfd, active, fds, backlog, client_count, slave, uptodate, requests, readers, copy>>
  BY DEF handle_connect_msg, pages
<1>3. /\ ReceivedOn(up, up', s) /\ Head(up[s]) = type /\ s \in ready /\ s \in active
      /\ main \notin {"start", "dead", "exited"} /\ ~InList(s, backlog) /\ listener = "serve"
      /\ slave[s] \notin {"start", "refused", "connected"}
  BY <1>1, ReaderKnown
<1>4. /\ up' \in Streams(Clients, UpMsg) /\ \A c \in Clients : c # s => up'[c] = up[c]
      /\ up'[s] = Tail(up[s]) /\ up[s] # <<>>
      /\ \A e : InList(e, up[s]) <=> (InList(e, up'[s]) \/ e = type)
      /\ \A e : LastOnly(up[s], e) => LastOnly(up'[s], e)
  BY <1>3, UpReceived
<1>5. ASSUME Quiet
      PROVE  /\ slave[s] \in {"waiting", "failed"}
             /\ slave[s] = "waiting" => up'[s] = <<>> /\ down[s] = <<>>
  <2>1. Follows(s) /\ Connects(s)
    BY <1>3, <1>4, <1>5 DEF Protocol, Handshake, Connects
  <2> QED BY <1>3, <1>4, <2>1 DEF Shapes, SlaveState, Follows
<1>6. \A c \in Clients : InList("TERMINATE", up'[c]) <=> InList("TERMINATE", up[c])
  BY <1>4
<1>7. CASE Served(s) /\ SentOn(down, down', s, msg) /\ main' = main
  <2>1. /\ down' \in Streams(Clients, DownMsg) /\ \A d \in Clients : d # s => down'[d] = down[d]
        /\ down'[s] # <<>> /\ \A e : InList(e, down'[s]) <=> (InList(e, down[s]) \/ e = msg)
        /\ down[s] = <<>> => Tail(down'[s]) = <<>>
    BY <1>7, Messages, DownSent
  <2>2. ready' = ready \ {s} /\ listener' \in {"top", "serve"}
    BY <1>7, ServedOn
  <2>3. Shapes'
    BY <1>2, <1>3, <1>4, <1>7, <2>1, <2>2 DEF Shapes, InLoop
  <2>4. Watched' /\ Queued'
    BY <1>2, <1>3, <1>4, <1>7, <2>1, <2>2 DEF Watched, Queued
  <2>5. Ends'
    BY <1>2, <1>3, <1>4, <1>6, <1>7 DEF Ends, Ended, HasQuit
  <2>6. Named' /\ DeathExplained'
    BY <1>2, <1>7, NamedKept, ExplainedKept DEF Closed
  <2>7. Counted'
    BY <1>2, <1>6, <1>7, CountKept DEF Here, Connected, HasQuit
  <2>8. Protocol'
    <3> SUFFICES ASSUME Quiet' PROVE Handshake' /\ Asked' /\ Located'
      BY DEF Protocol
    <3>1. Quiet
      BY <1>2, <1>3 DEF Quiet, InLoop
    <3>2. Handshake /\ Asked /\ Located
      BY <3>1 DEF Protocol
    <3>3. slave[s] = "waiting" /\ up'[s] = <<>> /\ down[s] = <<>>
      BY <1>2, <1>3, <1>5, <3>1 DEF Quiet
    <3>4. Handshake'
      BY <1>2, <1>4, <2>1, <3>2, <3>3 DEF Handshake, Follows, Connects, Locks, Filed
    <3>5. Asked'
      BY <1>2, <3>2 DEF Asked
    <3>6. \A t \in Slaves : Holds(t) => Holds(t)'
      BY <1>2, <1>4, <2>1, <3>3 DEF Holds
    <3> QED BY <1>2, <3>2, <3>4, <3>5, <3>6 DEF Located
  <2> QED BY <2>3, <2>4, <2>5, <2>6, <2>7, <2>8
<1>8. CASE Closed(s) /\ Exit /\ UNCHANGED <<down, ready>>
  <2>1. \E t \in Slaves : slave[t] = "failed"
    BY <1>3, <1>5, <1>8 DEF Closed, Quiet, InLoop
  <2>2. DeathExplained' /\ Named'
    BY <1>2, <2>1 DEF DeathExplained, Named, Known, Closed
  <2>3. down' \in Streams(Clients, DownMsg) /\ requests' \in Seq(Request) /\ readers' \in Seq(Clients)
    BY <1>2, <1>8 DEF Shapes
  <2> QED BY <1>2, <1>3, <1>4, <1>8, <2>2, <2>3, ExitStep
<1> QED BY <1>1, <1>7, <1>8 DEF Reply, SentOn

\* The barrier message of the master's application.
LEMMA SyncBarrierStep ==
    ASSUME LifecycleInv, handle_sync_barrier_msg
    PROVE  LifecycleInv'
<1> USE Names DEF LifecycleInv
<1>1. /\ Receive(Master, "SYNC_BARRIER") /\ Reply(Master, "BARRIER_ACK")
      /\ UNCHANGED <<garbage, sockfd, active, fds, backlog, client_count, slave, uptodate, requests, readers, copy>>
  BY DEF handle_sync_barrier_msg, pages
<1>2. /\ SentOn(down, down', Master, "BARRIER_ACK") /\ main' = main
      /\ ready' = ready \ {Master} /\ listener' \in {"top", "serve"}
  BY <1>1, ServedOn DEF Reply, Closed, SentOn
<1>3. /\ ReceivedOn(up, up', Master) /\ Head(up[Master]) = "SYNC_BARRIER" /\ listener = "serve"
      /\ main \notin {"start", "dead", "exited"} /\ ~InList(Master, backlog)
  BY <1>1, ReaderKnown
<1>4. /\ up' \in Streams(Clients, UpMsg) /\ \A c \in Clients : c # Master => up'[c] = up[c]
      /\ up[Master] # <<>>
      /\ \A e : InList(e, up[Master]) <=> (InList(e, up'[Master]) \/ e = "SYNC_BARRIER")
      /\ \A e : LastOnly(up[Master], e) => LastOnly(up'[Master], e)
  BY <1>3, UpReceived
<1>5. \A c \in Clients : InList("TERMINATE", up'[c]) <=> InList("TERMINATE", up[c])
  BY <1>4
<1>6. /\ down' \in Streams(Clients, DownMsg) /\ \A d \in Clients : d # Master => down'[d] = down[d]
      /\ down'[Master] # <<>>
  BY <1>2, Messages, DownSent
<1>7. Shapes'
  BY <1>1, <1>2, <1>3, <1>4, <1>6 DEF Shapes, InLoop
<1>8. Watched' /\ Queued'
  BY <1>1, <1>2, <1>4, <1>6 DEF Watched, Queued
<1>9. Ends'
  BY <1>1, <1>2, <1>3, <1>4, <1>5 DEF Ends, Ended, HasQuit
<1>10. Named' /\ DeathExplained'
  BY <1>1, <1>2, NamedKept, ExplainedKept DEF Closed
<1>11. Counted'
  BY <1>1, <1>2, <1>5, CountKept DEF Here, Connected, HasQuit
<1>12. Protocol'
  <2>1. Quiet' => Quiet
    BY <1>1, <1>3 DEF Quiet, InLoop
  <2> QED BY <1>1, <1>4, <1>6, <2>1, ProtocolKept
<1> QED BY <1>7, <1>8, <1>9, <1>10, <1>11, <1>12

\* The page requests are gone through only when there are some and the page is there.
LEMMA CheckedOn ==
    ASSUME NEW fd, ProcessCheck(fd), uptodate' \in BOOLEAN
    PROVE  /\ ready' = ready \ {fd} /\ listener' \in {"top", "serve", "pages"}
           /\ listener' = "pages" => uptodate' = TRUE /\ requests' # <<>>
BY DEF ProcessCheck, Onward

\* LOCKPAGE.
LEMMA LockMessageStep ==
    ASSUME LifecycleInv, NEW s \in Slaves, handle_lockpage_msg(s)
    PROVE  LifecycleInv'
<1> USE Names DEF LifecycleInv
<1>1. PICK r \in {"read", "write"} : /\ Receive(s, IF r = "read" THEN "LOCKREAD" ELSE "LOCKWRITE")
                                     /\ requests' = Append(requests, [from |-> s, rights |-> r])
  BY DEF handle_lockpage_msg
<1>2. PICK type \in {"LOCKREAD", "LOCKWRITE"} : Receive(s, type)
  BY <1>1
<1>3. /\ ProcessCheck(s)
      /\ UNCHANGED <<main, garbage, sockfd, active, fds, backlog, down, client_count, slave, uptodate, readers, copy>>
  BY DEF handle_lockpage_msg
<1>4. /\ ready' = ready \ {s} /\ listener' \in {"top", "serve", "pages"}
      /\ listener' = "pages" => uptodate' = TRUE /\ requests' # <<>>
  BY <1>3, CheckedOn DEF Shapes
<1>5. /\ ReceivedOn(up, up', s) /\ Head(up[s]) = type /\ ~InList(s, backlog) /\ s \in fds
      /\ slave[s] \notin {"start", "refused", "connected"} /\ listener = "serve"
      /\ main \notin {"start", "dead", "exited"}
  BY <1>2, ReaderKnown
<1>6. /\ up' \in Streams(Clients, UpMsg) /\ \A c \in Clients : c # s => up'[c] = up[c]
      /\ up'[s] = Tail(up[s]) /\ up[s] # <<>>
      /\ \A e : InList(e, up[s]) <=> (InList(e, up'[s]) \/ e = type)
      /\ \A e : LastOnly(up[s], e) => LastOnly(up'[s], e)
      /\ LastOnly(up[s], type) => up'[s] = <<>>
  BY <1>5, UpReceived
<1>7. \A c \in Clients : InList("TERMINATE", up'[c]) <=> InList("TERMINATE", up[c])
  BY <1>6
<1>8. /\ requests' \in Seq(Request)
      /\ \A i \in DOMAIN requests' : \/ i \in DOMAIN requests /\ requests'[i] = requests[i]
                                     \/ i = Len(requests) + 1 /\ requests'[i].from = s
  <2> DEFINE q == [from |-> s, rights |-> r]
  <2>1. q \in Request /\ q.from = s /\ requests \in Seq(Request) /\ requests' = Append(requests, q)
    BY <1>1 DEF Request, Shapes
  <2> HIDE DEF q
  <2>2. requests' \in Seq(Request)
    BY <2>1, AppendHolds
  <2>3. \A i \in DOMAIN requests' : \/ i \in DOMAIN requests /\ requests'[i] = requests[i]
                                    \/ i = Len(requests) + 1 /\ requests'[i] = q
    BY <2>1, AppendAt
  <2> QED BY <2>1, <2>2, <2>3
<1>9. Shapes'
  BY <1>3, <1>4, <1>5, <1>6, <1>8 DEF Shapes, InLoop
<1>10. Watched' /\ Queued'
  BY <1>3, <1>4, <1>5, <1>6 DEF Watched, Queued
<1>11. Ends'
  BY <1>3, <1>5, <1>6, <1>7 DEF Ends, Ended, HasQuit
<1>12. DeathExplained'
  BY <1>3, ExplainedKept
<1>13. Named'
  <2>1. \A c : Known(c) => Known(c)'
    BY <1>3 DEF Known, Closed
  <2>2. Known(s)
    BY <1>5 DEF Known
  <2> QED BY <1>3, <1>8, <2>1, <2>2 DEF Named
<1>14. Counted'
  BY <1>3, <1>7, CountKept DEF Here, Connected, HasQuit
<1>15. Protocol'
  <2> SUFFICES ASSUME Quiet' PROVE Handshake' /\ Asked' /\ Located'
    BY DEF Protocol
  <2>1. Quiet
    BY <1>3, <1>5 DEF Quiet, InLoop
  <2>2. Handshake /\ Asked /\ Located
    BY <2>1 DEF Protocol
  <2>3. Locks(s) /\ slave[s] # "failed" /\ Follows(s)
    BY <1>5, <1>6, <2>1, <2>2 DEF Locks, Quiet, Handshake
  <2>4. /\ slave[s] = "asking" /\ up'[s] = <<>> /\ down[s] = <<>> /\ ~Filed(s)
    <3>1. slave[s] # "waiting"
      BY <1>5, <1>6, <2>3 DEF Follows
    <3>2. slave[s] = "asking"
      BY <1>5, <2>3, <3>1 DEF Follows, Shapes, SlaveState
    <3> QED BY <1>6, <2>3, <3>2 DEF Follows
  <2>5. ASSUME NEW t \in Slaves, t # s PROVE Follows(t)'
    <3>1. up'[t] = up[t] /\ down'[t] = down[t] /\ slave' = slave /\ Follows(t)
      BY <1>3, <1>6, <2>2, <2>5 DEF Handshake
    <3>2. Filed(t)' => Filed(t)
      BY <1>8, <2>5 DEF Filed
    <3> QED BY <3>1, <3>2 DEF Follows, Connects, Locks
  <2>6. Follows(s)'
    BY <1>3, <2>4, EmptyHoldsNothing DEF Follows, Connects, Locks
  <2>7. Asked'
    BY <1>3, <1>8, <2>2, <2>4 DEF Asked, Filed
  <2>8. \A t \in Slaves : Holds(t) => Holds(t)'
    BY <1>3, <1>6 DEF Holds
  <2> QED BY <1>3, <2>2, <2>5, <2>6, <2>7, <2>8 DEF Handshake, Located
<1> QED BY <1>9, <1>10, <1>11, <1>12, <1>13, <1>14, <1>15

\* GIVEPAGE.
LEMMA GivePageStep ==
    ASSUME LifecycleInv, NEW s \in Slaves, handle_givepage_msg(s)
    PROVE  LifecycleInv'
<1> USE Names DEF LifecycleInv
<1>1. /\ Receive(s, "GIVEPAGE") /\ uptodate' = TRUE /\ ProcessCheck(s)
      /\ UNCHANGED <<main, garbage, sockfd, active, fds, backlog, down, client_count, slave, requests, readers, copy>>
  BY DEF handle_givepage_msg
<1>2. /\ ready' = ready \ {s} /\ listener' \in {"top", "serve", "pages"}
      /\ listener' = "pages" => uptodate' = TRUE /\ requests' # <<>>
  BY <1>1, CheckedOn
<1>3. /\ ReceivedOn(up, up', s) /\ Head(up[s]) = "GIVEPAGE" /\ ~InList(s, backlog)
      /\ slave[s] \notin {"start", "refused", "connected"} /\ main \notin {"start", "dead", "exited"}
      /\ listener = "serve"
  BY <1>1, ReaderKnown
<1>4. /\ up' \in Streams(Clients, UpMsg) /\ \A c \in Clients : c # s => up'[c] = up[c]
      /\ up[s] # <<>>
      /\ \A e : InList(e, up[s]) <=> (InList(e, up'[s]) \/ e = "GIVEPAGE")
      /\ \A e : LastOnly(up[s], e) => LastOnly(up'[s], e)
  BY <1>3, UpReceived
<1>5. \A c \in Clients : InList("TERMINATE", up'[c]) <=> InList("TERMINATE", up[c])
  BY <1>4
<1>6. Shapes'
  BY <1>1, <1>2, <1>3, <1>4 DEF Shapes, InLoop
<1>7. Watched' /\ Queued'
  BY <1>1, <1>2, <1>3, <1>4 DEF Watched, Queued
<1>8. Ends'
  BY <1>1, <1>3, <1>4, <1>5 DEF Ends, Ended, HasQuit
<1>9. Named' /\ DeathExplained'
  BY <1>1, NamedKept, ExplainedKept DEF Closed
<1>10. Counted'
  BY <1>1, <1>5, CountKept DEF Here, Connected, HasQuit
<1>11. Protocol'
  <2> SUFFICES ASSUME Quiet' PROVE Handshake' /\ Asked' /\ Located'
    BY DEF Protocol
  <2>1. Quiet
    BY <1>1, <1>3 DEF Quiet, InLoop
  <2>2. Handshake /\ Asked
    BY <2>1 DEF Protocol
  <2>3. slave[s] # "waiting"
    BY <1>3, <1>4, <2>2 DEF Handshake, Follows
  <2>4. ASSUME NEW t \in Slaves PROVE Follows(t)'
    <3>1. CASE t # s
      <4>1. up'[t] = up[t] /\ down' = down /\ slave' = slave /\ requests' = requests /\ Follows(t)
        BY <1>1, <1>4, <2>2, <3>1 DEF Handshake
      <4> QED BY <4>1 DEF Follows, Connects, Locks, Filed
    <3>2. CASE t = s
      BY <1>1, <1>3, <1>4, <2>2, <2>3, <3>2 DEF Handshake, Follows, Connects, Locks, Filed
    <3> QED BY <3>1, <3>2
  <2>5. Asked'
    BY <1>1, <2>2 DEF Asked
  <2> QED BY <1>1, <2>4, <2>5 DEF Handshake, Located
<1> QED BY <1>6, <1>7, <1>8, <1>9, <1>10, <1>11

\* A client is counted when its connection is accepted ...
LEMMA CountUp ==
    ASSUME Counted, main # "dead", NEW a \in Clients, client_count' = client_count + 1,
           ~Here(a), Here(a)', \A c \in Clients : c # a => (Here(c)' <=> Here(c))
    PROVE  Counted'
<1>1. Present' = Present \cup {a} /\ a \notin Present
  BY DEF Present, Here
<1>2. IsFiniteSet(Present)
  <2>1. IsFiniteSet(Clients)
    BY LifecycleAssumption, FS_AddElement DEF Clients
  <2> QED BY <2>1, FS_Subset DEF Present
<1>3. Cardinality(Present') = Cardinality(Present) + 1
  <2> DEFINE P == Present
             Q == Present'
  <2> HIDE DEF P, Q
  <2>1. Q = P \cup {a} /\ a \notin P /\ IsFiniteSet(P)
    BY <1>1, <1>2 DEF P, Q
  <2>2. Cardinality(Q) = Cardinality(P) + 1
    BY <2>1, FS_AddElement
  <2> QED BY <2>2 DEF P, Q
<1> QED BY <1>3 DEF Counted, CountExact

\* ... until its TERMINATE is handled.
LEMMA CountDown ==
    ASSUME Counted, main # "dead", NEW a \in Clients, client_count' = client_count - 1,
           Here(a), ~Here(a)', \A c \in Clients : c # a => (Here(c)' <=> Here(c))
    PROVE  Counted'
<1>1. Present' = Present \ {a} /\ a \in Present
  BY DEF Present, Here
<1>2. IsFiniteSet(Present)
  <2>1. IsFiniteSet(Clients)
    BY LifecycleAssumption, FS_AddElement DEF Clients
  <2> QED BY <2>1, FS_Subset DEF Present
<1>3. Cardinality(Present') = Cardinality(Present) - 1 /\ Cardinality(Present') \in Nat
  <2> DEFINE P == Present
             Q == Present'
  <2> HIDE DEF P, Q
  <2>1. Q = P \ {a} /\ a \in P /\ IsFiniteSet(P)
    BY <1>1, <1>2 DEF P, Q
  <2>2. Cardinality(Q) = Cardinality(P) - 1 /\ IsFiniteSet(Q)
    BY <2>1, FS_RemoveElement
  <2>3. Cardinality(Q) \in Nat
    BY <2>2, FS_CardinalityType
  <2> QED BY <2>2, <2>3 DEF P, Q
<1> QED BY <1>3 DEF Counted, CountExact

\* TERMINATE.
LEMMA TerminateStep ==
    ASSUME LifecycleInv, NEW c \in Clients, handle_terminate_msg(c)
    PROVE  LifecycleInv'
<1> USE Names DEF LifecycleInv
<1>1. /\ Receive(c, "TERMINATE") /\ ready' = ready \ {c} /\ client_count' = client_count - 1
      /\ listener' \in {"top", "serve"}
      /\ UNCHANGED <<main, garbage, sockfd, active, fds, backlog, down, slave, uptodate, requests, readers, copy>>
  BY ServedOn DEF handle_terminate_msg, pages
<1>2. /\ ReceivedOn(up, up', c) /\ Head(up[c]) = "TERMINATE" /\ ~InList(c, backlog)
      /\ main \notin {"start", "dead", "exited"} /\ Connected(c) /\ listener = "serve"
      /\ c \in Slaves => slave[c] \notin {"start", "refused", "connected"}
  BY <1>1, ReaderKnown
<1>3. /\ up' \in Streams(Clients, UpMsg) /\ \A d \in Clients : d # c => up'[d] = up[d]
      /\ up[c] # <<>> /\ InList("TERMINATE", up[c])
      /\ \A e : LastOnly(up[c], e) => LastOnly(up'[c], e)
      /\ LastOnly(up[c], "TERMINATE") => up'[c] = <<>>
      /\ \A e : InList(e, up[c]) <=> (InList(e, up'[c]) \/ e = "TERMINATE")
  BY <1>2, UpReceived
<1>4. HasQuit(c) /\ up'[c] = <<>> /\ \A e : ~InList(e, up'[c]) /\ LastOnly(up'[c], e)
  BY <1>2, <1>3, EmptyHoldsNothing DEF Ends, Ended
<1>5. Shapes'
  BY <1>1, <1>2, <1>3 DEF Shapes, InLoop
<1>6. Watched' /\ Queued'
  BY <1>1, <1>2, <1>3 DEF Watched, Queued
<1>7. Ends'
  BY <1>1, <1>2, <1>3, <1>4 DEF Ends, Ended, HasQuit
<1>8. Named' /\ DeathExplained'
  BY <1>1, NamedKept, ExplainedKept DEF Closed
<1>9. Counted'
  <2>1. Here(c)
    BY <1>2, <1>3 DEF Here
  <2>2. ~Here(c)'
    BY <1>1, <1>4 DEF Here, HasQuit
  <2>3. \A d \in Clients : d # c => (Here(d)' <=> Here(d))
    BY <1>1, <1>3 DEF Here, Connected, HasQuit
  <2> QED BY <1>1, <1>2, <2>1, <2>2, <2>3, CountDown
<1>10. Protocol'
  <2> SUFFICES ASSUME Quiet' PROVE Handshake' /\ Asked' /\ Located'
    BY DEF Protocol
  <2>1. Quiet
    BY <1>1, <1>2 DEF Quiet, InLoop
  <2>2. Handshake /\ Asked /\ Located
    BY <2>1 DEF Protocol
  <2>3. c \in Slaves => slave[c] \in {"quit", "gone"}
    BY <1>4 DEF HasQuit
  <2>4. ASSUME NEW t \in Slaves PROVE Follows(t)'
    <3>1. CASE t # c
      <4>1. up'[t] = up[t] /\ down' = down /\ slave' = slave /\ requests' = requests /\ Follows(t)
        BY <1>1, <1>3, <2>2, <3>1 DEF Handshake
      <4> QED BY <4>1 DEF Follows, Connects, Locks, Filed
    <3>2. CASE t = c
      BY <1>1, <1>4, <2>2, <2>3, <3>2 DEF Handshake, Follows, Connects, Locks
    <3> QED BY <3>1, <3>2
  <2>5. Asked'
    BY <1>1, <2>2 DEF Asked
  <2>6. \A t \in Slaves : Holds(t) => Holds(t)'
    BY <1>1, <1>3 DEF Holds
  <2> QED BY <1>1, <2>2, <2>4, <2>5, <2>6 DEF Handshake, Located
<1> QED BY <1>5, <1>6, <1>7, <1>8, <1>9, <1>10

\* When a descriptor gets another owner the lists keep their length, and what they
\* name, but for the old owner's name.
LEMMA RenamedKeeps ==
    ASSUME Shapes, NEW old \in Clients, NEW new \in Clients, Renamed(old, new)
    PROVE  /\ requests' \in Seq(Request) /\ readers' \in Seq(Clients)
           /\ DOMAIN requests' = DOMAIN requests /\ DOMAIN readers' = DOMAIN readers
           /\ \A i \in DOMAIN requests :
                 requests'[i].from = IF requests[i].from = old THEN new ELSE requests[i].from
           /\ \A i \in DOMAIN readers : readers'[i] = IF readers[i] = old THEN new ELSE readers[i]
           /\ requests # <<>> => requests' # <<>>
<1> DEFINE l == Len(requests)
           n == Len(readers)
<1>1. /\ requests \in Seq(Request) /\ readers \in Seq(Clients)
      /\ l \in Nat /\ DOMAIN requests = 1..l /\ n \in Nat /\ DOMAIN readers = 1..n
      /\ \A i \in 1..l : requests[i] \in Request
      /\ \A i \in 1..n : readers[i] \in Clients
  BY LenProperties, ElementOfSeq DEF Shapes
<1> HIDE DEF l, n
<1>2. requests' = [i \in 1..l |-> IF requests[i].from = old THEN [requests[i] EXCEPT !.from = new] ELSE requests[i]]
  BY <1>1 DEF Renamed
<1>3. readers' = [i \in 1..n |-> IF readers[i] = old THEN new ELSE readers[i]]
  BY <1>1 DEF Renamed
<1>4. \A i \in 1..l : requests'[i] \in Request
  BY <1>1, <1>2 DEF Request
<1>5. \A i \in 1..n : readers'[i] \in Clients
  BY <1>1, <1>3
<1>6. requests' \in Seq(Request) /\ DOMAIN requests' = 1..l
  <2>1. requests' = [i \in 1..l |-> requests'[i]]
    BY <1>2
  <2>2. requests' \in [1..l -> Request]
    BY <1>4, <2>1
  <2> QED BY <1>1, <2>2, SeqDef
<1>7. readers' \in Seq(Clients) /\ DOMAIN readers' = 1..n
  <2>1. readers' \in [1..n -> Clients]
    BY <1>3, <1>5
  <2> QED BY <1>1, <2>1, SeqDef
<1>8. \A i \in 1..l : requests'[i].from = IF requests[i].from = old THEN new ELSE requests[i].from
  BY <1>1, <1>2 DEF Request
<1>9. requests # <<>> => requests' # <<>>
  <2>1. requests # <<>> => l # 0
    BY <1>1, EmptySeq DEF l
  <2>2. requests' = <<>> => 1..l = 1..0
    BY <1>6
  <2> QED BY <1>1, <2>1, <2>2
<1> QED BY <1>1, <1>3, <1>6, <1>7, <1>8, <1>9

\* accept.
LEMMA AcceptStep ==
    ASSUME LifecycleInv, Accept
    PROVE  LifecycleInv'
<1> USE Names DEF LifecycleInv
<1>0. PICK a : a = Head(backlog)
  OBVIOUS
<1>1. /\ "server" \in ready /\ main \notin {"start", "dead", "exited"} /\ ready' = ready \ {"server"}
      /\ listener = "serve" /\ listener' \in {"top", "serve"}
      /\ backlog' = Tail(backlog) /\ fds' = fds \cup {a} /\ active' = active \cup {a}
      /\ client_count' = client_count + 1
      /\ UNCHANGED <<main, garbage, sockfd, up, down, slave, uptodate, copy>>
  BY <1>0, ServingAlive, ServedOn DEF Accept, Descriptor
<1>2. backlog # <<>>
  BY <1>1 DEF Watched
<1>3. /\ backlog' \in Seq(Clients) /\ Len(backlog') <= MAX_WAITING_NODES /\ a \in Clients
      /\ \A e : InList(e, backlog) <=> (InList(e, backlog') \/ e = a)
      /\ Once(backlog') /\ ~InList(a, backlog')
  BY <1>0, <1>1, <1>2, QueueShrinks DEF Queued
<1>4. /\ InList(a, backlog)
      /\ a \in Slaves => slave[a] \in {"connected", "waiting", "failed"}
      /\ a = Master => main \notin {"start", "created"}
  BY <1>3 DEF Queued
<1>5. PICK old \in {a} \cup {c \in Clients \ fds : Listed(c)} : Renamed(old, a)
  BY <1>0 DEF Accept, Descriptor
<1>6. /\ requests' \in Seq(Request) /\ readers' \in Seq(Clients)
      /\ DOMAIN requests' = DOMAIN requests /\ DOMAIN readers' = DOMAIN readers
      /\ \A i \in DOMAIN requests : requests'[i].from = IF requests[i].from = old THEN a ELSE requests[i].from
      /\ \A i \in DOMAIN readers : readers'[i] = IF readers[i] = old THEN a ELSE readers[i]
      /\ requests # <<>> => requests' # <<>>
  BY <1>3, <1>5, RenamedKeeps
<1>7. Shapes'
  BY <1>1, <1>3, <1>6 DEF Shapes, InLoop
<1>8. Watched' /\ Queued'
  BY <1>1, <1>3, <1>4 DEF Watched, Queued
<1>9. Ends'
  BY <1>1, <1>3 DEF Ends, Ended, HasQuit
<1>10. Named'
  <2>1. Known(a)' /\ \A c : Known(c) => Known(c)'
    BY <1>1 DEF Known, Closed
  <2> QED BY <1>6, <2>1 DEF Named
<1>11. DeathExplained'
  BY <1>1, ExplainedKept
<1>12. Counted'
  <2>1. ~Here(a)
    BY <1>4 DEF Here
  <2>2. Here(a)'
    BY <1>1, <1>3, <1>4 DEF Here, Connected, HasQuit, Ends, Ended
  <2>3. \A c \in Clients : c # a => (Here(c)' <=> Here(c))
    BY <1>1, <1>3 DEF Here, Connected, HasQuit
  <2> QED BY <1>1, <1>3, <2>1, <2>2, <2>3, CountUp
<1>13. Protocol'
  <2> SUFFICES ASSUME Quiet' PROVE Handshake' /\ Asked' /\ Located'
    BY DEF Protocol
  <2>1. Quiet
    BY <1>1, <1>3 DEF Quiet, InLoop
  <2>2. Handshake /\ Asked /\ Located
    BY <2>1 DEF Protocol
  <2>3. \A i \in DOMAIN requests : requests[i].from \in fds
    BY <2>2 DEF Named, Known, Closed, Asked
  <2>4. \A i \in DOMAIN requests : requests'[i].from = requests[i].from
    BY <1>5, <1>6, <2>3
  <2>5. \A t \in Slaves : Filed(t)' <=> Filed(t)
    BY <1>6, <2>4 DEF Filed
  <2>6. Handshake'
    BY <1>1, <2>2, <2>5 DEF Handshake, Follows, Connects, Locks
  <2>7. Asked'
    BY <1>1, <1>6, <2>2, <2>4 DEF Asked
  <2>8. Located'
    BY <1>1, <2>2 DEF Located, Holds
  <2> QED BY <2>6, <2>7, <2>8
<1> QED BY <1>7, <1>8, <1>9, <1>10, <1>11, <1>12, <1>13

\* What arrives at the master's own end.
LEMMA ReceiveOwnStep ==
    ASSUME LifecycleInv, handle_barrier_ack_msg \/ handle_givepage_own
    PROVE  LifecycleInv'
<1> USE Names DEF LifecycleInv
<1>1. /\ "own" \in ready /\ main \notin {"start", "dead", "exited"} /\ ready' = ready \ {"own"}
      /\ listener = "serve" /\ listener' \in {"top", "serve", "pages"}
      /\ listener' = "pages" => uptodate' = TRUE /\ requests' # <<>>
      /\ down' = [down EXCEPT ![Master] = Tail(@)]
      /\ main' = main \/ (main = "asking" /\ main' = "running")
      /\ uptodate' = uptodate \/ uptodate' = TRUE
      /\ UNCHANGED <<garbage, sockfd, active, fds, backlog, up, client_count, slave, requests, readers, copy>>
  <2>1. CASE handle_barrier_ack_msg
    BY <2>1, ServingAlive, ServedOn DEF handle_barrier_ack_msg, pages
  <2>2. CASE handle_givepage_own
    BY <2>2, ServingAlive, CheckedOn DEF handle_givepage_own
  <2> QED BY <2>1, <2>2
<1>2. ReceivedOn(down, down', Master)
  BY <1>1 DEF Watched, ReceivedOn
<1>3. /\ down' \in Streams(Clients, DownMsg) /\ \A d \in Clients : d # Master => down'[d] = down[d]
  BY <1>2, DownReceived
<1>4. Shapes'
  BY <1>1, <1>3 DEF Shapes, MainState, InLoop
<1>5. Watched' /\ Queued'
  BY <1>1, <1>3 DEF Watched, Queued
<1>6. Ends'
  BY <1>1 DEF Ends, Ended, HasQuit
<1>7. Named' /\ DeathExplained'
  BY <1>1, NamedKept, ExplainedKept DEF Closed
<1>8. Counted'
  BY <1>1, CountKept DEF Here, Connected, HasQuit
<1>9. Protocol'
  <2>1. Quiet' => Quiet
    BY <1>1 DEF Quiet, InLoop
  <2> QED BY <1>1, <1>3, <2>1, ProtocolKept
<1> QED BY <1>4, <1>5, <1>6, <1>7, <1>8, <1>9

\* The end of a connection.
LEMMA ReceiveEndStep ==
    ASSUME LifecycleInv, NEW c \in Clients, ReceiveEnd(c)
    PROVE  LifecycleInv'
<1> USE Names DEF LifecycleInv
<1>1. /\ c \in ready /\ main \notin {"start", "dead", "exited"} /\ up[c] = <<>> /\ Closed(c)
      /\ listener = "serve"
      /\ UNCHANGED <<garbage, sockfd, backlog, up, down, client_count, slave, uptodate, requests, readers, copy>>
  BY ServingAlive DEF ReceiveEnd, pages
<1>2. CASE Served(c) /\ fds' = fds \ {c} /\ active' = active \ {c} /\ main' = main
  <2>0. ready' = ready \ {c} /\ listener' \in {"top", "serve"}
    BY <1>2, ServedOn
  <2>1. Shapes'
    BY <1>1, <1>2, <2>0 DEF Shapes, InLoop
  <2>2. Watched' /\ Queued'
    BY <1>1, <1>2, <2>0 DEF Watched, Queued
  <2>3. Ends'
    BY <1>1, <1>2 DEF Ends, Ended, HasQuit
  <2>4. DeathExplained'
    BY <1>1, <1>2, ExplainedKept
  <2>5. Named'
    BY <1>1, <1>2 DEF Named, Known, Closed
  <2>6. Counted'
    BY <1>1, <1>2, CountKept DEF Here, Connected, HasQuit
  <2>7. Protocol'
    <3>1. Quiet' => Quiet
      BY <1>1 DEF Quiet, InLoop
    <3> QED BY <1>1, <3>1, ProtocolKept
  <2> QED BY <2>1, <2>2, <2>3, <2>4, <2>5, <2>6, <2>7
<1>3. CASE down[c] # <<>> /\ Exit /\ UNCHANGED <<ready, fds, active>>
  <2>1. \E s \in Slaves : slave[s] = "failed"
    <3>1. ASSUME Quiet PROVE slave[c] = "failed"
      BY <1>1, <1>3, <3>1 DEF Closed, Protocol, Handshake, Follows
    <3> QED BY <1>1, <3>1 DEF Quiet, InLoop, Closed
  <2>2. DeathExplained' /\ Named'
    BY <1>1, <1>3, <2>1 DEF DeathExplained, Named, Known, Closed
  <2>3. /\ up' \in Streams(Clients, UpMsg) /\ down' \in Streams(Clients, DownMsg)
        /\ requests' \in Seq(Request) /\ readers' \in Seq(Clients)
    BY <1>1 DEF Shapes
  <2> QED BY <1>1, <1>3, <2>2, <2>3, ExitStep
<1> QED BY <1>2, <1>3 DEF ReceiveEnd

\* select.
LEMMA SelectStep ==
    ASSUME LifecycleInv, Select
    PROVE  LifecycleInv'
<1> USE Names DEF LifecycleInv
<1>1. /\ main \notin {"start", "dead", "exited"} /\ listener = "select"
      /\ UNCHANGED <<garbage, sockfd, active, fds, backlog, up, down, client_count, slave,
                     uptodate, requests, readers, copy>>
  BY DEF Select, net, pages, Alive, Listening
<1>2. CASE (\E fd \in active : Bad(fd)) /\ Exit /\ ready' = ready
  <2>1. garbage = "closed"
    BY <1>2 DEF Bad, Watched
  <2>2. DeathExplained' /\ Named'
    BY <1>1, <2>1 DEF DeathExplained, Named, Known, Closed
  <2>3. /\ up' \in Streams(Clients, UpMsg) /\ down' \in Streams(Clients, DownMsg)
        /\ requests' \in Seq(Request) /\ readers' \in Seq(Clients)
    BY <1>1 DEF Shapes
  <2> QED BY <1>1, <1>2, <2>2, <2>3, ExitStep
<1>3. CASE ready' = {fd \in active : Readable(fd)} /\ main' = main /\ listener' = "serve"
  <2>1. Shapes'
    BY <1>1, <1>3 DEF Shapes, InLoop
  <2>2. Watched'
    <3>1. /\ Readable("garbage") <=> garbage = "input"
          /\ Readable("server") <=> backlog # <<>>
          /\ Readable("own") <=> down[Master] # <<>>
      BY DEF Readable
    <3> QED BY <1>1, <1>3, <3>1 DEF Watched
  <2>3. Queued'
    BY <1>1, <1>3 DEF Queued
  <2>4. Ends'
    BY <1>1, <1>3 DEF Ends, Ended, HasQuit
  <2>5. Named' /\ DeathExplained'
    BY <1>1, <1>3, NamedKept, ExplainedKept DEF Closed
  <2>6. Counted'
    BY <1>1, <1>3, CountKept DEF Here, Connected, HasQuit
  <2>7. Protocol'
    <3>1. Quiet' => Quiet
      BY <1>1 DEF Quiet, InLoop
    <3> QED BY <1>1, <3>1, ProtocolKept
  <2> QED BY <2>1, <2>2, <2>3, <2>4, <2>5, <2>6, <2>7
<1> QED BY <1>2, <1>3 DEF Select

\* The top of the loop, and input on the descriptor that malloc left.
LEMMA TopStep ==
    ASSUME LifecycleInv, Top \/ Input
    PROVE  LifecycleInv'
<1> USE Names DEF LifecycleInv
<1>1. UNCHANGED <<main, sockfd, ready, fds, backlog, up, down, client_count, slave,
                  uptodate, requests, readers, copy>>
  BY DEF Top, Input, net, lst, pages
<1>2. /\ \/ active' = active \cup {sockfd} /\ listener = "top" /\ listener' = "select"
         \/ active' = active /\ listener' = listener
      /\ garbage' = garbage \/ garbage' = "input"
  BY DEF Top, Input, lst
<1>3. sockfd \in {"garbage", "own"} /\ main \in MainState
  BY DEF Shapes
<1>4. Shapes'
  BY <1>1, <1>2, <1>3 DEF Shapes, InLoop
<1>5. Watched' /\ Queued'
  BY <1>1, <1>2, <1>3 DEF Watched, Queued
<1>6. Ends'
  BY <1>1 DEF Ends, Ended, HasQuit
<1>7. Named'
  BY <1>1, NamedKept DEF Closed
<1>8. DeathExplained'
  BY <1>1, <1>2 DEF DeathExplained
<1>9. Counted'
  BY <1>1, CountKept DEF Here, Connected, HasQuit
<1>10. Protocol'
  <2>1. Quiet' => Quiet
    BY <1>1, <1>2 DEF Quiet, InLoop
  <2> QED BY <1>1, <2>1, ProtocolKept
<1> QED BY <1>4, <1>5, <1>6, <1>7, <1>8, <1>9, <1>10

\* The listener reads from that descriptor.
LEMMA ReceiveGarbageStep ==
    ASSUME LifecycleInv, ReceiveGarbage
    PROVE  LifecycleInv'
<1> USE DEF LifecycleInv
<1>1. /\ "garbage" \in ready /\ main # "start" /\ Exit
      /\ UNCHANGED <<garbage, sockfd, active, ready, fds, backlog, up, down, client_count, slave,
                     uptodate, requests, readers, copy>>
  BY ServingAlive DEF ReceiveGarbage, net, pages
<1>2. DeathExplained' /\ Named'
  BY <1>1 DEF DeathExplained, Watched, Named, Known, Closed
<1>3. /\ up' \in Streams(Clients, UpMsg) /\ down' \in Streams(Clients, DownMsg)
      /\ requests' \in Seq(Request) /\ readers' \in Seq(Clients)
  BY <1>1 DEF Shapes
<1> QED BY <1>1, <1>2, <1>3, ExitStep

-----------------------------------------------------------------------------
(* The steps of process_list_requests.                                     *)

\* The listener is at a request, which a client made that is accepted or has closed.
LEMMA RequestKnown ==
    ASSUME LifecycleInv, NEW r, AtRequest(r), NEW c, c = Head(requests).from
    PROVE  /\ main \notin {"start", "dead", "exited"} /\ listener = "pages"
           /\ requests # <<>> /\ requests \in Seq(Request) /\ uptodate = TRUE
           /\ c \in Clients /\ Known(c) /\ Filed(c)
<1> USE DEF LifecycleInv
<1>1. main \notin {"start", "dead", "exited"} /\ listener = "pages"
  BY DEF AtRequest, Alive, Listening
<1>2. requests # <<>> /\ requests \in Seq(Request) /\ uptodate = TRUE
  BY <1>1 DEF Shapes
<1>3. Head(requests) = requests[1] /\ 1 \in DOMAIN requests /\ Head(requests) \in Request
  BY <1>2, HeadTailProperties, LenProperties, EmptySeq
<1> QED BY <1>1, <1>2, <1>3 DEF Named, Filed, Request

\* What is left when the first request is removed.
LEMMA RequestsLeft ==
    ASSUME requests \in Seq(Request), requests # <<>>, requests' = Tail(requests)
    PROVE  /\ requests' \in Seq(Request)
           /\ \A i \in DOMAIN requests' : i + 1 \in DOMAIN requests /\ requests'[i] = requests[i + 1]
BY TailHolds, TailAt

\* The request is removed and its client gets the page.
LEMMA ServedRequest ==
    ASSUME LifecycleInv, NEW c, c = Head(requests).from, requests \in Seq(Request), requests # <<>>,
           Quiet, NEW m \in {"GIVEREAD", "GIVEWRITE"}, SentOn(down, down', c, m), requests' = Tail(requests),
           UNCHANGED <<slave, up>>
    PROVE  /\ Handshake' /\ Asked' /\ c \in Slaves /\ slave[c] = "asking"
           /\ \A e : InList(e, down'[c]) <=> e = m
           /\ \A d \in Slaves : d # c => down'[d] = down[d]
<1> USE Names DEF LifecycleInv
<1>1. Handshake /\ Asked
  BY DEF Protocol
<1>2. /\ requests' \in Seq(Request)
      /\ \A i \in DOMAIN requests' : i \in Nat /\ i + 1 \in DOMAIN requests /\ requests'[i] = requests[i + 1]
  BY RequestsLeft, LenProperties
<1>3. Head(requests) = requests[1] /\ 1 \in DOMAIN requests
  BY HeadTailProperties, LenProperties, EmptySeq
<1>4. c \in Slaves /\ slave[c] = "asking" /\ Filed(c) /\ down[c] = <<>> /\ ~Locks(c)
  BY <1>1, <1>3 DEF Asked, Filed, Handshake, Follows
<1>5. /\ \A d \in Clients : d # c => down'[d] = down[d]
      /\ \A e : InList(e, down'[c]) <=> (InList(e, down[c]) \/ e = m)
      /\ down[c] = <<>> => Tail(down'[c]) = <<>>
  BY <1>4, Messages, DownSent
<1>6. \A t : Filed(t)' => Filed(t)
  BY <1>2 DEF Filed
<1>7. ~Filed(c)'
  <2>1. ASSUME NEW i \in DOMAIN requests', requests'[i].from = c PROVE FALSE
    <3>1. requests[i + 1].from = requests[1].from /\ i + 1 \in DOMAIN requests /\ i \in Nat
      BY <1>2, <1>3, <2>1
    <3>2. i + 1 = 1 /\ i \in 1..Len(requests')
      BY <1>1, <1>2, <1>3, <2>1, <3>1, LenProperties DEF Asked
    <3> QED BY <3>2
  <2> QED BY <2>1 DEF Filed
<1>8. Follows(c)'
  BY <1>1, <1>4, <1>5, <1>7 DEF Handshake, Follows, Connects, Locks
<1>9. ASSUME NEW t \in Slaves, t # c PROVE Follows(t)'
  <2>1. down'[t] = down[t] /\ Follows(t) /\ (Filed(t)' => Filed(t))
    BY <1>1, <1>5, <1>6, <1>9 DEF Handshake
  <2> QED BY <2>1 DEF Follows, Connects, Locks
<1>10. Asked'
  <2>1. ASSUME NEW i \in DOMAIN requests', NEW j \in DOMAIN requests', requests'[i].from = requests'[j].from
        PROVE  i = j
    <3>1. /\ i \in Nat /\ j \in Nat /\ i + 1 \in DOMAIN requests /\ j + 1 \in DOMAIN requests
          /\ requests[i + 1].from = requests[j + 1].from
      BY <1>2, <2>1
    <3>2. i + 1 = j + 1
      BY <1>1, <3>1 DEF Asked
    <3> QED BY <3>1, <3>2
  <2> QED BY <1>1, <1>2, <2>1 DEF Asked
<1>11. \A e : InList(e, down'[c]) <=> e = m
  BY <1>4, <1>5, EmptyHoldsNothing
<1> QED BY <1>4, <1>5, <1>8, <1>9, <1>10, <1>11 DEF Handshake

\* A reader gets the page.
LEMMA ServeReaderStep ==
    ASSUME LifecycleInv, ServeReader
    PROVE  LifecycleInv'
<1> USE Names DEF LifecycleInv
<1>0. PICK c : c = Head(requests).from
  OBVIOUS
<1>1. /\ main \notin {"start", "dead", "exited"} /\ listener = "pages" /\ uptodate = TRUE
      /\ requests # <<>> /\ requests \in Seq(Request) /\ c \in Clients /\ Known(c)
  BY <1>0, RequestKnown DEF ServeReader
<1>2. /\ SentOn(down, down', c, "GIVEREAD") /\ c \in fds
      /\ requests' = Tail(requests) /\ readers' = Append(readers, c)
      /\ UNCHANGED <<garbage, sockfd, active, ready, fds, backlog, up, client_count, slave, uptodate, copy>>
  BY <1>0 DEF ServeReader, Send, SentOn
<1>3. /\ down' \in Streams(Clients, DownMsg) /\ \A d \in Clients : d # c => down'[d] = down[d]
      /\ down'[c] # <<>> /\ \A e : InList(e, down'[c]) <=> (InList(e, down[c]) \/ e = "GIVEREAD")
  BY <1>1, <1>2, Messages, DownSent
<1>4. /\ requests' \in Seq(Request)
      /\ \A i \in DOMAIN requests' : i + 1 \in DOMAIN requests /\ requests'[i] = requests[i + 1]
  BY <1>1, <1>2, RequestsLeft
<1>5. /\ readers' \in Seq(Clients)
      /\ \A i \in DOMAIN readers' : (i \in DOMAIN readers /\ readers'[i] = readers[i]) \/ readers'[i] = c
  <2>1. readers \in Seq(Clients)
    BY DEF Shapes
  <2> QED BY <1>1, <1>2, <2>1, AppendHolds, AppendAt
<1>6. Named'
  <2>1. \A d : Known(d) => Known(d)'
    BY <1>2 DEF Known, Closed
  <2> QED BY <1>1, <1>4, <1>5, <2>1 DEF Named
<1>7. c \notin {s \in Slaves : slave[s] \in {"start", "refused"}} /\ ~InList(c, backlog)
  BY <1>2 DEF Watched, Queued
<1>8. CASE Exit /\ FALSE \in FreedNodeIntact
  <2>1. DeathExplained' /\ up' \in Streams(Clients, UpMsg)
    BY <1>2, <1>8 DEF DeathExplained, Shapes
  <2> QED BY <1>1, <1>2, <1>3, <1>4, <1>5, <1>6, <1>7, <1>8, <2>1, ExitStep
<1>9. CASE main' = main /\ listener' = IF requests' = <<>> THEN Onward(ready) ELSE "pages"
  <2>1. Shapes'
    BY <1>1, <1>2, <1>3, <1>4, <1>5, <1>9 DEF Shapes, InLoop, Onward
  <2>2. Watched' /\ Queued'
    BY <1>2, <1>3, <1>7, <1>9 DEF Watched, Queued
  <2>3. Ends'
    BY <1>2, <1>9 DEF Ends, Ended, HasQuit
  <2>4. DeathExplained'
    BY <1>1, <1>2, <1>9, ExplainedKept
  <2>5. Counted'
    BY <1>2, <1>9, CountKept DEF Here, Connected, HasQuit
  <2>6. Protocol'
    <3> SUFFICES ASSUME Quiet' PROVE Handshake' /\ Asked' /\ Located'
      BY DEF Protocol
    <3>1. Quiet
      BY <1>1, <1>2 DEF Quiet, InLoop
    <3>2. Handshake' /\ Asked'
      BY <1>0, <1>1, <1>2, <3>1, ServedRequest
    <3> QED BY <1>1, <1>2, <3>2 DEF Located
  <2> QED BY <1>6, <2>1, <2>2, <2>3, <2>4, <2>5, <2>6
<1>10. PICK intact \in FreedNodeIntact :
          IF ~intact THEN Exit
          ELSE main' = main /\ listener' = IF requests' = <<>> THEN Onward(ready) ELSE "pages"
  BY DEF ServeReader
<1>11. intact = TRUE \/ intact = FALSE
  BY LifecycleAssumption
<1> QED BY <1>8, <1>9, <1>10, <1>11

\* A writer gets the page.
LEMMA GrantWriterStep ==
    ASSUME LifecycleInv, GrantWriter
    PROVE  LifecycleInv'
<1> USE Names DEF LifecycleInv
<1>0. PICK c : c = Head(requests).from
  OBVIOUS
<1>1. /\ main \notin {"start", "dead", "exited"} /\ listener = "pages"
      /\ requests # <<>> /\ requests \in Seq(Request) /\ c \in Clients
  BY <1>0, RequestKnown DEF GrantWriter
<1>2. /\ SentOn(down, down', c, "GIVEWRITE") /\ c \in fds
      /\ requests' = Tail(requests) /\ uptodate' = FALSE /\ listener' \in {"top", "serve"}
      /\ UNCHANGED <<main, garbage, sockfd, active, ready, fds, backlog, up, client_count, slave, readers, copy>>
  BY <1>0 DEF GrantWriter, Send, SentOn, Onward
<1>3. /\ down' \in Streams(Clients, DownMsg) /\ \A d \in Clients : d # c => down'[d] = down[d]
      /\ down'[c] # <<>>
  BY <1>1, <1>2, Messages, DownSent
<1>4. /\ requests' \in Seq(Request)
      /\ \A i \in DOMAIN requests' : i + 1 \in DOMAIN requests /\ requests'[i] = requests[i + 1]
  BY <1>1, <1>2, RequestsLeft
<1>5. Named'
  <2>1. \A d : Known(d) => Known(d)'
    BY <1>2 DEF Known, Closed
  <2> QED BY <1>2, <1>4, <2>1 DEF Named
<1>6. c \notin {s \in Slaves : slave[s] \in {"start", "refused"}} /\ ~InList(c, backlog)
  BY <1>2 DEF Watched, Queued
<1>7. Shapes'
  BY <1>1, <1>2, <1>3, <1>4 DEF Shapes, InLoop
<1>8. Watched' /\ Queued'
  BY <1>2, <1>3, <1>6 DEF Watched, Queued
<1>9. Ends'
  BY <1>2 DEF Ends, Ended, HasQuit
<1>10. DeathExplained'
  BY <1>2, ExplainedKept
<1>11. Counted'
  BY <1>2, CountKept DEF Here, Connected, HasQuit
<1>12. Protocol'
  <2> SUFFICES ASSUME Quiet' PROVE Handshake' /\ Asked' /\ Located'
    BY DEF Protocol
  <2>1. Quiet
    BY <1>1, <1>2 DEF Quiet, InLoop
  <2>2. /\ Handshake' /\ Asked' /\ c \in Slaves /\ slave[c] = "asking"
        /\ InList("GIVEWRITE", down'[c])
    BY <1>0, <1>1, <1>2, <2>1, ServedRequest
  <2>3. Holds(c)'
    BY <1>2, <2>2 DEF Holds
  <2> QED BY <2>2, <2>3 DEF Located
<1> QED BY <1>5, <1>7, <1>8, <1>9, <1>10, <1>11, <1>12

\* The page cannot be sent: the client has failed.
LEMMA SendPageFailsStep ==
    ASSUME LifecycleInv, SendPageFails
    PROVE  LifecycleInv'
<1> USE Names DEF LifecycleInv
<1>0. PICK c : c = Head(requests).from
  OBVIOUS
<1>1. /\ main \notin {"start", "dead", "exited"} /\ listener = "pages" /\ Known(c) /\ Filed(c)
  BY <1>0, RequestKnown DEF SendPageFails
<1>2. /\ Exit /\ MayFail(c)
      /\ UNCHANGED <<garbage, sockfd, active, ready, fds, backlog, up, down, client_count, slave,
                     uptodate, requests, readers, copy>>
  BY <1>0 DEF SendPageFails, net, pages
<1>3. Closed(c)
  BY <1>1, <1>2 DEF Known, MayFail
<1>4. \E s \in Slaves : slave[s] = "failed"
  <2>1. ASSUME Quiet PROVE FALSE
    BY <1>1, <1>3, <2>1 DEF Protocol, Asked, Filed, Closed
  <2> QED BY <1>1, <2>1 DEF Quiet, InLoop
<1>5. DeathExplained' /\ Named'
  BY <1>2, <1>4 DEF DeathExplained, Named, Known, Closed
<1>6. /\ up' \in Streams(Clients, UpMsg) /\ down' \in Streams(Clients, DownMsg)
      /\ requests' \in Seq(Request) /\ readers' \in Seq(Clients)
  BY <1>2 DEF Shapes
<1> QED BY <1>1, <1>2, <1>5, <1>6, ExitStep

\* INVALIDATE goes to those on the list, and to nobody else.
LEMMA InvalidatedHolds ==
    ASSUME Shapes, NEW list \in Seq(Clients)
    PROVE  /\ Invalidated(list) \in Streams(Clients, DownMsg)
           /\ \A c \in Clients : /\ ~InList(c, list) => Invalidated(list)[c] = down[c]
                                 /\ down[c] # <<>> => Invalidated(list)[c] # <<>>
<1> DEFINE n(c) == Cardinality({j \in DOMAIN list : list[j] = c})
           w(c) == [i \in 1..n(c) |-> "INVALIDATE"]
<1>1. Invalidated(list) = [c \in Clients |-> down[c] \o w(c)]
  BY DEF Invalidated
<1>2. ASSUME NEW c \in Clients
      PROVE  /\ down[c] \o w(c) \in Seq(DownMsg)
             /\ ~InList(c, list) => down[c] \o w(c) = down[c]
             /\ down[c] # <<>> => down[c] \o w(c) # <<>>
  <2>1. n(c) = Count(list, {c})
    BY CountEqual
  <2>2. n(c) \in Nat /\ (n(c) = 0 <=> \A i \in DOMAIN list : list[i] \notin {c})
    <3>1. /\ Count(list, {c}) \in Nat
          /\ Count(list, {c}) = 0 <=> \A i \in DOMAIN list : list[i] \notin {c}
      BY CountNat
    <3> QED BY <2>1, <3>1
  <2>3. PICK k \in Nat : k = n(c)
    BY <2>2
  <2>4. w(c) = [i \in 1..k |-> "INVALIDATE"]
    BY <2>3
  <2> HIDE DEF w, n
  <2>5. w(c) \in [1..k -> DownMsg] /\ w(c) \in Seq(DownMsg)
    <3>1. w(c) \in [1..k -> DownMsg]
      BY <2>4, Messages
    <3> QED BY <3>1, SeqDef
  <2>6. down[c] \in Seq(DownMsg)
    BY StreamShapes
  <2>7. down[c] \o w(c) \in Seq(DownMsg)
    BY <2>5, <2>6, ConcatProperties
  <2>8. ASSUME ~InList(c, list) PROVE down[c] \o w(c) = down[c]
    <3>1. k = 0
      BY <2>2, <2>3, <2>8 DEF InList
    <3>2. DOMAIN w(c) = 1..0
      BY <2>4, <3>1
    <3>3. Len(w(c)) = 0
      BY <2>5, <3>2, LenProperties
    <3>4. w(c) = <<>>
      BY <2>5, <3>3, EmptySeq
    <3> QED BY <2>6, <3>4, ConcatEmptySeq
  <2>9. ASSUME down[c] # <<>>, down[c] \o w(c) = <<>> PROVE FALSE
    <3>1. Len(down[c] \o w(c)) = Len(down[c]) + Len(w(c)) /\ Len(w(c)) \in Nat
      BY <2>5, <2>6, ConcatProperties, LenProperties
    <3>2. Len(down[c]) \in Nat \ {0}
      BY <2>6, <2>9, EmptySeq
    <3>3. Len(down[c] \o w(c)) = 0
      BY <2>9
    <3> QED BY <3>1, <3>2, <3>3
  <2> QED BY <2>7, <2>8, <2>9
<1> HIDE DEF w, n
<1> QED BY <1>1, <1>2 DEF Streams

\* Nothing is sent to a connection that is not accepted.
LEMMA UnacceptedLeft ==
    ASSUME LifecycleInv, NEW list \in Seq(Clients), \A i \in DOMAIN list : list[i] \in fds,
           down' = Invalidated(list)
    PROVE  /\ down' \in Streams(Clients, DownMsg)
           /\ \A s \in Slaves : slave[s] \in {"start", "refused"} \/ InList(s, backlog) => down'[s] = down[s]
           /\ down[Master] # <<>> => down'[Master] # <<>>
<1> USE Names DEF LifecycleInv
<1>1. \A s \in Slaves : slave[s] \in {"start", "refused"} \/ InList(s, backlog) => ~InList(s, list)
  BY DEF Watched, Queued, InList
<1> QED BY <1>1, InvalidatedHolds

\* The readers are asked to invalidate, and the listener stays in the loop.
LEMMA InvalidateReadersStep ==
    ASSUME LifecycleInv, invalidate_readers
    PROVE  LifecycleInv'
<1> USE Names DEF LifecycleInv
<1>1. /\ main \notin {"start", "dead", "exited"} /\ uptodate = TRUE
  BY RequestKnown DEF invalidate_readers
<1>2. /\ \A i \in DOMAIN readers : readers[i] \in fds
      /\ down' = Invalidated(readers) /\ listener' = "spin"
      /\ UNCHANGED <<main, garbage, sockfd, active, ready, fds, backlog, up, client_count, slave,
                     uptodate, requests, readers, copy>>
  BY DEF invalidate_readers, pages
<1>3. /\ down' \in Streams(Clients, DownMsg)
      /\ \A s \in Slaves : slave[s] \in {"start", "refused"} \/ InList(s, backlog) => down'[s] = down[s]
      /\ down[Master] # <<>> => down'[Master] # <<>>
  BY <1>2, UnacceptedLeft DEF Shapes
<1>4. Shapes'
  BY <1>1, <1>2, <1>3 DEF Shapes
<1>5. Watched' /\ Queued'
  BY <1>2, <1>3 DEF Watched, Queued
<1>6. Ends'
  BY <1>2 DEF Ends, Ended, HasQuit
<1>7. Named' /\ DeathExplained'
  BY <1>2, NamedKept, ExplainedKept DEF Closed
<1>8. Counted'
  BY <1>2, CountKept DEF Here, Connected, HasQuit
<1>9. Protocol'
  BY <1>1, <1>2 DEF Protocol, Quiet, InLoop
<1> QED BY <1>4, <1>5, <1>6, <1>7, <1>8, <1>9

\* One of them cannot be asked: it has failed, or it has left and is still listed.
LEMMA InvalidateFailsStep ==
    ASSUME LifecycleInv, InvalidateFails
    PROVE  LifecycleInv'
<1> USE Names DEF LifecycleInv
<1>1. /\ main \notin {"start", "dead", "exited"}
  BY RequestKnown DEF InvalidateFails
<1>2. PICK k \in DOMAIN readers : /\ \A i \in 1..(k - 1) : readers[i] \in fds
                                  /\ down' = Invalidated(SubSeq(readers, 1, k - 1))
                                  /\ MayFail(readers[k]) /\ Exit
  BY DEF InvalidateFails
<1>3. UNCHANGED <<garbage, sockfd, active, ready, fds, backlog, up, client_count, slave,
                  uptodate, requests, readers, copy>>
  BY DEF InvalidateFails, pages
<1>4. /\ k \in Nat /\ k >= 1 /\ \A i \in 1..(k - 1) : readers[i] \in Clients
      /\ requests \in Seq(Request) /\ readers \in Seq(Clients)
  <2>1. readers \in Seq(Clients) /\ requests \in Seq(Request)
    BY DEF Shapes
  <2>2. DOMAIN readers = 1..Len(readers) /\ Len(readers) \in Nat
    BY <2>1, LenProperties
  <2> QED BY <1>2, <2>1, <2>2, ElementOfSeq
<1>5. PICK list : list = SubSeq(readers, 1, k - 1)
  OBVIOUS
<1>6. /\ list \in Seq(Clients)
      /\ \A i \in DOMAIN list : list[i] \in fds
  <2>1. /\ list \in Seq(Clients) /\ Len(list) = (IF 1 <= k - 1 THEN (k - 1) - 1 + 1 ELSE 0)
        /\ \A i \in 1..((k - 1) - 1 + 1) : list[i] = readers[1 + i - 1]
    BY <1>4, <1>5, SubSeqProperties
  <2>2. Len(list) = k - 1 /\ DOMAIN list = 1..(k - 1)
    BY <1>4, <2>1, LenProperties
  <2>3. \A i \in 1..(k - 1) : list[i] = readers[i]
    BY <1>4, <2>1
  <2> QED BY <1>2, <2>1, <2>2, <2>3
<1>7. /\ down' \in Streams(Clients, DownMsg)
      /\ \A s \in Slaves : slave[s] \in {"start", "refused"} \/ InList(s, backlog) => down'[s] = down[s]
      /\ down[Master] # <<>> => down'[Master] # <<>>
  BY <1>2, <1>5, <1>6, UnacceptedLeft
<1>8. Closed(readers[k]) /\ InList(readers[k], readers)
  BY <1>2 DEF Named, Known, MayFail, InList
<1>9. DeathExplained' /\ Named'
  BY <1>3, <1>8 DEF DeathExplained, Named, Known, Closed
<1>10. up' \in Streams(Clients, UpMsg) /\ requests' \in Seq(Request) /\ readers' \in Seq(Clients)
  BY <1>3, <1>4 DEF Shapes
<1> QED BY <1>1, <1>2, <1>3, <1>7, <1>9, <1>10, ExitStep

-----------------------------------------------------------------------------
(* The steps that send nothing.                                            *)

\* dsm_m_init.
LEMMA InitMasterStep ==
    ASSUME LifecycleInv, dsm_m_init
    PROVE  LifecycleInv'
<1> USE Names DEF LifecycleInv
<1>1. /\ main = "start" /\ ready = {} /\ fds = {} /\ listener = "off"
      /\ UNCHANGED <<garbage, sockfd, ready, fds, backlog, up, down, client_count, slave,
                     uptodate, requests, readers, copy>>
      /\ \/ garbage = "negative" /\ main' = "dead" /\ active' = active /\ listener' = "off"
         \/ main' = "created" /\ active' = {"garbage", "server"} /\ listener' = "top"
  BY DEF dsm_m_init, net, pages, Shapes
<1>2. Shapes'
  BY <1>1 DEF Shapes, MainState, InLoop
<1>3. Watched' /\ Queued'
  BY <1>1 DEF Watched, Queued
<1>4. Ends'
  BY <1>1 DEF Ends, Ended, HasQuit
<1>5. Named'
  BY <1>1, NamedKept DEF Closed
<1>6. DeathExplained'
  BY <1>1 DEF DeathExplained
<1>7. Counted'
  BY <1>1, CountKept DEF Here, Connected, HasQuit
<1>8. Protocol'
  <2>1. Quiet' => Quiet
    BY <1>1 DEF Quiet, InLoop
  <2> QED BY <1>1, <2>1, ProtocolKept
<1> QED BY <1>2, <1>3, <1>4, <1>5, <1>6, <1>7, <1>8

\* The other steps of the main thread.
LEMMA OtherMainSteps ==
    ASSUME LifecycleInv, AssignSockfd \/ CheckCount \/ dsm_destroy \/ ExitMaster \/ wait_barrier_wait
    PROVE  LifecycleInv'
<1> USE Names DEF LifecycleInv
<1>1. UNCHANGED <<garbage, active, ready, fds, backlog, up, down, client_count, slave,
                  uptodate, requests, readers, copy>>
  BY DEF AssignSockfd, CheckCount, dsm_destroy, ExitMaster, wait_barrier_wait, net, lst, pages
<1>2. /\ sockfd' \in {"garbage", "own"}
      /\ \/ listener' = listener /\ main = "connected" /\ main' = "running"
         \/ listener' = listener /\ main = "calling" /\ main' = "asking"
         \/ listener' = listener /\ main \in {"quitting", "waiting"} /\ main' \in {"waiting", "leaving"}
         \/ listener' = "cancelled" /\ main = "leaving" /\ main' = "left"
         \/ listener' = listener /\ main = "left" /\ main' = "exited"
  BY DEF AssignSockfd, CheckCount, dsm_destroy, ExitMaster, wait_barrier_wait, net, lst, Shapes
<1>3. Shapes'
  BY <1>1, <1>2 DEF Shapes, MainState, InLoop
<1>4. Watched' /\ Queued'
  BY <1>1, <1>2 DEF Watched, Queued
<1>5. Ends'
  BY <1>1, <1>2 DEF Ends, Ended, HasQuit
<1>6. Named' /\ DeathExplained'
  BY <1>1, <1>2, NamedKept, ExplainedKept DEF Closed
<1>7. Counted'
  BY <1>1, <1>2, CountKept DEF Here, Connected, HasQuit
<1>8. Protocol'
  <2>1. Quiet' => Quiet
    BY <1>1, <1>2 DEF Quiet, InLoop
  <2> QED BY <1>1, <2>1, ProtocolKept
<1> QED BY <1>3, <1>4, <1>5, <1>6, <1>7, <1>8

-----------------------------------------------------------------------------
(* The theorems.                                                           *)

\* The invariant holds before anything has started.
LEMMA LifecycleInit ==
    ASSUME Init
    PROVE  LifecycleInv
<1> USE Names
<1>1. /\ main = "start" /\ garbage \in {"negative", "closed", "idle"} /\ sockfd = "garbage"
      /\ listener = "off" /\ active = {} /\ ready = {} /\ fds = {} /\ backlog = <<>> /\ client_count = 0
      /\ slave = [s \in Slaves |-> "start"] /\ uptodate = TRUE /\ requests = <<>> /\ readers = <<>>
      /\ copy = [s \in Slaves |-> "none"]
      /\ up = [c \in Clients |-> <<>>] /\ down = [c \in Clients |-> <<>>]
  BY DEF Init
<1>2. /\ \A c \in Clients : up[c] = <<>> /\ down[c] = <<>>
      /\ \A s \in Slaves : slave[s] = "start"
      /\ \A e : ~InList(e, <<>>) /\ LastOnly(<<>>, e)
      /\ DOMAIN requests = {} /\ DOMAIN readers = {}
  BY <1>1, EmptyHoldsNothing
<1>3. Shapes
  <2>1. Len(backlog) <= MAX_WAITING_NODES
    BY <1>1, LifecycleAssumption
  <2> QED BY <1>1, <2>1 DEF Shapes, Streams, MainState, SlaveState, InLoop
<1>4. Watched /\ Queued /\ Named
  BY <1>1, <1>2, EmptyHoldsNothing DEF Watched, Queued, Named
<1>5. Ends /\ DeathExplained
  BY <1>1, <1>2 DEF Ends, Ended, HasQuit, DeathExplained
<1>6. Protocol
  BY <1>1, <1>2 DEF Protocol, Handshake, Follows, Asked, Located
<1>7. Counted
  <2>1. Present = {}
    BY <1>1, <1>2 DEF Present, Connected
  <2> QED BY <1>1, <2>1, FS_EmptySet DEF Counted, CountExact
<1> QED BY <1>3, <1>4, <1>5, <1>6, <1>7 DEF LifecycleInv

\* A stuttering step keeps it.
LEMMA LifecycleStutter ==
    ASSUME LifecycleInv, UNCHANGED vars
    PROVE  LifecycleInv'
<1> USE DEF LifecycleInv, vars
<1>1. Shapes' /\ Watched' /\ Queued'
  BY DEF Shapes, Watched, Queued
<1>2. Ends'
  BY DEF Ends, Ended, HasQuit
<1>3. Named' /\ DeathExplained'
  BY NamedKept, ExplainedKept DEF Closed
<1>4. Counted'
  BY CountKept DEF Here, Connected, HasQuit
<1>5. Protocol'
  <2>1. Quiet' => Quiet
    BY DEF Quiet
  <2> QED BY <2>1, ProtocolKept
<1> QED BY <1>1, <1>2, <1>3, <1>4, <1>5

\* Every step keeps it.
LEMMA LifecycleStep ==
    ASSUME LifecycleInv, [Next]_vars
    PROVE  LifecycleInv'
<1>1. CASE UNCHANGED vars
  BY <1>1, LifecycleStutter
<1>2. CASE MainStep
  BY <1>2, InitMasterStep, ConnectSelfStep, OtherMainSteps DEF MainStep
<1>3. CASE wait_barrier_send \/ QuitMaster \/ CheckCount \/ Input
  BY <1>3, MainSendsStep, OtherMainSteps, TopStep
<1>4. CASE process_list_requests
  BY <1>4, ServeReaderStep, GrantWriterStep, SendPageFailsStep, InvalidateReadersStep,
     InvalidateFailsStep DEF process_list_requests
<1>5. CASE ListenerStep
  BY <1>4, <1>5, TopStep, SelectStep, AcceptStep, SyncBarrierStep, ReceiveOwnStep, ReceiveGarbageStep,
     TerminateStep, ReceiveEndStep, ConnectStep, LockMessageStep, GivePageStep DEF ListenerStep
<1>6. ASSUME NEW s \in Slaves, SlaveStep(s) \/ SlaveProgram(s)
      PROVE  LifecycleInv'
  BY <1>6, SendConnectStep, ReceiveAckStep, EndSlaveStep, ReceivePageStep, InvalidateStep,
     SlaveConnectStep, LockPageStep, UnlockWriteStep, QuitSlaveStep DEF SlaveStep, SlaveProgram
<1> QED BY <1>1, <1>2, <1>3, <1>5, <1>6 DEF Next

\* Starting, using the page and leaving, in every order and with every failure of a
\* slave, stay within the invariant.
THEOREM LifecycleCorrect == Spec => []LifecycleInv
<1>1. Init => LifecycleInv
  BY LifecycleInit
<1>2. LifecycleInv /\ [Next]_vars => LifecycleInv'
  BY LifecycleStep
<1> QED BY <1>1, <1>2, PTL DEF Spec

\* The variables keep their types.
THEOREM LifecycleTypes == Spec => []TypeOK
<1>1. LifecycleInv => TypeOK
  BY DEF LifecycleInv, Shapes, Request, Counted, TypeOK
<1> QED BY <1>1, LifecycleCorrect, PTL

\* client_count is the number of the connections that were accepted and whose
\* TERMINATE has not been handled.
THEOREM CountIsExact == Spec => []CountExact
<1>1. LifecycleInv => CountExact
  BY DEF LifecycleInv, Counted
<1> QED BY <1>1, LifecycleCorrect, PTL

\* Only the descriptor that was not initialised, the freed list node, a slave that
\* failed, or one that left and is still on the list of readers, kills the master's
\* process.
THEOREM DeathIsExplained == Spec => []DeathExplained
<1>1. LifecycleInv => DeathExplained
  BY DEF LifecycleInv
<1> QED BY <1>1, LifecycleCorrect, PTL

\* A slave that is in the system, or a page away from the master, is counted.
LEMMA AwayIsCounted ==
    ASSUME LifecycleInv, main \in {"quitting", "waiting"}, client_count = 0
    PROVE  (\A s \in Slaves : slave[s] \notin {"joined", "asking"}) /\ uptodate = TRUE
<1>1. \A c \in Clients : ~Here(c)
  <2>1. IsFiniteSet(Present)
    <3>1. IsFiniteSet(Clients)
      BY LifecycleAssumption, FS_AddElement DEF Clients
    <3> QED BY <3>1, FS_Subset DEF Present
  <2>2. Cardinality(Present) = 0
    BY DEF LifecycleInv, Counted, CountExact
  <2>3. Present = {}
    BY <2>1, <2>2, FS_EmptySet
  <2> QED BY <2>3 DEF Present, Here
<1>2. ASSUME NEW s \in Slaves, slave[s] \in {"joined", "asking", "failed"}, ~InList(s, backlog) PROVE FALSE
  BY <1>1, <1>2, Names DEF Here, Connected, HasQuit
<1>3. ASSUME NEW s \in Slaves PROVE slave[s] \notin {"joined", "asking"}
  BY <1>2, Names DEF LifecycleInv, Queued
<1>4. listener = "spin" => uptodate = TRUE
  BY DEF LifecycleInv, Shapes
<1>5. ASSUME listener # "spin" PROVE uptodate = TRUE
  <2>1. Quiet
    BY <1>2, <1>5 DEF LifecycleInv, Shapes, Quiet
  <2>2. ASSUME NEW s \in Slaves, Holds(s) PROVE FALSE
    <3>1. slave[s] \in {"quit", "gone"} /\ InList("GIVEPAGE", up[s])
      BY <1>3, <2>2 DEF Holds
    <3>2. up[s] # <<>>
      BY <3>1, EmptyHoldsNothing
    <3>3. Here(s)
      BY <3>1, <3>2, Names DEF LifecycleInv, Ends, Ended, Here, Connected, HasQuit, Queued
    <3> QED BY <1>1, <3>3, Names
  <2> QED BY <2>1, <2>2 DEF LifecycleInv, Protocol, Located
<1> QED BY <1>3, <1>4, <1>5

\* When the master stops waiting in QuitDSM, no slave is in the system and the page
\* is back.
THEOREM MasterLeavesLast == Spec => NobodyLeftBehind
<1>1. ASSUME LifecycleInv, [Next]_vars, main' = "leaving", main # "leaving"
      PROVE  (\A s \in Slaves : slave[s] \notin {"joined", "asking"}) /\ uptodate
  <2>1. CheckCount
    <3>1. ASSUME \/ dsm_m_init \/ ConnectSelf \/ AssignSockfd \/ dsm_destroy \/ ExitMaster
                 \/ wait_barrier_send \/ wait_barrier_wait \/ QuitMaster \/ Top \/ Select \/ Accept
                 \/ handle_barrier_ack_msg \/ handle_givepage_own \/ ReceiveGarbage
                 \/ Input \/ UNCHANGED vars
          PROVE  main' # "leaving" \/ main' = main
      BY <3>1 DEF dsm_m_init, ConnectSelf, AssignSockfd, dsm_destroy, ExitMaster, wait_barrier_send,
                  wait_barrier_wait, QuitMaster, Top, Select, Accept, handle_barrier_ack_msg,
                  handle_givepage_own, ReceiveGarbage, Input, Exit, vars
    <3>2. ASSUME NEW c \in Clients, \/ handle_sync_barrier_msg \/ handle_terminate_msg(c) \/ ReceiveEnd(c)
                                    \/ handle_connect_msg(c) \/ handle_lockpage_msg(c)
                                    \/ handle_givepage_msg(c)
          PROVE  main' # "leaving" \/ main' = main
      BY <3>2 DEF handle_sync_barrier_msg, handle_terminate_msg, ReceiveEnd, handle_connect_msg,
                  handle_lockpage_msg, handle_givepage_msg, Reply, Exit
    <3>3. ASSUME process_list_requests
          PROVE  main' # "leaving" \/ main' = main
      BY <3>3 DEF process_list_requests, ServeReader, GrantWriter, SendPageFails, invalidate_readers,
                  InvalidateFails, Exit
    <3>4. ASSUME NEW s \in Slaves, SlaveStep(s) \/ SlaveProgram(s)
          PROVE  main' = main
      BY <3>4 DEF SlaveStep, SlaveProgram, SendConnect, ReceiveAck, MasterLost, ReceivePage,
                  handle_invalidate_msg, SlaveConnect, lock_page, unlock_write, QuitSlave, ExitSlave
    <3> QED BY <1>1, <3>1, <3>2, <3>3, <3>4, Names DEF Next, MainStep, ListenerStep
  <2>2. main \in {"quitting", "waiting"} /\ ~(client_count > 0) /\ client_count \in Nat
    BY <1>1, <2>1 DEF CheckCount, LifecycleInv, Counted
  <2>3. client_count = 0
    BY <2>2
  <2> QED BY <1>1, <2>2, <2>3, AwayIsCounted
<1>2. LifecycleInv /\ [Next]_vars =>
        [(main' = "leaving" /\ main # "leaving") =>
           /\ \A s \in Slaves : slave[s] \notin {"joined", "asking"}
           /\ uptodate]_vars
  BY <1>1
<1> QED BY <1>2, LifecycleCorrect, PTL DEF Spec, NobodyLeftBehind
=============================================================================
