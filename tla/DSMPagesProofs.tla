--------------------------- MODULE DSMPagesProofs ---------------------------
(***************************************************************************)
(* Theorems about the page protocol, for any number of slaves and pages:   *)
(* 1. types, sections and claims, 2. current_readers_queue and the         *)
(* invalidation of its readers, both whatever lock calls the applications  *)
(* make, and 3. the coherence of the pages, when the calls are the slaves'. *)
(***************************************************************************)
EXTENDS DSMPages, SequenceFacts

-----------------------------------------------------------------------------
(* The fields of the messages.                                             *)

\* Every message the master sends names a page; a GIVEPAGE also carries its
\* rights and data.
LEMMA FromMasterFields ==
    ASSUME NEW m \in FromMasterMsg
    PROVE  /\ m.page \in Pages
           /\ m.type = "GIVEPAGE" => m.rights \in Rights /\ m.data \in Nat
BY DEF FromMasterMsg

\* Every message the master receives names a page, a LOCKPAGE the rights asked
\* for, a GIVEPAGE the rights and the data.
LEMMA ToMasterFields ==
    ASSUME NEW m \in ToMasterMsg
    PROVE  /\ m.page \in Pages
           /\ m.type = "LOCKPAGE" => m.rights \in Access
           /\ m.type = "GIVEPAGE" => m.rights \in Rights /\ m.data \in Nat
BY DEF ToMasterMsg

\* The messages the code builds (msg_lockpage_args_t and the others) are
\* messages of the two streams.
LEMMA MessageTypes ==
    ASSUME NEW p \in Pages, NEW r \in Access, NEW q \in Rights, NEW d \in Nat
    PROVE  /\ Lockpage(p, r) \in ToMasterMsg
           /\ InvalidateAck(p) \in ToMasterMsg
           /\ Invalidate(p) \in FromMasterMsg
           /\ [type |-> "GIVEPAGE", page |-> p, rights |-> q, data |-> d]
                 \in ToMasterMsg \cap FromMasterMsg
BY DEF Lockpage, InvalidateAck, Invalidate, ToMasterMsg, FromMasterMsg

-----------------------------------------------------------------------------
(* Type correctness.                                                       *)

\* The listener is in the loop of process_list_requests, or about to remove
\* the request it has just granted, only while there is a request.
LoopHasRequest ==
    \A p \in Pages : daemon \in {<<"loop", p>>, <<"giveup", p>>} => requests[p] # <<>>

TypeInv == TypeOK /\ LoopHasRequest

\* satisfy_request makes a GIVEPAGE, for whichever direction.
LEMMA PageMessage ==
    ASSUME TypeOK, NEW n \in Nodes, NEW p \in Pages, NEW r
    PROVE  /\ r \in Rights => satisfy_request(n, p, r) \in ToMasterMsg
           /\ r \in Rights => satisfy_request(n, p, r) \in FromMasterMsg
           /\ satisfy_request(n, p, r).type = "GIVEPAGE"
           /\ satisfy_request(n, p, r).page = p
           /\ satisfy_request(n, p, r).rights = r
           /\ protection[n][p] \in Rights
           /\ Master \in Nodes /\ Access \subseteq Rights
<1>1. content[n][p] \in Nat /\ protection[n][p] \in Rights
  BY DEF TypeOK
<1>2. ASSUME r \in Rights
      PROVE  satisfy_request(n, p, r) \in ToMasterMsg \cap FromMasterMsg
  <2>1. Access # {}
    BY DEF Access
  <2> QED BY <1>1, <1>2, <2>1, MessageTypes DEF satisfy_request
<1>3. Master \in Nodes /\ Access \subseteq Rights
  BY DEF Nodes, Rights
<1> QED BY <1>1, <1>2, <1>3 DEF satisfy_request

\* What the master sends when it serves a request of either kind.
LEMMA GrantMessage ==
    ASSUME TypeInv, NEW p \in Pages, NEW r \in Access
    PROVE  /\ satisfy_request(Master, p, r) \in FromMasterMsg
           /\ satisfy_request(Master, p, r).type = "GIVEPAGE"
           /\ satisfy_request(Master, p, r).page = p
           /\ satisfy_request(Master, p, r).rights = r
<1>1. Master \in Nodes /\ r \in Rights /\ TypeOK
  BY DEF Nodes, Rights, TypeInv
<1> QED BY <1>1, PageMessage

\* dsm_memory_init establishes the types.
LEMMA TypeInit == Init => TypeInv
BY DEF Init, TypeInv, TypeOK, LoopHasRequest, Nodes, Rights, Access, LockState,
       DaemonState, Select

\* Appending a message to a stream (dsm_send).
LEMMA SendType ==
    ASSUME TypeOK, NEW n \in Nodes
    PROVE  /\ \A m \in ToMasterMsg : SendToMaster(n, m) =>
                 toMaster' \in [Nodes -> Seq(ToMasterMsg)]
           /\ \A m \in FromMasterMsg : SendFromMaster(n, m) =>
                 fromMaster' \in [Nodes -> Seq(FromMasterMsg)]
<1>1. ASSUME NEW m \in ToMasterMsg, SendToMaster(n, m)
      PROVE  toMaster' \in [Nodes -> Seq(ToMasterMsg)]
  <2>1. toMaster[n] \in Seq(ToMasterMsg)
    BY DEF TypeOK
  <2>2. Append(toMaster[n], m) \in Seq(ToMasterMsg)
    BY <2>1, AppendProperties
  <2> QED BY <1>1, <2>2 DEF TypeOK, SendToMaster
<1>2. ASSUME NEW m \in FromMasterMsg, SendFromMaster(n, m)
      PROVE  fromMaster' \in [Nodes -> Seq(FromMasterMsg)]
  <2>1. fromMaster[n] \in Seq(FromMasterMsg)
    BY DEF TypeOK
  <2>2. Append(fromMaster[n], m) \in Seq(FromMasterMsg)
    BY <2>1, AppendProperties
  <2> QED BY <1>2, <2>2 DEF TypeOK, SendFromMaster
<1> QED BY <1>1, <1>2

\* Taking the first message from a stream (dsm_receive).
LEMMA ReceiveType ==
    ASSUME TypeOK, NEW n \in Nodes
    PROVE  /\ toMaster[n] # <<>> =>
                 /\ Head(toMaster[n]) \in ToMasterMsg
                 /\ [toMaster EXCEPT ![n] = Tail(@)] \in [Nodes -> Seq(ToMasterMsg)]
           /\ fromMaster[n] # <<>> =>
                 /\ Head(fromMaster[n]) \in FromMasterMsg
                 /\ [fromMaster EXCEPT ![n] = Tail(@)] \in [Nodes -> Seq(FromMasterMsg)]
BY DEF TypeOK

\* The lock calls, the stores and the unlock calls keep the types.
LEMMA TypeApp ==
    ASSUME TypeInv, NEW n \in Nodes, NEW p \in Pages, App(n, p)
    PROVE  TypeInv'
<1> USE DEF TypeInv, TypeOK, LoopHasRequest, localVars, directoryVars, vars
<1>1. ASSUME NEW r \in Access, lock_page_hit(n, p, r)
      PROVE  TypeInv'
  BY <1>1 DEF lock_page_hit, Holding, LockState
<1>2. ASSUME NEW r \in Access, lock_page_miss(n, p, r)
      PROVE  TypeInv'
  <2>1. Lockpage(p, r) \in ToMasterMsg
    BY MessageTypes DEF Rights
  <2>2. toMaster' \in [Nodes -> Seq(ToMasterMsg)]
    BY <1>2, <2>1, SendType DEF lock_page_miss
  <2> QED BY <1>2, <2>2 DEF lock_page_miss, Asking, LockState
<1>3. ASSUME NEW r \in Access, lock_page_wake(n, p, r)
      PROVE  TypeInv'
  BY <1>3 DEF lock_page_wake, Holding, LockState
<1>4. CASE Store(n, p)
  BY <1>4 DEF Store
<1>5. CASE app_fault(n, p)
  BY <1>5 DEF app_fault
<1>6. CASE unlock_read(n, p)
  BY <1>6 DEF unlock_read, LockState
<1>7. CASE unlock_write_send(n, p)
  <2>1. satisfy_request(n, p, protection[n][p]) \in ToMasterMsg
    BY MessageTypes DEF satisfy_request, Access
  <2>2. toMaster' \in [Nodes -> Seq(ToMasterMsg)]
    BY <1>7, <2>1, SendType DEF unlock_write_send
  <2> QED BY <1>7, <2>2 DEF unlock_write_send, LockState
<1>8. CASE unlock_write_giveup(n, p)
  BY <1>8 DEF unlock_write_giveup, giveup_localpage, LockState, Rights
<1> QED BY <1>1, <1>2, <1>3, <1>4, <1>5, <1>6, <1>7, <1>8 DEF App

\* The handlers of the client socket keep the types.
LEMMA TypeClient ==
    ASSUME TypeInv, NEW n \in Nodes, ClientHandler(n)
    PROVE  TypeInv'
<1> USE DEF TypeInv, TypeOK, LoopHasRequest, localVars, directoryVars
<1>1. CASE handle_givepage_client(n)
  <2> DEFINE m == Head(fromMaster[n])
  <2>1. m \in FromMasterMsg /\ m.type = "GIVEPAGE"
        /\ fromMaster' \in [Nodes -> Seq(FromMasterMsg)]
    BY <1>1, ReceiveType DEF handle_givepage_client, ClientReady
  <2>2. m.page \in Pages /\ m.rights \in Rights /\ m.data \in Nat
    BY <2>1, FromMasterFields
  <2>3. daemon' \in DaemonState /\ LoopHasRequest'
    BY <1>1, <2>2 DEF handle_givepage_client, DaemonState
  <2>4. /\ uptodate' \in [Nodes -> [Pages -> BOOLEAN]]
        /\ protection' \in [Nodes -> [Pages -> Rights]]
        /\ content' \in [Nodes -> [Pages -> Nat]]
        /\ write_owner' \in [Pages -> Nodes]
    BY <1>1, <2>2 DEF handle_givepage_client, StorePage
  <2> QED BY <1>1, <2>1, <2>3, <2>4 DEF handle_givepage_client
<1>2. CASE handle_invalidate_msg(n)
  <2> DEFINE m == Head(fromMaster[n])
  <2>1. m \in FromMasterMsg /\ fromMaster' \in [Nodes -> Seq(FromMasterMsg)]
    BY <1>2, ReceiveType DEF handle_invalidate_msg, ClientReady
  <2>2. m.page \in Pages
    BY <2>1, FromMasterFields
  <2>3. daemon' \in DaemonState /\ LoopHasRequest'
    BY <1>2 DEF handle_invalidate_msg, DaemonState, Nodes
  <2>4. /\ uptodate' \in [Nodes -> [Pages -> BOOLEAN]]
        /\ protection' \in [Nodes -> [Pages -> Rights]]
        /\ ack_due' \in [Nodes -> SUBSET Pages]
    BY <1>2, <2>2 DEF handle_invalidate_msg, Rights
  <2> QED BY <1>2, <2>1, <2>3, <2>4 DEF handle_invalidate_msg
<1>3. CASE send_invalidate_ack(n)
  <2>1. PICK p \in ack_due[n] : SendToMaster(n, InvalidateAck(p))
    BY <1>3 DEF send_invalidate_ack
  <2>2. InvalidateAck(p) \in ToMasterMsg
    BY <2>1 DEF InvalidateAck, ToMasterMsg
  <2>3. toMaster' \in [Nodes -> Seq(ToMasterMsg)]
    BY <2>1, <2>2, SendType
  <2>4. daemon' \in DaemonState /\ LoopHasRequest'
    BY <1>3 DEF send_invalidate_ack, DaemonState, Select, Nodes
  <2> QED BY <1>3, <2>3, <2>4 DEF send_invalidate_ack
<1> QED BY <1>1, <1>2, <1>3 DEF ClientHandler

\* The handlers of the master's accepted sockets keep the types.
LEMMA TypeServer ==
    ASSUME TypeInv, NEW n \in Nodes, ServerHandler(n)
    PROVE  TypeInv'
<1> USE DEF TypeInv, TypeOK, LoopHasRequest, localVars, directoryVars
<1> DEFINE m == Head(toMaster[n])
<1>1. /\ m \in ToMasterMsg
      /\ [toMaster EXCEPT ![n] = Tail(@)] \in [Nodes -> Seq(ToMasterMsg)]
  BY ReceiveType DEF ServerHandler, handle_lockpage_msg, handle_invalidate_ack_msg,
                     handle_givepage_server, ServerReady
<1>2. m.page \in Pages
  BY <1>1, ToMasterFields
<1>3. CASE handle_lockpage_msg(n)
  <2>1. m.rights \in Access
    BY <1>1, <1>3, ToMasterFields DEF handle_lockpage_msg, ServerReady
  <2>2. [from |-> n, rights |-> m.rights] \in Request
    BY <2>1 DEF Request
  <2>3. requests' \in [Pages -> Seq(Request)]
    BY <1>2, <1>3, <2>2 DEF handle_lockpage_msg
  <2>4. daemon' \in DaemonState /\ LoopHasRequest'
    BY <1>2, <1>3 DEF handle_lockpage_msg, DaemonState
  <2> QED BY <1>1, <1>3, <2>3, <2>4 DEF handle_lockpage_msg
<1>4. CASE handle_invalidate_ack_msg(n)
  <2>1. RemoveFirst(readers[m.page], n) \in Seq(Nodes)
    BY <1>2, RemoveFirstType
  <2>2. readers' \in [Pages -> Seq(Nodes)]
    BY <1>2, <1>4, <2>1 DEF handle_invalidate_ack_msg
  <2>3. daemon' \in DaemonState /\ LoopHasRequest'
    BY <1>2, <1>4 DEF handle_invalidate_ack_msg, DaemonState
  <2> QED BY <1>1, <1>4, <2>2, <2>3 DEF handle_invalidate_ack_msg
<1>5. CASE handle_givepage_server(n)
  <2>1. m.rights \in Rights /\ m.data \in Nat
    BY <1>1, <1>5, ToMasterFields DEF handle_givepage_server, ServerReady
  <2>2. /\ uptodate' \in [Nodes -> [Pages -> BOOLEAN]]
        /\ protection' \in [Nodes -> [Pages -> Rights]]
        /\ content' \in [Nodes -> [Pages -> Nat]]
        /\ write_owner' \in [Pages -> Nodes]
    BY <1>2, <1>5, <2>1 DEF handle_givepage_server, StorePage, Nodes
  <2>3. daemon' \in DaemonState /\ LoopHasRequest'
    BY <1>2, <1>5 DEF handle_givepage_server, DaemonState
  <2> QED BY <1>1, <1>5, <2>2, <2>3 DEF handle_givepage_server
<1> QED BY <1>3, <1>4, <1>5 DEF ServerHandler

\* The invalidations for the entries of one process in current_readers_queue.
LEMMA InvalidationsType ==
    ASSUME TypeOK, NEW p \in Pages, NEW n \in Nodes
    PROVE  [i \in 1..Cardinality({j \in DOMAIN readers[p] : readers[p][j] = n})
               |-> Invalidate(p)] \in Seq(FromMasterMsg)
<1>1. Invalidate(p) \in FromMasterMsg
  BY DEF Invalidate, FromMasterMsg
<1>2. readers[p] \in Seq(Nodes)
  BY DEF TypeOK
<1> DEFINE c == Cardinality({j \in DOMAIN readers[p] : readers[p][j] = n})
<1>3. c \in Nat
  <2>1. c = Count(readers[p], {n})
    BY CountEqual
  <2>2. Count(readers[p], {n}) \in Nat
    BY <1>2, CountNat
  <2> QED BY <2>1, <2>2
<1> HIDE DEF c
<1>4. [i \in 1..c |-> Invalidate(p)] \in Seq(FromMasterMsg)
  BY <1>1, <1>3, IsASeq
<1> QED BY <1>4 DEF c

\* Every step of process_list_requests keeps the types, and stays in the loop
\* only with a request left.
LEMMA TypeProcess ==
    ASSUME TypeInv, NEW p \in Pages, process_list_requests(p)
    PROVE  TypeInv'
<1> USE DEF TypeInv, TypeOK, LoopHasRequest, localVars, directoryVars
<1>1. CASE ProcessCheck(p)
  <2>1. daemon' \in DaemonState /\ LoopHasRequest'
    BY <1>1 DEF ProcessCheck, DaemonState, Select, Nodes
  <2> QED BY <1>1, <2>1 DEF ProcessCheck
<1> DEFINE q == Head(requests[p])
<1>2. requests[p] # <<>> =>
          q \in Request /\ q.from \in Nodes /\ Tail(requests[p]) \in Seq(Request)
  <2>1. requests[p] \in Seq(Request)
    OBVIOUS
  <2>2. requests[p] # <<>> => q \in Request /\ Tail(requests[p]) \in Seq(Request)
    BY <2>1, HeadTailProperties
  <2> QED BY <2>2 DEF Request
<1>3. CASE ServeReader(p)
  <2>1. q.from \in Nodes /\ Tail(requests[p]) \in Seq(Request)
    BY <1>2, <1>3 DEF ServeReader, AtRequest
  <2>2. satisfy_request(Master, p, "read") \in FromMasterMsg
    BY MessageTypes DEF satisfy_request, Rights, Access, Nodes
  <2>3. fromMaster' \in [Nodes -> Seq(FromMasterMsg)]
    BY <1>3, <2>1, <2>2, SendType DEF ServeReader
  <2>4. Append(readers[p], q.from) \in Seq(Nodes)
    BY <2>1, AppendProperties
  <2>5. readers' \in [Pages -> Seq(Nodes)] /\ requests' \in [Pages -> Seq(Request)]
    BY <1>3, <2>1, <2>4 DEF ServeReader
  <2>6. crashed' \subseteq Nodes
    BY <1>3 DEF ServeReader, Nodes
  <2>7. daemon' \in DaemonState
    BY <1>3 DEF ServeReader, DaemonState, Select, Nodes
  <2>8. LoopHasRequest'
    <3>1. Len(requests[p]) > 1 => Tail(requests[p]) # <<>>
      <4>1. requests[p] \in Seq(Request)
        OBVIOUS
      <4> QED BY <4>1, TailNotEmpty
    <3> QED BY <1>3, <3>1 DEF ServeReader, AtRequest, Select
  <2> QED BY <1>3, <2>3, <2>5, <2>6, <2>7, <2>8 DEF ServeReader
<1>4. CASE InvalidateReaders(p)
  <2>1. \A n \in Nodes : fromMaster'[n] \in Seq(FromMasterMsg)
    <3> TAKE n \in Nodes
    <3> DEFINE b == [i \in 1..Cardinality({j \in DOMAIN readers[p] : readers[p][j] = n})
                        |-> Invalidate(p)]
    <3>2. b \in Seq(FromMasterMsg)
      BY InvalidationsType
    <3>3. fromMaster'[n] = fromMaster[n] \o b
      BY <1>4 DEF InvalidateReaders, invalidate_readers
    <3> HIDE DEF b
    <3> QED BY <3>2, <3>3, ConcatProperties
  <2>2. fromMaster' \in [Nodes -> Seq(FromMasterMsg)]
    BY <1>4, <2>1 DEF InvalidateReaders, invalidate_readers
  <2>3. daemon' \in DaemonState /\ LoopHasRequest'
    BY <1>4 DEF InvalidateReaders, AtRequest, AfterWait, DaemonState, Select, Nodes
  <2> QED BY <1>4, <2>2, <2>3 DEF InvalidateReaders
<1>5. CASE AwaitReaders(p)
  <2>1. daemon' \in DaemonState /\ LoopHasRequest'
    BY <1>5 DEF AwaitReaders, AtRequest, AfterWait, DaemonState, Select, Nodes
  <2> QED BY <1>5, <2>1 DEF AwaitReaders
<1>6. CASE GrantWriter(p)
  <2>1. q.from \in Nodes
    BY <1>2, <1>6 DEF GrantWriter, AtRequest
  <2>2. satisfy_request(Master, p, "readwrite") \in FromMasterMsg
    BY MessageTypes DEF satisfy_request, Rights, Access, Nodes
  <2>3. fromMaster' \in [Nodes -> Seq(FromMasterMsg)]
    BY <1>6, <2>1, <2>2, SendType DEF GrantWriter
  <2>4. daemon' \in DaemonState /\ LoopHasRequest'
    BY <1>6 DEF GrantWriter, AtRequest, DaemonState
  <2> QED BY <1>6, <2>3, <2>4 DEF GrantWriter
<1>7. CASE GrantWriterGiveup(p)
  <2>1. q.from \in Nodes /\ Tail(requests[p]) \in Seq(Request)
    BY <1>2, <1>7 DEF GrantWriterGiveup
  <2>2. /\ requests' \in [Pages -> Seq(Request)]
        /\ write_owner' \in [Pages -> Nodes]
    BY <1>7, <2>1 DEF GrantWriterGiveup
  <2>3. /\ uptodate' \in [Nodes -> [Pages -> BOOLEAN]]
        /\ protection' \in [Nodes -> [Pages -> Rights]]
    BY <1>7 DEF GrantWriterGiveup, giveup_localpage, Rights
  <2>4. daemon' \in DaemonState /\ LoopHasRequest'
    BY <1>7 DEF GrantWriterGiveup, DaemonState, Select, Nodes
  <2> QED BY <1>7, <2>2, <2>3, <2>4 DEF GrantWriterGiveup
<1>8. CASE daemon_fault(p)
  BY <1>8 DEF daemon_fault, Nodes
<1> QED BY <1>1, <1>3, <1>4, <1>5, <1>6, <1>7, <1>8 DEF process_list_requests

\* The fields, the messages in flight and the queues keep their types through
\* every lock call, handler and failure.
THEOREM TypeCorrect == Spec => []TypeInv
<1>1. Init => TypeInv
  BY TypeInit
<1>2. TypeInv /\ [Next]_vars => TypeInv'
  <2> SUFFICES ASSUME TypeInv, [Next]_vars PROVE TypeInv'
    OBVIOUS
  <2>1. CASE \E n \in Nodes, p \in Pages : App(n, p)
    BY <2>1, TypeApp
  <2>2. CASE \E n \in Nodes : ClientHandler(n) \/ ServerHandler(n)
    BY <2>2, TypeClient, TypeServer
  <2>3. CASE BlockOnMutex
    <3>1. daemon' \in DaemonState /\ LoopHasRequest'
      BY <2>3 DEF TypeInv, TypeOK, LoopHasRequest, BlockOnMutex, DaemonState, Nodes,
                  directoryVars
    <3> QED BY <2>3, <3>1 DEF TypeInv, TypeOK, BlockOnMutex, localVars, directoryVars
  <2>4. CASE \E p \in Pages : process_list_requests(p)
    BY <2>4, TypeProcess
  <2>5. CASE \E n \in Slaves : SlaveLost(n) \/ MasterLost(n)
    BY <2>5 DEF TypeInv, TypeOK, LoopHasRequest, SlaveLost, MasterLost, Nodes,
                localVars, directoryVars
  <2>6. CASE UNCHANGED vars
    BY <2>6 DEF TypeInv, TypeOK, LoopHasRequest, vars
  <2> QED BY <2>1, <2>2, <2>3, <2>4, <2>5, <2>6 DEF Next
<1> QED BY <1>1, <1>2, PTL DEF Spec

\* TypeOK, which the run `slaves` checks on two slaves, for every instance.
THEOREM TypeSafe == Spec => []TypeOK
<1>1. TypeInv => TypeOK
  BY DEF TypeInv
<1> QED BY <1>1, TypeCorrect, PTL

-----------------------------------------------------------------------------
(* Sections.                                                               *)

\* On a slave the daemon never touches a page during a section of the
\* application: every handler that changes a page takes mutex_page, which
\* lock_page returns with.
THEOREM SlavesKeepSections == Spec => SlaveSectionsStable
<1>1. TypeInv /\ [Next]_vars => [StableSection(Slaves)]_vars
  <2> SUFFICES ASSUME TypeInv, Next,
                      NEW n \in Slaves, NEW p \in Pages,
                      lock[n][p] \in {"read", "write"},
                      lock'[n][p] = lock[n][p]
               PROVE  /\ protection'[n][p] = protection[n][p]
                      /\ uptodate'[n][p] = uptodate[n][p]
                      /\ content'[n][p] = content[n][p] \/ Writing(n, p)
    BY DEF StableSection
  <2> USE DEF TypeInv, TypeOK, localVars, directoryVars
  <2>0. n \in Nodes /\ n # Master
    BY MasterAssumption DEF Nodes
  <2>1. CASE \E a \in Nodes, b \in Pages : App(a, b)
    <3> PICK a \in Nodes, b \in Pages : App(a, b)
      BY <2>1
    <3>1. CASE Store(a, b)
      BY <2>0, <3>1 DEF Store, Writing
    <3>2. CASE unlock_write_giveup(a, b)
      BY <2>0, <3>2 DEF unlock_write_giveup, giveup_localpage
    <3> QED BY <3>1, <3>2 DEF App, lock_page_hit, lock_page_miss, lock_page_wake,
                              app_fault, unlock_read, unlock_write_send
  <2>2. CASE \E a \in Nodes : ClientHandler(a)
    <3> PICK a \in Nodes : ClientHandler(a)
      BY <2>2
    <3> DEFINE m == Head(fromMaster[a])
    <3>1. fromMaster[a] # <<>> => m.page \in Pages
      BY ReceiveType, FromMasterFields
    <3>2. CASE handle_givepage_client(a)
      BY <2>0, <3>1, <3>2 DEF handle_givepage_client, ClientReady, StorePage, MutexFree
    <3>3. CASE handle_invalidate_msg(a)
      BY <2>0, <3>1, <3>3 DEF handle_invalidate_msg, ClientReady, MutexFree
    <3> QED BY <3>2, <3>3 DEF ClientHandler, send_invalidate_ack
  <2>3. CASE \E a \in Nodes : ServerHandler(a)
    <3> PICK a \in Nodes : ServerHandler(a)
      BY <2>3
    <3>1. CASE handle_givepage_server(a)
      BY <2>0, <3>1 DEF handle_givepage_server, StorePage
    <3> QED BY <3>1 DEF ServerHandler, handle_lockpage_msg, handle_invalidate_ack_msg
  <2>4. CASE \E b \in Pages : process_list_requests(b)
    <3> PICK b \in Pages : process_list_requests(b)
      BY <2>4
    <3>1. CASE GrantWriterGiveup(b)
      BY <2>0, <3>1 DEF GrantWriterGiveup, giveup_localpage
    <3> QED BY <3>1 DEF process_list_requests, ProcessCheck, ServeReader,
                        InvalidateReaders, AwaitReaders, GrantWriter, daemon_fault
  <2>5. CASE BlockOnMutex \/ \E a \in Slaves : SlaveLost(a) \/ MasterLost(a)
    BY <2>5 DEF BlockOnMutex, SlaveLost, MasterLost
  <2> QED BY <2>1, <2>2, <2>3, <2>4, <2>5 DEF Next
<1> QED BY <1>1, TypeCorrect, PTL DEF Spec, SlaveSectionsStable

-----------------------------------------------------------------------------
(* A slave is only sent pages it waits for.  The invariant follows a claim *)
(* of slave n to page p from the LOCKPAGE that n sends, through the        *)
(* master's queue, to the GIVEPAGE that answers it.                        *)

\* The requests still to be served: between satisfy_request and the end of the
\* loop body the head of requests_queue has been.
Queue(p) == IF daemon = <<"giveup", p>> THEN Tail(requests[p]) ELSE requests[p]

Asks(n, p) == {i \in DOMAIN toMaster[n] :
                  toMaster[n][i].type = "LOCKPAGE" /\ toMaster[n][i].page = p}
Queued(n, p) == {i \in DOMAIN Queue(p) : Queue(p)[i].from = n}
Granted(n, p) == {i \in DOMAIN fromMaster[n] :
                     fromMaster[n][i].type = "GIVEPAGE" /\ fromMaster[n][i].page = p}

\* The application of n waits in lock_page for the right r, and has no copy.
Waits(n, p, r) == lock[n][p] = Asking(r) /\ ~uptodate[n][p]

\* Every claim is for what its process waits for, and there is at most one.
Claim(n, p) ==
    /\ \A i \in Asks(n, p) : Waits(n, p, toMaster[n][i].rights)
    /\ \A i \in Queued(n, p) : Waits(n, p, Queue(p)[i].rights)
    /\ \A i \in Granted(n, p) : Waits(n, p, fromMaster[n][i].rights)
    /\ \A i, j \in Asks(n, p) : i = j
    /\ \A i, j \in Queued(n, p) : i = j
    /\ \A i, j \in Granted(n, p) : i = j
    /\ Asks(n, p) = {} \/ Queued(n, p) = {}
    /\ Asks(n, p) = {} \/ Granted(n, p) = {}
    /\ Queued(n, p) = {} \/ Granted(n, p) = {}

ClaimInv == \A n \in Slaves, p \in Pages : Claim(n, p)

\* A step adds no claim of n to p: each claim after it is one from before it,
\* up to one place further back in its stream.
AsksKept(n, p) == \E k \in {0, 1} : \A i \in Asks(n, p)' :
                     i + k \in Asks(n, p) /\ toMaster'[n][i] = toMaster[n][i + k]
QueueKept(n, p) == \E k \in {0, 1} : \A i \in Queued(n, p)' :
                     i + k \in Queued(n, p) /\ Queue(p)'[i] = Queue(p)[i + k]
GrantsKept(n, p) == \E k \in {0, 1} : \A i \in Granted(n, p)' :
                     i + k \in Granted(n, p) /\ fromMaster'[n][i] = fromMaster[n][i + k]

\* The requests still to be served are a sequence of requests.
LEMMA QueueType ==
    ASSUME TypeInv, NEW p \in Pages
    PROVE  Queue(p) \in Seq(Request)
<1>1. requests[p] \in Seq(Request)
  BY DEF TypeInv, TypeOK
<1>2. daemon = <<"giveup", p>> => requests[p] # <<>>
  BY DEF TypeInv, LoopHasRequest
<1> QED BY <1>1, <1>2, HeadTailProperties DEF Queue

\* The streams and queues that hold claims are sequences.
QueuesAreSeqs ==
    /\ \A n \in Nodes : toMaster[n] \in Seq(ToMasterMsg)
    /\ \A n \in Nodes : fromMaster[n] \in Seq(FromMasterMsg)
    /\ \A p \in Pages : Queue(p) \in Seq(Request)

\* They are, in every state of the right types.
LEMMA QueueTypes == TypeInv => QueuesAreSeqs
BY QueueType DEF QueuesAreSeqs, TypeInv, TypeOK

\* The positions of claims are natural numbers.
PositionsOK == \A n \in Nodes, p \in Pages : /\ Asks(n, p) \subseteq Nat
                                            /\ Queued(n, p) \subseteq Nat
                                            /\ Granted(n, p) \subseteq Nat

\* They are, in every state of the right types.
LEMMA Positions == TypeInv => PositionsOK
<1> SUFFICES ASSUME TypeInv, NEW n \in Nodes, NEW p \in Pages
             PROVE  /\ Asks(n, p) \subseteq Nat
                    /\ Queued(n, p) \subseteq Nat
                    /\ Granted(n, p) \subseteq Nat
  BY DEF PositionsOK
<1>1. toMaster[n] \in Seq(ToMasterMsg) /\ fromMaster[n] \in Seq(FromMasterMsg)
  BY DEF TypeInv, TypeOK
<1>2. Queue(p) \in Seq(Request)
  BY QueueType
<1>3. Asks(n, p) \subseteq Nat /\ Granted(n, p) \subseteq Nat
  BY <1>1 DEF Asks, Granted
<1> QED BY <1>2, <1>3 DEF Queued

\* A process that does not wait, or has a copy, has no claim.
LEMMA NoClaim ==
    ASSUME NEW n \in Slaves, NEW p \in Pages, Claim(n, p),
           lock[n][p] \notin {"ask_read", "ask_write"} \/ uptodate[n][p]
    PROVE  Asks(n, p) = {} /\ Queued(n, p) = {} /\ Granted(n, p) = {}
BY DEF Claim, Waits, Asking

\* A step that adds no claim keeps the invariant, if the application goes on
\* waiting or if it does not wait at all.
LEMMA KeepClaim ==
    ASSUME TypeInv, TypeInv', NEW n \in Slaves, NEW p \in Pages, Claim(n, p),
           AsksKept(n, p), QueueKept(n, p), GrantsKept(n, p),
           \/ lock'[n][p] = lock[n][p] /\ (uptodate'[n][p] => uptodate[n][p])
           \/ lock[n][p] \notin {"ask_read", "ask_write"}
           \/ uptodate[n][p]
    PROVE  Claim(n, p)'
<1>1. CASE lock[n][p] \notin {"ask_read", "ask_write"} \/ uptodate[n][p]
  <2>1. Asks(n, p) = {} /\ Queued(n, p) = {} /\ Granted(n, p) = {}
    BY <1>1, NoClaim
  <2>2. Asks(n, p)' = {} /\ Queued(n, p)' = {} /\ Granted(n, p)' = {}
    BY <2>1 DEF AsksKept, QueueKept, GrantsKept
  <2> QED BY <2>2 DEF Claim
<1>2. CASE lock'[n][p] = lock[n][p] /\ (uptodate'[n][p] => uptodate[n][p])
  <2>0. n \in Nodes
    BY DEF Nodes
  <2>1. PICK k \in {0, 1} : \A i \in Asks(n, p)' :
            i + k \in Asks(n, p) /\ toMaster'[n][i] = toMaster[n][i + k]
    BY DEF AsksKept
  <2>2. PICK l \in {0, 1} : \A i \in Queued(n, p)' :
            i + l \in Queued(n, p) /\ Queue(p)'[i] = Queue(p)[i + l]
    BY DEF QueueKept
  <2>3. PICK m \in {0, 1} : \A i \in Granted(n, p)' :
            i + m \in Granted(n, p) /\ fromMaster'[n][i] = fromMaster[n][i + m]
    BY DEF GrantsKept
  <2>4. \A r : Waits(n, p, r) => Waits(n, p, r)'
    BY <1>2 DEF Waits
  <2>5. /\ \A i \in Asks(n, p)' : Waits(n, p, toMaster[n][i].rights)'
        /\ \A i \in Queued(n, p)' : Waits(n, p, Queue(p)[i].rights)'
        /\ \A i \in Granted(n, p)' : Waits(n, p, fromMaster[n][i].rights)'
    BY <1>2, <2>1, <2>2, <2>3 DEF Claim, Waits
  <2>6. /\ Asks(n, p)' \subseteq Nat
        /\ Queued(n, p)' \subseteq Nat
        /\ Granted(n, p)' \subseteq Nat
    <3>1. PositionsOK'
      BY Positions, PTL
    <3> QED BY <2>0, <3>1 DEF PositionsOK
  <2>7. \A i, j \in Asks(n, p)' : i = j
    BY <2>1, <2>6 DEF Claim
  <2>8. \A i, j \in Queued(n, p)' : i = j
    BY <2>2, <2>6 DEF Claim
  <2>9. \A i, j \in Granted(n, p)' : i = j
    BY <2>3, <2>6 DEF Claim
  <2>10. /\ Asks(n, p)' = {} \/ Queued(n, p)' = {}
         /\ Asks(n, p)' = {} \/ Granted(n, p)' = {}
         /\ Queued(n, p)' = {} \/ Granted(n, p)' = {}
    BY <2>1, <2>2, <2>3 DEF Claim
  <2> QED BY <2>5, <2>7, <2>8, <2>9, <2>10 DEF Claim
<1> QED BY <1>1, <1>2

\* Sending anything but a LOCKPAGE for p, and receiving, adds no LOCKPAGE for p.
LEMMA KeepAsks ==
    ASSUME TypeInv, NEW n \in Nodes, NEW p \in Pages,
           \/ toMaster'[n] = toMaster[n]
           \/ toMaster[n] # <<>> /\ toMaster'[n] = Tail(toMaster[n])
           \/ \E m \in ToMasterMsg :
                 /\ toMaster'[n] = Append(toMaster[n], m)
                 /\ m.type # "LOCKPAGE" \/ m.page # p
    PROVE  AsksKept(n, p)
<1>1. toMaster[n] \in Seq(ToMasterMsg) /\ Asks(n, p) \subseteq Nat
  BY QueueTypes, Positions DEF QueuesAreSeqs, PositionsOK
<1>2. CASE toMaster'[n] = toMaster[n]
  <2>1. \A i \in Asks(n, p)' : i + 0 \in Asks(n, p) /\ toMaster'[n][i] = toMaster[n][i + 0]
    BY <1>1, <1>2 DEF Asks
  <2> QED BY <2>1 DEF AsksKept
<1>3. CASE toMaster[n] # <<>> /\ toMaster'[n] = Tail(toMaster[n])
  <2>1. \A i \in Asks(n, p)' : i + 1 \in Asks(n, p) /\ toMaster'[n][i] = toMaster[n][i + 1]
    BY <1>1, <1>3, TailAt DEF Asks
  <2> QED BY <2>1 DEF AsksKept
<1>4. ASSUME NEW m \in ToMasterMsg, toMaster'[n] = Append(toMaster[n], m),
             m.type # "LOCKPAGE" \/ m.page # p
      PROVE  AsksKept(n, p)
  <2>1. \A i \in DOMAIN toMaster'[n] :
            \/ i \in DOMAIN toMaster[n] /\ toMaster'[n][i] = toMaster[n][i]
            \/ toMaster'[n][i] = m
    BY <1>1, <1>4, AppendAt
  <2>2. \A i \in Asks(n, p)' : i \in Asks(n, p) /\ toMaster'[n][i] = toMaster[n][i]
    BY <1>4, <2>1 DEF Asks
  <2>3. \A i \in Asks(n, p)' : i + 0 \in Asks(n, p) /\ toMaster'[n][i] = toMaster[n][i + 0]
    BY <1>1, <2>2
  <2> QED BY <2>3 DEF AsksKept
<1> QED BY <1>2, <1>3, <1>4

\* Serving a request, or queueing one of another process, adds none of n.
LEMMA KeepQueue ==
    ASSUME TypeInv, NEW n \in Nodes, NEW p \in Pages,
           \/ Queue(p)' = Queue(p)
           \/ Queue(p) # <<>> /\ Queue(p)' = Tail(Queue(p))
           \/ \E q \in Request : Queue(p)' = Append(Queue(p), q) /\ q.from # n
    PROVE  QueueKept(n, p)
<1>1. Queue(p) \in Seq(Request) /\ Queued(n, p) \subseteq Nat
  BY QueueTypes, Positions DEF QueuesAreSeqs, PositionsOK
<1>2. CASE Queue(p)' = Queue(p)
  <2>1. \A i \in Queued(n, p)' : i + 0 \in Queued(n, p) /\ Queue(p)'[i] = Queue(p)[i + 0]
    BY <1>1, <1>2 DEF Queued
  <2> QED BY <2>1 DEF QueueKept
<1>3. CASE Queue(p) # <<>> /\ Queue(p)' = Tail(Queue(p))
  <2>1. \A i \in Queued(n, p)' : i + 1 \in Queued(n, p) /\ Queue(p)'[i] = Queue(p)[i + 1]
    BY <1>1, <1>3, TailAt DEF Queued
  <2> QED BY <2>1 DEF QueueKept
<1>4. ASSUME NEW q \in Request, Queue(p)' = Append(Queue(p), q), q.from # n
      PROVE  QueueKept(n, p)
  <2>1. \A i \in DOMAIN Queue(p)' :
            \/ i \in DOMAIN Queue(p) /\ Queue(p)'[i] = Queue(p)[i]
            \/ Queue(p)'[i] = q
    BY <1>1, <1>4, AppendAt
  <2>2. \A i \in Queued(n, p)' : i \in Queued(n, p) /\ Queue(p)'[i] = Queue(p)[i]
    BY <1>4, <2>1 DEF Queued
  <2>3. \A i \in Queued(n, p)' : i + 0 \in Queued(n, p) /\ Queue(p)'[i] = Queue(p)[i + 0]
    BY <1>1, <2>2
  <2> QED BY <2>3 DEF QueueKept
<1> QED BY <1>2, <1>3, <1>4

\* Receiving, and sending a page to another process, or another page, adds no
\* grant of p to n.
LEMMA KeepGrants ==
    ASSUME TypeInv, NEW n \in Nodes, NEW p \in Pages,
           \/ fromMaster'[n] = fromMaster[n]
           \/ fromMaster[n] # <<>> /\ fromMaster'[n] = Tail(fromMaster[n])
           \/ \E m \in FromMasterMsg :
                 /\ fromMaster'[n] = Append(fromMaster[n], m)
                 /\ m.type # "GIVEPAGE" \/ m.page # p
           \/ \E b \in Seq(FromMasterMsg) :
                 /\ fromMaster'[n] = fromMaster[n] \o b
                 /\ \A i \in DOMAIN b : b[i].type # "GIVEPAGE"
    PROVE  GrantsKept(n, p)
<1>1. fromMaster[n] \in Seq(FromMasterMsg) /\ Granted(n, p) \subseteq Nat
  BY QueueTypes, Positions DEF QueuesAreSeqs, PositionsOK
<1>2. CASE fromMaster[n] # <<>> /\ fromMaster'[n] = Tail(fromMaster[n])
  <2>1. \A i \in Granted(n, p)' :
            i + 1 \in Granted(n, p) /\ fromMaster'[n][i] = fromMaster[n][i + 1]
    BY <1>1, <1>2, TailAt DEF Granted
  <2> QED BY <2>1 DEF GrantsKept
<1>3. ASSUME \A i \in DOMAIN fromMaster'[n] :
                \/ i \in DOMAIN fromMaster[n] /\ fromMaster'[n][i] = fromMaster[n][i]
                \/ fromMaster'[n][i].type # "GIVEPAGE"
                \/ fromMaster'[n][i].page # p
      PROVE  GrantsKept(n, p)
  <2>1. \A i \in Granted(n, p)' :
            i \in Granted(n, p) /\ fromMaster'[n][i] = fromMaster[n][i]
    BY <1>3 DEF Granted
  <2>2. \A i \in Granted(n, p)' :
            i + 0 \in Granted(n, p) /\ fromMaster'[n][i] = fromMaster[n][i + 0]
    BY <1>1, <2>1
  <2> QED BY <2>2 DEF GrantsKept
<1>4. CASE fromMaster'[n] = fromMaster[n]
  BY <1>3, <1>4
<1>5. ASSUME NEW m \in FromMasterMsg, fromMaster'[n] = Append(fromMaster[n], m),
             m.type # "GIVEPAGE" \/ m.page # p
      PROVE  GrantsKept(n, p)
  <2>1. \A i \in DOMAIN fromMaster'[n] :
            \/ i \in DOMAIN fromMaster[n] /\ fromMaster'[n][i] = fromMaster[n][i]
            \/ fromMaster'[n][i] = m
    BY <1>1, <1>5, AppendAt
  <2> QED BY <1>3, <1>5, <2>1
<1>6. ASSUME NEW b \in Seq(FromMasterMsg), fromMaster'[n] = fromMaster[n] \o b,
             \A i \in DOMAIN b : b[i].type # "GIVEPAGE"
      PROVE  GrantsKept(n, p)
  <2> DEFINE l == Len(fromMaster[n])
  <2>1. \A i \in DOMAIN fromMaster'[n] :
            \/ i \in DOMAIN fromMaster[n] /\ fromMaster'[n][i] = fromMaster[n][i]
            \/ i - l \in DOMAIN b /\ fromMaster'[n][i] = b[i - l]
    BY <1>1, <1>6, ConcatProperties, LenProperties
  <2> QED BY <1>3, <1>6, <2>1
<1> QED BY <1>2, <1>4, <1>5, <1>6

\* The life of a claim, one lemma for each step.  lock_page sends LOCKPAGE ...
LEMMA NewClaim ==
    ASSUME TypeInv, NEW n \in Slaves, NEW p \in Pages, NEW r \in Access, Claim(n, p),
           lock[n][p] = "free", lock'[n][p] = Asking(r), ~uptodate'[n][p],
           toMaster'[n] = Append(toMaster[n], Lockpage(p, r)),
           Queue(p)' = Queue(p), fromMaster'[n] = fromMaster[n]
    PROVE  Claim(n, p)'
<1>1. Asks(n, p) = {} /\ Queued(n, p) = {} /\ Granted(n, p) = {}
  BY NoClaim
<1>2. Queued(n, p)' = {} /\ Granted(n, p)' = {}
  BY <1>1 DEF Queued, Granted
<1>3. n \in Nodes /\ toMaster[n] \in Seq(ToMasterMsg)
  BY QueueTypes DEF QueuesAreSeqs, Nodes
<1>4. Lockpage(p, r) \in ToMasterMsg
  BY DEF Lockpage, ToMasterMsg
<1>5. \A i \in DOMAIN toMaster'[n] :
          \/ i \in DOMAIN toMaster[n] /\ toMaster'[n][i] = toMaster[n][i]
          \/ i = Len(toMaster[n]) + 1 /\ toMaster'[n][i] = Lockpage(p, r)
  BY <1>3, <1>4, AppendAt
<1>6. \A i \in Asks(n, p)' :
          i = Len(toMaster[n]) + 1 /\ toMaster'[n][i] = Lockpage(p, r)
  BY <1>1, <1>5 DEF Asks
<1>7. \A i \in Asks(n, p)' : Waits(n, p, toMaster[n][i].rights)'
  BY <1>6 DEF Waits, Lockpage
<1> QED BY <1>2, <1>6, <1>7 DEF Claim

\* ... handle_lockpage_msg queues the request ...
LEMMA QueueClaim ==
    ASSUME TypeInv, TypeInv', NEW n \in Slaves, NEW p \in Pages, Claim(n, p),
           NEW q \in Request, toMaster[n] # <<>>, 1 \in Asks(n, p),
           toMaster'[n] = Tail(toMaster[n]),
           q.from = n, q.rights = toMaster[n][1].rights,
           Queue(p)' = Append(Queue(p), q), fromMaster'[n] = fromMaster[n],
           lock'[n][p] = lock[n][p], uptodate'[n][p] = uptodate[n][p]
    PROVE  Claim(n, p)'
<1>1. Queued(n, p) = {} /\ Granted(n, p) = {} /\ Waits(n, p, q.rights)
  BY DEF Claim
<1>2. n \in Nodes /\ toMaster[n] \in Seq(ToMasterMsg) /\ Queue(p) \in Seq(Request)
  BY QueueTypes DEF QueuesAreSeqs, Nodes
<1>3. Granted(n, p)' = {}
  BY <1>1 DEF Granted
<1>4. Asks(n, p)' = {}
  <2>1. \A i \in Asks(n, p)' : i + 1 \in Asks(n, p)
    BY <1>2, TailAt DEF Asks
  <2>2. \A i \in Asks(n, p)' : i \in Nat \ {0}
    BY <1>2, HeadTailProperties, LenProperties DEF Asks
  <2> QED BY <2>1, <2>2 DEF Claim
<1>5. \A i \in DOMAIN Queue(p)' :
          \/ i \in DOMAIN Queue(p) /\ Queue(p)'[i] = Queue(p)[i]
          \/ i = Len(Queue(p)) + 1 /\ Queue(p)'[i] = q
  BY <1>2, AppendAt
<1>6. \A i \in Queued(n, p)' : i = Len(Queue(p)) + 1 /\ Queue(p)'[i] = q
  BY <1>1, <1>5 DEF Queued
<1>7. \A i \in Queued(n, p)' : Waits(n, p, Queue(p)[i].rights)'
  BY <1>1, <1>6 DEF Waits
<1> QED BY <1>3, <1>4, <1>6, <1>7 DEF Claim

\* ... process_list_requests answers it ...
LEMMA GrantClaim ==
    ASSUME TypeInv, TypeInv', NEW n \in Slaves, NEW p \in Pages, Claim(n, p),
           Queue(p) # <<>>, Head(Queue(p)).from = n,
           NEW m \in FromMasterMsg, m.type = "GIVEPAGE", m.page = p,
           m.rights = Head(Queue(p)).rights,
           Queue(p)' = Tail(Queue(p)), fromMaster'[n] = Append(fromMaster[n], m),
           toMaster'[n] = toMaster[n],
           lock'[n][p] = lock[n][p], uptodate'[n][p] = uptodate[n][p]
    PROVE  Claim(n, p)'
<1>1. /\ n \in Nodes /\ fromMaster[n] \in Seq(FromMasterMsg)
      /\ Queue(p) \in Seq(Request)
  BY QueueTypes DEF QueuesAreSeqs, Nodes
<1>2. 1 \in Queued(n, p) /\ Queue(p)[1] = Head(Queue(p))
  BY <1>1, HeadTailProperties, LenProperties DEF Queued
<1>3. Asks(n, p) = {} /\ Granted(n, p) = {} /\ Waits(n, p, m.rights)
  BY <1>2 DEF Claim
<1>4. Asks(n, p)' = {}
  BY <1>3 DEF Asks
<1>5. Queued(n, p)' = {}
  <2>1. \A i \in Queued(n, p)' : i + 1 \in Queued(n, p)
    BY <1>1, TailAt DEF Queued
  <2>2. \A i \in Queued(n, p)' : i \in Nat \ {0}
    BY <1>1, HeadTailProperties, LenProperties DEF Queued
  <2> QED BY <1>2, <2>1, <2>2 DEF Claim
<1>6. \A i \in DOMAIN fromMaster'[n] :
          \/ i \in DOMAIN fromMaster[n] /\ fromMaster'[n][i] = fromMaster[n][i]
          \/ i = Len(fromMaster[n]) + 1 /\ fromMaster'[n][i] = m
  BY <1>1, AppendAt
<1>7. \A i \in Granted(n, p)' : i = Len(fromMaster[n]) + 1 /\ fromMaster'[n][i] = m
  BY <1>3, <1>6 DEF Granted
<1>8. \A i \in Granted(n, p)' : Waits(n, p, fromMaster[n][i].rights)'
  BY <1>3, <1>7 DEF Waits
<1> QED BY <1>4, <1>5, <1>7, <1>8 DEF Claim

\* ... and handle_givepage_msg ends it.
LEMMA EndClaim ==
    ASSUME TypeInv, NEW n \in Slaves, NEW p \in Pages, Claim(n, p),
           fromMaster[n] # <<>>, 1 \in Granted(n, p),
           fromMaster'[n] = Tail(fromMaster[n]),
           Queue(p)' = Queue(p), toMaster'[n] = toMaster[n]
    PROVE  Claim(n, p)'
<1>1. n \in Nodes /\ fromMaster[n] \in Seq(FromMasterMsg)
  BY QueueTypes DEF QueuesAreSeqs, Nodes
<1>2. Asks(n, p)' = {} /\ Queued(n, p)' = {}
  BY DEF Claim, Asks, Queued
<1>3. Granted(n, p)' = {}
  <2>1. \A i \in Granted(n, p)' : i + 1 \in Granted(n, p)
    BY <1>1, TailAt DEF Granted
  <2>2. \A i \in Granted(n, p)' : i \in Nat \ {0}
    BY <1>1, HeadTailProperties, LenProperties DEF Granted
  <2> QED BY <2>1, <2>2 DEF Claim
<1> QED BY <1>2, <1>3 DEF Claim

\* A step that leaves the streams of n and the queue of p alone adds no claim.
LEMMA SameClaims ==
    ASSUME TypeInv, NEW n \in Nodes, NEW p \in Pages
    PROVE  /\ toMaster'[n] = toMaster[n] => AsksKept(n, p)
           /\ Queue(p)' = Queue(p) => QueueKept(n, p)
           /\ fromMaster'[n] = fromMaster[n] => GrantsKept(n, p)
<1>1. ASSUME toMaster'[n] = toMaster[n] PROVE AsksKept(n, p)
  BY <1>1, KeepAsks
<1>2. ASSUME Queue(p)' = Queue(p) PROVE QueueKept(n, p)
  BY <1>2, KeepQueue
<1>3. ASSUME fromMaster'[n] = fromMaster[n] PROVE GrantsKept(n, p)
  BY <1>3, KeepGrants
<1> QED BY <1>1, <1>2, <1>3

\* The requests to be served change only with requests_queue, or when the
\* listener reaches or leaves the end of the loop body.
LEMMA SameQueue ==
    ASSUME NEW p \in Pages, requests'[p] = requests[p],
           \/ daemon' = daemon
           \/ daemon # <<"giveup", p>> /\ daemon' # <<"giveup", p>>
    PROVE  Queue(p)' = Queue(p)
BY DEF Queue

\* The shapes of the variables that the proofs below update.
Shapes ==
    /\ uptodate \in [Nodes -> [Pages -> BOOLEAN]]
    /\ lock \in [Nodes -> [Pages -> LockState]]
    /\ toMaster \in [Nodes -> Seq(ToMasterMsg)]
    /\ fromMaster \in [Nodes -> Seq(FromMasterMsg)]
    /\ requests \in [Pages -> Seq(Request)]

\* The lock and unlock calls, and the application's accesses, keep the claims.
LEMMA ClaimApp ==
    ASSUME TypeInv, TypeInv', ClaimInv, NEW a \in Nodes, NEW b \in Pages, App(a, b)
    PROVE  ClaimInv'
<1> SUFFICES ASSUME NEW n \in Slaves, NEW p \in Pages PROVE Claim(n, p)'
  BY DEF ClaimInv
<1>1. n \in Nodes /\ Claim(n, p)
  BY DEF ClaimInv, Nodes
<1>2. Shapes
  BY DEF Shapes, TypeInv, TypeOK
<1>3. Queue(p)' = Queue(p) /\ fromMaster' = fromMaster
  BY DEF App, lock_page_hit, lock_page_miss, lock_page_wake, Store, app_fault,
         unlock_read, unlock_write_send, unlock_write_giveup, Queue, directoryVars
<1>4. QueueKept(n, p) /\ GrantsKept(n, p)
  BY <1>1, <1>3, SameClaims
<1>5. ASSUME NEW r \in Access, lock_page_miss(a, b, r)
      PROVE  Claim(n, p)'
  <2>1. CASE a = n /\ b = p
    <3>1. /\ lock[n][p] = "free" /\ lock'[n][p] = Asking(r) /\ ~uptodate'[n][p]
          /\ toMaster'[n] = Append(toMaster[n], Lockpage(p, r))
      BY <1>1, <1>2, <1>5, <2>1
         DEF Shapes, lock_page_miss, SendToMaster, NeedsMaster, localVars
    <3> QED BY <1>1, <1>3, <3>1, NewClaim
  <2>2. CASE a # n \/ b # p
    <3>1. Lockpage(b, r) \in ToMasterMsg /\ Lockpage(b, r).page = b
      BY DEF Lockpage, ToMasterMsg
    <3>2. /\ lock'[n][p] = lock[n][p] /\ uptodate'[n][p] = uptodate[n][p]
          /\ IF a = n THEN toMaster'[n] = Append(toMaster[n], Lockpage(b, r))
                      ELSE toMaster'[n] = toMaster[n]
      BY <1>1, <1>2, <1>5, <2>2 DEF Shapes, lock_page_miss, SendToMaster, localVars
    <3>3. AsksKept(n, p)
      BY <1>1, <2>2, <3>1, <3>2, KeepAsks
    <3> QED BY <1>1, <1>4, <3>2, <3>3, KeepClaim
  <2> QED BY <2>1, <2>2
<1>6. CASE unlock_write_send(a, b)
  <2> DEFINE m == satisfy_request(a, b, protection[a][b])
  <2>1. m \in ToMasterMsg /\ m.type # "LOCKPAGE"
    BY PageMessage DEF TypeInv
  <2>2. toMaster'[n] = toMaster[n] \/ toMaster'[n] = Append(toMaster[n], m)
    BY <1>1, <1>2, <1>6 DEF Shapes, unlock_write_send, SendToMaster
  <2>3. AsksKept(n, p)
    BY <1>1, <2>1, <2>2, KeepAsks
  <2>4. \/ lock'[n][p] = lock[n][p] /\ uptodate'[n][p] = uptodate[n][p]
        \/ lock[n][p] = "write"
    BY <1>1, <1>2, <1>6 DEF Shapes, unlock_write_send, localVars
  <2> QED BY <1>1, <1>4, <2>3, <2>4, KeepClaim
<1>7. ASSUME toMaster' = toMaster,
             \/ lock'[n][p] = lock[n][p] /\ (uptodate'[n][p] => uptodate[n][p])
             \/ lock[n][p] \notin {"ask_read", "ask_write"}
             \/ uptodate[n][p]
      PROVE  Claim(n, p)'
  <2>1. AsksKept(n, p)
    BY <1>1, <1>7, SameClaims
  <2> QED BY <1>1, <1>4, <1>7, <2>1, KeepClaim
<1>8. ASSUME NEW r \in Access, lock_page_hit(a, b, r) PROVE Claim(n, p)'
  BY <1>1, <1>2, <1>7, <1>8 DEF lock_page_hit, Shapes, localVars
<1>9. ASSUME NEW r \in Access, lock_page_wake(a, b, r) PROVE Claim(n, p)'
  BY <1>1, <1>2, <1>7, <1>9 DEF lock_page_wake, Shapes, localVars
<1>10. CASE Store(a, b) \/ app_fault(a, b)
  BY <1>7, <1>10 DEF Store, app_fault, localVars
<1>11. CASE unlock_read(a, b)
  BY <1>1, <1>2, <1>7, <1>11 DEF unlock_read, Shapes, localVars
<1>12. CASE unlock_write_giveup(a, b)
  BY <1>1, <1>2, <1>7, <1>12 DEF unlock_write_giveup, giveup_localpage, Shapes
<1> QED BY <1>5, <1>6, <1>8, <1>9, <1>10, <1>11, <1>12 DEF App

\* The handlers of the client socket keep the claims.
LEMMA ClaimClient ==
    ASSUME TypeInv, TypeInv', ClaimInv, NEW a \in Nodes, ClientHandler(a)
    PROVE  ClaimInv'
<1> SUFFICES ASSUME NEW n \in Slaves, NEW p \in Pages PROVE Claim(n, p)'
  BY DEF ClaimInv
<1>1. n \in Nodes /\ n # Master /\ Claim(n, p)
  BY MasterAssumption DEF ClaimInv, Nodes
<1>2. Shapes
  BY DEF Shapes, TypeInv, TypeOK
<1> DEFINE m == Head(fromMaster[a])
<1>3. ASSUME fromMaster[a] # <<>>
      PROVE  m.page \in Pages /\ 1 \in DOMAIN fromMaster[a] /\ m = fromMaster[a][1]
  <2>1. m \in FromMasterMsg
    BY <1>3, ReceiveType DEF TypeInv
  <2>2. fromMaster[a] \in Seq(FromMasterMsg)
    BY <1>2 DEF Shapes
  <2> QED BY <1>3, <2>1, <2>2, FromMasterFields
<1>4. CASE handle_givepage_client(a)
  <2>1. /\ fromMaster[a] # <<>> /\ m.type = "GIVEPAGE"
        /\ requests' = requests /\ toMaster' = toMaster /\ lock' = lock
        /\ fromMaster'[n] = IF a = n THEN Tail(fromMaster[n]) ELSE fromMaster[n]
    BY <1>1, <1>2, <1>4 DEF handle_givepage_client, ClientReady, Shapes
  <2>2. Queue(p)' = Queue(p)
    <3>1. \/ daemon' = daemon
          \/ daemon # <<"giveup", p>> /\ daemon' # <<"giveup", p>>
      BY <1>4 DEF handle_givepage_client, ClientReady, Select
    <3> QED BY <2>1, <3>1, SameQueue
  <2>3. AsksKept(n, p) /\ QueueKept(n, p)
    BY <1>1, <2>1, <2>2, SameClaims
  <2>4. CASE a = n /\ m.page = p
    <3>1. 1 \in Granted(n, p) /\ fromMaster[n] # <<>>
      BY <1>3, <2>1, <2>4 DEF Granted
    <3> QED BY <1>1, <2>1, <2>2, <2>4, <3>1, EndClaim
  <2>5. CASE a # n \/ m.page # p
    <3>1. GrantsKept(n, p)
      BY <1>1, <2>1, KeepGrants
    <3>2. uptodate'[n][p] = uptodate[n][p]
      BY <1>1, <1>2, <1>3, <1>4, <2>1, <2>5 DEF StorePage, handle_givepage_client, Shapes
    <3> QED BY <1>1, <2>1, <2>3, <3>1, <3>2, KeepClaim
  <2> QED BY <2>4, <2>5
<1>5. CASE handle_invalidate_msg(a)
  <2>1. /\ fromMaster[a] # <<>>
        /\ requests' = requests /\ toMaster' = toMaster /\ lock' = lock
        /\ fromMaster'[n] = IF a = n THEN Tail(fromMaster[n]) ELSE fromMaster[n]
    BY <1>1, <1>2, <1>5 DEF handle_invalidate_msg, ClientReady, Shapes, directoryVars
  <2>2. Queue(p)' = Queue(p)
    <3>1. \/ daemon' = daemon
          \/ daemon # <<"giveup", p>> /\ daemon' # <<"giveup", p>>
      BY <1>5 DEF handle_invalidate_msg, ClientReady, Select
    <3> QED BY <2>1, <3>1, SameQueue
  <2>3. AsksKept(n, p) /\ QueueKept(n, p)
    BY <1>1, <2>1, <2>2, SameClaims
  <2>4. GrantsKept(n, p)
    BY <1>1, <2>1, KeepGrants
  <2>5. uptodate'[n][p] => uptodate[n][p]
    BY <1>1, <1>2, <1>3, <1>5, <2>1 DEF handle_invalidate_msg, Shapes
  <2> QED BY <1>1, <2>1, <2>3, <2>4, <2>5, KeepClaim
<1>6. CASE send_invalidate_ack(a)
  <2>1. PICK b \in ack_due[a] : SendToMaster(a, InvalidateAck(b))
    BY <1>6 DEF send_invalidate_ack
  <2>2. InvalidateAck(b) \in ToMasterMsg /\ InvalidateAck(b).type # "LOCKPAGE"
    BY <2>1 DEF InvalidateAck, ToMasterMsg, TypeInv, TypeOK
  <2>3. \/ toMaster'[n] = toMaster[n]
        \/ toMaster'[n] = Append(toMaster[n], InvalidateAck(b))
    BY <1>1, <1>2, <2>1 DEF SendToMaster, Shapes
  <2>4. AsksKept(n, p)
    BY <1>1, <2>2, <2>3, KeepAsks
  <2>5. /\ requests' = requests /\ fromMaster' = fromMaster
        /\ lock' = lock /\ uptodate' = uptodate
    BY <1>6 DEF send_invalidate_ack, localVars, directoryVars
  <2>6. \/ daemon' = daemon
        \/ daemon # <<"giveup", p>> /\ daemon' # <<"giveup", p>>
    BY <1>6 DEF send_invalidate_ack, Select
  <2>7. QueueKept(n, p) /\ GrantsKept(n, p)
    BY <1>1, <2>5, <2>6, SameQueue, SameClaims
  <2> QED BY <1>1, <2>4, <2>5, <2>7, KeepClaim
<1> QED BY <1>4, <1>5, <1>6 DEF ClientHandler

\* The handlers of the master's accepted sockets keep the claims.
LEMMA ClaimServer ==
    ASSUME TypeInv, TypeInv', ClaimInv, NEW a \in Nodes, ServerHandler(a)
    PROVE  ClaimInv'
<1> SUFFICES ASSUME NEW n \in Slaves, NEW p \in Pages PROVE Claim(n, p)'
  BY DEF ClaimInv
<1>1. n \in Nodes /\ n # Master /\ Claim(n, p)
  BY MasterAssumption DEF ClaimInv, Nodes
<1>2. Shapes
  BY DEF Shapes, TypeInv, TypeOK
<1> DEFINE m == Head(toMaster[a])
<1>3. /\ toMaster[a] # <<>> /\ lock' = lock /\ fromMaster' = fromMaster
      /\ toMaster'[n] = IF a = n THEN Tail(toMaster[n]) ELSE toMaster[n]
      /\ uptodate'[n] = uptodate[n]
  BY <1>1, <1>2 DEF ServerHandler, handle_lockpage_msg, handle_invalidate_ack_msg,
       handle_givepage_server, ServerReady, StorePage, Shapes, localVars
<1>4. /\ m \in ToMasterMsg /\ m.page \in Pages
      /\ 1 \in DOMAIN toMaster[a] /\ m = toMaster[a][1]
  <2>1. m \in ToMasterMsg
    BY <1>3, ReceiveType DEF TypeInv
  <2>2. toMaster[a] \in Seq(ToMasterMsg)
    BY <1>2 DEF Shapes
  <2> QED BY <1>3, <2>1, <2>2, ToMasterFields
<1>5. daemon # <<"giveup", p>> /\ daemon' # <<"giveup", p>>
  BY DEF ServerHandler, handle_lockpage_msg, handle_invalidate_ack_msg,
         handle_givepage_server, ServerReady, Select
<1>6. AsksKept(n, p) /\ GrantsKept(n, p)
  BY <1>1, <1>3, KeepAsks, SameClaims
<1>7. CASE handle_lockpage_msg(a)
  <2> DEFINE q == [from |-> a, rights |-> m.rights]
  <2>1. m.type = "LOCKPAGE" /\ q \in Request
    BY <1>4, <1>7, ToMasterFields DEF handle_lockpage_msg, ServerReady, Request
  <2>2. requests'[p] = IF m.page = p THEN Append(requests[p], q) ELSE requests[p]
    BY <1>2, <1>4, <1>7 DEF handle_lockpage_msg, Shapes
  <2>3. Queue(p)' = IF m.page = p THEN Append(Queue(p), q) ELSE Queue(p)
    BY <1>5, <2>2 DEF Queue
  <2>4. CASE a = n /\ m.page = p
    <3>1. 1 \in Asks(n, p) /\ q.from = n /\ q.rights = toMaster[n][1].rights
      BY <1>4, <2>1, <2>4 DEF Asks
    <3> QED BY <1>1, <1>3, <2>1, <2>3, <2>4, <3>1, QueueClaim
  <2>5. CASE a # n \/ m.page # p
    <3>1. QueueKept(n, p)
      BY <1>1, <2>1, <2>3, <2>5, KeepQueue
    <3> QED BY <1>1, <1>3, <1>6, <3>1, KeepClaim
  <2> QED BY <2>4, <2>5
<1>8. CASE handle_invalidate_ack_msg(a) \/ handle_givepage_server(a)
  <2>1. requests' = requests
    BY <1>8 DEF handle_invalidate_ack_msg, handle_givepage_server
  <2>2. QueueKept(n, p)
    BY <1>1, <1>5, <2>1, SameQueue, SameClaims
  <2> QED BY <1>1, <1>3, <1>6, <2>2, KeepClaim
<1> QED BY <1>7, <1>8 DEF ServerHandler

\* process_list_requests keeps the claims: it sends a page to the process whose
\* request it takes from the queue, with the rights of that request.
LEMMA ClaimProcess ==
    ASSUME TypeInv, TypeInv', ClaimInv, NEW b \in Pages, process_list_requests(b)
    PROVE  ClaimInv'
<1> SUFFICES ASSUME NEW n \in Slaves, NEW p \in Pages PROVE Claim(n, p)'
  BY DEF ClaimInv
<1>1. n \in Nodes /\ n # Master /\ Claim(n, p)
  BY MasterAssumption DEF ClaimInv, Nodes
<1>2. Shapes
  BY DEF Shapes, TypeInv, TypeOK
<1>3. lock' = lock /\ toMaster' = toMaster /\ uptodate'[n] = uptodate[n]
  BY <1>1, <1>2 DEF process_list_requests, ProcessCheck, ServeReader, InvalidateReaders,
       AwaitReaders, GrantWriter, GrantWriterGiveup, giveup_localpage, daemon_fault,
       Shapes, localVars
<1>4. AsksKept(n, p)
  BY <1>1, <1>3, SameClaims
<1>5. ASSUME QueueKept(n, p), GrantsKept(n, p) PROVE Claim(n, p)'
  BY <1>1, <1>3, <1>4, <1>5, KeepClaim
<1> DEFINE q == Head(requests[b])
\* A request of a reader or of a writer is answered.
<1>6. ASSUME daemon = <<"loop", b>>, NEW r \in Access, q.rights = r,
             SendFromMaster(q.from, satisfy_request(Master, b, r)),
             Queue(p)' = IF b = p THEN Tail(requests[p]) ELSE requests[p]
      PROVE  Claim(n, p)'
  <2> DEFINE m == satisfy_request(Master, b, r)
  <2>1. requests[b] # <<>> /\ Queue(p) = requests[p]
    BY <1>6 DEF TypeInv, LoopHasRequest, Queue
  <2>2. requests[b] \in Seq(Request) /\ q \in Request
    BY <1>2, <2>1, HeadTailProperties DEF Shapes
  <2>3. q.from \in Nodes
    BY <2>2 DEF Request
  <2>4. m \in FromMasterMsg /\ m.type = "GIVEPAGE" /\ m.page = b /\ m.rights = r
    BY GrantMessage
  <2> HIDE DEF m
  <2>5. fromMaster'[n] = IF q.from = n THEN Append(fromMaster[n], m) ELSE fromMaster[n]
    BY <1>1, <1>2, <1>6, <2>3 DEF SendFromMaster, Shapes, m
  <2>6. CASE b = p /\ q.from = n
    BY <1>1, <1>3, <1>6, <2>1, <2>4, <2>5, <2>6, GrantClaim
  <2>7. CASE b # p \/ q.from # n
    <3>1. QueueKept(n, p)
      BY <1>1, <1>6, <2>1, KeepQueue
    <3>2. GrantsKept(n, p)
      BY <1>1, <2>4, <2>5, <2>7, KeepGrants
    <3> QED BY <1>5, <3>1, <3>2
  <2> QED BY <2>6, <2>7
<1>7. CASE ServeReader(b)
  <2>1. /\ daemon = <<"loop", b>> /\ q.rights = "read"
        /\ SendFromMaster(q.from, satisfy_request(Master, b, "read"))
        /\ requests' = [requests EXCEPT ![b] = Tail(requests[b])]
        /\ daemon' # <<"giveup", p>>
    BY <1>7 DEF ServeReader, AtRequest, Select
  <2>2. Queue(p)' = IF b = p THEN Tail(requests[p]) ELSE requests[p]
    BY <1>2, <2>1 DEF Queue, Shapes
  <2> QED BY <1>6, <2>1, <2>2 DEF Access
<1>8. CASE GrantWriter(b)
  <2>1. /\ daemon = <<"loop", b>> /\ q.rights = "readwrite"
        /\ SendFromMaster(q.from, satisfy_request(Master, b, "readwrite"))
        /\ requests' = requests /\ daemon' = <<"giveup", b>>
    BY <1>8 DEF GrantWriter, AtRequest
  <2>2. Queue(p)' = IF b = p THEN Tail(requests[p]) ELSE requests[p]
    BY <2>1 DEF Queue
  <2> QED BY <1>6, <2>1, <2>2 DEF Access
<1>9. CASE GrantWriterGiveup(b)
  <2>1. /\ daemon = <<"giveup", b>> /\ daemon' # <<"giveup", p>>
        /\ requests' = [requests EXCEPT ![b] = Tail(requests[b])]
        /\ fromMaster' = fromMaster
    BY <1>9 DEF GrantWriterGiveup, Select
  <2>2. Queue(p)' = Queue(p)
    BY <1>2, <2>1 DEF Queue, Shapes
  <2> QED BY <1>1, <1>5, <2>1, <2>2, SameClaims
<1>10. CASE InvalidateReaders(b)
  <2>1. /\ daemon # <<"giveup", p>> /\ daemon' # <<"giveup", p>>
        /\ requests' = requests
    BY <1>10 DEF InvalidateReaders, AtRequest, AfterWait, Select
  <2> DEFINE c == Cardinality({j \in DOMAIN readers[b] : readers[b][j] = n})
             k == [i \in 1..c |-> Invalidate(b)]
  <2>2. k \in Seq(FromMasterMsg)
    BY <1>1, InvalidationsType DEF TypeInv
  <2>3. \A i \in DOMAIN k : k[i].type # "GIVEPAGE"
    BY DEF Invalidate
  <2>4. fromMaster'[n] = fromMaster[n] \o k
    BY <1>1, <1>10 DEF InvalidateReaders, invalidate_readers
  <2> HIDE DEF k
  <2>5. GrantsKept(n, p)
    BY <1>1, <2>2, <2>3, <2>4, KeepGrants
  <2>6. QueueKept(n, p)
    BY <1>1, <2>1, SameQueue, SameClaims
  <2> QED BY <1>5, <2>5, <2>6
<1>11. CASE ProcessCheck(b) \/ AwaitReaders(b) \/ daemon_fault(b)
  <2>1. /\ daemon # <<"giveup", p>> /\ daemon' # <<"giveup", p>>
        /\ requests' = requests /\ fromMaster' = fromMaster
    BY <1>11 DEF ProcessCheck, AwaitReaders, daemon_fault, AtRequest, AfterWait, Select,
                 directoryVars
  <2>2. Queue(p)' = Queue(p)
    BY <2>1, SameQueue
  <2> QED BY <1>1, <1>5, <2>1, <2>2, SameClaims
<1> QED BY <1>7, <1>8, <1>9, <1>10, <1>11 DEF process_list_requests

\* Every slave's claims stay single and match what its application waits for,
\* whatever lock calls are made, by the master's application too.
THEOREM ClaimsCorrect == Spec => []ClaimInv
<1>1. Init => ClaimInv
  BY DEF Init, ClaimInv, Claim, Asks, Queued, Granted, Queue, Nodes, Select
<1>2. TypeInv /\ TypeInv' /\ ClaimInv /\ [Next]_vars => ClaimInv'
  <2> SUFFICES ASSUME TypeInv, TypeInv', ClaimInv, [Next]_vars PROVE ClaimInv'
    OBVIOUS
  <2>1. CASE \E a \in Nodes, b \in Pages : App(a, b)
    BY <2>1, ClaimApp
  <2>2. CASE \E a \in Nodes : ClientHandler(a) \/ ServerHandler(a)
    BY <2>2, ClaimClient, ClaimServer
  <2>3. CASE \E b \in Pages : process_list_requests(b)
    BY <2>3, ClaimProcess
  <2>4. CASE \/ BlockOnMutex
             \/ \E a \in Slaves : SlaveLost(a) \/ MasterLost(a)
             \/ UNCHANGED vars
    <3>1. /\ toMaster' = toMaster /\ fromMaster' = fromMaster /\ requests' = requests
          /\ lock' = lock /\ uptodate' = uptodate
      BY <2>4 DEF BlockOnMutex, SlaveLost, MasterLost, vars, localVars, directoryVars
    <3>2. \A p \in Pages : daemon' = daemon \/
             (daemon # <<"giveup", p>> /\ daemon' # <<"giveup", p>>)
      BY <2>4 DEF BlockOnMutex, SlaveLost, MasterLost, vars, Select
    <3> SUFFICES ASSUME NEW n \in Slaves, NEW p \in Pages PROVE Claim(n, p)'
      BY DEF ClaimInv
    <3>3. n \in Nodes /\ Claim(n, p)
      BY DEF ClaimInv, Nodes
    <3>4. Queue(p)' = Queue(p)
      BY <3>1, <3>2, SameQueue
    <3>5. AsksKept(n, p) /\ QueueKept(n, p) /\ GrantsKept(n, p)
      BY <3>1, <3>3, <3>4, SameClaims
    <3> QED BY <3>1, <3>3, <3>5, KeepClaim
  <2> QED BY <2>1, <2>2, <2>3, <2>4 DEF Next
<1> QED BY <1>1, <1>2, TypeCorrect, PTL DEF Spec

\* handle_givepage_msg never brings a slave a page it is not waiting for in
\* lock_page, nor with other rights than those it asked for.
THEOREM PagesAreSolicited == Spec => []NoUnsolicitedPage
<1>1. TypeInv /\ ClaimInv => NoUnsolicitedPage
  <2> SUFFICES ASSUME TypeInv, ClaimInv, NEW n \in Slaves,
                      NEW i \in DOMAIN fromMaster[n],
                      fromMaster[n][i].type = "GIVEPAGE"
               PROVE  lock[n][fromMaster[n][i].page] = Asking(fromMaster[n][i].rights)
    BY DEF NoUnsolicitedPage
  <2> DEFINE p == fromMaster[n][i].page
  <2>1. fromMaster[n] \in Seq(FromMasterMsg)
    BY DEF TypeInv, TypeOK, Nodes
  <2>2. fromMaster[n][i] \in FromMasterMsg
    BY <2>1
  <2>3. p \in Pages
    BY <2>2, FromMasterFields
  <2>4. i \in Granted(n, p)
    BY DEF Granted
  <2> QED BY <2>3, <2>4 DEF ClaimInv, Claim, Waits
<1> QED BY <1>1, TypeCorrect, ClaimsCorrect, PTL

-----------------------------------------------------------------------------
(* A request is not lost.  Between lock_page's LOCKPAGE and the page, a     *)
(* claim is in one of the three places; each step either leaves it where it *)
(* is, or moves it on.                                                     *)

\* Slave n has a claim to page p in one of the three places.
Claimed(n, p) == Asks(n, p) # {} \/ Queued(n, p) # {} \/ Granted(n, p) # {}

\* What UnderWay of DSMPages says in terms of the places of claims.
ClaimsUnderWay == \A n \in Nodes, p \in Pages : UnderWay(n, p) <=> Claimed(n, p)

\* The requests that are not answered are those of Queue.
LEMMA UnderWayIs == TypeInv => ClaimsUnderWay
<1> SUFFICES ASSUME TypeInv, NEW n \in Nodes, NEW p \in Pages
             PROVE  UnderWay(n, p) <=> Claimed(n, p)
  BY DEF ClaimsUnderWay
<1> DEFINE Unanswered == \E i \in DOMAIN requests[p] :
              requests[p][i].from = n /\ ~(i = 1 /\ daemon = <<"giveup", p>>)
<1>1. Queued(n, p) # {} <=> Unanswered
  <2>1. CASE daemon # <<"giveup", p>>
    BY <2>1 DEF Queued, Queue
  <2>2. CASE daemon = <<"giveup", p>>
    <3>1. requests[p] \in Seq(Request) /\ requests[p] # <<>>
      BY <2>2 DEF TypeInv, TypeOK, LoopHasRequest
    <3>2. Queued(n, p) = {i \in DOMAIN Tail(requests[p]) : Tail(requests[p])[i].from = n}
      BY <2>2 DEF Queued, Queue
    <3>3. ASSUME NEW i \in Queued(n, p) PROVE Unanswered
      <4>1. i + 1 \in DOMAIN requests[p] /\ requests[p][i + 1].from = n /\ i + 1 # 1
        BY <3>1, <3>2, <3>3, TailAt, HeadTailProperties, LenProperties
      <4> QED BY <4>1
    <3>4. ASSUME NEW i \in DOMAIN requests[p], requests[p][i].from = n, i # 1
          PROVE  Queued(n, p) # {}
      <4>1. i \in 2..Len(requests[p]) /\ Len(requests[p]) \in Nat
        BY <3>1, <3>4, LenProperties
      <4>2. i - 1 \in DOMAIN Tail(requests[p])
        BY <3>1, <4>1, HeadTailProperties, LenProperties
      <4>3. Tail(requests[p])[i - 1] = requests[p][i - 1 + 1] /\ i - 1 + 1 = i
        BY <3>1, <4>1, <4>2, TailAt
      <4> QED BY <3>2, <3>4, <4>2, <4>3
    <3> QED BY <2>2, <3>3, <3>4
  <2> QED BY <2>1, <2>2
<1>2. UnderWay(n, p) <=> Asks(n, p) # {} \/ Unanswered \/ Granted(n, p) # {}
  BY DEF UnderWay, Asks, Granted
<1> QED BY <1>1, <1>2 DEF Claimed

\* t is s after a step that does not take away place i: nothing happened, it grew
\* at the end, or it lost a head that is not the place.
KeepsPlace(s, t, i, S) ==
    \/ t = s
    \/ \E m \in S : t = Append(s, m)
    \/ \E b \in Seq(S) : t = s \o b
    \/ t = Tail(s) /\ i # 1

\* Then what was there still is in t.
LEMMA StaysInSeq ==
    ASSUME NEW S, NEW s \in Seq(S), NEW t \in Seq(S), NEW i \in DOMAIN s,
           KeepsPlace(s, t, i, S)
    PROVE  \E j \in DOMAIN t : t[j] = s[i]
<1>1. CASE t = s
  BY <1>1
<1>2. ASSUME NEW m \in S, t = Append(s, m) PROVE i \in DOMAIN t /\ t[i] = s[i]
  BY <1>2, AppendProperties, LenProperties
<1>3. ASSUME NEW b \in Seq(S), t = s \o b PROVE i \in DOMAIN t /\ t[i] = s[i]
  BY <1>3, ConcatProperties, LenProperties
<1>4. CASE t = Tail(s) /\ i # 1
  <2>1. s # <<>> /\ i \in 2..Len(s) /\ Len(s) \in Nat
    BY <1>4, LenProperties
  <2>2. i - 1 \in DOMAIN t
    BY <1>4, <2>1, HeadTailProperties, LenProperties
  <2>3. t[i - 1] = s[i - 1 + 1] /\ i - 1 + 1 = i
    BY <1>4, <2>1, <2>2, TailAt
  <2> QED BY <2>2, <2>3
<1> QED BY <1>1, <1>2, <1>3, <1>4 DEF KeepsPlace

\* A step that takes no claim of n to p from its place.
AsksStay(n, p) == \A i \in Asks(n, p) : KeepsPlace(toMaster[n], toMaster'[n], i, ToMasterMsg)
QueueStays(n, p) == \A i \in Queued(n, p) : KeepsPlace(Queue(p), Queue(p)', i, Request)
GrantsStay(n, p) ==
    \A i \in Granted(n, p) : KeepsPlace(fromMaster[n], fromMaster'[n], i, FromMasterMsg)

\* After such a step the claim is where it was.
LEMMA ClaimStays ==
    ASSUME TypeInv, TypeInv', NEW n \in Nodes, NEW p \in Pages, Claimed(n, p),
           AsksStay(n, p), QueueStays(n, p), GrantsStay(n, p)
    PROVE  Claimed(n, p)'
<1>1. QueuesAreSeqs /\ QueuesAreSeqs'
  BY QueueTypes, PTL
<1>2. ASSUME NEW i \in Asks(n, p) PROVE Asks(n, p)' # {}
  <2>1. toMaster[n] \in Seq(ToMasterMsg) /\ toMaster'[n] \in Seq(ToMasterMsg)
    BY <1>1 DEF QueuesAreSeqs
  <2>2. \E j \in DOMAIN toMaster'[n] : toMaster'[n][j] = toMaster[n][i]
    BY <1>2, <2>1, StaysInSeq DEF AsksStay, Asks
  <2> QED BY <1>2, <2>2 DEF Asks
<1>3. ASSUME NEW i \in Queued(n, p) PROVE Queued(n, p)' # {}
  <2>1. Queue(p) \in Seq(Request) /\ Queue(p)' \in Seq(Request)
    BY <1>1 DEF QueuesAreSeqs
  <2>2. \E j \in DOMAIN Queue(p)' : Queue(p)'[j] = Queue(p)[i]
    BY <1>3, <2>1, StaysInSeq DEF QueueStays, Queued
  <2> QED BY <1>3, <2>2 DEF Queued
<1>4. ASSUME NEW i \in Granted(n, p) PROVE Granted(n, p)' # {}
  <2>1. fromMaster[n] \in Seq(FromMasterMsg) /\ fromMaster'[n] \in Seq(FromMasterMsg)
    BY <1>1 DEF QueuesAreSeqs
  <2>2. \E j \in DOMAIN fromMaster'[n] : fromMaster'[n][j] = fromMaster[n][i]
    BY <1>4, <2>1, StaysInSeq DEF GrantsStay, Granted
  <2> QED BY <1>4, <2>2 DEF Granted
<1> QED BY <1>2, <1>3, <1>4 DEF Claimed

\* What RequestKept says of one step, one slave and one page.
Kept(n, p) ==
    /\ lock'[n][p] \in {"ask_read", "ask_write"}
    /\ lock[n][p] = "free" \/ Claimed(n, p)
    => Claimed(n, p)' \/ uptodate'[n][p]

\* It holds if nobody begins to wait and the claims stay.
LEMMA KeptIfStays ==
    ASSUME TypeInv, TypeInv', NEW n \in Nodes, NEW p \in Pages,
           lock[n][p] = "free" => lock'[n][p] \notin {"ask_read", "ask_write"},
           AsksStay(n, p), QueueStays(n, p), GrantsStay(n, p)
    PROVE  Kept(n, p)
BY ClaimStays DEF Kept

\* What is not touched stays.
LEMMA StaysIfSame ==
    ASSUME NEW n \in Nodes, NEW p \in Pages
    PROVE  /\ toMaster'[n] = toMaster[n] => AsksStay(n, p)
           /\ Queue(p)' = Queue(p) => QueueStays(n, p)
           /\ fromMaster'[n] = fromMaster[n] => GrantsStay(n, p)
BY DEF AsksStay, QueueStays, GrantsStay, KeepsPlace

\* A lock call that waits has sent its request; no other call of the application
\* takes anything from a stream or a queue.
LEMMA KeptApp ==
    ASSUME TypeInv, TypeInv', NEW a \in Nodes, NEW b \in Pages, App(a, b),
           NEW n \in Slaves, NEW p \in Pages
    PROVE  Kept(n, p)
<1>1. n \in Nodes
  BY DEF Nodes
<1>2. Shapes
  BY DEF Shapes, TypeInv, TypeOK
<1>3. Queue(p)' = Queue(p) /\ fromMaster' = fromMaster
  BY DEF App, lock_page_hit, lock_page_miss, lock_page_wake, Store, app_fault,
         unlock_read, unlock_write_send, unlock_write_giveup, Queue, directoryVars
<1>4. QueueStays(n, p) /\ GrantsStay(n, p)
  BY <1>1, <1>3, StaysIfSame
<1>5. ASSUME NEW r \in Access, lock_page_miss(a, b, r)
      PROVE  Kept(n, p)
  <2>1. Lockpage(b, r) \in ToMasterMsg
    BY DEF Lockpage, ToMasterMsg
  <2>2. CASE a = n /\ b = p
    <3>1. toMaster[n] \in Seq(ToMasterMsg) /\ toMaster'[n] = Append(toMaster[n], Lockpage(p, r))
      BY <1>1, <1>2, <1>5, <2>2 DEF Shapes, lock_page_miss, SendToMaster
    <3>2. /\ Len(toMaster[n]) + 1 \in DOMAIN toMaster'[n]
          /\ toMaster'[n][Len(toMaster[n]) + 1] = Lockpage(p, r)
      BY <2>1, <2>2, <3>1, AppendProperties, LenProperties
    <3>3. Asks(n, p)' # {}
      BY <3>2 DEF Asks, Lockpage
    <3> QED BY <3>3 DEF Kept, Claimed
  <2>3. CASE a # n \/ b # p
    <3>1. lock'[n][p] = lock[n][p]
      BY <1>1, <1>2, <1>5, <2>3 DEF Shapes, lock_page_miss
    <3>2. toMaster'[n] = toMaster[n] \/ toMaster'[n] = Append(toMaster[n], Lockpage(b, r))
      BY <1>1, <1>2, <1>5 DEF Shapes, lock_page_miss, SendToMaster
    <3>3. AsksStay(n, p)
      BY <2>1, <3>2 DEF AsksStay, KeepsPlace
    <3> QED BY <1>1, <1>4, <3>1, <3>3, KeptIfStays
  <2> QED BY <2>2, <2>3
<1>6. CASE unlock_write_send(a, b)
  <2> DEFINE m == satisfy_request(a, b, protection[a][b])
  <2>1. m \in ToMasterMsg
    BY PageMessage DEF TypeInv
  <2>2. toMaster'[n] = toMaster[n] \/ toMaster'[n] = Append(toMaster[n], m)
    BY <1>1, <1>2, <1>6 DEF Shapes, unlock_write_send, SendToMaster
  <2>3. AsksStay(n, p)
    BY <2>1, <2>2 DEF AsksStay, KeepsPlace
  <2>4. lock'[n][p] = lock[n][p] \/ lock'[n][p] = "release"
    BY <1>1, <1>2, <1>6 DEF Shapes, unlock_write_send
  <2> QED BY <1>1, <1>4, <2>3, <2>4, KeptIfStays
<1>7. ASSUME toMaster' = toMaster,
             lock'[n][p] = lock[n][p] \/ lock'[n][p] \in {"free", "read", "write"}
      PROVE  Kept(n, p)
  <2>1. AsksStay(n, p)
    BY <1>1, <1>7, StaysIfSame
  <2> QED BY <1>1, <1>4, <1>7, <2>1, KeptIfStays
<1>8. ASSUME NEW r \in Access, lock_page_hit(a, b, r) \/ lock_page_wake(a, b, r)
      PROVE  Kept(n, p)
  <2>1. lock' = [lock EXCEPT ![a][b] = Holding(r)] /\ toMaster' = toMaster
    BY <1>8 DEF lock_page_hit, lock_page_wake
  <2>2. lock'[n][p] = lock[n][p] \/ lock'[n][p] = Holding(r)
    BY <1>1, <1>2, <2>1 DEF Shapes
  <2> QED BY <1>7, <2>1, <2>2 DEF Holding, Access
<1>9. CASE Store(a, b) \/ app_fault(a, b)
  BY <1>7, <1>9 DEF Store, app_fault
<1>10. CASE unlock_read(a, b) \/ unlock_write_giveup(a, b)
  <2>1. lock' = [lock EXCEPT ![a][b] = "free"] /\ toMaster' = toMaster
    BY <1>10 DEF unlock_read, unlock_write_giveup
  <2>2. lock'[n][p] = lock[n][p] \/ lock'[n][p] = "free"
    BY <1>1, <1>2, <2>1 DEF Shapes
  <2> QED BY <1>7, <2>1, <2>2
<1> QED BY <1>5, <1>6, <1>8, <1>9, <1>10 DEF App

\* The handlers of the client socket: a GIVEPAGE ends the claim with the page here,
\* an INVALIDATE is no claim.
LEMMA KeptClient ==
    ASSUME TypeInv, TypeInv', NEW a \in Nodes, ClientHandler(a),
           NEW n \in Slaves, NEW p \in Pages
    PROVE  Kept(n, p)
<1>1. n \in Nodes /\ n # Master
  BY MasterAssumption DEF Nodes
<1>2. Shapes
  BY DEF Shapes, TypeInv, TypeOK
<1>3. /\ lock' = lock /\ requests' = requests
      /\ \/ daemon' = daemon
         \/ daemon # <<"giveup", p>> /\ daemon' # <<"giveup", p>>
  BY DEF ClientHandler, handle_givepage_client, handle_invalidate_msg,
         send_invalidate_ack, ClientReady, Select, directoryVars
<1>4. QueueStays(n, p)
  BY <1>1, <1>3, SameQueue, StaysIfSame
<1>5. CASE handle_givepage_client(a) \/ handle_invalidate_msg(a)
  <2>1. /\ fromMaster[a] # <<>> /\ toMaster' = toMaster
        /\ fromMaster'[n] = IF a = n THEN Tail(fromMaster[n]) ELSE fromMaster[n]
    BY <1>1, <1>2, <1>5 DEF handle_givepage_client, handle_invalidate_msg, ClientReady,
         Shapes
  <2>2. AsksStay(n, p)
    BY <1>1, <2>1, StaysIfSame
  <2>3. CASE a # n \/ 1 \notin Granted(n, p)
    <3>1. GrantsStay(n, p)
      BY <2>1, <2>3 DEF GrantsStay, KeepsPlace
    <3> QED BY <1>1, <1>3, <1>4, <2>2, <3>1, KeptIfStays
  <2>4. CASE a = n /\ 1 \in Granted(n, p)
    <3>1. Head(fromMaster[n]) = fromMaster[n][1]
      BY <1>1, <1>2, <2>1, <2>4, HeadTailProperties DEF Shapes
    <3>2. Head(fromMaster[n]).type = "GIVEPAGE" /\ Head(fromMaster[n]).page = p
      BY <2>4, <3>1 DEF Granted
    <3>3. handle_givepage_client(n)
      BY <1>5, <2>4, <3>2 DEF handle_invalidate_msg, ClientReady
    <3>4. uptodate'[n][p]
      BY <1>1, <1>2, <3>2, <3>3 DEF handle_givepage_client, StorePage, Shapes
    <3> QED BY <3>4 DEF Kept
  <2> QED BY <2>3, <2>4
<1>6. CASE send_invalidate_ack(a)
  <2>1. PICK b \in ack_due[a] : SendToMaster(a, InvalidateAck(b))
    BY <1>6 DEF send_invalidate_ack
  <2>2. InvalidateAck(b) \in ToMasterMsg
    BY <2>1 DEF InvalidateAck, ToMasterMsg, TypeInv, TypeOK
  <2>3. \/ toMaster'[n] = toMaster[n]
        \/ toMaster'[n] = Append(toMaster[n], InvalidateAck(b))
    BY <1>1, <1>2, <2>1 DEF SendToMaster, Shapes
  <2>4. AsksStay(n, p)
    BY <2>2, <2>3 DEF AsksStay, KeepsPlace
  <2>5. GrantsStay(n, p)
    BY <1>1, <1>6, StaysIfSame DEF send_invalidate_ack
  <2> QED BY <1>1, <1>3, <1>4, <2>4, <2>5, KeptIfStays
<1> QED BY <1>5, <1>6 DEF ClientHandler

\* The handlers of the accepted sockets: a LOCKPAGE becomes a request, the other
\* messages are no claims.
LEMMA KeptServer ==
    ASSUME TypeInv, TypeInv', NEW a \in Nodes, ServerHandler(a),
           NEW n \in Slaves, NEW p \in Pages
    PROVE  Kept(n, p)
<1>1. n \in Nodes /\ n # Master
  BY MasterAssumption DEF Nodes
<1>2. Shapes
  BY DEF Shapes, TypeInv, TypeOK
<1> DEFINE m == Head(toMaster[a])
<1>3. /\ toMaster[a] # <<>> /\ lock' = lock /\ fromMaster' = fromMaster
      /\ toMaster'[n] = IF a = n THEN Tail(toMaster[n]) ELSE toMaster[n]
  BY <1>1, <1>2 DEF ServerHandler, handle_lockpage_msg, handle_invalidate_ack_msg,
       handle_givepage_server, ServerReady, Shapes
<1>4. m \in ToMasterMsg /\ m = toMaster[a][1]
  <2>1. m \in ToMasterMsg
    BY <1>3, ReceiveType DEF TypeInv
  <2>2. toMaster[a] \in Seq(ToMasterMsg)
    BY <1>2 DEF Shapes
  <2> QED BY <1>3, <2>1, <2>2, HeadTailProperties
<1>5. daemon # <<"giveup", p>> /\ daemon' # <<"giveup", p>>
  BY DEF ServerHandler, handle_lockpage_msg, handle_invalidate_ack_msg,
         handle_givepage_server, ServerReady, Select
<1>6. GrantsStay(n, p)
  BY <1>1, <1>3, StaysIfSame
<1>7. ASSUME a # n \/ 1 \notin Asks(n, p) PROVE AsksStay(n, p)
  BY <1>3, <1>7 DEF AsksStay, KeepsPlace
<1>8. CASE handle_lockpage_msg(a)
  <2> DEFINE q == [from |-> a, rights |-> m.rights]
  <2>1. m.type = "LOCKPAGE" /\ m.page \in Pages /\ q \in Request
    BY <1>4, <1>8, ToMasterFields DEF handle_lockpage_msg, ServerReady, Request
  <2>2. requests'[p] = IF m.page = p THEN Append(requests[p], q) ELSE requests[p]
    BY <1>2, <2>1, <1>8 DEF handle_lockpage_msg, Shapes
  <2>3. Queue(p)' = IF m.page = p THEN Append(Queue(p), q) ELSE Queue(p)
    BY <1>5, <2>2 DEF Queue
  <2>4. CASE a = n /\ m.page = p
    <3>1. Queue(p) \in Seq(Request)
      BY QueueTypes DEF QueuesAreSeqs
    <3>2. Len(Queue(p)) + 1 \in DOMAIN Queue(p)' /\ Queue(p)'[Len(Queue(p)) + 1] = q
      BY <2>1, <2>3, <2>4, <3>1, AppendProperties, LenProperties
    <3>3. Queued(n, p)' # {}
      BY <2>4, <3>2 DEF Queued
    <3> QED BY <3>3 DEF Kept, Claimed
  <2>5. CASE a # n \/ m.page # p
    <3>1. a # n \/ 1 \notin Asks(n, p)
      BY <1>4, <2>5 DEF Asks
    <3>2. QueueStays(n, p)
      BY <2>1, <2>3 DEF QueueStays, KeepsPlace
    <3> QED BY <1>1, <1>3, <1>6, <1>7, <3>1, <3>2, KeptIfStays
  <2> QED BY <2>4, <2>5
<1>9. CASE handle_invalidate_ack_msg(a) \/ handle_givepage_server(a)
  <2>1. requests' = requests /\ m.type # "LOCKPAGE"
    BY <1>9 DEF handle_invalidate_ack_msg, handle_givepage_server, ServerReady
  <2>2. QueueStays(n, p)
    BY <1>1, <1>5, <2>1, SameQueue, StaysIfSame
  <2>3. a # n \/ 1 \notin Asks(n, p)
    BY <1>4, <2>1 DEF Asks
  <2> QED BY <1>1, <1>3, <1>6, <1>7, <2>2, <2>3, KeptIfStays
<1> QED BY <1>8, <1>9 DEF ServerHandler

\* process_list_requests: whoever is taken from the queue is sent the page.
LEMMA KeptProcess ==
    ASSUME TypeInv, TypeInv', NEW b \in Pages, process_list_requests(b),
           NEW n \in Slaves, NEW p \in Pages
    PROVE  Kept(n, p)
<1>1. n \in Nodes /\ n # Master
  BY MasterAssumption DEF Nodes
<1>2. Shapes
  BY DEF Shapes, TypeInv, TypeOK
<1>3. lock' = lock /\ toMaster' = toMaster
  BY DEF process_list_requests, ProcessCheck, ServeReader, InvalidateReaders,
       AwaitReaders, GrantWriter, GrantWriterGiveup, daemon_fault
<1>4. ASSUME QueueStays(n, p), GrantsStay(n, p) PROVE Kept(n, p)
  <2>1. AsksStay(n, p)
    BY <1>1, <1>3, StaysIfSame
  <2> QED BY <1>1, <1>3, <1>4, <2>1, KeptIfStays
<1> DEFINE q == Head(requests[b])
\* A request of a reader or of a writer is answered.
<1>5. ASSUME daemon = <<"loop", b>>, NEW r \in Access,
             SendFromMaster(q.from, satisfy_request(Master, b, r)),
             Queue(p)' = IF b = p THEN Tail(requests[p]) ELSE requests[p]
      PROVE  Kept(n, p)
  <2> DEFINE m == satisfy_request(Master, b, r)
  <2>1. requests[b] # <<>> /\ Queue(p) = requests[p]
    BY <1>5 DEF TypeInv, LoopHasRequest, Queue
  <2>2. requests[b] \in Seq(Request) /\ q \in Request /\ q = requests[b][1]
    BY <1>2, <2>1, HeadTailProperties DEF Shapes
  <2>3. q.from \in Nodes
    BY <2>2 DEF Request
  <2>4. m \in FromMasterMsg /\ m.type = "GIVEPAGE" /\ m.page = b
    BY GrantMessage
  <2> HIDE DEF m
  <2>5. fromMaster'[n] = IF q.from = n THEN Append(fromMaster[n], m) ELSE fromMaster[n]
    BY <1>1, <1>2, <1>5, <2>3 DEF SendFromMaster, Shapes, m
  <2>6. CASE b = p /\ q.from = n
    <3>1. fromMaster[n] \in Seq(FromMasterMsg)
      BY <1>1, <1>2 DEF Shapes
    <3>2. /\ Len(fromMaster[n]) + 1 \in DOMAIN fromMaster'[n]
          /\ fromMaster'[n][Len(fromMaster[n]) + 1] = m
      BY <2>4, <2>5, <2>6, <3>1, AppendProperties, LenProperties
    <3>3. Granted(n, p)' # {}
      BY <2>4, <2>6, <3>2 DEF Granted
    <3> QED BY <3>3 DEF Kept, Claimed
  <2>7. CASE b # p \/ q.from # n
    <3>1. b # p \/ 1 \notin Queued(n, p)
      BY <2>1, <2>2, <2>7 DEF Queued
    <3>2. QueueStays(n, p)
      BY <1>5, <2>1, <3>1 DEF QueueStays, KeepsPlace
    <3>3. GrantsStay(n, p)
      BY <2>4, <2>5 DEF GrantsStay, KeepsPlace
    <3> QED BY <1>4, <3>2, <3>3
  <2> QED BY <2>6, <2>7
<1>6. CASE ServeReader(b)
  <2>1. /\ daemon = <<"loop", b>>
        /\ SendFromMaster(q.from, satisfy_request(Master, b, "read"))
        /\ requests' = [requests EXCEPT ![b] = Tail(requests[b])]
        /\ daemon' # <<"giveup", p>>
    BY <1>6 DEF ServeReader, AtRequest, Select
  <2>2. Queue(p)' = IF b = p THEN Tail(requests[p]) ELSE requests[p]
    BY <1>2, <2>1 DEF Queue, Shapes
  <2> QED BY <1>5, <2>1, <2>2 DEF Access
<1>7. CASE GrantWriter(b)
  <2>1. /\ daemon = <<"loop", b>>
        /\ SendFromMaster(q.from, satisfy_request(Master, b, "readwrite"))
        /\ requests' = requests /\ daemon' = <<"giveup", b>>
    BY <1>7 DEF GrantWriter, AtRequest
  <2>2. Queue(p)' = IF b = p THEN Tail(requests[p]) ELSE requests[p]
    BY <2>1 DEF Queue
  <2> QED BY <1>5, <2>1, <2>2 DEF Access
<1>8. CASE GrantWriterGiveup(b)
  <2>1. /\ daemon = <<"giveup", b>> /\ daemon' # <<"giveup", p>>
        /\ requests' = [requests EXCEPT ![b] = Tail(requests[b])]
        /\ fromMaster' = fromMaster
    BY <1>8 DEF GrantWriterGiveup, Select
  <2>2. Queue(p)' = Queue(p)
    BY <1>2, <2>1 DEF Queue, Shapes
  <2> QED BY <1>1, <1>4, <2>1, <2>2, StaysIfSame
<1>9. CASE InvalidateReaders(b)
  <2>1. /\ daemon # <<"giveup", p>> /\ daemon' # <<"giveup", p>>
        /\ requests' = requests
    BY <1>9 DEF InvalidateReaders, AtRequest, AfterWait, Select
  <2> DEFINE c == Cardinality({j \in DOMAIN readers[b] : readers[b][j] = n})
             k == [i \in 1..c |-> Invalidate(b)]
  <2>2. k \in Seq(FromMasterMsg)
    BY <1>1, InvalidationsType DEF TypeInv
  <2>3. fromMaster'[n] = fromMaster[n] \o k
    BY <1>1, <1>9 DEF InvalidateReaders, invalidate_readers
  <2> HIDE DEF k
  <2>4. GrantsStay(n, p)
    BY <2>2, <2>3 DEF GrantsStay, KeepsPlace
  <2>5. QueueStays(n, p)
    BY <1>1, <2>1, SameQueue, StaysIfSame
  <2> QED BY <1>4, <2>4, <2>5
<1>10. CASE ProcessCheck(b) \/ AwaitReaders(b) \/ daemon_fault(b)
  <2>1. /\ daemon # <<"giveup", p>> /\ daemon' # <<"giveup", p>>
        /\ requests' = requests /\ fromMaster' = fromMaster
    BY <1>10 DEF ProcessCheck, AwaitReaders, daemon_fault, AtRequest, AfterWait, Select,
                 directoryVars
  <2>2. Queue(p)' = Queue(p)
    BY <2>1, SameQueue
  <2> QED BY <1>1, <1>4, <2>1, <2>2, StaysIfSame
<1> QED BY <1>6, <1>7, <1>8, <1>9, <1>10 DEF process_list_requests

\* The request of a lock call that waits is in one place or another until the page
\* is here, for any slaves, pages and lock calls, the master's included: neither the
\* handlers nor the loop of process_list_requests drop one.
THEOREM RequestsAreKept == Spec => RequestKept
<1>1. TypeInv /\ TypeInv' /\ Next => \A n \in Slaves, p \in Pages : Kept(n, p)
  <2> SUFFICES ASSUME TypeInv, TypeInv', Next, NEW n \in Slaves, NEW p \in Pages
               PROVE  Kept(n, p)
    OBVIOUS
  <2>1. CASE \E a \in Nodes, b \in Pages : App(a, b)
    BY <2>1, KeptApp
  <2>2. CASE \E a \in Nodes : ClientHandler(a) \/ ServerHandler(a)
    BY <2>2, KeptClient, KeptServer
  <2>3. CASE \E b \in Pages : process_list_requests(b)
    BY <2>3, KeptProcess
  <2>4. CASE BlockOnMutex \/ \E a \in Slaves : SlaveLost(a) \/ MasterLost(a)
    <3>1. /\ toMaster' = toMaster /\ fromMaster' = fromMaster /\ requests' = requests
          /\ lock' = lock
          /\ \/ daemon' = daemon
             \/ daemon # <<"giveup", p>> /\ daemon' # <<"giveup", p>>
      BY <2>4 DEF BlockOnMutex, SlaveLost, MasterLost, directoryVars, Select
    <3>2. n \in Nodes
      BY DEF Nodes
    <3>3. AsksStay(n, p) /\ QueueStays(n, p) /\ GrantsStay(n, p)
      BY <3>1, <3>2, SameQueue, StaysIfSame
    <3> QED BY <3>1, <3>2, <3>3, KeptIfStays
  <2> QED BY <2>1, <2>2, <2>3, <2>4 DEF Next
<1>2. ClaimsUnderWay /\ ClaimsUnderWay' /\ (\A n \in Slaves, p \in Pages : Kept(n, p)) =>
        \A n \in Slaves, p \in Pages :
          /\ lock'[n][p] \in {"ask_read", "ask_write"}
          /\ lock[n][p] = "free" \/ UnderWay(n, p)
          => UnderWay(n, p)' \/ uptodate'[n][p]
  BY DEF ClaimsUnderWay, Kept, Nodes
<1> QED BY <1>1, <1>2, UnderWayIs, TypeCorrect, PTL DEF Spec, RequestKept

(***************************************************************************)
(* 2. The readers of a page and their invalidation, whatever lock calls the *)
(* applications make, the master's included.                               *)
(***************************************************************************)

(* Every entry of current_readers_queue that is being invalidated has one  *)
(* message on its way: an INVALIDATE, the INVALIDATE_ACK the listener of   *)
(* the reader has still to send, or that INVALIDATE_ACK.                   *)

Invalidations(n, p) == Count(fromMaster[n], {Invalidate(p)})
Due(n, p) == IF p \in ack_due[n] THEN 1 ELSE 0
Acks(n, p) == Count(toMaster[n], {InvalidateAck(p)})
Listed(n, p) == Count(readers[p], {n})

Pending(n, p) == Invalidations(n, p) + Due(n, p) + Acks(n, p)

\* The request that process_list_requests is about to serve is a writer's.
WriterFirst(p) ==
    /\ requests[p] # <<>> /\ Head(requests[p]).rights = "readwrite"
    /\ daemon # <<"giveup", p>>

\* The invalidation of p and the list of its readers agree for n.
Agree(n, p) == Pending(n, p) = IF invalidate_sent[p] THEN Listed(n, p) ELSE 0

AcksInv ==
    /\ \A n \in Nodes : \A p, q \in ack_due[n] : p = q
    /\ \A p \in Pages : invalidate_sent[p] => WriterFirst(p)
    /\ \A n \in Nodes, p \in Pages : Agree(n, p)

\* What is counted.
LEMMA CountsNat ==
    ASSUME TypeOK, NEW n \in Nodes, NEW p \in Pages
    PROVE  /\ Invalidations(n, p) \in Nat /\ Acks(n, p) \in Nat
           /\ Listed(n, p) \in Nat /\ Due(n, p) \in {0, 1}
<1>1. /\ toMaster[n] \in Seq(ToMasterMsg) /\ fromMaster[n] \in Seq(FromMasterMsg)
      /\ readers[p] \in Seq(Nodes)
  BY DEF TypeOK
<1> QED BY <1>1, CountNat DEF Invalidations, Acks, Listed, Due

\* A process is in current_readers_queue if and only if it is counted there.
LEMMA ListedIffIn ==
    ASSUME TypeOK, NEW n \in Nodes, NEW p \in Pages
    PROVE  n \in ToSet(readers[p]) <=> Listed(n, p) # 0
<1>1. readers[p] \in Seq(Nodes)
  BY DEF TypeOK
<1>2. Listed(n, p) = 0 <=> \A i \in DOMAIN readers[p] : readers[p][i] \notin {n}
  BY <1>1, CountNat DEF Listed
<1> QED BY <1>2 DEF ToSet

\* A message from n: only INVALIDATE_ACKs change what n is counted for.
LEMMA AcksSend ==
    ASSUME TypeOK, NEW a \in Nodes, NEW m \in ToMasterMsg, SendToMaster(a, m),
           NEW n \in Nodes, NEW p \in Pages
    PROVE  Acks(n, p)' = Acks(n, p) + IF n = a /\ m = InvalidateAck(p) THEN 1 ELSE 0
<1>1. toMaster \in Streams(Nodes, ToMasterMsg) /\ SentOn(toMaster, toMaster', a, m)
  BY DEF TypeOK, Streams, SentOn, SendToMaster
<1>2. Count(toMaster'[n], {InvalidateAck(p)}) =
          Count(toMaster[n], {InvalidateAck(p)})
             + IF n = a /\ m \in {InvalidateAck(p)} THEN 1 ELSE 0
  BY <1>1, SendCounts
<1> QED BY <1>2 DEF Acks

\* See AcksSend: the same when the master receives it.
LEMMA AcksReceive ==
    ASSUME TypeOK, NEW a \in Nodes, ReceivedOn(toMaster, toMaster', a),
           NEW n \in Nodes, NEW p \in Pages
    PROVE  /\ Acks(n, p) = Acks(n, p)' +
                  IF n = a /\ Head(toMaster[a]) = InvalidateAck(p) THEN 1 ELSE 0
           /\ Acks(n, p)' \in Nat
<1>1. toMaster \in Streams(Nodes, ToMasterMsg)
  BY DEF TypeOK, Streams
<1>2. /\ Count(toMaster[n], {InvalidateAck(p)}) =
            Count(toMaster'[n], {InvalidateAck(p)})
               + IF n = a /\ Head(toMaster[a]) \in {InvalidateAck(p)} THEN 1 ELSE 0
      /\ Count(toMaster'[n], {InvalidateAck(p)}) \in Nat
  BY <1>1, ReceiveCounts
<1> QED BY <1>2 DEF Acks

\* See AcksSend: a message from the master, which is a page.
LEMMA InvalidationsSend ==
    ASSUME TypeOK, NEW a \in Nodes, NEW m \in FromMasterMsg, SendFromMaster(a, m),
           m.type = "GIVEPAGE", NEW n \in Nodes, NEW p \in Pages
    PROVE  Invalidations(n, p)' = Invalidations(n, p)
<1>1. fromMaster \in Streams(Nodes, FromMasterMsg) /\ SentOn(fromMaster, fromMaster', a, m)
  BY DEF TypeOK, Streams, SentOn, SendFromMaster
<1>2. m \notin {Invalidate(p)}
  BY DEF Invalidate
<1>3. /\ Count(fromMaster'[n], {Invalidate(p)}) =
            Count(fromMaster[n], {Invalidate(p)})
               + IF n = a /\ m \in {Invalidate(p)} THEN 1 ELSE 0
      /\ Count(fromMaster[n], {Invalidate(p)}) \in Nat
  BY <1>1, SendCounts
<1> QED BY <1>2, <1>3 DEF Invalidations

\* See AcksSend: a process receives a message from the master.
LEMMA InvalidationsReceive ==
    ASSUME TypeOK, NEW a \in Nodes, ReceivedOn(fromMaster, fromMaster', a),
           NEW n \in Nodes, NEW p \in Pages
    PROVE  /\ Invalidations(n, p) = Invalidations(n, p)' +
                  IF n = a /\ Head(fromMaster[a]) = Invalidate(p) THEN 1 ELSE 0
           /\ Invalidations(n, p)' \in Nat
<1>1. fromMaster \in Streams(Nodes, FromMasterMsg)
  BY DEF TypeOK, Streams
<1>2. /\ Count(fromMaster[n], {Invalidate(p)}) =
            Count(fromMaster'[n], {Invalidate(p)})
               + IF n = a /\ Head(fromMaster[a]) \in {Invalidate(p)} THEN 1 ELSE 0
      /\ Count(fromMaster'[n], {Invalidate(p)}) \in Nat
  BY <1>1, ReceiveCounts
<1> QED BY <1>2 DEF Invalidations

\* invalidate_readers sends a process one INVALIDATE for each of its entries.
LEMMA InvalidationsSent ==
    ASSUME TypeOK, NEW b \in Pages, invalidate_readers(b),
           NEW n \in Nodes, NEW p \in Pages
    PROVE  Invalidations(n, p)' = Invalidations(n, p) + IF p = b THEN Listed(n, b) ELSE 0
<1> DEFINE k == Listed(n, b)
           t == [i \in 1..k |-> Invalidate(b)]
<1>1. k \in Nat /\ fromMaster[n] \in Seq(FromMasterMsg) /\ Invalidate(b) \in FromMasterMsg
  BY CountsNat DEF TypeOK, Invalidate, FromMasterMsg
<1>2. fromMaster'[n] = fromMaster[n] \o t
  BY CountEqual DEF invalidate_readers, Listed
<1> HIDE DEF k
<1>3. t \in Seq(FromMasterMsg)
  BY <1>1, IsASeq
<1>4. Count(fromMaster[n] \o t, {Invalidate(p)}) =
          Count(fromMaster[n], {Invalidate(p)}) + Count(t, {Invalidate(p)})
  BY <1>1, <1>3, CountConcat
<1>5. Count(t, {Invalidate(p)}) = IF Invalidate(b) \in {Invalidate(p)} THEN k ELSE 0
  BY <1>1, CountRepeated
<1>6. Invalidate(b) \in {Invalidate(p)} <=> p = b
  BY DEF Invalidate
<1> QED BY <1>2, <1>4, <1>5, <1>6 DEF Invalidations, k

\* What the steps below leave alone is counted as before.
LEMMA CountsSame ==
    ASSUME NEW n \in Nodes, NEW p \in Pages
    PROVE  /\ fromMaster' = fromMaster => Invalidations(n, p)' = Invalidations(n, p)
           /\ ack_due' = ack_due => Due(n, p)' = Due(n, p)
           /\ toMaster' = toMaster => Acks(n, p)' = Acks(n, p)
           /\ readers' = readers => Listed(n, p)' = Listed(n, p)
BY DEF Invalidations, Due, Acks, Listed

\* The lock and unlock calls send no INVALIDATE_ACK.
LEMMA AcksApp ==
    ASSUME TypeInv, AcksInv, NEW a \in Nodes, NEW b \in Pages, App(a, b)
    PROVE  AcksInv'
<1> USE DEF directoryVars
<1>1. /\ fromMaster' = fromMaster /\ ack_due' = ack_due /\ readers' = readers
      /\ invalidate_sent' = invalidate_sent /\ requests' = requests /\ daemon' = daemon
  BY DEF App, lock_page_hit, lock_page_miss, lock_page_wake, Store, app_fault,
         unlock_read, unlock_write_send, unlock_write_giveup
<1>2. ASSUME NEW n \in Nodes, NEW p \in Pages PROVE Acks(n, p)' = Acks(n, p)
  <2>1. ASSUME NEW m \in ToMasterMsg, SendToMaster(a, m), m.type # "INVALIDATE_ACK"
        PROVE  Acks(n, p)' = Acks(n, p)
    <3>1. m # InvalidateAck(p)
      BY <2>1 DEF InvalidateAck
    <3> QED BY <2>1, <3>1, AcksSend, CountsNat DEF TypeInv
  <2>2. ASSUME NEW r \in Access, lock_page_miss(a, b, r) PROVE Acks(n, p)' = Acks(n, p)
    <3>1. Lockpage(b, r) \in ToMasterMsg /\ Lockpage(b, r).type # "INVALIDATE_ACK"
      BY DEF Lockpage, ToMasterMsg
    <3> QED BY <2>1, <2>2, <3>1 DEF lock_page_miss
  <2>3. CASE unlock_write_send(a, b)
    <3> DEFINE m == satisfy_request(a, b, protection[a][b])
    <3>1. m \in ToMasterMsg /\ m.type # "INVALIDATE_ACK"
      BY PageMessage DEF TypeInv
    <3> QED BY <2>1, <2>3, <3>1 DEF unlock_write_send
  <2>4. CASE toMaster' = toMaster
    BY <2>4, CountsSame
  <2> QED BY <2>2, <2>3, <2>4
          DEF App, lock_page_hit, lock_page_wake, Store, app_fault, unlock_read,
              unlock_write_giveup
<1>3. ASSUME NEW n \in Nodes, NEW p \in Pages PROVE Agree(n, p)'
  <2>1. /\ Invalidations(n, p)' = Invalidations(n, p) /\ Due(n, p)' = Due(n, p)
        /\ Listed(n, p)' = Listed(n, p) /\ Acks(n, p)' = Acks(n, p)
    BY <1>1, <1>2, CountsSame
  <2>2. Agree(n, p)
    BY DEF AcksInv
  <2> QED BY <1>1, <2>1, <2>2 DEF Agree, Pending
<1> QED BY <1>1, <1>3 DEF AcksInv, WriterFirst

\* A client that receives a page counts as before, an INVALIDATE turns into
\* the answer its listener owes, and that into an INVALIDATE_ACK.
LEMMA AcksClient ==
    ASSUME TypeInv, AcksInv, NEW a \in Nodes, ClientHandler(a)
    PROVE  AcksInv'
<1> USE DEF directoryVars
<1> DEFINE m == Head(fromMaster[a])
<1>1. /\ readers' = readers /\ invalidate_sent' = invalidate_sent /\ requests' = requests
      /\ \A p \in Pages : daemon # <<"giveup", p>> => daemon' # <<"giveup", p>>
  BY DEF ClientHandler, handle_givepage_client, handle_invalidate_msg,
         send_invalidate_ack, Select
<1>2. \A p \in Pages : invalidate_sent'[p] => WriterFirst(p)'
  BY <1>1 DEF AcksInv, WriterFirst
<1>3. ASSUME NEW n \in Nodes, NEW p \in Pages, Pending(n, p)' = Pending(n, p)
      PROVE  Agree(n, p)'
  <2>1. Agree(n, p) /\ Listed(n, p)' = Listed(n, p)
    BY <1>1, CountsSame DEF AcksInv
  <2> QED BY <1>1, <1>3, <2>1 DEF Agree
<1>4. CASE handle_givepage_client(a)
  <2>1. /\ fromMaster[a] # <<>> /\ fromMaster' = [fromMaster EXCEPT ![a] = Tail(@)]
        /\ toMaster' = toMaster /\ ack_due' = ack_due /\ m.type = "GIVEPAGE"
    BY <1>4 DEF handle_givepage_client, ClientReady
  <2>2. ASSUME NEW n \in Nodes, NEW p \in Pages PROVE Pending(n, p)' = Pending(n, p)
    <3>1. m # Invalidate(p)
      BY <2>1 DEF Invalidate
    <3>2. /\ Invalidations(n, p) = Invalidations(n, p)' + 0
          /\ Invalidations(n, p)' \in Nat
      BY <2>1, <3>1, InvalidationsReceive DEF TypeInv, ReceivedOn
    <3>3. Acks(n, p)' = Acks(n, p) /\ Due(n, p)' = Due(n, p)
      BY <2>1, CountsSame
    <3> QED BY <3>2, <3>3 DEF Pending
  <2> QED BY <1>2, <1>3, <2>1, <2>2 DEF AcksInv
<1>5. CASE handle_invalidate_msg(a)
  <2> DEFINE q == m.page
  <2>1. /\ fromMaster[a] # <<>> /\ fromMaster' = [fromMaster EXCEPT ![a] = Tail(@)]
        /\ toMaster' = toMaster /\ m.type = "INVALIDATE"
        /\ ack_due[a] = {} /\ ack_due' = [ack_due EXCEPT ![a] = {q}]
    BY <1>5 DEF handle_invalidate_msg, ClientReady
  <2>2. m = Invalidate(q)
    <3>1. m \in FromMasterMsg
      BY <2>1, ReceiveType DEF TypeInv
    <3> QED BY <2>1, <3>1 DEF FromMasterMsg, Invalidate
  <2>3. \A n \in Nodes : ack_due'[n] = IF n = a THEN {q} ELSE ack_due[n]
    BY <2>1 DEF TypeInv, TypeOK
  <2>4. ASSUME NEW n \in Nodes, NEW p \in Pages PROVE Pending(n, p)' = Pending(n, p)
    <3>1. m = Invalidate(p) <=> p = q
      BY <2>2 DEF Invalidate
    <3>2. /\ Invalidations(n, p) = Invalidations(n, p)' + IF n = a /\ p = q THEN 1 ELSE 0
          /\ Invalidations(n, p)' \in Nat
      BY <2>1, <3>1, InvalidationsReceive DEF TypeInv, ReceivedOn
    <3>3. Due(n, p)' = Due(n, p) + IF n = a /\ p = q THEN 1 ELSE 0
      BY <2>1, <2>3 DEF Due
    <3>4. Acks(n, p)' = Acks(n, p) /\ Acks(n, p) \in Nat /\ Due(n, p) \in {0, 1}
      BY <2>1, CountsSame, CountsNat DEF TypeInv
    <3> QED BY <3>2, <3>3, <3>4 DEF Pending
  <2> QED BY <1>2, <1>3, <2>3, <2>4 DEF AcksInv
<1>6. CASE send_invalidate_ack(a)
  <2>1. PICK q \in ack_due[a] : SendToMaster(a, InvalidateAck(q))
    BY <1>6 DEF send_invalidate_ack
  <2>2. fromMaster' = fromMaster /\ ack_due' = [ack_due EXCEPT ![a] = {}]
    BY <1>6 DEF send_invalidate_ack
  <2>3. \A n \in Nodes : ack_due'[n] = IF n = a THEN {} ELSE ack_due[n]
    BY <2>2 DEF TypeInv, TypeOK
  <2>4. InvalidateAck(q) \in ToMasterMsg
    BY <2>1 DEF InvalidateAck, ToMasterMsg, TypeInv, TypeOK
  <2>5. \A p \in ack_due[a] : p = q
    BY <2>1 DEF AcksInv
  <2>6. ASSUME NEW n \in Nodes, NEW p \in Pages PROVE Pending(n, p)' = Pending(n, p)
    <3>1. InvalidateAck(q) = InvalidateAck(p) <=> p = q
      BY DEF InvalidateAck
    <3>2. Acks(n, p)' = Acks(n, p) + IF n = a /\ p = q THEN 1 ELSE 0
      BY <2>1, <2>4, <3>1, AcksSend DEF TypeInv
    <3>3. Due(n, p) = Due(n, p)' + IF n = a /\ p = q THEN 1 ELSE 0
      BY <2>1, <2>3, <2>5 DEF Due
    <3>4. /\ Invalidations(n, p)' = Invalidations(n, p) /\ Invalidations(n, p) \in Nat
          /\ Acks(n, p) \in Nat /\ Due(n, p) \in {0, 1} /\ Due(n, p)' \in {0, 1}
      BY <2>2, CountsSame, CountsNat DEF TypeInv, Due
    <3> QED BY <3>2, <3>3, <3>4 DEF Pending
  <2> QED BY <1>2, <1>3, <2>3, <2>6 DEF AcksInv
<1> QED BY <1>4, <1>5, <1>6 DEF ClientHandler

\* The page of the message the master receives from a.
ReceivedPage(a) == Head(toMaster[a]).page

\* An INVALIDATE_ACK answers an INVALIDATE of the current round, and takes one
\* entry of its sender from current_readers_queue.
LEMMA AckTakesReader ==
    ASSUME TypeInv, AcksInv, NEW a \in Nodes, handle_invalidate_ack_msg(a)
    PROVE  /\ ReceivedPage(a) \in Pages
           /\ Head(toMaster[a]) = InvalidateAck(ReceivedPage(a))
           /\ invalidate_sent[ReceivedPage(a)]
           /\ \A n \in Nodes, p \in Pages :
                 Listed(n, p)' = Listed(n, p) -
                                    IF n = a /\ p = ReceivedPage(a) THEN 1 ELSE 0
<1> DEFINE m == Head(toMaster[a])
<1>1. /\ toMaster[a] # <<>> /\ toMaster' = [toMaster EXCEPT ![a] = Tail(@)]
      /\ m.type = "INVALIDATE_ACK"
  BY DEF handle_invalidate_ack_msg, ServerReady
<1>2. PICK q \in Pages : q = ReceivedPage(a) /\ m \in ToMasterMsg
  BY <1>1, ReceiveType, ToMasterFields DEF TypeInv, ReceivedPage
<1>3. m = InvalidateAck(q) /\ readers' = [readers EXCEPT ![q] = RemoveFirst(@, a)]
  BY <1>1, <1>2 DEF handle_invalidate_ack_msg, ToMasterMsg, InvalidateAck, ReceivedPage
<1>4. readers[q] \in Seq(Nodes)
  BY <1>2 DEF TypeInv, TypeOK
<1>5. /\ Acks(a, q) = Acks(a, q)' + 1 /\ Acks(a, q)' \in Nat
      /\ Invalidations(a, q) \in Nat /\ Due(a, q) \in {0, 1} /\ Listed(a, q) \in Nat
  BY <1>1, <1>2, <1>3, AcksReceive, CountsNat DEF TypeInv, ReceivedOn
<1>6. Agree(a, q)
  BY <1>2 DEF AcksInv
<1>7. invalidate_sent[q] /\ Listed(a, q) > 0
  BY <1>5, <1>6 DEF Agree, Pending
<1>8. ASSUME NEW n \in Nodes, NEW p \in Pages
      PROVE  Listed(n, p)' = Listed(n, p) - IF n = a /\ p = q THEN 1 ELSE 0
  <2>1. readers'[p] = IF p = q THEN RemoveFirst(readers[q], a) ELSE readers[p]
    BY <1>2, <1>3 DEF TypeInv, TypeOK
  <2>2. Count(readers[q], {a}) > 0
    BY <1>7 DEF Listed
  <2>3. Count(RemoveFirst(readers[q], a), {n}) =
            Count(readers[q], {n}) - IF a \in {n} THEN 1 ELSE 0
    BY <1>4, <2>2, CountRemoveFirst
  <2>4. Count(readers[p], {n}) \in Nat
    BY CountsNat DEF TypeInv, Listed
  <2> QED BY <2>1, <2>3, <2>4 DEF Listed
<1> QED BY <1>2, <1>3, <1>7, <1>8

\* The master takes a process from the list for the INVALIDATE_ACK it receives.
LEMMA AcksServer ==
    ASSUME TypeInv, AcksInv, NEW a \in Nodes, ServerHandler(a)
    PROVE  AcksInv'
<1> USE DEF directoryVars
<1> DEFINE m == Head(toMaster[a])
<1>1. /\ fromMaster' = fromMaster /\ ack_due' = ack_due
      /\ invalidate_sent' = invalidate_sent
      /\ toMaster[a] # <<>> /\ toMaster' = [toMaster EXCEPT ![a] = Tail(@)]
      /\ \A p \in Pages : daemon' # <<"giveup", p>>
  BY DEF ServerHandler, handle_lockpage_msg, handle_invalidate_ack_msg,
         handle_givepage_server, ServerReady
<1>2. m \in ToMasterMsg /\ m.page \in Pages
  BY <1>1, ReceiveType, ToMasterFields DEF TypeInv
<1>3. \A p \in Pages : invalidate_sent'[p] => WriterFirst(p)'
  <2> SUFFICES ASSUME NEW p \in Pages, invalidate_sent[p] PROVE WriterFirst(p)'
    BY <1>1
  <2>1. WriterFirst(p) /\ requests[p] \in Seq(Request)
    BY DEF AcksInv, TypeInv, TypeOK
  <2>2. CASE handle_lockpage_msg(a)
    <3> DEFINE r == [from |-> a, rights |-> m.rights]
    <3>1. r \in Request
      BY <1>2, <2>2, ToMasterFields DEF handle_lockpage_msg, ServerReady, Request
    <3>2. requests'[p] = requests[p] \/ requests'[p] = Append(requests[p], r)
      BY <2>2 DEF handle_lockpage_msg, TypeInv, TypeOK
    <3>3. Append(requests[p], r) # <<>> /\ Head(Append(requests[p], r)) = Head(requests[p])
      BY <2>1, <3>1, AppendProperties, HeadTailAppend DEF WriterFirst
    <3> QED BY <1>1, <2>1, <3>2, <3>3 DEF WriterFirst
  <2>3. CASE handle_invalidate_ack_msg(a) \/ handle_givepage_server(a)
    <3>1. requests' = requests
      BY <2>3 DEF handle_invalidate_ack_msg, handle_givepage_server
    <3> QED BY <1>1, <2>1, <3>1 DEF WriterFirst
  <2> QED BY <2>2, <2>3 DEF ServerHandler
<1>4. ASSUME NEW n \in Nodes, NEW p \in Pages
      PROVE  /\ Invalidations(n, p)' = Invalidations(n, p) /\ Invalidations(n, p) \in Nat
             /\ Due(n, p)' = Due(n, p) /\ Due(n, p) \in {0, 1}
             /\ Acks(n, p) = Acks(n, p)' + IF n = a /\ m = InvalidateAck(p) THEN 1 ELSE 0
             /\ Acks(n, p)' \in Nat /\ Listed(n, p) \in Nat
             /\ Agree(n, p)
  BY <1>1, CountsSame, CountsNat, AcksReceive DEF TypeInv, AcksInv, ReceivedOn
<1>5. CASE handle_lockpage_msg(a) \/ handle_givepage_server(a)
  <2>1. readers' = readers /\ m.type # "INVALIDATE_ACK"
    BY <1>5 DEF handle_lockpage_msg, handle_givepage_server, ServerReady
  <2>2. ASSUME NEW n \in Nodes, NEW p \in Pages PROVE Agree(n, p)'
    <3>1. m # InvalidateAck(p) /\ Listed(n, p)' = Listed(n, p)
      BY <2>1, CountsSame DEF InvalidateAck
    <3> QED BY <1>1, <1>4, <3>1 DEF Agree, Pending
  <2> QED BY <1>1, <1>3, <2>2 DEF AcksInv
<1>6. CASE handle_invalidate_ack_msg(a)
  <2> DEFINE q == ReceivedPage(a)
  <2>1. /\ q \in Pages /\ m = InvalidateAck(q) /\ invalidate_sent[q]
        /\ \A n \in Nodes, p \in Pages :
              Listed(n, p)' = Listed(n, p) - IF n = a /\ p = q THEN 1 ELSE 0
    BY <1>6, AckTakesReader
  <2> HIDE DEF q
  <2>2. \A p \in Pages : m = InvalidateAck(p) <=> p = q
    BY <2>1 DEF InvalidateAck
  <2>3. ASSUME NEW n \in Nodes, NEW p \in Pages PROVE Agree(n, p)'
    <3>1. invalidate_sent'[p] = invalidate_sent[p]
      BY <1>1
    <3>2. CASE n = a /\ p = q
      <4>1. Listed(n, p)' = Listed(n, p) - 1 /\ Acks(n, p) = Acks(n, p)' + 1
        BY <1>4, <2>1, <2>2, <3>2
      <4>2. Pending(n, p)' = Pending(n, p) - 1
        BY <1>4, <4>1 DEF Pending
      <4> QED BY <1>4, <2>1, <3>1, <3>2, <4>1, <4>2 DEF Agree
    <3>3. CASE ~(n = a /\ p = q)
      <4>1. Listed(n, p)' = Listed(n, p) - 0 /\ Acks(n, p) = Acks(n, p)' + 0
        BY <1>4, <2>1, <2>2, <3>3
      <4>2. Listed(n, p)' = Listed(n, p) /\ Pending(n, p)' = Pending(n, p)
        BY <1>4, <4>1 DEF Pending
      <4> QED BY <1>4, <3>1, <4>2 DEF Agree
    <3> QED BY <3>2, <3>3
  <2> QED BY <1>1, <1>3, <2>3 DEF AcksInv
<1> QED BY <1>5, <1>6 DEF ServerHandler

\* process_list_requests invalidates every reader once, and only when all of
\* them have answered grants the page to the writer and resets invalidate_sent.
LEMMA AcksProcess ==
    ASSUME TypeInv, AcksInv, NEW b \in Pages, process_list_requests(b)
    PROVE  AcksInv'
<1> USE DEF directoryVars
<1>1. toMaster' = toMaster /\ ack_due' = ack_due
  BY DEF process_list_requests, ProcessCheck, ServeReader, InvalidateReaders,
         AwaitReaders, GrantWriter, GrantWriterGiveup, daemon_fault
<1>2. ASSUME NEW n \in Nodes, NEW p \in Pages
      PROVE  /\ Due(n, p)' = Due(n, p) /\ Due(n, p) \in {0, 1}
             /\ Acks(n, p)' = Acks(n, p) /\ Acks(n, p) \in Nat
             /\ Invalidations(n, p) \in Nat /\ Listed(n, p) \in Nat
             /\ Agree(n, p)
  BY <1>1, CountsSame, CountsNat DEF TypeInv, AcksInv
<1> DEFINE q == Head(requests[b])
<1>3. ASSUME NEW r \in Access, SendFromMaster(q.from, satisfy_request(Master, b, r)),
             requests[b] # <<>>
      PROVE  \A n \in Nodes, p \in Pages : Invalidations(n, p)' = Invalidations(n, p)
  <2> DEFINE m == satisfy_request(Master, b, r)
  <2>1. m \in FromMasterMsg /\ m.type = "GIVEPAGE"
    BY GrantMessage
  <2>2. q \in Request
    BY <1>3, HeadTailProperties DEF TypeInv, TypeOK
  <2>3. q.from \in Nodes
    BY <2>2 DEF Request
  <2> HIDE DEF m
  <2> QED BY <1>3, <2>1, <2>3, InvalidationsSend DEF TypeInv, m
<1>4. CASE ServeReader(b)
  <2>1. /\ daemon = <<"loop", b>> /\ q.rights = "read" /\ requests[b] # <<>>
        /\ invalidate_sent' = invalidate_sent
        /\ SendFromMaster(q.from, satisfy_request(Master, b, "read"))
        /\ requests' = [requests EXCEPT ![b] = Tail(@)]
        /\ readers' = [readers EXCEPT ![b] = Append(@, q.from)]
        /\ \A p \in Pages : daemon' # <<"giveup", p>>
    BY <1>4 DEF ServeReader, AtRequest, Select, TypeInv, LoopHasRequest
  <2>2. ~invalidate_sent[b]
    BY <2>1 DEF AcksInv, WriterFirst
  <2>3. ASSUME NEW n \in Nodes, NEW p \in Pages PROVE Agree(n, p)'
    <3>1. Invalidations(n, p)' = Invalidations(n, p)
      BY <1>3, <2>1 DEF Access
    <3>2. p # b => Listed(n, p)' = Listed(n, p)
      BY <2>1 DEF Listed, TypeInv, TypeOK
    <3> QED BY <1>2, <2>1, <2>2, <3>1, <3>2 DEF Agree, Pending
  <2>4. ASSUME NEW p \in Pages, invalidate_sent'[p] PROVE WriterFirst(p)'
    <3>1. p # b /\ WriterFirst(p)
      BY <2>1, <2>2, <2>4 DEF AcksInv
    <3> QED BY <2>1, <3>1 DEF WriterFirst, TypeInv, TypeOK
  <2> QED BY <1>1, <2>3, <2>4 DEF AcksInv
<1>5. CASE InvalidateReaders(b)
  <2>1. /\ daemon = <<"loop", b>> /\ q.rights = "readwrite" /\ requests[b] # <<>>
        /\ ~invalidate_sent[b] /\ invalidate_sent' = [invalidate_sent EXCEPT ![b] = TRUE]
        /\ invalidate_readers(b) /\ requests' = requests /\ readers' = readers
        /\ \A p \in Pages : daemon' # <<"giveup", p>>
    BY <1>5 DEF InvalidateReaders, AtRequest, AfterWait, Select, TypeInv, LoopHasRequest
  <2>2. \A p \in Pages : invalidate_sent'[p] = IF p = b THEN TRUE ELSE invalidate_sent[p]
    BY <2>1 DEF TypeInv, TypeOK
  <2>3. ASSUME NEW n \in Nodes, NEW p \in Pages PROVE Agree(n, p)'
    <3>1. Invalidations(n, p)' = Invalidations(n, p) + IF p = b THEN Listed(n, b) ELSE 0
      BY <2>1, InvalidationsSent DEF TypeInv
    <3>2. Listed(n, p)' = Listed(n, p)
      BY <2>1, CountsSame
    <3>3. CASE p = b
      <4>1. Pending(n, p) = 0
        BY <1>2, <2>1, <3>3 DEF Agree
      <4>2. Invalidations(n, p) = 0 /\ Due(n, p) = 0 /\ Acks(n, p) = 0
        BY <1>2, <4>1 DEF Pending
      <4>3. Pending(n, p)' = Listed(n, p)
        BY <1>2, <3>1, <3>3, <4>2 DEF Pending
      <4> QED BY <2>2, <3>2, <3>3, <4>3 DEF Agree
    <3>4. CASE p # b
      <4>1. Invalidations(n, p)' = Invalidations(n, p)
        BY <1>2, <3>1, <3>4
      <4>2. Agree(n, p) /\ Pending(n, p)' = Pending(n, p)
        BY <1>2, <4>1 DEF Pending
      <4> QED BY <2>2, <3>2, <3>4, <4>2 DEF Agree
    <3> QED BY <3>3, <3>4
  <2>4. ASSUME NEW p \in Pages, invalidate_sent'[p] PROVE WriterFirst(p)'
    BY <2>1, <2>2, <2>4 DEF AcksInv, WriterFirst
  <2> QED BY <1>1, <2>3, <2>4 DEF AcksInv
<1>6. CASE GrantWriter(b)
  <2>1. /\ readers[b] = <<>> /\ requests[b] # <<>> /\ daemon = <<"loop", b>>
        /\ invalidate_sent' = [invalidate_sent EXCEPT ![b] = FALSE]
        /\ SendFromMaster(q.from, satisfy_request(Master, b, "readwrite"))
        /\ requests' = requests /\ readers' = readers /\ daemon' = <<"giveup", b>>
    BY <1>6 DEF GrantWriter, AtRequest, NoReaders, TypeInv, LoopHasRequest
  <2>2. \A p \in Pages : invalidate_sent'[p] = IF p = b THEN FALSE ELSE invalidate_sent[p]
    BY <2>1 DEF TypeInv, TypeOK
  <2>3. ASSUME NEW n \in Nodes, NEW p \in Pages PROVE Agree(n, p)'
    <3>1. Invalidations(n, p)' = Invalidations(n, p)
      BY <1>3, <2>1 DEF Access
    <3>2. Listed(n, p)' = Listed(n, p) /\ Listed(n, b) = 0
      BY <2>1, CountsSame, CountEmpty DEF Listed
    <3> QED BY <1>2, <2>2, <3>1, <3>2 DEF Agree, Pending
  <2>4. ASSUME NEW p \in Pages, invalidate_sent'[p] PROVE WriterFirst(p)'
    BY <2>1, <2>2, <2>4 DEF AcksInv, WriterFirst
  <2> QED BY <1>1, <2>3, <2>4 DEF AcksInv
<1>7. CASE GrantWriterGiveup(b)
  <2>1. /\ daemon = <<"giveup", b>> /\ daemon' = Select /\ fromMaster' = fromMaster
        /\ requests' = [requests EXCEPT ![b] = Tail(@)] /\ readers' = readers
        /\ invalidate_sent' = invalidate_sent
    BY <1>7 DEF GrantWriterGiveup
  <2>2. ~invalidate_sent[b]
    BY <2>1 DEF AcksInv, WriterFirst
  <2>3. ASSUME NEW n \in Nodes, NEW p \in Pages PROVE Agree(n, p)'
    BY <1>2, <2>1, CountsSame DEF Agree, Pending
  <2>4. ASSUME NEW p \in Pages, invalidate_sent'[p] PROVE WriterFirst(p)'
    BY <2>1, <2>2, <2>4 DEF AcksInv, WriterFirst, TypeInv, TypeOK, Select
  <2> QED BY <1>1, <2>3, <2>4 DEF AcksInv
<1>8. CASE ProcessCheck(b) \/ AwaitReaders(b) \/ daemon_fault(b)
  <2>1. /\ fromMaster' = fromMaster /\ requests' = requests /\ readers' = readers
        /\ invalidate_sent' = invalidate_sent /\ \A p \in Pages : daemon' # <<"giveup", p>>
    BY <1>8 DEF ProcessCheck, AwaitReaders, daemon_fault, AtRequest, AfterWait, Select
  <2>2. ASSUME NEW n \in Nodes, NEW p \in Pages PROVE Agree(n, p)'
    BY <1>2, <2>1, CountsSame DEF Agree, Pending
  <2> QED BY <1>1, <2>1, <2>2 DEF AcksInv, WriterFirst
<1> QED BY <1>4, <1>5, <1>6, <1>7, <1>8 DEF process_list_requests

\* The invalidation of every page agrees with the list of its readers, whatever
\* lock calls are made.
THEOREM InvalidationsCorrect == Spec => []AcksInv
<1>1. Init => AcksInv
  <2> SUFFICES ASSUME Init PROVE AcksInv
    OBVIOUS
  <2>1. ASSUME NEW n \in Nodes, NEW p \in Pages PROVE Agree(n, p)
    BY CountEmpty DEF Init, Agree, Pending, Invalidations, Due, Acks
  <2> QED BY <2>1 DEF Init, AcksInv
<1>2. TypeInv /\ AcksInv /\ [Next]_vars => AcksInv'
  <2> SUFFICES ASSUME TypeInv, AcksInv, [Next]_vars PROVE AcksInv'
    OBVIOUS
  <2>1. CASE \E a \in Nodes, b \in Pages : App(a, b)
    BY <2>1, AcksApp
  <2>2. CASE \E a \in Nodes : ClientHandler(a) \/ ServerHandler(a)
    BY <2>2, AcksClient, AcksServer
  <2>3. CASE \E b \in Pages : process_list_requests(b)
    BY <2>3, AcksProcess
  <2>4. CASE \/ BlockOnMutex
             \/ \E a \in Slaves : SlaveLost(a) \/ MasterLost(a)
             \/ UNCHANGED vars
    <3>1. /\ toMaster' = toMaster /\ fromMaster' = fromMaster /\ ack_due' = ack_due
          /\ readers' = readers /\ requests' = requests
          /\ invalidate_sent' = invalidate_sent
          /\ \A p \in Pages : daemon # <<"giveup", p>> => daemon' # <<"giveup", p>>
      BY <2>4 DEF BlockOnMutex, SlaveLost, MasterLost, vars, directoryVars
    <3>2. ASSUME NEW n \in Nodes, NEW p \in Pages PROVE Agree(n, p)'
      BY <3>1, CountsSame DEF AcksInv, Agree, Pending
    <3> QED BY <3>1, <3>2 DEF AcksInv, WriterFirst
  <2> QED BY <2>1, <2>2, <2>3, <2>4 DEF Next
<1> QED BY <1>1, <1>2, TypeCorrect, PTL DEF Spec

\* Readers leave current_readers_queue only while they are being invalidated,
\* and none joins it then: list_remove leaves a stale tail pointer that nothing
\* is added behind.
THEOREM ReadersDrain == Spec => ReadersDrainFirst
<1>1. ASSUME TypeInv, AcksInv, [Next]_vars, NEW p \in Pages
      PROVE  /\ Len(readers'[p]) < Len(readers[p]) => invalidate_sent[p]
             /\ Len(readers'[p]) > Len(readers[p]) => ~invalidate_sent[p]
  <2> USE DEF directoryVars
  <2>1. readers[p] \in Seq(Nodes) /\ Len(readers[p]) \in Nat
    BY <1>1 DEF TypeInv, TypeOK
  <2>2. CASE readers'[p] = readers[p]
    BY <2>1, <2>2
  <2>3. ASSUME NEW a \in Nodes, handle_invalidate_ack_msg(a), readers'[p] # readers[p]
        PROVE  invalidate_sent[p] /\ ~ (Len(readers'[p]) > Len(readers[p]))
    <3>1. ReceivedPage(a) = p /\ readers'[p] = RemoveFirst(readers[p], a)
      BY <1>1, <2>3 DEF handle_invalidate_ack_msg, ReceivedPage, TypeInv, TypeOK
    <3>2. invalidate_sent[p]
      BY <1>1, <2>3, <3>1, AckTakesReader
    <3>3. Len(RemoveFirst(readers[p], a)) =< Len(readers[p])
      BY <2>1, RemoveFirstLen
    <3>4. Len(RemoveFirst(readers[p], a)) \in Nat
      BY <2>1, RemoveFirstType, LenProperties
    <3> QED BY <2>1, <3>1, <3>2, <3>3, <3>4
  <2>4. ASSUME NEW b \in Pages, ServeReader(b), readers'[p] # readers[p]
        PROVE  ~invalidate_sent[p] /\ ~ (Len(readers'[p]) < Len(readers[p]))
    <3>1. /\ b = p /\ Head(requests[p]).rights = "read" /\ requests[p] # <<>>
          /\ readers'[p] = Append(readers[p], Head(requests[p]).from)
      BY <1>1, <2>4 DEF ServeReader, AtRequest, TypeInv, TypeOK, LoopHasRequest
    <3>2. Head(requests[p]) \in Request
      BY <1>1, <3>1, HeadTailProperties DEF TypeInv, TypeOK
    <3>3. Head(requests[p]).from \in Nodes
      BY <3>2 DEF Request
    <3>4. Len(readers'[p]) = Len(readers[p]) + 1
      BY <2>1, <3>1, <3>3, AppendProperties
    <3> QED BY <1>1, <2>1, <3>1, <3>4 DEF AcksInv, WriterFirst
  <2>5. \/ readers'[p] = readers[p]
        \/ \E a \in Nodes : handle_invalidate_ack_msg(a)
        \/ \E b \in Pages : ServeReader(b)
    <3>1. ASSUME NEW a \in Nodes, NEW b \in Pages, App(a, b) PROVE readers' = readers
      BY <3>1 DEF App, lock_page_hit, lock_page_miss, lock_page_wake, Store, app_fault,
           unlock_read, unlock_write_send, unlock_write_giveup
    <3>2. ASSUME NEW a \in Nodes, ClientHandler(a) PROVE readers' = readers
      BY <3>2 DEF ClientHandler, handle_givepage_client, handle_invalidate_msg,
           send_invalidate_ack
    <3>3. ASSUME NEW a \in Nodes, ServerHandler(a)
          PROVE  readers' = readers \/ handle_invalidate_ack_msg(a)
      BY <3>3 DEF ServerHandler, handle_lockpage_msg, handle_givepage_server
    <3>4. ASSUME NEW b \in Pages, process_list_requests(b)
          PROVE  readers' = readers \/ ServeReader(b)
      BY <3>4 DEF process_list_requests, ProcessCheck, InvalidateReaders, AwaitReaders,
           GrantWriter, GrantWriterGiveup, daemon_fault
    <3>5. BlockOnMutex \/ (\E a \in Slaves : SlaveLost(a) \/ MasterLost(a)) \/ UNCHANGED vars
             => readers' = readers
      BY DEF BlockOnMutex, SlaveLost, MasterLost, vars
    <3> QED BY <1>1, <3>1, <3>2, <3>3, <3>4, <3>5 DEF Next
  <2> QED BY <2>2, <2>3, <2>4, <2>5
<1>2. TypeInv /\ AcksInv /\ [Next]_vars =>
          [\A p \in Pages :
             /\ Len(readers'[p]) < Len(readers[p]) => invalidate_sent[p]
             /\ Len(readers'[p]) > Len(readers[p]) => ~invalidate_sent[p]]_vars
  BY <1>1
<1> QED BY <1>2, TypeCorrect, InvalidationsCorrect, PTL DEF Spec, ReadersDrainFirst
-----------------------------------------------------------------------------
(* Every read-only copy of a page is either listed or being invalidated.   *)
(* A copy is in the memory of a slave, in a GIVEPAGE on its way to it, or  *)
(* in a GIVEPAGE that unlock_write has sent back.                          *)

\* A copy of p that n has, or will receive with the i-th message on its way: its
\* entry is in the list until invalidate_readers has sent an INVALIDATE, which
\* follows the copy.
Covered(n, p, i) ==
    IF invalidate_sent[p] THEN After(fromMaster[n], Invalidate(p), i)
                          ELSE Listed(n, p) # 0

\* The slave has not answered an INVALIDATE of p yet.
Answering(n, p) == After(fromMaster[n], Invalidate(p), 0) \/ p \in ack_due[n]

\* A copy of p in the i-th message from n: it reaches the master before the
\* INVALIDATE_ACK.
ReturnCovered(n, p, i) ==
    IF invalidate_sent[p]
    THEN Answering(n, p) \/ After(toMaster[n], InvalidateAck(p), i)
    ELSE Listed(n, p) # 0

OwnCopy(n, p) ==
    protection[n][p] = "read" /\ lock[n][p] # "release" => Covered(n, p, 0)
SentCopies(n, p) ==
    \A i \in DOMAIN fromMaster[n] :
        IsGivepage(fromMaster[n][i], p, "read") => Covered(n, p, i)
ReturnedCopies(n, p) ==
    \A i \in DOMAIN toMaster[n] :
        IsGivepage(toMaster[n][i], p, "read") => ReturnCovered(n, p, i)

Copies(n, p) == OwnCopy(n, p) /\ SentCopies(n, p) /\ ReturnedCopies(n, p)

CopiesInv == \A n \in Slaves, p \in Pages : Copies(n, p)

\* A copy that is listed or being invalidated is listed: the answers to the
\* invalidations are what takes entries from the list.
LEMMA CoveredIsListed ==
    ASSUME TypeInv, AcksInv, NEW n \in Nodes, NEW p \in Pages, NEW i,
           Covered(n, p, i) \/ ReturnCovered(n, p, i)
    PROVE  Listed(n, p) # 0
<1>1. CASE ~invalidate_sent[p]
  BY <1>1 DEF Covered, ReturnCovered
<1>2. CASE invalidate_sent[p]
  <2>1. toMaster[n] \in Seq(ToMasterMsg) /\ fromMaster[n] \in Seq(FromMasterMsg)
    BY DEF TypeInv, TypeOK
  <2>2. \A j : After(fromMaster[n], Invalidate(p), j) => Invalidations(n, p) # 0
    BY <2>1, AfterCounts DEF Invalidations
  <2>3. \A j : After(toMaster[n], InvalidateAck(p), j) => Acks(n, p) # 0
    BY <2>1, AfterCounts DEF Acks
  <2>4. Invalidations(n, p) # 0 \/ Due(n, p) # 0 \/ Acks(n, p) # 0
    BY <1>2, <2>2, <2>3 DEF Covered, ReturnCovered, Answering, Due
  <2>5. Agree(n, p)
    BY DEF AcksInv
  <2> QED BY <1>2, <2>4, <2>5, CountsNat DEF TypeInv, Agree, Pending
<1> QED BY <1>1, <1>2

\* A step that starts and ends no invalidation of p, and takes n from the list
\* only during one.
RoundKept(n, p) ==
    /\ invalidate_sent'[p] = invalidate_sent[p]
    /\ invalidate_sent[p] \/ Listed(n, p) = 0 \/ Listed(n, p)' # 0

\* What is on its way to n stays covered when n receives a message, and when it
\* is sent one that is no copy of p.
LEMMA SentKept ==
    ASSUME TypeInv, NEW n \in Nodes, NEW p \in Pages, RoundKept(n, p), SentCopies(n, p),
           \/ fromMaster'[n] = fromMaster[n]
           \/ fromMaster[n] # <<>> /\ fromMaster'[n] = Tail(fromMaster[n])
           \/ \E m \in FromMasterMsg :
                 /\ fromMaster'[n] = Append(fromMaster[n], m)
                 /\ ~IsGivepage(m, p, "read")
           \/ \E t \in Seq(FromMasterMsg) :
                 /\ fromMaster'[n] = fromMaster[n] \o t
                 /\ \A i \in DOMAIN t : t[i].type # "GIVEPAGE"
    PROVE  SentCopies(n, p)'
<1>1. fromMaster[n] \in Seq(FromMasterMsg)
  BY DEF TypeInv, TypeOK
<1>2. ASSUME NEW i \in DOMAIN fromMaster'[n], NEW k,
             Covered(n, p, k),
             After(fromMaster[n], Invalidate(p), k) =>
                After(fromMaster'[n], Invalidate(p), i)
      PROVE  Covered(n, p, i)'
  BY <1>2 DEF RoundKept, Covered
<1>3. CASE fromMaster'[n] = fromMaster[n]
  BY <1>2, <1>3 DEF SentCopies
<1>4. CASE fromMaster[n] # <<>> /\ fromMaster'[n] = Tail(fromMaster[n])
  <2> SUFFICES ASSUME NEW i \in DOMAIN fromMaster'[n],
                      IsGivepage(fromMaster'[n][i], p, "read")
               PROVE  Covered(n, p, i)'
    BY DEF SentCopies
  <2>1. i + 1 \in DOMAIN fromMaster[n] /\ fromMaster'[n][i] = fromMaster[n][i + 1]
    BY <1>1, <1>4, TailAt
  <2>2. i \in Nat
    BY <1>1, <1>4, HeadTailProperties, LenProperties
  <2>3. Covered(n, p, i + 1)
    BY <2>1 DEF SentCopies
  <2>4. After(fromMaster[n], Invalidate(p), i + 1) =>
           After(fromMaster'[n], Invalidate(p), i)
    BY <1>1, <1>4, <2>2, AfterTail
  <2> QED BY <1>2, <2>3, <2>4
<1>5. ASSUME NEW m \in FromMasterMsg, fromMaster'[n] = Append(fromMaster[n], m),
             ~IsGivepage(m, p, "read")
      PROVE  SentCopies(n, p)'
  <2> SUFFICES ASSUME NEW i \in DOMAIN fromMaster'[n],
                      IsGivepage(fromMaster'[n][i], p, "read")
               PROVE  Covered(n, p, i)'
    BY DEF SentCopies
  <2>1. i \in DOMAIN fromMaster[n] /\ fromMaster'[n][i] = fromMaster[n][i]
    BY <1>1, <1>5, AppendAt
  <2>2. Covered(n, p, i)
    BY <2>1 DEF SentCopies
  <2>3. After(fromMaster[n], Invalidate(p), i) => After(fromMaster'[n], Invalidate(p), i)
    BY <1>1, <1>5, AfterAppend
  <2> QED BY <1>2, <2>2, <2>3
<1>6. ASSUME NEW t \in Seq(FromMasterMsg), fromMaster'[n] = fromMaster[n] \o t,
             \A i \in DOMAIN t : t[i].type # "GIVEPAGE"
      PROVE  SentCopies(n, p)'
  <2> SUFFICES ASSUME NEW i \in DOMAIN fromMaster'[n],
                      IsGivepage(fromMaster'[n][i], p, "read")
               PROVE  Covered(n, p, i)'
    BY DEF SentCopies
  <2>1. \/ i \in DOMAIN fromMaster[n] /\ fromMaster'[n][i] = fromMaster[n][i]
        \/ i - Len(fromMaster[n]) \in DOMAIN t
           /\ fromMaster'[n][i] = t[i - Len(fromMaster[n])]
    BY <1>1, <1>6, ConcatProperties, LenProperties
  <2>2. i \in DOMAIN fromMaster[n] /\ fromMaster'[n][i] = fromMaster[n][i]
    BY <1>6, <2>1 DEF IsGivepage
  <2>3. Covered(n, p, i)
    BY <2>2 DEF SentCopies
  <2>4. After(fromMaster[n], Invalidate(p), i) => After(fromMaster'[n], Invalidate(p), i)
    BY <1>1, <1>6, AfterConcat
  <2> QED BY <1>2, <2>3, <2>4
<1> QED BY <1>3, <1>4, <1>5, <1>6

\* What n has sent back stays covered when the master receives a message, and
\* when n sends one that is no copy of p, unless n answers an INVALIDATE.
LEMMA ReturnedKept ==
    ASSUME TypeInv, NEW n \in Nodes, NEW p \in Pages, RoundKept(n, p),
           ReturnedCopies(n, p), Answering(n, p) => Answering(n, p)',
           \/ toMaster'[n] = toMaster[n]
           \/ toMaster[n] # <<>> /\ toMaster'[n] = Tail(toMaster[n])
           \/ \E m \in ToMasterMsg :
                 /\ toMaster'[n] = Append(toMaster[n], m)
                 /\ IsGivepage(m, p, "read") => ReturnCovered(n, p, Len(toMaster[n]) + 1)
    PROVE  ReturnedCopies(n, p)'
<1>1. toMaster[n] \in Seq(ToMasterMsg)
  BY DEF TypeInv, TypeOK
<1>2. ASSUME NEW i \in DOMAIN toMaster'[n], NEW k,
             ReturnCovered(n, p, k),
             After(toMaster[n], InvalidateAck(p), k) =>
                After(toMaster'[n], InvalidateAck(p), i)
      PROVE  ReturnCovered(n, p, i)'
  BY <1>2 DEF RoundKept, ReturnCovered
<1>3. CASE toMaster'[n] = toMaster[n]
  BY <1>2, <1>3 DEF ReturnedCopies
<1>4. CASE toMaster[n] # <<>> /\ toMaster'[n] = Tail(toMaster[n])
  <2> SUFFICES ASSUME NEW i \in DOMAIN toMaster'[n],
                      IsGivepage(toMaster'[n][i], p, "read")
               PROVE  ReturnCovered(n, p, i)'
    BY DEF ReturnedCopies
  <2>1. i + 1 \in DOMAIN toMaster[n] /\ toMaster'[n][i] = toMaster[n][i + 1]
    BY <1>1, <1>4, TailAt
  <2>2. i \in Nat
    BY <1>1, <1>4, HeadTailProperties, LenProperties
  <2>3. ReturnCovered(n, p, i + 1)
    BY <2>1 DEF ReturnedCopies
  <2>4. After(toMaster[n], InvalidateAck(p), i + 1) =>
           After(toMaster'[n], InvalidateAck(p), i)
    BY <1>1, <1>4, <2>2, AfterTail
  <2> QED BY <1>2, <2>3, <2>4
<1>5. ASSUME NEW m \in ToMasterMsg, toMaster'[n] = Append(toMaster[n], m),
             IsGivepage(m, p, "read") => ReturnCovered(n, p, Len(toMaster[n]) + 1)
      PROVE  ReturnedCopies(n, p)'
  <2> SUFFICES ASSUME NEW i \in DOMAIN toMaster'[n],
                      IsGivepage(toMaster'[n][i], p, "read")
               PROVE  ReturnCovered(n, p, i)'
    BY DEF ReturnedCopies
  <2>1. \/ i \in DOMAIN toMaster[n] /\ toMaster'[n][i] = toMaster[n][i]
        \/ i = Len(toMaster[n]) + 1 /\ toMaster'[n][i] = m
    BY <1>1, <1>5, AppendAt
  <2>2. ReturnCovered(n, p, i)
    BY <1>5, <2>1 DEF ReturnedCopies
  <2>3. After(toMaster[n], InvalidateAck(p), i) => After(toMaster'[n], InvalidateAck(p), i)
    BY <1>1, <1>5, AfterAppend
  <2> QED BY <1>2, <2>2, <2>3
<1> QED BY <1>3, <1>4, <1>5
\* A step that changes neither the streams of n, its memory nor the list.
LEMMA SameCopies ==
    ASSUME TypeInv, NEW n \in Nodes, NEW p \in Pages, Copies(n, p), RoundKept(n, p),
           \/ protection'[n][p] = protection[n][p]
              /\ (lock'[n][p] # "release" => lock[n][p] # "release")
           \/ protection'[n][p] # "read",
           toMaster'[n] = toMaster[n], fromMaster'[n] = fromMaster[n],
           ack_due'[n] = ack_due[n]
    PROVE  Copies(n, p)'
<1>1. Answering(n, p)' <=> Answering(n, p)
  BY DEF Answering
<1>2. Covered(n, p, 0) => Covered(n, p, 0)'
  BY DEF Covered, RoundKept
<1>3. OwnCopy(n, p)'
  BY <1>2 DEF OwnCopy, Copies
<1>4. SentCopies(n, p)'
  BY SentKept DEF Copies
<1>5. ReturnedCopies(n, p)'
  BY <1>1, ReturnedKept DEF Copies
<1> QED BY <1>3, <1>4, <1>5 DEF Copies

\* The lock and unlock calls: unlock_write turns a copy of the slave into one
\* that is sent back.
LEMMA CopiesApp ==
    ASSUME TypeInv, CopiesInv, NEW a \in Nodes, NEW b \in Pages, App(a, b)
    PROVE  CopiesInv'
<1> USE DEF directoryVars, localVars
<1> SUFFICES ASSUME NEW n \in Slaves, NEW p \in Pages PROVE Copies(n, p)'
  BY DEF CopiesInv
<1>1. n \in Nodes /\ Copies(n, p)
  BY DEF CopiesInv, Nodes
<1>2. /\ fromMaster' = fromMaster /\ ack_due' = ack_due /\ readers' = readers
      /\ invalidate_sent' = invalidate_sent
  BY DEF App, lock_page_hit, lock_page_miss, lock_page_wake, Store, app_fault,
         unlock_read, unlock_write_send, unlock_write_giveup
<1>3. /\ RoundKept(n, p) /\ (Answering(n, p) => Answering(n, p)')
      /\ SentCopies(n, p)' /\ (Covered(n, p, 0) => Covered(n, p, 0)')
  <2>1. RoundKept(n, p)
    BY <1>1, <1>2, CountsSame DEF RoundKept
  <2> QED BY <1>1, <1>2, <2>1, SentKept DEF Answering, Copies, RoundKept, Covered
<1>4. ASSUME NEW r \in Access, lock_page_miss(a, b, r)
      PROVE  Copies(n, p)'
  <2>1. Lockpage(b, r) \in ToMasterMsg /\ ~IsGivepage(Lockpage(b, r), p, "read")
    BY DEF Lockpage, ToMasterMsg, IsGivepage
  <2>2. toMaster'[n] = toMaster[n] \/ toMaster'[n] = Append(toMaster[n], Lockpage(b, r))
    BY <1>1, <1>4 DEF lock_page_miss, SendToMaster, TypeInv, TypeOK
  <2>3. ReturnedCopies(n, p)'
    BY <1>1, <1>3, <2>1, <2>2, ReturnedKept DEF Copies
  <2>4. OwnCopy(n, p)'
    BY <1>1, <1>3, <1>4 DEF lock_page_miss, OwnCopy, Copies, TypeInv, TypeOK
  <2> QED BY <1>3, <2>3, <2>4 DEF Copies
<1>5. CASE unlock_write_send(a, b)
  <2> DEFINE m == satisfy_request(a, b, protection[a][b])
  <2>1. /\ m \in ToMasterMsg /\ m.page = b /\ m.rights = protection[a][b]
        /\ lock[a][b] = "write"
    BY <1>5, PageMessage DEF unlock_write_send, TypeInv
  <2> HIDE DEF m
  <2>2. toMaster'[n] = IF a = n THEN Append(toMaster[n], m) ELSE toMaster[n]
    BY <1>1, <1>5 DEF unlock_write_send, SendToMaster, TypeInv, TypeOK, m
  <2>3. a = n /\ IsGivepage(m, p, "read") => ReturnCovered(n, p, Len(toMaster[n]) + 1)
    BY <1>1, <2>1 DEF IsGivepage, Copies, OwnCopy, Covered, ReturnCovered, Answering
  <2>4. ReturnedCopies(n, p)'
    BY <1>1, <1>3, <2>1, <2>2, <2>3, ReturnedKept DEF Copies
  <2>5. OwnCopy(n, p)'
    BY <1>1, <1>3, <1>5 DEF unlock_write_send, OwnCopy, Copies, TypeInv, TypeOK
  <2> QED BY <1>3, <2>4, <2>5 DEF Copies
<1>6. ASSUME toMaster' = toMaster,
             \/ protection'[n][p] = protection[n][p]
                /\ (lock'[n][p] # "release" => lock[n][p] # "release")
             \/ protection'[n][p] # "read"
      PROVE  Copies(n, p)'
  BY <1>1, <1>2, <1>3, <1>6, SameCopies
<1>7. ASSUME NEW r \in Access, lock_page_hit(a, b, r) \/ lock_page_wake(a, b, r)
      PROVE  Copies(n, p)'
  <2>1. toMaster' = toMaster /\ protection' = protection
    BY <1>7 DEF lock_page_hit, lock_page_wake
  <2>2. lock'[n][p] = lock[n][p] \/ lock[n][p] # "release"
    <3>1. /\ lock[a][b] # "release" /\ lock \in [Nodes -> [Pages -> LockState]]
          /\ lock' = [lock EXCEPT ![a][b] = Holding(r)]
      BY <1>7 DEF lock_page_hit, lock_page_wake, Asking, TypeInv, TypeOK
    <3> QED BY <1>1, <3>1
  <2> QED BY <1>6, <2>1, <2>2
<1>8. CASE Store(a, b) \/ app_fault(a, b)
  BY <1>6, <1>8 DEF Store, app_fault
<1>9. CASE unlock_read(a, b)
  BY <1>1, <1>6, <1>9 DEF unlock_read, TypeInv, TypeOK
<1>10. CASE unlock_write_giveup(a, b)
  BY <1>1, <1>6, <1>10 DEF unlock_write_giveup, giveup_localpage, TypeInv, TypeOK
<1> QED BY <1>4, <1>5, <1>7, <1>8, <1>9, <1>10 DEF App

\* The handlers of the client socket: a GIVEPAGE on its way becomes the copy of
\* the slave, an INVALIDATE ends it and leaves its answer.
LEMMA CopiesClient ==
    ASSUME TypeInv, AcksInv, CopiesInv, NEW a \in Nodes, ClientHandler(a)
    PROVE  CopiesInv'
<1> USE DEF directoryVars, localVars
<1> SUFFICES ASSUME NEW n \in Slaves, NEW p \in Pages PROVE Copies(n, p)'
  BY DEF CopiesInv
<1>1. n \in Nodes /\ n # Master /\ Copies(n, p) /\ fromMaster[n] \in Seq(FromMasterMsg)
      /\ toMaster[n] \in Seq(ToMasterMsg)
  BY MasterAssumption DEF CopiesInv, Nodes, TypeInv, TypeOK
<1>2. readers' = readers /\ invalidate_sent' = invalidate_sent /\ lock' = lock
  BY DEF ClientHandler, handle_givepage_client, handle_invalidate_msg,
         send_invalidate_ack
<1>3. RoundKept(n, p)
  BY <1>1, <1>2, CountsSame DEF RoundKept
<1>4. CASE a # n
  <2>1. /\ toMaster'[n] = toMaster[n] /\ fromMaster'[n] = fromMaster[n]
        /\ ack_due'[n] = ack_due[n] /\ protection'[n] = protection[n]
    BY <1>1, <1>4 DEF ClientHandler, handle_givepage_client, handle_invalidate_msg,
          send_invalidate_ack, StorePage, SendToMaster, TypeInv, TypeOK
  <2> QED BY <1>1, <1>2, <1>3, <2>1, SameCopies
<1> DEFINE m == Head(fromMaster[n])
<1>5. ASSUME fromMaster[n] # <<>>, fromMaster'[n] = Tail(fromMaster[n])
      PROVE  /\ SentCopies(n, p)'
             /\ m # Invalidate(p) /\ Covered(n, p, 0) => Covered(n, p, 0)'
             /\ Covered(n, p, 1) => Covered(n, p, 0)'
             /\ m # Invalidate(p) /\ After(fromMaster[n], Invalidate(p), 0) =>
                   After(fromMaster'[n], Invalidate(p), 0)
             /\ m \in FromMasterMsg /\ m = fromMaster[n][1] /\ 1 \in DOMAIN fromMaster[n]
  <2>1. SentCopies(n, p)'
    BY <1>1, <1>3, <1>5, SentKept DEF Copies
  <2>2. /\ After(fromMaster[n], Invalidate(p), 0 + 1) => After(fromMaster'[n], Invalidate(p), 0)
        /\ m # Invalidate(p) /\ After(fromMaster[n], Invalidate(p), 0) =>
              After(fromMaster'[n], Invalidate(p), 0)
    BY <1>1, <1>5, AfterTail
  <2>3. m \in FromMasterMsg /\ m = fromMaster[n][1] /\ 1 \in DOMAIN fromMaster[n]
    BY <1>1, <1>5, HeadTailProperties, LenProperties
  <2> QED BY <1>3, <2>1, <2>2, <2>3 DEF Covered, RoundKept
<1>6. CASE a = n /\ handle_givepage_client(n)
  <2>1. /\ fromMaster[n] # <<>> /\ fromMaster'[n] = Tail(fromMaster[n])
        /\ m.type = "GIVEPAGE" /\ toMaster' = toMaster /\ ack_due' = ack_due
        /\ protection' = [protection EXCEPT ![n][m.page] = m.rights]
    BY <1>1, <1>6 DEF handle_givepage_client, ClientReady, StorePage, TypeInv, TypeOK
  <2>2. m # Invalidate(p) /\ m.page \in Pages
    BY <1>5, <2>1, FromMasterFields DEF Invalidate
  <2>3. Answering(n, p) => Answering(n, p)'
    BY <1>5, <2>1, <2>2 DEF Answering
  <2>4. ReturnedCopies(n, p)'
    BY <1>1, <1>3, <2>1, <2>3, ReturnedKept DEF Copies
  <2>5. OwnCopy(n, p)'
    <3>1. CASE m.page # p
      <4>1. protection'[n][p] = protection[n][p]
        BY <1>1, <2>1, <2>2, <3>1 DEF TypeInv, TypeOK
      <4> QED BY <1>1, <1>2, <1>5, <2>1, <2>2, <4>1 DEF Copies, OwnCopy
    <3>2. CASE m.page = p
      <4>1. protection'[n][p] = m.rights
        BY <1>1, <2>1, <2>2, <3>2 DEF TypeInv, TypeOK
      <4>2. m.rights = "read" => Covered(n, p, 1)
        BY <1>1, <1>5, <2>1, <3>2 DEF Copies, SentCopies, IsGivepage
      <4> QED BY <1>5, <2>1, <4>1, <4>2 DEF OwnCopy
    <3> QED BY <3>1, <3>2
  <2> QED BY <1>5, <2>1, <2>4, <2>5 DEF Copies
<1>7. CASE a = n /\ handle_invalidate_msg(n)
  <2>1. /\ fromMaster[n] # <<>> /\ fromMaster'[n] = Tail(fromMaster[n])
        /\ m.type = "INVALIDATE" /\ toMaster' = toMaster
        /\ ack_due[n] = {} /\ ack_due'[n] = {m.page}
        /\ protection' = [protection EXCEPT ![n][m.page] = "none"]
    BY <1>1, <1>7 DEF handle_invalidate_msg, ClientReady, TypeInv, TypeOK
  <2>2. m.page \in Pages /\ (m = Invalidate(p) => m.page = p)
    BY <1>5, <2>1, FromMasterFields DEF Invalidate
  <2>3. Answering(n, p) => Answering(n, p)'
    BY <1>5, <2>1, <2>2 DEF Answering
  <2>4. ReturnedCopies(n, p)'
    BY <1>1, <1>3, <2>1, <2>3, ReturnedKept DEF Copies
  <2>5. OwnCopy(n, p)'
    <3>1. protection'[n][p] = IF m.page = p THEN "none" ELSE protection[n][p]
      BY <1>1, <2>1, <2>2 DEF TypeInv, TypeOK
    <3> QED BY <1>1, <1>2, <1>5, <2>1, <2>2, <3>1 DEF Copies, OwnCopy
  <2> QED BY <1>5, <2>1, <2>4, <2>5 DEF Copies
<1>8. CASE a = n /\ send_invalidate_ack(n)
  <2>1. PICK q \in ack_due[n] : SendToMaster(n, InvalidateAck(q))
    BY <1>8 DEF send_invalidate_ack
  <2>2. /\ fromMaster' = fromMaster /\ protection' = protection
        /\ toMaster'[n] = Append(toMaster[n], InvalidateAck(q))
    BY <1>1, <1>8, <2>1 DEF send_invalidate_ack, SendToMaster, TypeInv, TypeOK
  <2>3. /\ InvalidateAck(q) \in ToMasterMsg /\ InvalidateAck(q).type # "GIVEPAGE"
        /\ p \in ack_due[n] => p = q
    BY <1>1, <2>1 DEF InvalidateAck, ToMasterMsg, AcksInv, TypeInv, TypeOK
  <2>4. SentCopies(n, p)'
    BY <1>1, <1>3, <2>2, SentKept DEF Copies
  <2>5. OwnCopy(n, p)'
    BY <1>1, <1>2, <1>3, <2>2 DEF Copies, OwnCopy, Covered, RoundKept
  <2>6. ASSUME NEW i \in DOMAIN toMaster'[n], IsGivepage(toMaster'[n][i], p, "read")
        PROVE  ReturnCovered(n, p, i)'
    <3>1. i \in DOMAIN toMaster[n] /\ toMaster'[n][i] = toMaster[n][i]
      BY <1>1, <2>2, <2>3, <2>6, AppendAt DEF IsGivepage
    <3>2. ReturnCovered(n, p, i) /\ i \in 0..Len(toMaster[n])
      BY <1>1, <2>6, <3>1, LenProperties DEF Copies, ReturnedCopies
    <3>3. /\ After(toMaster[n], InvalidateAck(p), i) => After(toMaster'[n], InvalidateAck(p), i)
          /\ After(toMaster'[n], InvalidateAck(q), i)
      BY <1>1, <2>2, <2>3, <3>2, AfterAppend
    <3> QED BY <1>3, <2>2, <2>3, <3>2, <3>3 DEF ReturnCovered, RoundKept, Answering
  <2> QED BY <2>4, <2>5, <2>6 DEF Copies, ReturnedCopies
<1> QED BY <1>4, <1>6, <1>7, <1>8 DEF ClientHandler
\* The handlers of the accepted sockets: an INVALIDATE_ACK takes an entry from
\* the list only during an invalidation.
LEMMA CopiesServer ==
    ASSUME TypeInv, AcksInv, CopiesInv, NEW a \in Nodes, ServerHandler(a)
    PROVE  CopiesInv'
<1> USE DEF directoryVars, localVars
<1> SUFFICES ASSUME NEW n \in Slaves, NEW p \in Pages PROVE Copies(n, p)'
  BY DEF CopiesInv
<1>1. n \in Nodes /\ n # Master /\ Copies(n, p)
  BY MasterAssumption DEF CopiesInv, Nodes
<1>2. /\ fromMaster' = fromMaster /\ ack_due' = ack_due /\ lock' = lock
      /\ invalidate_sent' = invalidate_sent
      /\ toMaster[a] # <<>> /\ toMaster' = [toMaster EXCEPT ![a] = Tail(@)]
  BY DEF ServerHandler, handle_lockpage_msg, handle_invalidate_ack_msg,
         handle_givepage_server, ServerReady
<1>3. protection'[n] = protection[n]
  BY <1>1 DEF ServerHandler, handle_lockpage_msg, handle_invalidate_ack_msg,
         handle_givepage_server, StorePage, TypeInv, TypeOK
<1>4. RoundKept(n, p)
  <2>1. CASE handle_invalidate_ack_msg(a)
    <3>1. /\ ReceivedPage(a) = p => invalidate_sent[p]
          /\ Listed(n, p)' = Listed(n, p) - IF n = a /\ p = ReceivedPage(a) THEN 1 ELSE 0
          /\ Listed(n, p) \in Nat
      BY <1>1, <2>1, AckTakesReader, CountsNat DEF TypeInv
    <3> QED BY <1>2, <3>1 DEF RoundKept
  <2>2. CASE handle_lockpage_msg(a) \/ handle_givepage_server(a)
    <3>1. readers' = readers
      BY <2>2 DEF handle_lockpage_msg, handle_givepage_server
    <3> QED BY <1>1, <1>2, <3>1, CountsSame DEF RoundKept
  <2> QED BY <2>1, <2>2 DEF ServerHandler
<1>5. \/ toMaster'[n] = toMaster[n]
      \/ toMaster[n] # <<>> /\ toMaster'[n] = Tail(toMaster[n])
  BY <1>1, <1>2 DEF TypeInv, TypeOK
<1>6. ReturnedCopies(n, p)'
  BY <1>1, <1>2, <1>4, <1>5, ReturnedKept DEF Copies, Answering
<1>7. SentCopies(n, p)'
  BY <1>1, <1>2, <1>4, SentKept DEF Copies
<1>8. OwnCopy(n, p)'
  BY <1>1, <1>2, <1>3, <1>4 DEF Copies, OwnCopy, Covered, RoundKept
<1> QED BY <1>6, <1>7, <1>8 DEF Copies

\* process_list_requests: a reader is listed with the copy it is sent, every copy
\* is followed by an INVALIDATE when the readers are invalidated, and there is
\* none left when a writer is granted the page.
LEMMA CopiesProcess ==
    ASSUME TypeInv, AcksInv, CopiesInv, NEW b \in Pages, process_list_requests(b)
    PROVE  CopiesInv'
<1> USE DEF directoryVars, localVars
<1> SUFFICES ASSUME NEW n \in Slaves, NEW p \in Pages PROVE Copies(n, p)'
  BY DEF CopiesInv
<1>1. /\ n \in Nodes /\ n # Master /\ Copies(n, p)
      /\ fromMaster[n] \in Seq(FromMasterMsg) /\ Len(fromMaster[n]) \in Nat
      /\ DOMAIN fromMaster[n] = 1..Len(fromMaster[n])
  BY MasterAssumption, LenProperties DEF CopiesInv, Nodes, TypeInv, TypeOK
<1>2. /\ toMaster' = toMaster /\ ack_due' = ack_due /\ lock' = lock
      /\ protection'[n] = protection[n]
  BY <1>1 DEF process_list_requests, ProcessCheck, ServeReader, InvalidateReaders,
         AwaitReaders, GrantWriter, GrantWriterGiveup, daemon_fault, giveup_localpage,
         TypeInv, TypeOK
<1> DEFINE q == Head(requests[b])
<1>3. requests[b] # <<>> => q.from \in Nodes
  <2>1. requests[b] # <<>> => q \in Request
    BY HeadTailProperties DEF TypeInv, TypeOK
  <2> QED BY <2>1 DEF Request
<1>4. ASSUME NEW r \in Access, SendFromMaster(q.from, satisfy_request(Master, b, r)),
             requests[b] # <<>>
      PROVE  \E m \in FromMasterMsg :
                /\ m.page = b /\ m.rights = r
                /\ fromMaster'[n] = IF q.from = n THEN Append(fromMaster[n], m)
                                                  ELSE fromMaster[n]
  <2> DEFINE m == satisfy_request(Master, b, r)
  <2>1. m \in FromMasterMsg /\ m.page = b /\ m.rights = r
    BY GrantMessage
  <2> HIDE DEF m
  <2>2. fromMaster'[n] = IF q.from = n THEN Append(fromMaster[n], m) ELSE fromMaster[n]
    BY <1>1, <1>3, <1>4 DEF SendFromMaster, TypeInv, TypeOK, m
  <2> QED BY <2>1, <2>2
<1>5. ASSUME RoundKept(n, p), SentCopies(n, p)',
             After(fromMaster[n], Invalidate(p), 0) =>
                After(fromMaster'[n], Invalidate(p), 0)
      PROVE  Copies(n, p)'
  <2>1. Answering(n, p) => Answering(n, p)'
    BY <1>2, <1>5 DEF Answering
  <2>2. ReturnedCopies(n, p)'
    BY <1>1, <1>2, <1>5, <2>1, ReturnedKept DEF Copies
  <2>3. OwnCopy(n, p)'
    BY <1>1, <1>2, <1>5 DEF Copies, OwnCopy, Covered, RoundKept
  <2> QED BY <1>5, <2>2, <2>3 DEF Copies
<1>6. CASE ServeReader(b)
  <2>1. /\ daemon = <<"loop", b>> /\ q.rights = "read" /\ requests[b] # <<>>
        /\ invalidate_sent' = invalidate_sent
        /\ SendFromMaster(q.from, satisfy_request(Master, b, "read"))
        /\ readers' = [readers EXCEPT ![b] = Append(@, q.from)]
    BY <1>6 DEF ServeReader, AtRequest, TypeInv, LoopHasRequest
  <2>2. ~invalidate_sent[b]
    BY <2>1 DEF AcksInv, WriterFirst
  <2>3. PICK m \in FromMasterMsg :
                /\ m.page = b /\ m.rights = "read"
                /\ fromMaster'[n] = IF q.from = n THEN Append(fromMaster[n], m)
                                                  ELSE fromMaster[n]
    BY <1>4, <2>1 DEF Access
  <2>4. /\ Listed(n, p)' = Listed(n, p) + IF p = b /\ q.from = n THEN 1 ELSE 0
        /\ Listed(n, p) \in Nat
    <3>1. readers[b] \in Seq(Nodes) /\ q.from \in Nodes /\ Listed(n, p) \in Nat
      BY <1>1, <1>3, <2>1, CountsNat DEF TypeInv, TypeOK
    <3>2. readers'[p] = IF p = b THEN Append(readers[b], q.from) ELSE readers[p]
      BY <2>1 DEF TypeInv, TypeOK
    <3>3. Count(Append(readers[b], q.from), {n}) =
              Count(readers[b], {n}) + IF q.from \in {n} THEN 1 ELSE 0
      BY <3>1, CountAppend
    <3> QED BY <3>1, <3>2, <3>3 DEF Listed
  <2>5. RoundKept(n, p)
    BY <2>1, <2>4 DEF RoundKept
  <2>6. SentCopies(n, p)'
    <3>1. CASE b = p /\ q.from = n
      BY <2>1, <2>2, <2>4, <3>1 DEF SentCopies, Covered
    <3>2. CASE b # p \/ q.from # n
      <4>1. b # p => ~IsGivepage(m, p, "read")
        BY <2>3 DEF IsGivepage
      <4> QED BY <1>1, <2>3, <2>5, <3>2, <4>1, SentKept DEF Copies
    <3> QED BY <3>1, <3>2
  <2>7. After(fromMaster[n], Invalidate(p), 0) => After(fromMaster'[n], Invalidate(p), 0)
    BY <1>1, <2>3, AfterAppend
  <2> QED BY <1>5, <2>5, <2>6, <2>7
<1>7. CASE InvalidateReaders(b)
  <2> DEFINE k == Listed(n, b)
             t == [i \in 1..k |-> Invalidate(b)]
  <2>1. /\ ~invalidate_sent[b] /\ invalidate_sent' = [invalidate_sent EXCEPT ![b] = TRUE]
        /\ fromMaster'[n] = fromMaster[n] \o t /\ readers' = readers
    BY <1>1, <1>7, CountEqual DEF InvalidateReaders, invalidate_readers, Listed
  <2>2. k \in Nat /\ Invalidate(b) \in FromMasterMsg /\ Invalidate(b).type # "GIVEPAGE"
    BY <1>1, CountsNat DEF Invalidate, FromMasterMsg, TypeInv
  <2> HIDE DEF k
  <2>3. t \in Seq(FromMasterMsg) /\ \A i \in DOMAIN t : t[i].type # "GIVEPAGE"
    BY <2>2, IsASeq
  <2>4. k # 0 => 1 \in DOMAIN t /\ t[1] = Invalidate(b)
    BY <2>2
  <2> HIDE DEF t
  <2>5. CASE p # b
    <3>1. RoundKept(n, p)
      BY <1>1, <2>1, <2>5, CountsSame DEF RoundKept, TypeInv, TypeOK
    <3>2. SentCopies(n, p)'
      BY <1>1, <2>1, <2>3, <3>1, SentKept DEF Copies
    <3>3. After(fromMaster[n], Invalidate(p), 0) => After(fromMaster'[n], Invalidate(p), 0)
      BY <1>1, <2>1, <2>3, AfterConcat
    <3> QED BY <1>5, <3>1, <3>2, <3>3
  <2>6. CASE p = b
    <3>1. ~invalidate_sent[p] /\ invalidate_sent'[p]
      BY <2>1, <2>6 DEF TypeInv, TypeOK
    <3>2. ASSUME Listed(n, p) # 0, NEW i \in 0..Len(fromMaster[n])
          PROVE  After(fromMaster'[n], Invalidate(p), i)
      <4>1. 1 \in DOMAIN t /\ t[1] = Invalidate(p)
        BY <2>4, <2>6, <3>2 DEF k
      <4> QED BY <1>1, <2>1, <2>3, <4>1, AfterConcat
    <3>3. OwnCopy(n, p)'
      BY <1>1, <1>2, <3>1, <3>2 DEF Copies, OwnCopy, Covered
    <3>4. ASSUME NEW i \in DOMAIN fromMaster'[n],
                 IsGivepage(fromMaster'[n][i], p, "read")
          PROVE  Covered(n, p, i)'
      <4>1. \/ i \in DOMAIN fromMaster[n] /\ fromMaster'[n][i] = fromMaster[n][i]
            \/ i - Len(fromMaster[n]) \in DOMAIN t
               /\ fromMaster'[n][i] = t[i - Len(fromMaster[n])]
        BY <1>1, <2>1, <2>3, ConcatProperties, LenProperties
      <4>2. i \in DOMAIN fromMaster[n] /\ fromMaster'[n][i] = fromMaster[n][i]
        BY <2>3, <3>4, <4>1 DEF IsGivepage
      <4>3. Listed(n, p) # 0 /\ i \in 0..Len(fromMaster[n])
        BY <1>1, <3>1, <3>4, <4>2 DEF Copies, SentCopies, Covered
      <4> QED BY <3>1, <3>2, <4>3 DEF Covered
    <3>5. ASSUME NEW i \in DOMAIN toMaster[n], IsGivepage(toMaster[n][i], p, "read")
          PROVE  ReturnCovered(n, p, i)'
      <4>1. Listed(n, p) # 0
        BY <1>1, <3>1, <3>5 DEF Copies, ReturnedCopies, ReturnCovered
      <4>2. After(fromMaster'[n], Invalidate(p), 0)
        BY <1>1, <3>2, <4>1
      <4> QED BY <3>1, <4>2 DEF ReturnCovered, Answering
    <3> QED BY <1>2, <3>3, <3>4, <3>5 DEF Copies, SentCopies, ReturnedCopies
  <2> QED BY <2>5, <2>6
<1>8. CASE GrantWriter(b)
  <2>1. /\ readers[b] = <<>> /\ requests[b] # <<>>
        /\ invalidate_sent' = [invalidate_sent EXCEPT ![b] = FALSE]
        /\ SendFromMaster(q.from, satisfy_request(Master, b, "readwrite"))
        /\ readers' = readers
    BY <1>8 DEF GrantWriter, AtRequest, NoReaders, TypeInv, LoopHasRequest
  <2>2. PICK m \in FromMasterMsg :
                /\ m.page = b /\ m.rights = "readwrite"
                /\ fromMaster'[n] = IF q.from = n THEN Append(fromMaster[n], m)
                                                  ELSE fromMaster[n]
    BY <1>4, <2>1 DEF Access
  <2>3. ~IsGivepage(m, p, "read")
    BY <2>2 DEF IsGivepage
  <2>4. CASE p # b
    <3>1. RoundKept(n, p)
      BY <1>1, <2>1, <2>4, CountsSame DEF RoundKept, TypeInv, TypeOK
    <3>2. SentCopies(n, p)'
      BY <1>1, <2>2, <2>3, <3>1, SentKept DEF Copies
    <3>3. After(fromMaster[n], Invalidate(p), 0) => After(fromMaster'[n], Invalidate(p), 0)
      BY <1>1, <2>2, AfterAppend
    <3> QED BY <1>5, <3>1, <3>2, <3>3
  <2>5. CASE p = b
    <3>1. Listed(n, p) = 0
      BY <2>1, <2>5, CountEmpty DEF Listed
    <3>2. \A i : ~Covered(n, p, i) /\ ~ReturnCovered(n, p, i)
      BY <1>1, <3>1, CoveredIsListed
    <3>3. OwnCopy(n, p)' /\ ReturnedCopies(n, p)'
      BY <1>1, <1>2, <3>2 DEF Copies, OwnCopy, ReturnedCopies
    <3>4. SentCopies(n, p)'
      <4>1. \A i \in DOMAIN fromMaster'[n] :
               \/ i \in DOMAIN fromMaster[n] /\ fromMaster'[n][i] = fromMaster[n][i]
               \/ fromMaster'[n][i] = m
        BY <1>1, <2>2, AppendAt
      <4> QED BY <1>1, <2>3, <3>2, <4>1 DEF Copies, SentCopies
    <3> QED BY <3>3, <3>4 DEF Copies
  <2> QED BY <2>4, <2>5
<1>9. CASE ProcessCheck(b) \/ AwaitReaders(b) \/ GrantWriterGiveup(b) \/ daemon_fault(b)
  <2>1. fromMaster' = fromMaster /\ readers' = readers /\ invalidate_sent' = invalidate_sent
    BY <1>9 DEF ProcessCheck, AwaitReaders, GrantWriterGiveup, daemon_fault
  <2>2. RoundKept(n, p)
    BY <1>1, <2>1, CountsSame DEF RoundKept
  <2> QED BY <1>1, <1>2, <2>1, <2>2, SameCopies
<1> QED BY <1>6, <1>7, <1>8, <1>9 DEF process_list_requests

\* Every read-only copy is listed or being invalidated, whatever lock calls are
\* made.
THEOREM CopiesCorrect == Spec => []CopiesInv
<1>1. Init => CopiesInv
  BY MasterAssumption DEF Init, CopiesInv, Copies, OwnCopy, SentCopies, ReturnedCopies, Nodes
<1>2. TypeInv /\ AcksInv /\ CopiesInv /\ [Next]_vars => CopiesInv'
  <2> SUFFICES ASSUME TypeInv, AcksInv, CopiesInv, [Next]_vars PROVE CopiesInv'
    OBVIOUS
  <2>1. CASE \E a \in Nodes, b \in Pages : App(a, b)
    BY <2>1, CopiesApp
  <2>2. CASE \E a \in Nodes : ClientHandler(a) \/ ServerHandler(a)
    BY <2>2, CopiesClient, CopiesServer
  <2>3. CASE \E b \in Pages : process_list_requests(b)
    BY <2>3, CopiesProcess
  <2>4. CASE \/ BlockOnMutex
             \/ \E a \in Slaves : SlaveLost(a) \/ MasterLost(a)
             \/ UNCHANGED vars
    <3>1. /\ toMaster' = toMaster /\ fromMaster' = fromMaster /\ ack_due' = ack_due
          /\ readers' = readers /\ invalidate_sent' = invalidate_sent
          /\ protection' = protection /\ lock' = lock
      BY <2>4 DEF BlockOnMutex, SlaveLost, MasterLost, vars, directoryVars, localVars
    <3> SUFFICES ASSUME NEW n \in Slaves, NEW p \in Pages PROVE Copies(n, p)'
      BY DEF CopiesInv
    <3>2. n \in Nodes /\ Copies(n, p)
      BY DEF CopiesInv, Nodes
    <3>3. RoundKept(n, p)
      BY <3>1, <3>2, CountsSame DEF RoundKept
    <3> QED BY <3>1, <3>2, <3>3, SameCopies
  <2> QED BY <2>1, <2>2, <2>3, <2>4 DEF Next
<1> QED BY <1>1, <1>2, TypeCorrect, InvalidationsCorrect, PTL DEF Spec

\* The directory knows every slave that has a read-only copy or will receive one.
THEOREM ReadersAreListed == Spec => []CopiesListed
<1>1. TypeInv /\ AcksInv /\ CopiesInv => CopiesListed
  <2> SUFFICES ASSUME TypeInv, AcksInv, CopiesInv, NEW n \in Slaves, NEW p \in Pages,
                      \/ protection[n][p] = "read" /\ lock[n][p] # "release"
                      \/ \E i \in DOMAIN fromMaster[n] :
                            IsGivepage(fromMaster[n][i], p, "read")
               PROVE  n \in ToSet(readers[p])
    BY DEF CopiesListed
  <2>1. n \in Nodes /\ Copies(n, p)
    BY DEF Nodes, CopiesInv
  <2>2. \E i : Covered(n, p, i)
    BY <2>1 DEF Copies, OwnCopy, SentCopies
  <2>3. Listed(n, p) # 0
    BY <2>1, <2>2, CoveredIsListed
  <2> QED BY <2>1, <2>3, ListedIffIn DEF TypeInv
<1> QED BY <1>1, TypeCorrect, InvalidationsCorrect, CopiesCorrect, PTL

(***************************************************************************)
(* 3. The coherence of the pages when the applications of the slaves make  *)
(* the lock calls: one writer at a time, everybody else sees its last      *)
(* store, and the writable copy is never lost.  The master's own lock calls *)
(* are excluded by the hypothesis OnlySlavesCall.                          *)
(***************************************************************************)

OnlySlavesCall == Calls \subseteq Slaves \X Pages \X Access

-----------------------------------------------------------------------------
(* The master's application does nothing, so its own client connection     *)
(* carries nothing.                                                        *)

MasterIdle ==
    /\ \A p \in Pages : lock[Master][p] = "free"
    /\ toMaster[Master] = <<>> /\ fromMaster[Master] = <<>> /\ ack_due[Master] = {}
    /\ \A p \in Pages : \A i \in DOMAIN requests[p] : requests[p][i].from # Master
    /\ \A p \in Pages : Listed(Master, p) = 0

\* Only applications of slaves take a step.
LEMMA SlaveApp ==
    ASSUME OnlySlavesCall, TypeInv, MasterIdle, NEW a \in Nodes, NEW b \in Pages, App(a, b)
    PROVE  a \in Slaves
<1>1. a = Master => lock[a][b] = "free"
  BY DEF MasterIdle
<1>2. ASSUME NEW r \in Access, lock_page_hit(a, b, r) \/ lock_page_miss(a, b, r)
      PROVE  a \in Slaves
  BY <1>2 DEF lock_page_hit, lock_page_miss, OnlySlavesCall
<1>3. ASSUME NEW r \in Access, lock_page_wake(a, b, r) PROVE a \in Slaves
  BY <1>1, <1>3 DEF lock_page_wake, Asking, Nodes
<1>4. CASE Store(a, b) \/ app_fault(a, b) \/ unlock_read(a, b)
  BY <1>1, <1>4 DEF Store, app_fault, unlock_read, Nodes
<1>5. CASE unlock_write_send(a, b) \/ unlock_write_giveup(a, b)
  BY <1>1, <1>5 DEF unlock_write_send, unlock_write_giveup, Nodes
<1> QED BY <1>2, <1>3, <1>4, <1>5 DEF App

\* A call changes nothing of another process.
LEMMA AppOthers ==
    ASSUME TypeOK, NEW a \in Nodes, NEW b \in Pages, App(a, b), NEW n \in Nodes, n # a
    PROVE  uptodate'[n] = uptodate[n] /\ lock'[n] = lock[n] /\ toMaster'[n] = toMaster[n]
<1> USE DEF localVars
<1>1. CASE UNCHANGED <<uptodate, lock, toMaster>>
  BY <1>1
<1>2. ASSUME NEW r \in Access,
             lock_page_hit(a, b, r) \/ lock_page_miss(a, b, r) \/ lock_page_wake(a, b, r)
      PROVE  uptodate'[n] = uptodate[n] /\ lock'[n] = lock[n] /\ toMaster'[n] = toMaster[n]
  <2>1. CASE lock_page_hit(a, b, r)
    BY <2>1 DEF lock_page_hit, TypeOK
  <2>2. CASE lock_page_miss(a, b, r)
    BY <2>2 DEF lock_page_miss, SendToMaster, TypeOK
  <2>3. CASE lock_page_wake(a, b, r)
    BY <2>3 DEF lock_page_wake, TypeOK
  <2> QED BY <1>2, <2>1, <2>2, <2>3
<1>3. CASE Store(a, b) \/ app_fault(a, b)
  BY <1>1, <1>3 DEF Store, app_fault
<1>4. CASE unlock_read(a, b)
  BY <1>4 DEF unlock_read, TypeOK
<1>5. CASE unlock_write_send(a, b)
  BY <1>5 DEF unlock_write_send, SendToMaster, TypeOK
<1>6. CASE unlock_write_giveup(a, b)
  BY <1>6 DEF unlock_write_giveup, giveup_localpage, TypeOK
<1> QED BY <1>2, <1>3, <1>4, <1>5, <1>6 DEF App

\* The handlers run for messages from and to slaves.
LEMMA SlaveHandler ==
    ASSUME MasterIdle, NEW a \in Nodes, ClientHandler(a) \/ ServerHandler(a)
    PROVE  a \in Slaves
BY DEF MasterIdle, Nodes, ClientHandler, ServerHandler, handle_givepage_client,
       handle_invalidate_msg, send_invalidate_ack, ClientReady, handle_lockpage_msg,
       handle_invalidate_ack_msg, handle_givepage_server, ServerReady

\* Requests come from slaves.
LEMMA SlaveRequest ==
    ASSUME TypeInv, MasterIdle, NEW b \in Pages, requests[b] # <<>>
    PROVE  /\ Head(requests[b]) \in Request /\ Head(requests[b]).from \in Slaves
           /\ \A i \in DOMAIN Tail(requests[b]) : Tail(requests[b])[i].from # Master
<1>1. requests[b] \in Seq(Request)
  BY DEF TypeInv, TypeOK
<1>2. /\ Head(requests[b]) \in Request /\ 1 \in DOMAIN requests[b]
      /\ Head(requests[b]) = requests[b][1]
  BY <1>1, HeadTailProperties, LenProperties
<1>3. Head(requests[b]).from \in Nodes
  BY <1>2 DEF Request
<1>4. \A i \in DOMAIN Tail(requests[b]) : Tail(requests[b])[i].from # Master
  BY <1>1, TailAt DEF MasterIdle
<1> QED BY <1>2, <1>3, <1>4 DEF MasterIdle, Nodes

\* The application and the connection of the master stay idle.
THEOREM MasterStaysIdle ==
    ASSUME OnlySlavesCall
    PROVE  Spec => []MasterIdle
<1>1. Init => MasterIdle
  <2> SUFFICES ASSUME Init PROVE MasterIdle
    OBVIOUS
  <2>1. \A p \in Pages : Listed(Master, p) = 0
    BY CountEmpty DEF Init, Listed
  <2> QED BY <2>1 DEF Init, MasterIdle, Nodes
<1>2. TypeInv /\ AcksInv /\ MasterIdle /\ [Next]_vars => MasterIdle'
  <2> SUFFICES ASSUME TypeInv, AcksInv, MasterIdle, [Next]_vars PROVE MasterIdle'
    OBVIOUS
  <2> USE DEF localVars, directoryVars
  <2>1. Master \in Nodes
    BY DEF Nodes
  <2>2. ASSUME NEW a \in Nodes, NEW b \in Pages, App(a, b) PROVE MasterIdle'
    <3>1. a \in Slaves /\ a # Master
      BY <2>2, SlaveApp, MasterAssumption
    <3>2. /\ fromMaster' = fromMaster /\ ack_due' = ack_due /\ requests' = requests
          /\ readers' = readers
      BY <2>2 DEF App, lock_page_hit, lock_page_miss, lock_page_wake, Store, app_fault,
             unlock_read, unlock_write_send, unlock_write_giveup
    <3>3. lock'[Master] = lock[Master] /\ toMaster'[Master] = toMaster[Master]
      BY <2>1, <2>2, <3>1, AppOthers DEF TypeInv
    <3> QED BY <2>1, <3>2, <3>3, CountsSame DEF MasterIdle
  <2>3. ASSUME NEW a \in Nodes, ClientHandler(a) PROVE MasterIdle'
    <3>1. a \in Slaves /\ a # Master
      BY <2>3, SlaveHandler, MasterAssumption
    <3>2. lock' = lock /\ requests' = requests /\ readers' = readers
      BY <2>3 DEF ClientHandler, handle_givepage_client, handle_invalidate_msg,
             send_invalidate_ack
    <3>3. /\ fromMaster'[Master] = fromMaster[Master] /\ toMaster'[Master] = toMaster[Master]
          /\ ack_due'[Master] = ack_due[Master]
      BY <2>1, <2>3, <3>1 DEF ClientHandler, handle_givepage_client, handle_invalidate_msg,
             send_invalidate_ack, SendToMaster, TypeInv, TypeOK
    <3> QED BY <2>1, <3>2, <3>3, CountsSame DEF MasterIdle
  <2>4. ASSUME NEW a \in Nodes, ServerHandler(a) PROVE MasterIdle'
    <3>1. a \in Slaves /\ a # Master
      BY <2>4, SlaveHandler, MasterAssumption
    <3>2. /\ lock' = lock /\ fromMaster' = fromMaster /\ ack_due' = ack_due
          /\ toMaster[a] # <<>> /\ toMaster' = [toMaster EXCEPT ![a] = Tail(@)]
      BY <2>4 DEF ServerHandler, handle_lockpage_msg, handle_invalidate_ack_msg,
             handle_givepage_server, ServerReady
    <3>3. toMaster'[Master] = toMaster[Master]
      BY <2>1, <3>1, <3>2 DEF TypeInv, TypeOK
    <3>4. \A p \in Pages : Listed(Master, p)' = 0
      <4>1. CASE handle_invalidate_ack_msg(a)
        BY <2>1, <3>1, <4>1, AckTakesReader DEF MasterIdle
      <4>2. CASE handle_lockpage_msg(a) \/ handle_givepage_server(a)
        <5>1. readers' = readers
          BY <4>2 DEF handle_lockpage_msg, handle_givepage_server
        <5> QED BY <2>1, <5>1, CountsSame DEF MasterIdle
      <4> QED BY <2>4, <4>1, <4>2 DEF ServerHandler
    <3>5. ASSUME NEW p \in Pages, NEW i \in DOMAIN requests'[p]
          PROVE  requests'[p][i].from # Master
      <4>1. CASE handle_lockpage_msg(a)
        <5> DEFINE m == Head(toMaster[a])
                   q == [from |-> a, rights |-> m.rights]
        <5>1. m \in ToMasterMsg /\ m.type = "LOCKPAGE"
          BY <3>2, <4>1, ReceiveType DEF handle_lockpage_msg, ServerReady, TypeInv
        <5>2. q \in Request /\ m.page \in Pages
          BY <5>1, ToMasterFields DEF Request
        <5>3. requests'[p] = IF m.page = p THEN Append(requests[p], q) ELSE requests[p]
          BY <4>1, <5>2 DEF handle_lockpage_msg, TypeInv, TypeOK
        <5>4. \/ i \in DOMAIN requests[p] /\ requests'[p][i] = requests[p][i]
              \/ requests'[p][i] = q
          BY <3>5, <5>2, <5>3, AppendAt DEF TypeInv, TypeOK
        <5> QED BY <3>1, <5>4 DEF MasterIdle
      <4>2. CASE handle_invalidate_ack_msg(a) \/ handle_givepage_server(a)
        BY <3>5, <4>2 DEF handle_invalidate_ack_msg, handle_givepage_server, MasterIdle
      <4> QED BY <2>4, <4>1, <4>2 DEF ServerHandler
    <3> QED BY <3>2, <3>3, <3>4, <3>5 DEF MasterIdle
  <2>5. ASSUME NEW b \in Pages, process_list_requests(b) PROVE MasterIdle'
    <3> DEFINE q == Head(requests[b])
    <3>1. toMaster' = toMaster /\ ack_due' = ack_due /\ lock' = lock
      BY <2>5 DEF process_list_requests, ProcessCheck, ServeReader, InvalidateReaders,
             AwaitReaders, GrantWriter, GrantWriterGiveup, daemon_fault
    <3>2. ASSUME NEW m, SendFromMaster(q.from, m), requests[b] # <<>>
          PROVE  fromMaster'[Master] = fromMaster[Master]
      <4>1. q.from # Master /\ q.from \in Nodes
        BY <3>2, SlaveRequest, MasterAssumption DEF Nodes
      <4> QED BY <2>1, <3>2, <4>1 DEF SendFromMaster, TypeInv, TypeOK
    <3>3. CASE ServeReader(b)
      <4>1. /\ requests[b] # <<>>
            /\ SendFromMaster(q.from, satisfy_request(Master, b, "read"))
            /\ requests' = [requests EXCEPT ![b] = Tail(@)]
            /\ readers' = [readers EXCEPT ![b] = Append(@, q.from)]
        BY <3>3 DEF ServeReader, AtRequest, TypeInv, LoopHasRequest
      <4>2. q.from \in Nodes /\ q.from # Master
        BY <4>1, SlaveRequest, MasterAssumption DEF Nodes
      <4>3. ASSUME NEW p \in Pages PROVE Listed(Master, p)' = 0
        <5>1. readers'[p] = IF p = b THEN Append(readers[b], q.from) ELSE readers[p]
          BY <4>1 DEF TypeInv, TypeOK
        <5>2. readers[b] \in Seq(Nodes)
          BY DEF TypeInv, TypeOK
        <5>3. Count(Append(readers[b], q.from), {Master}) =
                  Count(readers[b], {Master}) + IF q.from \in {Master} THEN 1 ELSE 0
          BY <4>2, <5>2, CountAppend
        <5>4. Count(readers[b], {Master}) = 0 /\ Count(readers[p], {Master}) = 0
          BY DEF Listed, MasterIdle
        <5>5. Count(readers'[p], {Master}) = 0
          BY <4>2, <5>1, <5>3, <5>4
        <5> QED BY <5>5 DEF Listed
      <4>4. fromMaster'[Master] = fromMaster[Master]
        BY <3>2, <4>1
      <4>5. ASSUME NEW p \in Pages, NEW i \in DOMAIN requests'[p]
            PROVE  requests'[p][i].from # Master
        <5>1. requests'[p] = IF p = b THEN Tail(requests[b]) ELSE requests[p]
          BY <4>1 DEF TypeInv, TypeOK
        <5> QED BY <4>1, <4>5, <5>1, SlaveRequest DEF MasterIdle
      <4> QED BY <3>1, <4>3, <4>4, <4>5 DEF MasterIdle
    <3>4. CASE InvalidateReaders(b)
      <4> DEFINE k == Listed(Master, b)
                 t == [i \in 1..k |-> Invalidate(b)]
      <4>1. /\ fromMaster'[Master] = fromMaster[Master] \o t
            /\ readers' = readers /\ requests' = requests
        BY <2>1, <3>4, CountEqual DEF InvalidateReaders, invalidate_readers, Listed
      <4>2. k = 0
        BY DEF MasterIdle
      <4> HIDE DEF k
      <4>3. t = <<>>
        BY <4>2
      <4>4. fromMaster'[Master] = <<>>
        BY <4>1, <4>3 DEF MasterIdle
      <4> QED BY <2>1, <3>1, <4>1, <4>4, CountsSame DEF MasterIdle
    <3>5. CASE GrantWriter(b)
      <4>1. /\ requests[b] # <<>> /\ requests' = requests /\ readers' = readers
            /\ SendFromMaster(q.from, satisfy_request(Master, b, "readwrite"))
        BY <3>5 DEF GrantWriter, AtRequest, TypeInv, LoopHasRequest
      <4>2. fromMaster'[Master] = fromMaster[Master]
        BY <3>2, <4>1
      <4> QED BY <2>1, <3>1, <4>1, <4>2, CountsSame DEF MasterIdle
    <3>6. CASE GrantWriterGiveup(b)
      <4>1. /\ requests[b] # <<>> /\ requests' = [requests EXCEPT ![b] = Tail(@)]
            /\ readers' = readers /\ fromMaster' = fromMaster
        BY <3>6 DEF GrantWriterGiveup, TypeInv, LoopHasRequest
      <4>2. ASSUME NEW p \in Pages, NEW i \in DOMAIN requests'[p]
            PROVE  requests'[p][i].from # Master
        <5>1. requests'[p] = IF p = b THEN Tail(requests[b]) ELSE requests[p]
          BY <4>1 DEF TypeInv, TypeOK
        <5> QED BY <4>1, <4>2, <5>1, SlaveRequest DEF MasterIdle
      <4> QED BY <2>1, <3>1, <4>1, <4>2, CountsSame DEF MasterIdle
    <3>7. CASE ProcessCheck(b) \/ AwaitReaders(b) \/ daemon_fault(b)
      <4>1. fromMaster' = fromMaster /\ readers' = readers /\ requests' = requests
        BY <3>7 DEF ProcessCheck, AwaitReaders, daemon_fault
      <4> QED BY <2>1, <3>1, <4>1, CountsSame DEF MasterIdle
    <3> QED BY <2>5, <3>3, <3>4, <3>5, <3>6, <3>7 DEF process_list_requests
  <2>6. CASE \/ BlockOnMutex
             \/ \E a \in Slaves : SlaveLost(a) \/ MasterLost(a)
             \/ UNCHANGED vars
    <3>1. /\ toMaster' = toMaster /\ fromMaster' = fromMaster /\ ack_due' = ack_due
          /\ readers' = readers /\ requests' = requests /\ lock' = lock
      BY <2>6 DEF BlockOnMutex, SlaveLost, MasterLost, vars
    <3> QED BY <2>1, <3>1, CountsSame DEF MasterIdle
  <2> QED BY <2>2, <2>3, <2>4, <2>5, <2>6 DEF Next
<1> QED BY <1>1, <1>2, TypeCorrect, InvalidationsCorrect, PTL DEF Spec
-----------------------------------------------------------------------------
(* The writable copy of a page is with the master, or in one place of one  *)
(* slave: on its way to it, in its memory, or on its way back.             *)

WritablePages(p) == {m \in ToMasterMsg \cup FromMasterMsg : IsGivepage(m, p, "readwrite")}

Going(n, p) == Count(fromMaster[n], WritablePages(p))
Held(n, p) == IF protection[n][p] = "readwrite" /\ lock[n][p] # "release" THEN 1 ELSE 0
Back(n, p) == Count(toMaster[n], WritablePages(p))

Writable(n, p) == Going(n, p) + Held(n, p) + Back(n, p)

\* The process that write_owner names, or will name when the listener has
\* recorded the grant it has just sent.
Owner(p) == IF daemon = <<"giveup", p>> THEN Head(requests[p]).from ELSE write_owner[p]

Home(p) ==
    /\ daemon \in {<<"loop", p>>, <<"giveup", p>>} => uptodate[Master][p]
    /\ readers[p] # <<>> => MasterHolds(p)
    /\ ~MasterHolds(p) => Owner(p) \in Slaves
    /\ \A n \in Slaves :
          Writable(n, p) = IF ~MasterHolds(p) /\ n = Owner(p) THEN 1 ELSE 0

HomeInv == \A p \in Pages : Home(p)

\* A GIVEPAGE has the rights of a read-only or a writable copy: unlock_write sends
\* the page with the rights it is mapped with, and faults if it is not mapped.
RightsOf(s) == \A i \in DOMAIN s : s[i].type = "GIVEPAGE" => s[i].rights \in Access

RightsInv == \A n \in Nodes : RightsOf(fromMaster[n]) /\ RightsOf(toMaster[n])

\* What is counted.
LEMMA WritableNat ==
    ASSUME TypeOK, NEW n \in Nodes, NEW p \in Pages
    PROVE  Going(n, p) \in Nat /\ Back(n, p) \in Nat /\ Held(n, p) \in {0, 1}
<1>1. toMaster[n] \in Seq(ToMasterMsg) /\ fromMaster[n] \in Seq(FromMasterMsg)
  BY DEF TypeOK
<1> QED BY <1>1, CountNat DEF Going, Back, Held

\* What a step leaves alone is counted as before.
LEMMA WritableSame ==
    ASSUME NEW n \in Nodes, NEW p \in Pages
    PROVE  /\ fromMaster'[n] = fromMaster[n] => Going(n, p)' = Going(n, p)
           /\ toMaster'[n] = toMaster[n] => Back(n, p)' = Back(n, p)
           /\ protection'[n][p] = protection[n][p] /\ lock'[n][p] = lock[n][p] =>
                 Held(n, p)' = Held(n, p)
BY DEF Going, Back, Held

\* A message from the master to a.
LEMMA GoingSend ==
    ASSUME TypeOK, NEW a \in Nodes, NEW m \in FromMasterMsg, SendFromMaster(a, m),
           NEW n \in Nodes, NEW p \in Pages
    PROVE  Going(n, p)' = Going(n, p)
              + IF n = a /\ IsGivepage(m, p, "readwrite") THEN 1 ELSE 0
<1>1. fromMaster \in Streams(Nodes, FromMasterMsg) /\ SentOn(fromMaster, fromMaster', a, m)
  BY DEF TypeOK, Streams, SentOn, SendFromMaster
<1>2. Count(fromMaster'[n], WritablePages(p)) = Count(fromMaster[n], WritablePages(p))
          + IF n = a /\ m \in WritablePages(p) THEN 1 ELSE 0
  BY <1>1, SendCounts
<1>3. m \in WritablePages(p) <=> IsGivepage(m, p, "readwrite")
  BY DEF WritablePages
<1> QED BY <1>2, <1>3 DEF Going

\* A message from a to the master.
LEMMA BackSend ==
    ASSUME TypeOK, NEW a \in Nodes, NEW m \in ToMasterMsg, SendToMaster(a, m),
           NEW n \in Nodes, NEW p \in Pages
    PROVE  Back(n, p)' = Back(n, p)
              + IF n = a /\ IsGivepage(m, p, "readwrite") THEN 1 ELSE 0
<1>1. toMaster \in Streams(Nodes, ToMasterMsg) /\ SentOn(toMaster, toMaster', a, m)
  BY DEF TypeOK, Streams, SentOn, SendToMaster
<1>2. Count(toMaster'[n], WritablePages(p)) = Count(toMaster[n], WritablePages(p))
          + IF n = a /\ m \in WritablePages(p) THEN 1 ELSE 0
  BY <1>1, SendCounts
<1>3. m \in WritablePages(p) <=> IsGivepage(m, p, "readwrite")
  BY DEF WritablePages
<1> QED BY <1>2, <1>3 DEF Back

\* The client a receives a message.
LEMMA GoingReceive ==
    ASSUME TypeOK, NEW a \in Nodes, ReceivedOn(fromMaster, fromMaster', a),
           NEW n \in Nodes, NEW p \in Pages
    PROVE  /\ Going(n, p) = Going(n, p)' +
                 IF n = a /\ IsGivepage(Head(fromMaster[a]), p, "readwrite") THEN 1 ELSE 0
           /\ Going(n, p)' \in Nat
<1>1. fromMaster \in Streams(Nodes, FromMasterMsg)
  BY DEF TypeOK, Streams
<1>2. /\ Count(fromMaster[n], WritablePages(p)) = Count(fromMaster'[n], WritablePages(p))
            + IF n = a /\ Head(fromMaster[a]) \in WritablePages(p) THEN 1 ELSE 0
      /\ Count(fromMaster'[n], WritablePages(p)) \in Nat
  BY <1>1, ReceiveCounts
<1>3. Head(fromMaster[a]) \in FromMasterMsg
  BY ReceiveType DEF ReceivedOn
<1>4. Head(fromMaster[a]) \in WritablePages(p) <=>
         IsGivepage(Head(fromMaster[a]), p, "readwrite")
  BY <1>3 DEF WritablePages
<1> QED BY <1>2, <1>4 DEF Going

\* The master receives a message from a.
LEMMA BackReceive ==
    ASSUME TypeOK, NEW a \in Nodes, ReceivedOn(toMaster, toMaster', a),
           NEW n \in Nodes, NEW p \in Pages
    PROVE  /\ Back(n, p) = Back(n, p)' +
                 IF n = a /\ IsGivepage(Head(toMaster[a]), p, "readwrite") THEN 1 ELSE 0
           /\ Back(n, p)' \in Nat
<1>1. toMaster \in Streams(Nodes, ToMasterMsg)
  BY DEF TypeOK, Streams
<1>2. /\ Count(toMaster[n], WritablePages(p)) = Count(toMaster'[n], WritablePages(p))
            + IF n = a /\ Head(toMaster[a]) \in WritablePages(p) THEN 1 ELSE 0
      /\ Count(toMaster'[n], WritablePages(p)) \in Nat
  BY <1>1, ReceiveCounts
<1>3. Head(toMaster[a]) \in ToMasterMsg
  BY ReceiveType DEF ReceivedOn
<1>4. Head(toMaster[a]) \in WritablePages(p) <=>
         IsGivepage(Head(toMaster[a]), p, "readwrite")
  BY <1>3 DEF WritablePages
<1> QED BY <1>2, <1>4 DEF Back

\* invalidate_readers sends no page.
LEMMA GoingInvalidate ==
    ASSUME TypeOK, NEW b \in Pages, invalidate_readers(b), NEW n \in Nodes, NEW p \in Pages
    PROVE  Going(n, p)' = Going(n, p)
<1> DEFINE k == Listed(n, b)
           t == [i \in 1..k |-> Invalidate(b)]
<1>1. k \in Nat /\ fromMaster[n] \in Seq(FromMasterMsg) /\ Invalidate(b) \in FromMasterMsg
  BY CountsNat DEF TypeOK, Invalidate, FromMasterMsg
<1>2. fromMaster'[n] = fromMaster[n] \o t
  BY CountEqual DEF invalidate_readers, Listed
<1> HIDE DEF k
<1>3. t \in Seq(FromMasterMsg)
  BY <1>1, IsASeq
<1>4. Count(fromMaster[n] \o t, WritablePages(p)) =
          Count(fromMaster[n], WritablePages(p)) + Count(t, WritablePages(p))
  BY <1>1, <1>3, CountConcat
<1>5. Count(t, WritablePages(p)) = IF Invalidate(b) \in WritablePages(p) THEN k ELSE 0
  BY <1>1, CountRepeated
<1>6. Invalidate(b) \notin WritablePages(p)
  BY DEF Invalidate, WritablePages, IsGivepage
<1>7. Count(fromMaster[n], WritablePages(p)) \in Nat
  BY <1>1, CountNat
<1> QED BY <1>2, <1>4, <1>5, <1>6, <1>7 DEF Going

\* While a slave has a read-only copy, in its memory or in a message, the master
\* has the page, and no slave has a writable copy.
LEMMA ReadersAtHome ==
    ASSUME TypeInv, AcksInv, NEW p \in Pages, Home(p), NEW n \in Nodes, NEW i,
           \/ Listed(n, p) # 0
           \/ Pending(n, p) # 0
           \/ Covered(n, p, i) \/ ReturnCovered(n, p, i)
    PROVE  MasterHolds(p) /\ \A m \in Slaves : Writable(m, p) = 0
<1>1. Listed(n, p) # 0
  BY CoveredIsListed DEF AcksInv, Agree
<1>2. readers[p] # <<>>
  BY <1>1, CountEmpty DEF Listed
<1> QED BY <1>2 DEF Home

\* A step that moves no writable copy of p.
LEMMA SameHome ==
    ASSUME NEW p \in Pages, Home(p),
           MasterHolds(p)' <=> MasterHolds(p),
           ~MasterHolds(p) => Owner(p)' = Owner(p),
           daemon' \in {<<"loop", p>>, <<"giveup", p>>} => uptodate'[Master][p],
           readers'[p] # <<>> => readers[p] # <<>> \/ MasterHolds(p),
           \A n \in Slaves : Writable(n, p)' = Writable(n, p)
    PROVE  Home(p)'
BY DEF Home
\* A stream becomes t: nothing happens, a message is taken from the front, or
\* messages with the rights of a page are added.
RightsStep(S, s, t) ==
    \/ t = s
    \/ s # <<>> /\ t = Tail(s)
    \/ \E m \in S : t = Append(s, m) /\ (m.type = "GIVEPAGE" => m.rights \in Access)
    \/ \E u \in Seq(S) : t = s \o u /\ \A i \in DOMAIN u : u[i].type # "GIVEPAGE"

\* Such a step keeps the rights.
LEMMA RightsKept ==
    ASSUME NEW S, NEW s \in Seq(S), NEW t, RightsOf(s), RightsStep(S, s, t)
    PROVE  RightsOf(t)
<1> USE DEF RightsOf
<1>1. CASE t = s
  BY <1>1
<1>2. CASE s # <<>> /\ t = Tail(s)
  BY <1>2, TailAt
<1>3. ASSUME NEW m \in S, t = Append(s, m), m.type = "GIVEPAGE" => m.rights \in Access
      PROVE  RightsOf(t)
  BY <1>3, AppendAt
<1>4. ASSUME NEW u \in Seq(S), t = s \o u, \A i \in DOMAIN u : u[i].type # "GIVEPAGE"
      PROVE  RightsOf(t)
  <2>1. \A i \in DOMAIN t : \/ i \in DOMAIN s /\ t[i] = s[i]
                            \/ i - Len(s) \in DOMAIN u /\ t[i] = u[i - Len(s)]
    BY <1>4, ConcatProperties, LenProperties
  <2> QED BY <1>4, <2>1
<1> QED BY <1>1, <1>2, <1>3, <1>4 DEF RightsStep

\* Every GIVEPAGE, in whichever direction, carries one of the two rights.
THEOREM RightsCorrect == Spec => []RightsInv
<1>1. Init => RightsInv
  BY DEF Init, RightsInv, RightsOf
<1>2. TypeInv /\ RightsInv /\ [Next]_vars => RightsInv'
  <2> SUFFICES ASSUME TypeInv, RightsInv, [Next]_vars, NEW n \in Nodes
               PROVE  RightsOf(fromMaster'[n]) /\ RightsOf(toMaster'[n])
    BY DEF RightsInv
  <2> USE DEF localVars, directoryVars
  <2> DEFINE FromKept == RightsStep(FromMasterMsg, fromMaster[n], fromMaster'[n])
             ToKept == RightsStep(ToMasterMsg, toMaster[n], toMaster'[n])
  <2>1. fromMaster[n] \in Seq(FromMasterMsg) /\ toMaster[n] \in Seq(ToMasterMsg)
    BY DEF TypeInv, TypeOK
  <2>2. ASSUME NEW a \in Nodes, NEW b \in Pages, App(a, b) PROVE FromKept /\ ToKept
    <3>1. fromMaster' = fromMaster
      BY <2>2 DEF App, lock_page_hit, lock_page_miss, lock_page_wake, Store, app_fault,
             unlock_read, unlock_write_send, unlock_write_giveup
    <3>2. ASSUME NEW m \in ToMasterMsg, SendToMaster(a, m),
                 m.type = "GIVEPAGE" => m.rights \in Access
          PROVE  ToKept
      BY <3>2 DEF SendToMaster, TypeInv, TypeOK, RightsStep
    <3>3. ASSUME NEW r \in Access, lock_page_miss(a, b, r) PROVE ToKept
      <4>1. Lockpage(b, r) \in ToMasterMsg /\ Lockpage(b, r).type # "GIVEPAGE"
        BY DEF Lockpage, ToMasterMsg
      <4> QED BY <3>2, <3>3, <4>1 DEF lock_page_miss
    <3>4. ASSUME unlock_write_send(a, b) PROVE ToKept
      <4> DEFINE m == satisfy_request(a, b, protection[a][b])
      <4>1. m \in ToMasterMsg
        BY PageMessage DEF TypeInv
      <4>2. m.rights \in Access
        BY <3>4 DEF unlock_write_send, satisfy_request, Access, Rights, TypeInv, TypeOK
      <4> QED BY <3>2, <3>4, <4>1, <4>2 DEF unlock_write_send
    <3>5. ASSUME toMaster' = toMaster PROVE ToKept
      BY <3>5 DEF RightsStep
    <3> HIDE DEF ToKept
    <3>6. ToKept
      BY <2>2, <3>3, <3>4, <3>5 DEF App, lock_page_hit, lock_page_wake, Store, app_fault,
           unlock_read, unlock_write_giveup
    <3> QED BY <3>1, <3>6 DEF RightsStep
  <2>3. ASSUME NEW a \in Nodes, ClientHandler(a) PROVE FromKept /\ ToKept
    <3>1. CASE handle_givepage_client(a) \/ handle_invalidate_msg(a)
      <4>1. toMaster' = toMaster /\ ReceivedOn(fromMaster, fromMaster', a)
        BY <3>1 DEF handle_givepage_client, handle_invalidate_msg, ClientReady, ReceivedOn
      <4> QED BY <4>1 DEF ReceivedOn, TypeInv, TypeOK, RightsStep
    <3>2. CASE send_invalidate_ack(a)
      <4>1. PICK q \in ack_due[a] : SendToMaster(a, InvalidateAck(q))
        BY <3>2 DEF send_invalidate_ack
      <4>2. InvalidateAck(q) \in ToMasterMsg /\ InvalidateAck(q).type # "GIVEPAGE"
        BY <4>1 DEF InvalidateAck, ToMasterMsg, TypeInv, TypeOK
      <4>3. ToKept
        BY <4>1, <4>2 DEF SendToMaster, TypeInv, TypeOK, RightsStep
      <4> QED BY <3>2, <4>3 DEF send_invalidate_ack, RightsStep
    <3> QED BY <2>3, <3>1, <3>2 DEF ClientHandler
  <2>4. ASSUME NEW a \in Nodes, ServerHandler(a) PROVE FromKept /\ ToKept
    <3>1. fromMaster' = fromMaster /\ ReceivedOn(toMaster, toMaster', a)
      BY <2>4 DEF ServerHandler, handle_lockpage_msg, handle_invalidate_ack_msg,
             handle_givepage_server, ServerReady, ReceivedOn
    <3> QED BY <3>1 DEF ReceivedOn, TypeInv, TypeOK, RightsStep
  <2>5. ASSUME NEW b \in Pages, process_list_requests(b) PROVE FromKept /\ ToKept
    <3>1. toMaster' = toMaster
      BY <2>5 DEF process_list_requests, ProcessCheck, ServeReader, InvalidateReaders,
             AwaitReaders, GrantWriter, GrantWriterGiveup, daemon_fault
    <3>2. ASSUME NEW r \in Access, NEW a, SendFromMaster(a, satisfy_request(Master, b, r))
          PROVE  FromKept
      <4>1. /\ satisfy_request(Master, b, r) \in FromMasterMsg
            /\ satisfy_request(Master, b, r).rights \in Access
        BY GrantMessage
      <4> QED BY <3>2, <4>1 DEF SendFromMaster, TypeInv, TypeOK, RightsStep
    <3>3. CASE InvalidateReaders(b)
      <4> DEFINE k == [i \in 1..Cardinality({j \in DOMAIN readers[b] : readers[b][j] = n})
                          |-> Invalidate(b)]
      <4>1. k \in Seq(FromMasterMsg)
        BY InvalidationsType DEF TypeInv
      <4>2. \A i \in DOMAIN k : k[i].type # "GIVEPAGE"
        BY DEF Invalidate
      <4>3. fromMaster'[n] = fromMaster[n] \o k
        BY <3>3 DEF InvalidateReaders, invalidate_readers
      <4> HIDE DEF k
      <4> QED BY <3>1, <4>1, <4>2, <4>3 DEF RightsStep
    <3>4. CASE ServeReader(b) \/ GrantWriter(b)
      <4>1. \E r \in Access, a \in {Head(requests[b]).from} :
               SendFromMaster(a, satisfy_request(Master, b, r))
        BY <3>4 DEF ServeReader, GrantWriter, Access
      <4> QED BY <3>1, <3>2, <4>1 DEF RightsStep
    <3>5. CASE ProcessCheck(b) \/ AwaitReaders(b) \/ GrantWriterGiveup(b) \/ daemon_fault(b)
      BY <3>1, <3>5 DEF ProcessCheck, AwaitReaders, GrantWriterGiveup, daemon_fault,
                        RightsStep
    <3> QED BY <2>5, <3>3, <3>4, <3>5 DEF process_list_requests
  <2>6. ASSUME \/ BlockOnMutex
               \/ \E a \in Slaves : SlaveLost(a) \/ MasterLost(a)
               \/ UNCHANGED vars
        PROVE  FromKept /\ ToKept
    BY <2>6 DEF BlockOnMutex, SlaveLost, MasterLost, vars, RightsStep
  <2>7. FromKept /\ ToKept
    BY <2>2, <2>3, <2>4, <2>5, <2>6 DEF Next
  <2>8. RightsOf(fromMaster[n]) /\ RightsOf(toMaster[n])
    BY DEF RightsInv
  <2> QED BY <2>1, <2>7, <2>8, RightsKept
<1> QED BY <1>1, <1>2, TypeCorrect, PTL DEF Spec
\* The lock and unlock calls of the slaves: unlock_write turns the writable copy
\* of the slave into one on its way back.
LEMMA HomeApp ==
    ASSUME OnlySlavesCall, TypeInv, MasterIdle, HomeInv,
           NEW a \in Nodes, NEW b \in Pages, App(a, b)
    PROVE  HomeInv'
<1> USE DEF directoryVars, localVars
<1> SUFFICES ASSUME NEW p \in Pages PROVE Home(p)'
  BY DEF HomeInv
<1>1. a \in Slaves /\ a # Master /\ Master \in Nodes /\ Home(p)
  BY SlaveApp, MasterAssumption DEF Nodes, HomeInv
<1>2. /\ fromMaster' = fromMaster /\ daemon' = daemon /\ readers' = readers
      /\ requests' = requests /\ write_owner' = write_owner
  BY <1>1 DEF App, lock_page_hit, lock_page_miss, lock_page_wake, Store, app_fault,
         unlock_read, unlock_write_send, unlock_write_giveup
<1>3. uptodate'[Master] = uptodate[Master]
  BY <1>1, AppOthers DEF TypeInv
<1>4. ASSUME NEW n \in Slaves PROVE Writable(n, p)' = Writable(n, p)
  <2>1. /\ n \in Nodes /\ Going(n, p)' = Going(n, p)
        /\ Going(n, p) \in Nat /\ Back(n, p) \in Nat
    BY <1>2, WritableSame, WritableNat DEF Nodes, TypeInv
  <2>2. ASSUME Held(n, p)' = Held(n, p), Back(n, p)' = Back(n, p)
        PROVE  Writable(n, p)' = Writable(n, p)
    BY <2>1, <2>2 DEF Writable
  <2>3. ASSUME NEW r \in Access, lock_page_miss(a, b, r)
        PROVE  Writable(n, p)' = Writable(n, p)
    <3>1. /\ Lockpage(b, r) \in ToMasterMsg
          /\ ~IsGivepage(Lockpage(b, r), p, "readwrite")
      BY DEF Lockpage, ToMasterMsg, IsGivepage
    <3>2. Back(n, p)' = Back(n, p) + 0
      BY <2>1, <2>3, <3>1, BackSend DEF lock_page_miss, TypeInv
    <3>3. Held(n, p)' = Held(n, p)
      BY <2>1, <2>3 DEF lock_page_miss, Held, Asking, TypeInv, TypeOK
    <3> QED BY <2>1, <2>2, <3>2, <3>3
  <2>4. CASE unlock_write_send(a, b)
    <3> DEFINE m == satisfy_request(a, b, protection[a][b])
    <3>1. m \in ToMasterMsg /\ SendToMaster(a, m)
      BY <2>4, PageMessage DEF unlock_write_send, TypeInv
    <3>2. IsGivepage(m, p, "readwrite") <=> b = p /\ protection[a][b] = "readwrite"
      BY DEF satisfy_request, IsGivepage
    <3> HIDE DEF m
    <3>3. Back(n, p)' = Back(n, p)
             + IF n = a /\ b = p /\ protection[a][b] = "readwrite" THEN 1 ELSE 0
      BY <2>1, <3>1, <3>2, BackSend DEF TypeInv
    <3>4. /\ lock[a][b] = "write" /\ protection' = protection
          /\ lock'[n][p] = IF n = a /\ b = p THEN "release" ELSE lock[n][p]
      BY <2>1, <2>4 DEF unlock_write_send, TypeInv, TypeOK
    <3>5. Held(n, p) = Held(n, p)'
             + IF n = a /\ b = p /\ protection[a][b] = "readwrite" THEN 1 ELSE 0
      BY <3>4 DEF Held
    <3>6. Held(n, p)' \in {0, 1}
      BY DEF Held
    <3> QED BY <2>1, <3>3, <3>5, <3>6 DEF Writable
  <2>5. CASE unlock_write_giveup(a, b)
    <3>1. Held(n, p)' = Held(n, p)
      BY <2>1, <2>5 DEF unlock_write_giveup, giveup_localpage, Held, TypeInv, TypeOK
    <3>2. Back(n, p)' = Back(n, p)
      BY <2>1, <2>5, WritableSame DEF unlock_write_giveup
    <3> QED BY <2>2, <3>1, <3>2
  <2>6. ASSUME NEW r \in Access, lock_page_hit(a, b, r) \/ lock_page_wake(a, b, r)
        PROVE  Writable(n, p)' = Writable(n, p)
    <3>1. /\ toMaster' = toMaster /\ protection' = protection
          /\ lock[a][b] # "release" /\ lock' = [lock EXCEPT ![a][b] = Holding(r)]
      BY <2>6 DEF lock_page_hit, lock_page_wake, Asking
    <3>2. Held(n, p)' = Held(n, p)
      BY <2>1, <3>1 DEF Held, Holding, TypeInv, TypeOK
    <3>3. Back(n, p)' = Back(n, p)
      BY <2>1, <3>1, WritableSame
    <3> QED BY <2>2, <3>2, <3>3
  <2>7. CASE unlock_read(a, b)
    <3>1. Held(n, p)' = Held(n, p)
      BY <2>1, <2>7 DEF unlock_read, Held, TypeInv, TypeOK
    <3>2. Back(n, p)' = Back(n, p)
      BY <2>1, <2>7, WritableSame DEF unlock_read
    <3> QED BY <2>2, <3>1, <3>2
  <2>8. CASE Store(a, b) \/ app_fault(a, b)
    <3>1. toMaster' = toMaster /\ protection' = protection /\ lock' = lock
      BY <2>8 DEF Store, app_fault
    <3> QED BY <2>1, <2>2, <3>1, WritableSame
  <2> QED BY <2>3, <2>4, <2>5, <2>6, <2>7, <2>8 DEF App
<1>5. (MasterHolds(p)' <=> MasterHolds(p)) /\ Owner(p)' = Owner(p)
  BY <1>2, <1>3 DEF MasterHolds, Owner
<1>6. daemon' \in {<<"loop", p>>, <<"giveup", p>>} => uptodate'[Master][p]
  BY <1>1, <1>2, <1>3 DEF Home
<1> QED BY <1>1, <1>2, <1>4, <1>5, <1>6, SameHome

\* The handlers of a slave: a writable copy on its way becomes the copy of the
\* slave, and neither a read-only one nor an INVALIDATE overwrites it.
LEMMA HomeClient ==
    ASSUME TypeInv, AcksInv, CopiesInv, RightsInv, MasterIdle, HomeInv,
           NEW a \in Nodes, ClientHandler(a)
    PROVE  HomeInv'
<1> USE DEF directoryVars, localVars
<1> SUFFICES ASSUME NEW p \in Pages PROVE Home(p)'
  BY DEF HomeInv
<1>1. a \in Slaves /\ a # Master /\ Master \in Nodes /\ Home(p)
  BY SlaveHandler, MasterAssumption DEF Nodes, HomeInv
<1>2. /\ daemon' = daemon /\ readers' = readers /\ lock' = lock
      /\ requests' = requests /\ write_owner' = write_owner
  BY <1>1 DEF ClientHandler, handle_givepage_client, handle_invalidate_msg,
         send_invalidate_ack, StorePage
<1>3. uptodate'[Master] = uptodate[Master]
  BY <1>1 DEF ClientHandler, handle_givepage_client, handle_invalidate_msg,
         send_invalidate_ack, StorePage, TypeInv, TypeOK
<1> DEFINE m == Head(fromMaster[a])
<1>4. ASSUME fromMaster[a] # <<>>
      PROVE  /\ m \in FromMasterMsg /\ m.page \in Pages
             /\ m = fromMaster[a][1] /\ 1 \in DOMAIN fromMaster[a]
  <2>1. fromMaster[a] \in Seq(FromMasterMsg)
    BY DEF TypeInv, TypeOK
  <2>2. m \in FromMasterMsg /\ m = fromMaster[a][1] /\ 1 \in DOMAIN fromMaster[a]
    BY <1>4, <2>1, HeadTailProperties, LenProperties
  <2> QED BY <2>2, FromMasterFields
<1>5. ASSUME NEW n \in Slaves PROVE Writable(n, p)' = Writable(n, p)
  <2>1. /\ n \in Nodes /\ Going(n, p) \in Nat /\ Back(n, p) \in Nat
        /\ Held(n, p) \in {0, 1} /\ Writable(n, p) \in {0, 1}
    BY <1>1, WritableNat DEF Nodes, TypeInv, Home
  <2>2. CASE handle_givepage_client(a)
    <3>1. /\ ReceivedOn(fromMaster, fromMaster', a) /\ toMaster' = toMaster
          /\ fromMaster[a] # <<>> /\ m.type = "GIVEPAGE" /\ MutexFree(a, m.page)
          /\ protection' = [protection EXCEPT ![a][m.page] = m.rights]
      BY <2>2 DEF handle_givepage_client, ClientReady, StorePage, ReceivedOn
    <3>2. Back(n, p)' = Back(n, p)
      BY <2>1, <3>1, WritableSame
    <3>3. /\ Going(n, p) = Going(n, p)' + IF n = a /\ IsGivepage(m, p, "readwrite") THEN 1 ELSE 0
          /\ Going(n, p)' \in Nat
      BY <2>1, <3>1, GoingReceive DEF TypeInv
    <3>4. CASE n = a /\ m.page = p
      <4>1. m.rights \in Access
        BY <1>4, <3>1 DEF RightsInv, RightsOf
      <4>2. protection'[n][p] = m.rights /\ lock'[n][p] # "release"
        BY <1>2, <2>1, <3>1, <3>4 DEF MutexFree, TypeInv, TypeOK
      <4>3. CASE m.rights = "readwrite"
        <5>1. Going(n, p) = Going(n, p)' + 1
          BY <3>1, <3>3, <3>4, <4>3 DEF IsGivepage
        <5>2. Held(n, p) = 0
          BY <2>1, <3>3, <5>1 DEF Writable
        <5>3. Held(n, p)' = 1
          BY <4>2, <4>3 DEF Held
        <5> QED BY <2>1, <3>2, <3>3, <5>1, <5>2, <5>3 DEF Writable
      <4>4. CASE m.rights = "read"
        <5>1. Going(n, p) = Going(n, p)' + 0
          BY <3>3, <4>4 DEF IsGivepage
        <5>2. Covered(n, p, 1)
          BY <1>4, <3>1, <3>4, <4>4 DEF CopiesInv, Copies, SentCopies, IsGivepage
        <5>3. Writable(n, p) = 0
          BY <1>1, <2>1, <5>2, ReadersAtHome
        <5>4. Held(n, p) = 0
          BY <2>1, <5>3 DEF Writable
        <5>5. Held(n, p)' = 0
          BY <4>2, <4>4 DEF Held
        <5> QED BY <2>1, <3>2, <3>3, <5>1, <5>4, <5>5 DEF Writable
      <4> QED BY <4>1, <4>3, <4>4 DEF Access
    <3>5. CASE n # a \/ m.page # p
      <4>1. Going(n, p) = Going(n, p)' + 0
        BY <3>3, <3>5 DEF IsGivepage
      <4>2. protection'[n][p] = protection[n][p]
        BY <1>4, <2>1, <3>1, <3>5 DEF TypeInv, TypeOK
      <4>3. Held(n, p)' = Held(n, p)
        BY <1>2, <4>2 DEF Held
      <4> QED BY <2>1, <3>2, <3>3, <4>1, <4>3 DEF Writable
    <3> QED BY <3>4, <3>5
  <2>3. CASE handle_invalidate_msg(a)
    <3>1. /\ ReceivedOn(fromMaster, fromMaster', a) /\ toMaster' = toMaster
          /\ fromMaster[a] # <<>> /\ m.type = "INVALIDATE"
          /\ protection' = [protection EXCEPT ![a][m.page] = "none"]
      BY <2>3 DEF handle_invalidate_msg, ClientReady, ReceivedOn
    <3>2. Back(n, p)' = Back(n, p)
      BY <2>1, <3>1, WritableSame
    <3>3. Going(n, p)' = Going(n, p)
      <4>1. ~IsGivepage(m, p, "readwrite")
        BY <3>1 DEF IsGivepage
      <4>2. Going(n, p) = Going(n, p)' + 0 /\ Going(n, p)' \in Nat
        BY <2>1, <3>1, <4>1, GoingReceive DEF TypeInv
      <4> QED BY <4>2
    <3>4. Held(n, p)' = Held(n, p)
      <4>1. CASE n = a /\ m.page = p
        <5>1. m = Invalidate(p)
          BY <1>4, <3>1, <4>1 DEF FromMasterMsg, Invalidate
        <5>2. Invalidations(n, p) # 0
          <6>1. fromMaster[n] \in Seq(FromMasterMsg)
            BY <2>1 DEF TypeInv, TypeOK
          <6> QED BY <1>4, <3>1, <4>1, <5>1, <6>1, CountNat DEF Invalidations
        <5>3. Pending(n, p) # 0
          BY <2>1, <5>2, CountsNat DEF Pending, TypeInv
        <5>4. Writable(n, p) = 0
          BY <1>1, <2>1, <5>3, ReadersAtHome
        <5>5. Held(n, p) = 0
          BY <2>1, <5>4 DEF Writable
        <5>6. protection'[n][p] = "none"
          BY <2>1, <3>1, <4>1 DEF TypeInv, TypeOK
        <5> QED BY <5>5, <5>6 DEF Held
      <4>2. CASE n # a \/ m.page # p
        <5>1. protection'[n][p] = protection[n][p]
          BY <1>4, <2>1, <3>1, <4>2 DEF TypeInv, TypeOK
        <5> QED BY <1>2, <5>1 DEF Held
      <4> QED BY <4>1, <4>2
    <3> QED BY <3>2, <3>3, <3>4 DEF Writable
  <2>4. CASE send_invalidate_ack(a)
    <3>1. PICK q \in ack_due[a] : SendToMaster(a, InvalidateAck(q))
      BY <2>4 DEF send_invalidate_ack
    <3>2. /\ InvalidateAck(q) \in ToMasterMsg
          /\ ~IsGivepage(InvalidateAck(q), p, "readwrite")
      BY <3>1 DEF InvalidateAck, ToMasterMsg, IsGivepage, TypeInv, TypeOK
    <3>3. Back(n, p)' = Back(n, p) + 0
      BY <2>1, <3>1, <3>2, BackSend DEF TypeInv
    <3>4. Going(n, p)' = Going(n, p) /\ Held(n, p)' = Held(n, p)
      BY <1>2, <2>1, <2>4, WritableSame DEF send_invalidate_ack
    <3> QED BY <2>1, <3>3, <3>4 DEF Writable
  <2> QED BY <2>2, <2>3, <2>4 DEF ClientHandler
<1>6. (MasterHolds(p)' <=> MasterHolds(p)) /\ Owner(p)' = Owner(p)
  BY <1>2, <1>3 DEF MasterHolds, Owner
<1>7. daemon' \in {<<"loop", p>>, <<"giveup", p>>} => uptodate'[Master][p]
  BY <1>1, <1>2, <1>3 DEF Home
<1> QED BY <1>1, <1>2, <1>5, <1>6, <1>7, SameHome
\* The handlers of the master for messages from slaves: a writable copy on its
\* way back becomes the copy of the master, and a read-only one comes back only
\* while the master still has the page.
LEMMA HomeServer ==
    ASSUME TypeInv, AcksInv, CopiesInv, RightsInv, MasterIdle, HomeInv,
           NEW a \in Nodes, ServerHandler(a)
    PROVE  HomeInv'
<1> USE DEF directoryVars, localVars
<1> SUFFICES ASSUME NEW p \in Pages PROVE Home(p)'
  BY DEF HomeInv
<1> DEFINE m == Head(toMaster[a])
<1>1. a \in Slaves /\ a # Master /\ Master \in Nodes /\ Home(p)
  BY SlaveHandler, MasterAssumption DEF Nodes, HomeInv
<1>2. /\ fromMaster' = fromMaster /\ lock' = lock
      /\ toMaster[a] # <<>> /\ ReceivedOn(toMaster, toMaster', a)
      /\ \A n \in Slaves : protection'[n][p] = protection[n][p]
      /\ daemon \in {Select, <<"accepted", a>>} /\ daemon' = <<"check", m.page>>
  BY MasterAssumption DEF ServerHandler, handle_lockpage_msg, handle_invalidate_ack_msg,
         handle_givepage_server, ServerReady, ReceivedOn, StorePage, Nodes, TypeInv, TypeOK
<1>3. /\ daemon \notin {<<"loop", p>>, <<"giveup", p>>}
      /\ daemon' \notin {<<"loop", p>>, <<"giveup", p>>}
  BY <1>2 DEF Select
<1>4. /\ m \in ToMasterMsg /\ m.page \in Pages
      /\ m = toMaster[a][1] /\ 1 \in DOMAIN toMaster[a]
  <2>1. toMaster[a] \in Seq(ToMasterMsg)
    BY DEF TypeInv, TypeOK
  <2>2. m \in ToMasterMsg /\ m = toMaster[a][1] /\ 1 \in DOMAIN toMaster[a]
    BY <1>2, <2>1, HeadTailProperties, LenProperties
  <2> QED BY <2>2, ToMasterFields
<1>5. /\ MasterHolds(p) <=> uptodate[Master][p]
      /\ MasterHolds(p)' <=> uptodate'[Master][p]
      /\ Owner(p) = write_owner[p] /\ Owner(p)' = write_owner'[p]
  BY <1>3 DEF MasterHolds, Owner
<1>6. ASSUME NEW n \in Slaves
      PROVE  /\ Writable(n, p) = Writable(n, p)' +
                    IF n = a /\ IsGivepage(m, p, "readwrite") THEN 1 ELSE 0
             /\ Writable(n, p)' \in Nat
  <2>1. n \in Nodes
    BY DEF Nodes
  <2>2. /\ Back(n, p) = Back(n, p)' + IF n = a /\ IsGivepage(m, p, "readwrite") THEN 1 ELSE 0
        /\ Back(n, p)' \in Nat
    BY <1>2, <2>1, BackReceive DEF TypeInv
  <2>3. Going(n, p)' = Going(n, p) /\ Held(n, p)' = Held(n, p)
    BY <1>2, <2>1, WritableSame
  <2>4. Going(n, p) \in Nat /\ Held(n, p) \in {0, 1}
    BY <2>1, WritableNat DEF TypeInv
  <2> QED BY <2>2, <2>3, <2>4 DEF Writable
<1>7. ASSUME ~IsGivepage(m, p, "readwrite"), NEW n \in Slaves
      PROVE  Writable(n, p)' = Writable(n, p)
  BY <1>6, <1>7
<1>8. CASE handle_lockpage_msg(a)
  <2>1. /\ ~IsGivepage(m, p, "readwrite") /\ readers' = readers
        /\ uptodate' = uptodate /\ write_owner' = write_owner
    BY <1>8 DEF handle_lockpage_msg, ServerReady, IsGivepage
  <2> QED BY <1>1, <1>3, <1>5, <1>7, <2>1, SameHome
<1>9. CASE handle_invalidate_ack_msg(a)
  <2>1. /\ ~IsGivepage(m, p, "readwrite")
        /\ uptodate' = uptodate /\ write_owner' = write_owner
        /\ readers' = [readers EXCEPT ![m.page] = RemoveFirst(@, a)]
    BY <1>9 DEF handle_invalidate_ack_msg, ServerReady, IsGivepage
  <2>2. readers'[p] # <<>> => readers[p] # <<>>
    <3>1. readers[p] \in Seq(Nodes)
      BY DEF TypeInv, TypeOK
    <3>2. readers'[p] = IF m.page = p THEN RemoveFirst(readers[p], a) ELSE readers[p]
      BY <2>1 DEF TypeInv, TypeOK
    <3>3. RemoveFirst(readers[p], a) \in Seq(Nodes)
          /\ Len(RemoveFirst(readers[p], a)) =< Len(readers[p])
      BY <3>1, RemoveFirstType, RemoveFirstLen
    <3> QED BY <3>1, <3>2, <3>3
  <2> QED BY <1>1, <1>3, <1>5, <1>7, <2>1, <2>2, SameHome
<1>10. CASE handle_givepage_server(a)
  <2>1. /\ m.type = "GIVEPAGE" /\ readers' = readers
        /\ uptodate'[Master][p] = IF m.page = p THEN TRUE ELSE uptodate[Master][p]
        /\ write_owner'[p] = IF m.page = p THEN Master ELSE write_owner[p]
    BY <1>1, <1>4, <1>10 DEF handle_givepage_server, ServerReady, StorePage, TypeInv, TypeOK
  <2>2. CASE m.page # p
    <3>1. ~IsGivepage(m, p, "readwrite")
      BY <2>2 DEF IsGivepage
    <3> QED BY <1>1, <1>3, <1>5, <1>7, <2>1, <2>2, <3>1, SameHome
  <2>3. CASE m.page = p /\ m.rights = "read"
    <3>1. ~IsGivepage(m, p, "readwrite") /\ IsGivepage(m, p, "read")
      BY <2>1, <2>3 DEF IsGivepage
    <3>2. ReturnCovered(a, p, 1)
      BY <1>1, <1>4, <3>1 DEF CopiesInv, Copies, ReturnedCopies
    <3>3. MasterHolds(p)
      BY <1>1, <3>2, ReadersAtHome
    <3> QED BY <1>1, <1>3, <1>5, <1>7, <2>1, <2>3, <3>1, <3>3, SameHome
  <2>4. CASE m.page = p /\ m.rights = "readwrite"
    <3>1. IsGivepage(m, p, "readwrite")
      BY <2>1, <2>4 DEF IsGivepage
    <3>2. \A n \in Slaves : Writable(n, p) = IF ~MasterHolds(p) /\ n = Owner(p) THEN 1 ELSE 0
      BY <1>1 DEF Home
    <3>3. Writable(a, p) = Writable(a, p)' + 1 /\ Writable(a, p)' \in Nat
      BY <1>1, <1>6, <3>1
    <3>4. a = Owner(p)
      BY <1>1, <3>2, <3>3
    <3>5. \A n \in Slaves : Writable(n, p)' = 0
      BY <1>6, <3>1, <3>2, <3>4
    <3>6. MasterHolds(p)'
      BY <1>5, <2>1, <2>4
    <3> QED BY <1>3, <3>5, <3>6 DEF Home
  <2>5. m.rights \in Access
    BY <1>4, <2>1 DEF RightsInv, RightsOf
  <2> QED BY <2>2, <2>3, <2>4, <2>5 DEF Access
<1> QED BY <1>8, <1>9, <1>10 DEF ServerHandler
\* process_list_requests: it serves readers only while the master has the page,
\* and the grant to a writer turns the copy of the master into one on its way.
LEMMA HomeProcess ==
    ASSUME TypeInv, MasterIdle, HomeInv, NEW b \in Pages, process_list_requests(b)
    PROVE  HomeInv'
<1> USE DEF directoryVars, localVars
<1> SUFFICES ASSUME NEW p \in Pages PROVE Home(p)'
  BY DEF HomeInv
<1> DEFINE q == Head(requests[b])
<1>1. Master \in Nodes /\ Home(p) /\ Home(b)
  BY DEF Nodes, HomeInv
<1>2. /\ toMaster' = toMaster /\ lock' = lock
      /\ \A n \in Slaves : protection'[n][p] = protection[n][p]
  BY MasterAssumption DEF process_list_requests, ProcessCheck, ServeReader, InvalidateReaders,
         AwaitReaders, GrantWriter, GrantWriterGiveup, daemon_fault, giveup_localpage,
         Nodes, TypeInv, TypeOK
<1>3. ASSUME NEW n \in Slaves
      PROVE  /\ Writable(n, p)' = Going(n, p)' + Held(n, p) + Back(n, p)
             /\ n \in Nodes /\ Going(n, p) \in Nat /\ Held(n, p) \in Nat /\ Back(n, p) \in Nat
  <2>1. n \in Nodes
    BY DEF Nodes
  <2>2. Held(n, p)' = Held(n, p) /\ Back(n, p)' = Back(n, p)
    BY <1>2, <2>1, WritableSame
  <2> QED BY <2>1, <2>2, WritableNat DEF Writable, TypeInv
<1>4. ASSUME NEW n \in Slaves, Going(n, p)' = Going(n, p)
      PROVE  Writable(n, p)' = Writable(n, p)
  BY <1>3, <1>4 DEF Writable
<1>5. ASSUME fromMaster' = fromMaster, NEW n \in Slaves
      PROVE  Writable(n, p)' = Writable(n, p)
  BY <1>3, <1>4, <1>5, WritableSame
<1>6. CASE ProcessCheck(b)
  <2>1. /\ fromMaster' = fromMaster /\ readers' = readers /\ uptodate' = uptodate
        /\ write_owner' = write_owner /\ daemon = <<"check", b>>
        /\ daemon' = IF uptodate[Master][b] /\ requests[b] # <<>> THEN <<"loop", b>> ELSE Select
    BY <1>6 DEF ProcessCheck
  <2>2. /\ daemon # <<"giveup", p>> /\ daemon' # <<"giveup", p>>
        /\ daemon' = <<"loop", p>> => uptodate'[Master][p]
    BY <2>1 DEF Select
  <2>3. (MasterHolds(p)' <=> MasterHolds(p)) /\ Owner(p)' = Owner(p)
    BY <2>1, <2>2 DEF MasterHolds, Owner
  <2> QED BY <1>1, <1>5, <2>1, <2>2, <2>3, SameHome
<1>7. CASE AwaitReaders(b) \/ daemon_fault(b) \/ InvalidateReaders(b) \/ ServeReader(b)
  <2>1. /\ uptodate' = uptodate /\ write_owner' = write_owner /\ daemon = <<"loop", b>>
        /\ daemon' \in {Select, <<"loop", b>>}
        /\ p # b \/ ~ServeReader(b) => readers'[p] = readers[p]
    BY <1>7 DEF AwaitReaders, daemon_fault, InvalidateReaders, ServeReader, AtRequest,
                AfterWait, TypeInv, TypeOK
  <2>2. /\ daemon # <<"giveup", p>> /\ daemon' # <<"giveup", p>>
        /\ daemon' = <<"loop", p>> => p = b /\ daemon = <<"loop", p>>
    BY <2>1 DEF Select
  <2>3. (MasterHolds(p)' <=> MasterHolds(p)) /\ Owner(p)' = Owner(p)
    BY <2>1, <2>2 DEF MasterHolds, Owner
  <2>4. MasterHolds(b) /\ (daemon' = <<"loop", p>> => uptodate'[Master][p])
    BY <1>1, <2>1, <2>2 DEF Home, MasterHolds
  <2>5. ASSUME NEW n \in Slaves PROVE Writable(n, p)' = Writable(n, p)
    <3>1. CASE AwaitReaders(b) \/ daemon_fault(b)
      <4>1. fromMaster' = fromMaster
        BY <3>1 DEF AwaitReaders, daemon_fault
      <4> QED BY <1>5, <4>1
    <3>2. CASE InvalidateReaders(b)
      <4>1. invalidate_readers(b)
        BY <3>2 DEF InvalidateReaders
      <4> QED BY <1>3, <1>4, <4>1, GoingInvalidate DEF TypeInv
    <3>3. CASE ServeReader(b)
      <4> DEFINE g == satisfy_request(Master, b, "read")
      <4>1. requests[b] # <<>> /\ SendFromMaster(q.from, g)
        BY <3>3 DEF ServeReader, AtRequest, TypeInv, LoopHasRequest
      <4>2. q.from \in Nodes
        BY <4>1, SlaveRequest DEF Nodes
      <4>3. g \in FromMasterMsg /\ ~IsGivepage(g, p, "readwrite")
        BY <1>1, PageMessage DEF IsGivepage, Rights, Access, TypeInv
      <4> HIDE DEF g
      <4>4. Going(n, p)' = Going(n, p) + 0
        BY <1>3, <4>1, <4>2, <4>3, GoingSend DEF TypeInv
      <4> QED BY <1>3, <1>4, <4>4
    <3> QED BY <1>7, <3>1, <3>2, <3>3
  <2> QED BY <1>1, <2>1, <2>2, <2>3, <2>4, <2>5, SameHome
<1>8. CASE GrantWriter(b)
  <2> DEFINE g == satisfy_request(Master, b, "readwrite")
  <2>1. /\ requests[b] # <<>> /\ SendFromMaster(q.from, g) /\ readers[b] = <<>>
        /\ daemon = <<"loop", b>> /\ daemon' = <<"giveup", b>> /\ requests' = requests
        /\ readers' = readers /\ uptodate' = uptodate /\ write_owner' = write_owner
    BY <1>8 DEF GrantWriter, NoReaders, AtRequest, TypeInv, LoopHasRequest
  <2>2. q.from \in Slaves /\ q.from \in Nodes
    BY <2>1, SlaveRequest DEF Nodes
  <2>3. g \in FromMasterMsg /\ (IsGivepage(g, p, "readwrite") <=> p = b)
    BY <1>1, PageMessage DEF IsGivepage, Rights, Access, TypeInv
  <2> HIDE DEF g
  <2>4. ASSUME NEW n \in Slaves
        PROVE  Going(n, p)' = Going(n, p) + IF n = q.from /\ p = b THEN 1 ELSE 0
    BY <1>3, <2>1, <2>2, <2>3, GoingSend DEF TypeInv
  <2>5. CASE p # b
    <3>1. ASSUME NEW n \in Slaves PROVE Writable(n, p)' = Writable(n, p)
      <4>1. Going(n, p)' = Going(n, p) + 0
        BY <2>4, <2>5
      <4> QED BY <1>3, <1>4, <4>1
    <3>2. daemon' \notin {<<"loop", p>>, <<"giveup", p>>} /\ daemon # <<"giveup", p>>
      BY <2>1, <2>5
    <3>3. (MasterHolds(p)' <=> MasterHolds(p)) /\ Owner(p)' = Owner(p)
      BY <2>1, <3>2 DEF MasterHolds, Owner
    <3> QED BY <1>1, <2>1, <3>1, <3>2, <3>3, SameHome
  <2>6. CASE p = b
    <3>1. uptodate[Master][p] /\ MasterHolds(p) /\ ~MasterHolds(p)'
      BY <1>1, <2>1, <2>6 DEF Home, MasterHolds
    <3>2. Owner(p)' = q.from
      BY <2>1, <2>6 DEF Owner
    <3>3. ASSUME NEW n \in Slaves
          PROVE  Writable(n, p)' = IF n = q.from THEN 1 ELSE 0
      <4>1. Going(n, p) + Held(n, p) + Back(n, p) = 0
        BY <1>1, <3>1 DEF Home, Writable
      <4>2. Going(n, p) = 0 /\ Held(n, p) = 0 /\ Back(n, p) = 0
        BY <1>3, <4>1
      <4> QED BY <1>3, <2>4, <2>6, <4>2
    <3> QED BY <2>1, <2>2, <2>6, <3>1, <3>2, <3>3 DEF Home
  <2> QED BY <2>5, <2>6
<1>9. CASE GrantWriterGiveup(b)
  <2>1. /\ fromMaster' = fromMaster /\ readers' = readers
        /\ daemon = <<"giveup", b>> /\ daemon' = Select
        /\ uptodate'[Master][p] = IF p = b THEN FALSE ELSE uptodate[Master][p]
        /\ write_owner'[p] = IF p = b THEN q.from ELSE write_owner[p]
    BY <1>1, <1>9 DEF GrantWriterGiveup, giveup_localpage, TypeInv, TypeOK
  <2>2. /\ daemon' \notin {<<"loop", p>>, <<"giveup", p>>}
        /\ daemon = <<"giveup", p>> <=> p = b
    BY <2>1 DEF Select
  <2>3. (MasterHolds(p)' <=> MasterHolds(p)) /\ Owner(p)' = Owner(p)
    BY <2>1, <2>2 DEF MasterHolds, Owner
  <2> QED BY <1>1, <1>5, <2>1, <2>2, <2>3, SameHome
<1> QED BY <1>6, <1>7, <1>8, <1>9 DEF process_list_requests

\* The writable copy of a page is with the master or in one place of the slave
\* that write_owner names, and there are readers only while the master has it.
THEOREM HomeCorrect ==
    ASSUME OnlySlavesCall
    PROVE  Spec => []HomeInv
<1>1. Init => HomeInv
  <2> SUFFICES ASSUME Init, NEW p \in Pages PROVE Home(p)
    BY DEF HomeInv
  <2>1. MasterHolds(p) /\ readers[p] = <<>> /\ daemon = Select
    BY DEF Init, MasterHolds, Select, Nodes
  <2>2. ASSUME NEW n \in Slaves PROVE Writable(n, p) = 0
    BY CountEmpty, MasterAssumption DEF Init, Writable, Going, Held, Back, Nodes
  <2> QED BY <2>1, <2>2 DEF Home, Select
<1>2. /\ TypeInv /\ AcksInv /\ CopiesInv /\ RightsInv /\ MasterIdle /\ HomeInv
      /\ [Next]_vars
      => HomeInv'
  <2> SUFFICES ASSUME TypeInv, AcksInv, CopiesInv, RightsInv, MasterIdle, HomeInv,
                      [Next]_vars
               PROVE  HomeInv'
    OBVIOUS
  <2>1. CASE \E a \in Nodes, b \in Pages : App(a, b)
    BY <2>1, HomeApp
  <2>2. CASE \E a \in Nodes : ClientHandler(a) \/ ServerHandler(a)
    BY <2>2, HomeClient, HomeServer
  <2>3. CASE \E b \in Pages : process_list_requests(b)
    BY <2>3, HomeProcess
  <2>4. CASE \/ BlockOnMutex
             \/ \E a \in Slaves : SlaveLost(a) \/ MasterLost(a)
             \/ UNCHANGED vars
    <3> SUFFICES ASSUME NEW p \in Pages PROVE Home(p)'
      BY DEF HomeInv
    <3> USE DEF directoryVars, localVars
    <3>1. /\ fromMaster' = fromMaster /\ toMaster' = toMaster /\ lock' = lock
          /\ protection' = protection /\ uptodate' = uptodate /\ readers' = readers
          /\ requests' = requests /\ write_owner' = write_owner
      BY <2>4 DEF BlockOnMutex, SlaveLost, MasterLost, vars
    <3>2. \/ daemon' = daemon
          \/ /\ daemon \notin {<<"loop", p>>, <<"giveup", p>>}
             /\ daemon' \notin {<<"loop", p>>, <<"giveup", p>>}
      BY <2>4 DEF BlockOnMutex, SlaveLost, MasterLost, vars, Select
    <3>3. ASSUME NEW n \in Slaves PROVE Writable(n, p)' = Writable(n, p)
      BY <3>1, WritableSame DEF Writable, Nodes
    <3>4. (MasterHolds(p)' <=> MasterHolds(p)) /\ Owner(p)' = Owner(p)
      BY <3>1, <3>2 DEF MasterHolds, Owner
    <3>5. Home(p)
      BY DEF HomeInv
    <3>6. daemon' \in {<<"loop", p>>, <<"giveup", p>>} => uptodate'[Master][p]
      BY <3>1, <3>2, <3>5 DEF Home
    <3> QED BY <3>1, <3>3, <3>4, <3>5, <3>6, SameHome
  <2> QED BY <2>1, <2>2, <2>3, <2>4 DEF Next
<1>3. Spec => []MasterIdle
  BY MasterStaysIdle
<1> QED BY <1>1, <1>2, <1>3, TypeCorrect, InvalidationsCorrect, CopiesCorrect,
           RightsCorrect, PTL DEF Spec
-----------------------------------------------------------------------------
(* The properties of the runs that follow.                                 *)

GoingAt(n, p) == {i \in DOMAIN fromMaster[n] : IsGivepage(fromMaster[n][i], p, "readwrite")}
BackAt(n, p) == {i \in DOMAIN toMaster[n] : IsGivepage(toMaster[n][i], p, "readwrite")}

\* Going and Back count the homes in the streams.
LEMMA CountedHomes ==
    ASSUME TypeOK, NEW n \in Nodes, NEW p \in Pages
    PROVE  /\ Going(n, p) = 0 <=> GoingAt(n, p) = {}
           /\ Going(n, p) = 1 => \E i : GoingAt(n, p) = {i}
           /\ Back(n, p) = 0 <=> BackAt(n, p) = {}
           /\ Back(n, p) = 1 => \E i : BackAt(n, p) = {i}
<1>1. toMaster[n] \in Seq(ToMasterMsg) /\ fromMaster[n] \in Seq(FromMasterMsg)
  BY DEF TypeOK
<1>2. GoingAt(n, p) = {i \in DOMAIN fromMaster[n] : fromMaster[n][i] \in WritablePages(p)}
  BY <1>1 DEF GoingAt, WritablePages
<1>3. BackAt(n, p) = {i \in DOMAIN toMaster[n] : toMaster[n][i] \in WritablePages(p)}
  BY <1>1 DEF BackAt, WritablePages
<1>4. Cardinality(GoingAt(n, p)) = Going(n, p) /\ Cardinality(BackAt(n, p)) = Back(n, p)
  BY <1>2, <1>3 DEF Going, Back, Count
<1>5. IsFiniteSet({i \in DOMAIN fromMaster[n] : fromMaster[n][i] \in WritablePages(p)})
  BY <1>1, PlacesFinite
<1>6. IsFiniteSet({i \in DOMAIN toMaster[n] : toMaster[n][i] \in WritablePages(p)})
  BY <1>1, PlacesFinite
<1>7. IsFiniteSet(GoingAt(n, p)) /\ IsFiniteSet(BackAt(n, p))
  BY <1>2, <1>3, <1>5, <1>6
<1> QED BY <1>4, <1>7, FS_EmptySet, FS_Singleton

\* Nothing of a page is in the streams of the master's own connection.
LEMMA NoOwnHomes ==
    ASSUME MasterIdle, NEW p \in Pages
    PROVE  GoingAt(Master, p) = {} /\ BackAt(Master, p) = {}
BY DEF MasterIdle, GoingAt, BackAt

AtMaster(p) == {h \in {<<"master", Master, 0>>} : MasterHolds(p)}
OnTheWay(p) == UNION {{<<"granted", n, i>> : i \in GoingAt(n, p)} : n \in Nodes}
AtSlave(p) == {<<"held", n, 0>> : n \in {s \in Slaves :
                    protection[s][p] = "readwrite" /\ lock[s][p] # "release"}}
OnTheWayBack(p) == UNION {{<<"returned", n, i>> : i \in BackAt(n, p)} : n \in Nodes}

\* Homes, one kind at a time.
LEMMA HomesAre ==
    ASSUME NEW p \in Pages, NEW h
    PROVE  h \in Homes(p) <=>
              \/ MasterHolds(p) /\ h = <<"master", Master, 0>>
              \/ \E n \in Nodes : \E i \in GoingAt(n, p) : h = <<"granted", n, i>>
              \/ \E n \in Slaves : Held(n, p) = 1 /\ h = <<"held", n, 0>>
              \/ \E n \in Nodes : \E i \in BackAt(n, p) : h = <<"returned", n, i>>
<1>1. h \in AtMaster(p) <=> MasterHolds(p) /\ h = <<"master", Master, 0>>
  BY DEF AtMaster
<1>2. h \in OnTheWay(p) <=> \E n \in Nodes : \E i \in GoingAt(n, p) : h = <<"granted", n, i>>
  BY DEF OnTheWay
<1>3. h \in AtSlave(p) <=> \E n \in Slaves : Held(n, p) = 1 /\ h = <<"held", n, 0>>
  BY DEF AtSlave, Held
<1>4. h \in OnTheWayBack(p) <=>
         \E n \in Nodes : \E i \in BackAt(n, p) : h = <<"returned", n, i>>
  BY DEF OnTheWayBack
<1>5. Homes(p) = AtMaster(p) \cup OnTheWay(p) \cup AtSlave(p) \cup OnTheWayBack(p)
  BY DEF Homes, AtMaster, OnTheWay, AtSlave, OnTheWayBack, GoingAt, BackAt
<1>6. \/ h \in AtMaster(p) \/ h \in OnTheWay(p) \/ h \in AtSlave(p) \/ h \in OnTheWayBack(p)
      <=> h \in Homes(p)
  BY <1>5
<1> QED BY <1>1, <1>2, <1>3, <1>4, <1>6

\* In a state of the invariant the homes of a page are one.
LEMMA SoleHome ==
    ASSUME TypeInv, MasterIdle, HomeInv, NEW p \in Pages
    PROVE  \E h : Homes(p) = {h}
<1> DEFINE o == Owner(p)
<1>1. /\ Home(p) /\ GoingAt(Master, p) = {} /\ BackAt(Master, p) = {}
      /\ \A n \in Nodes : n = Master \/ n \in Slaves
  BY NoOwnHomes DEF HomeInv, Nodes
<1>2. ASSUME NEW n \in Slaves
      PROVE  /\ n \in Nodes /\ Going(n, p) \in Nat /\ Held(n, p) \in {0, 1} /\ Back(n, p) \in Nat
             /\ Writable(n, p) = Going(n, p) + Held(n, p) + Back(n, p)
  BY WritableNat DEF Writable, TypeInv, Nodes
<1>3. ASSUME NEW n \in Slaves, Writable(n, p) = 0
      PROVE  GoingAt(n, p) = {} /\ Held(n, p) = 0 /\ BackAt(n, p) = {}
  <2>1. Going(n, p) = 0 /\ Held(n, p) = 0 /\ Back(n, p) = 0
    BY <1>2, <1>3
  <2> QED BY <1>2, <2>1, CountedHomes DEF TypeInv
<1>4. CASE MasterHolds(p)
  <2>1. \A n \in Slaves : GoingAt(n, p) = {} /\ Held(n, p) = 0 /\ BackAt(n, p) = {}
    BY <1>1, <1>3, <1>4 DEF Home
  <2>2. \A h : h \in Homes(p) <=> h = <<"master", Master, 0>>
    BY <1>1, <1>4, <2>1, HomesAre
  <2>3. Homes(p) = {<<"master", Master, 0>>}
    BY <2>2
  <2> QED BY <2>3
<1>5. CASE ~MasterHolds(p)
  <2>1. o \in Slaves /\ Writable(o, p) = 1
    BY <1>1, <1>5 DEF Home
  <2>2. \A n \in Nodes : n # o => GoingAt(n, p) = {} /\ BackAt(n, p) = {}
    BY <1>1, <1>3 DEF Home
  <2>3. \A n \in Slaves : n # o => Held(n, p) = 0
    BY <1>1, <1>3 DEF Home
  <2> HIDE DEF o
  <2>4. \A h : h \in Homes(p) <=>
            \/ \E i \in GoingAt(o, p) : h = <<"granted", o, i>>
            \/ Held(o, p) = 1 /\ h = <<"held", o, 0>>
            \/ \E i \in BackAt(o, p) : h = <<"returned", o, i>>
    BY <1>2, <1>5, <2>1, <2>2, <2>3, HomesAre
  <2>5. \/ Going(o, p) = 1 /\ Held(o, p) = 0 /\ Back(o, p) = 0
        \/ Going(o, p) = 0 /\ Held(o, p) = 1 /\ Back(o, p) = 0
        \/ Going(o, p) = 0 /\ Held(o, p) = 0 /\ Back(o, p) = 1
    BY <1>2, <2>1
  <2>6. CASE Going(o, p) = 1 /\ Held(o, p) = 0 /\ Back(o, p) = 0
    <3>1. PICK i : GoingAt(o, p) = {i}
      BY <1>2, <2>1, <2>6, CountedHomes DEF TypeInv
    <3>2. BackAt(o, p) = {}
      BY <1>2, <2>1, <2>6, CountedHomes DEF TypeInv
    <3>3. Homes(p) = {<<"granted", o, i>>}
      BY <2>4, <2>6, <3>1, <3>2
    <3> QED BY <3>3
  <2>7. CASE Going(o, p) = 0 /\ Held(o, p) = 1 /\ Back(o, p) = 0
    <3>1. GoingAt(o, p) = {} /\ BackAt(o, p) = {}
      BY <1>2, <2>1, <2>7, CountedHomes DEF TypeInv
    <3>2. Homes(p) = {<<"held", o, 0>>}
      BY <2>4, <2>7, <3>1
    <3> QED BY <3>2
  <2>8. CASE Going(o, p) = 0 /\ Held(o, p) = 0 /\ Back(o, p) = 1
    <3>1. PICK i : BackAt(o, p) = {i}
      BY <1>2, <2>1, <2>8, CountedHomes DEF TypeInv
    <3>2. GoingAt(o, p) = {}
      BY <1>2, <2>1, <2>8, CountedHomes DEF TypeInv
    <3>3. Homes(p) = {<<"returned", o, i>>}
      BY <2>4, <2>8, <3>1, <3>2
    <3> QED BY <3>3
  <2> QED BY <2>5, <2>6, <2>7, <2>8
<1> QED BY <1>4, <1>5

\* The writable copy of a page is in exactly one place.
THEOREM HomeIsOne ==
    ASSUME OnlySlavesCall
    PROVE  Spec => []OneHome
<1>1. TypeInv /\ MasterIdle /\ HomeInv => OneHome
  BY SoleHome, FS_Singleton DEF OneHome
<1>2. Spec => []MasterIdle
  BY MasterStaysIdle
<1>3. Spec => []HomeInv
  BY HomeCorrect
<1> QED BY <1>1, <1>2, <1>3, TypeCorrect, PTL

\* write_owner names the process that has the page, or that it is on the way to or
\* from, whenever the master does not have it.
THEOREM OwnerIsRecorded ==
    ASSUME OnlySlavesCall
    PROVE  Spec => []OwnerRecorded
<1>1. TypeInv /\ MasterIdle /\ HomeInv => OwnerRecorded
  <2> SUFFICES ASSUME TypeInv, MasterIdle, HomeInv, NEW p \in Pages,
                      ~uptodate[Master][p], NEW h \in Homes(p)
               PROVE  h[2] = write_owner[p]
    BY DEF OwnerRecorded
  <2>1. Home(p) /\ daemon # <<"giveup", p>> /\ ~MasterHolds(p)
    BY DEF HomeInv, Home, MasterHolds
  <2>2. Owner(p) = write_owner[p]
    BY <2>1 DEF Owner
  <2>3. ASSUME NEW n \in Slaves, n # Owner(p)
        PROVE  GoingAt(n, p) = {} /\ Held(n, p) = 0 /\ BackAt(n, p) = {}
    <3>1. Writable(n, p) = 0 /\ n \in Nodes
      BY <2>1, <2>3 DEF Home, Nodes
    <3>2. Going(n, p) = 0 /\ Held(n, p) = 0 /\ Back(n, p) = 0
      BY <3>1, WritableNat DEF Writable, TypeInv
    <3> QED BY <3>1, <3>2, CountedHomes DEF TypeInv
  <2> QED BY <2>1, <2>2, <2>3, HomesAre, NoOwnHomes DEF Nodes
<1>2. Spec => []MasterIdle
  BY MasterStaysIdle
<1>3. Spec => []HomeInv
  BY HomeCorrect
<1> QED BY <1>1, <1>2, <1>3, TypeCorrect, PTL

\* The writable copy of a page is never lost and never duplicated: through grants,
\* sections and returns it is in exactly one place, and write_owner says where.
THEOREM OneHomePerPage ==
    ASSUME OnlySlavesCall
    PROVE  Spec => []PageHasOneHome
<1>1. Spec => []OneHome
  BY HomeIsOne
<1>2. Spec => []OwnerRecorded
  BY OwnerIsRecorded
<1>3. OneHome /\ OwnerRecorded => PageHasOneHome
  BY DEF PageHasOneHome
<1> QED BY <1>1, <1>2, <1>3, PTL

\* lock_write is exclusive: while one process can store to a page in its section,
\* no other process is in a section in which it can load it.
THEOREM OneWriter ==
    ASSUME OnlySlavesCall
    PROVE  Spec => []SingleWriter
<1>1. TypeInv /\ AcksInv /\ CopiesInv /\ MasterIdle /\ HomeInv => SingleWriter
  <2> SUFFICES ASSUME TypeInv, AcksInv, CopiesInv, MasterIdle, HomeInv,
                      NEW p \in Pages, NEW n \in Nodes, NEW m \in Nodes,
                      n # m, Writing(n, p), Reading(m, p)
               PROVE  FALSE
    BY DEF SingleWriter
  <2>1. n \in Slaves /\ m \in Slaves /\ Home(p)
    BY DEF MasterIdle, Writing, Reading, Nodes, HomeInv
  <2>2. Held(n, p) = 1
    BY DEF Held, Writing
  <2>3. Writable(n, p) # 0
    BY <2>2, WritableNat DEF Writable, TypeInv
  <2>4. ~MasterHolds(p) /\ n = Owner(p)
    BY <2>1, <2>3 DEF Home
  <2>5. CASE protection[m][p] = "read"
    <3>1. Covered(m, p, 0)
      BY <2>1, <2>5 DEF CopiesInv, Copies, OwnCopy, Reading
    <3> QED BY <2>1, <2>4, <3>1, ReadersAtHome
  <2>6. CASE protection[m][p] = "readwrite"
    <3>1. Held(m, p) = 1
      BY <2>6 DEF Held, Reading
    <3>2. Writable(m, p) # 0
      BY <3>1, WritableNat DEF Writable, TypeInv
    <3> QED BY <2>1, <2>4, <3>2 DEF Home
  <2> QED BY <2>5, <2>6 DEF Reading, TypeInv, TypeOK, Rights, Access
<1>2. Spec => []MasterIdle
  BY MasterStaysIdle
<1>3. Spec => []HomeInv
  BY HomeCorrect
<1> QED BY <1>1, <1>2, <1>3, TypeCorrect, InvalidationsCorrect, CopiesCorrect, PTL
-----------------------------------------------------------------------------
(* Every copy of a page, in a memory or in a message, is its last version: *)
(* a store happens only when there is no other copy.                       *)

FreshPages(s, p) ==
    \A i \in DOMAIN s : s[i].type = "GIVEPAGE" /\ s[i].page = p => s[i].data = version[p]

FreshStreams(n, p) == FreshPages(fromMaster[n], p) /\ FreshPages(toMaster[n], p)
FreshCopy(n, p) ==
    protection[n][p] # "none" /\ lock[n][p] # "release" => content[n][p] = version[p]

Fresh(p) ==
    /\ MasterHolds(p) => content[Master][p] = version[p]
    /\ \A n \in Slaves : FreshCopy(n, p) /\ FreshStreams(n, p)

FreshInv == \A p \in Pages : Fresh(p)

\* What the proofs below start from.
Invs == TypeInv /\ AcksInv /\ CopiesInv /\ RightsInv /\ MasterIdle /\ HomeInv

\* A stream stays fresh for p when nothing happens to it, when a message is taken from
\* it, when messages without pages are added, or a fresh copy of p.
FreshStep(S, s, t, p, v) ==
    \/ t = s
    \/ s # <<>> /\ t = Tail(s)
    \/ \E m \in S : t = Append(s, m) /\ (m.type = "GIVEPAGE" /\ m.page = p => m.data = v)
    \/ \E u \in Seq(S) : t = s \o u /\ \A i \in DOMAIN u : u[i].type # "GIVEPAGE"

\* Such a step keeps the stream fresh.
LEMMA FreshKept ==
    ASSUME NEW S, NEW s \in Seq(S), NEW t, NEW p, FreshPages(s, p),
           FreshStep(S, s, t, p, version[p])
    PROVE  FreshPages(t, p)
<1> USE DEF FreshPages
<1>1. CASE t = s
  BY <1>1
<1>2. CASE s # <<>> /\ t = Tail(s)
  BY <1>2, TailAt
<1>3. ASSUME NEW m \in S, t = Append(s, m),
             m.type = "GIVEPAGE" /\ m.page = p => m.data = version[p]
      PROVE  FreshPages(t, p)
  BY <1>3, AppendAt
<1>4. ASSUME NEW u \in Seq(S), t = s \o u, \A i \in DOMAIN u : u[i].type # "GIVEPAGE"
      PROVE  FreshPages(t, p)
  <2>1. \A i \in DOMAIN t : \/ i \in DOMAIN s /\ t[i] = s[i]
                            \/ i - Len(s) \in DOMAIN u /\ t[i] = u[i - Len(s)]
    BY <1>4, ConcatProperties, LenProperties
  <2> QED BY <1>4, <2>1
<1> QED BY <1>1, <1>2, <1>3, <1>4 DEF FreshStep

\* While a slave has the writable copy in its memory there is no other copy: not
\* with the master, not in a message, and not with another slave.
LEMMA NoOtherCopy ==
    ASSUME Invs, NEW a \in Slaves, NEW p \in Pages, Held(a, p) = 1
    PROVE  /\ ~MasterHolds(p)
           /\ \A n \in Slaves :
                 /\ n # a => protection[n][p] = "none" \/ lock[n][p] = "release"
                 /\ \A i \in DOMAIN fromMaster[n] :
                       ~(fromMaster[n][i].type = "GIVEPAGE" /\ fromMaster[n][i].page = p)
                 /\ \A i \in DOMAIN toMaster[n] :
                       ~(toMaster[n][i].type = "GIVEPAGE" /\ toMaster[n][i].page = p)
<1> USE DEF Invs
<1>1. ASSUME NEW n \in Slaves
      PROVE  /\ n \in Nodes /\ Going(n, p) \in Nat /\ Held(n, p) \in {0, 1} /\ Back(n, p) \in Nat
             /\ Writable(n, p) = Going(n, p) + Held(n, p) + Back(n, p)
  BY WritableNat DEF Writable, TypeInv, Nodes
<1>2. Home(p) /\ Writable(a, p) # 0
  BY <1>1 DEF HomeInv
<1>3. ~MasterHolds(p) /\ a = Owner(p) /\ Writable(a, p) = 1
  BY <1>2 DEF Home
<1>4. ASSUME NEW n \in Slaves
      PROVE  Going(n, p) = 0 /\ Back(n, p) = 0 /\ (n # a => Held(n, p) = 0)
  <2>1. CASE n = a
    BY <1>1, <1>3, <2>1
  <2>2. CASE n # a
    <3>1. Writable(n, p) = 0
      BY <1>2, <1>3, <2>2 DEF Home
    <3> QED BY <1>1, <3>1
  <2> QED BY <2>1, <2>2
<1>5. ASSUME NEW n \in Slaves, NEW i, Covered(n, p, i) \/ ReturnCovered(n, p, i)
      PROVE  FALSE
  BY <1>1, <1>2, <1>3, <1>5, ReadersAtHome
<1>6. ASSUME NEW n \in Slaves, n # a, protection[n][p] # "none", lock[n][p] # "release"
      PROVE  FALSE
  <2>1. protection[n][p] \in Access
    BY <1>1, <1>6 DEF TypeInv, TypeOK, Rights
  <2>2. protection[n][p] # "readwrite"
    BY <1>4, <1>6 DEF Held
  <2>3. protection[n][p] # "read"
    BY <1>5, <1>6 DEF CopiesInv, Copies, OwnCopy
  <2> QED BY <2>1, <2>2, <2>3 DEF Access
<1>7. ASSUME NEW n \in Slaves, NEW i \in DOMAIN fromMaster[n],
             fromMaster[n][i].type = "GIVEPAGE", fromMaster[n][i].page = p
      PROVE  FALSE
  <2>1. fromMaster[n][i].rights \in Access
    BY <1>1, <1>7 DEF RightsInv, RightsOf
  <2>2. GoingAt(n, p) = {}
    BY <1>1, <1>4, CountedHomes DEF TypeInv
  <2>3. fromMaster[n][i].rights # "readwrite"
    BY <1>7, <2>2 DEF GoingAt, IsGivepage
  <2>4. fromMaster[n][i].rights # "read"
    BY <1>5, <1>7 DEF CopiesInv, Copies, SentCopies, IsGivepage
  <2> QED BY <2>1, <2>3, <2>4 DEF Access
<1>8. ASSUME NEW n \in Slaves, NEW i \in DOMAIN toMaster[n],
             toMaster[n][i].type = "GIVEPAGE", toMaster[n][i].page = p
      PROVE  FALSE
  <2>1. toMaster[n][i].rights \in Access
    BY <1>1, <1>8 DEF RightsInv, RightsOf
  <2>2. BackAt(n, p) = {}
    BY <1>1, <1>4, CountedHomes DEF TypeInv
  <2>3. toMaster[n][i].rights # "readwrite"
    BY <1>8, <2>2 DEF BackAt, IsGivepage
  <2>4. toMaster[n][i].rights # "read"
    BY <1>5, <1>8 DEF CopiesInv, Copies, ReturnedCopies, IsGivepage
  <2> QED BY <2>1, <2>3, <2>4 DEF Access
<1> QED BY <1>3, <1>6, <1>7, <1>8

\* A store makes a new version, and the copy it is made in is the only one.
LEMMA FreshStore ==
    ASSUME OnlySlavesCall, Invs, FreshInv, NEW a \in Nodes, NEW b \in Pages, Store(a, b)
    PROVE  FreshInv'
<1> USE DEF directoryVars
<1> SUFFICES ASSUME NEW p \in Pages PROVE Fresh(p)'
  BY DEF FreshInv
<1>1. a \in Slaves /\ a # Master /\ Master \in Nodes /\ Fresh(p)
  BY SlaveApp, MasterAssumption DEF App, Invs, FreshInv, Nodes
<1>2. /\ fromMaster' = fromMaster /\ toMaster' = toMaster /\ protection' = protection
      /\ lock' = lock /\ uptodate' = uptodate /\ daemon' = daemon
      /\ version' = [version EXCEPT ![b] = @ + 1]
      /\ content' = [content EXCEPT ![a][b] = version[b] + 1]
      /\ Held(a, b) = 1
  BY DEF Store, Held
<1>3. content'[Master] = content[Master]
  BY <1>1, <1>2 DEF Invs, TypeInv, TypeOK
<1>4. MasterHolds(p)' <=> MasterHolds(p)
  BY <1>2 DEF MasterHolds
<1>5. CASE p # b
  <2>1. version'[p] = version[p] /\ \A n \in Slaves : content'[n][p] = content[n][p]
    BY <1>1, <1>2, <1>5 DEF Invs, TypeInv, TypeOK, Nodes
  <2> QED BY <1>1, <1>2, <1>3, <1>4, <2>1 DEF Fresh, FreshCopy, FreshStreams, FreshPages
<1>6. CASE p = b
  <2>1. content'[a][p] = version'[p]
    BY <1>2, <1>6 DEF Invs, TypeInv, TypeOK
  <2>2. /\ ~MasterHolds(p)
        /\ \A n \in Slaves :
              /\ n # a => protection[n][p] = "none" \/ lock[n][p] = "release"
              /\ \A i \in DOMAIN fromMaster[n] :
                    ~(fromMaster[n][i].type = "GIVEPAGE" /\ fromMaster[n][i].page = p)
              /\ \A i \in DOMAIN toMaster[n] :
                    ~(toMaster[n][i].type = "GIVEPAGE" /\ toMaster[n][i].page = p)
    BY <1>1, <1>2, <1>6, NoOtherCopy
  <2> QED BY <1>2, <1>4, <2>1, <2>2 DEF Fresh, FreshCopy, FreshStreams, FreshPages
<1> QED BY <1>5, <1>6
\* A step that makes no new version keeps the copies fresh when what it puts in a
\* memory or in a stream is fresh.
LEMMA FreshAfter ==
    ASSUME TypeInv, NEW p \in Pages, Fresh(p), version' = version,
           MasterHolds(p)' => content'[Master][p] = version[p],
           \A n \in Slaves :
              /\ \/ protection'[n][p] = "none"
                 \/ lock'[n][p] = "release"
                 \/ content'[n][p] = version[p]
                 \/ /\ protection[n][p] # "none" /\ lock[n][p] # "release"
                    /\ content'[n][p] = content[n][p]
              /\ FreshStep(FromMasterMsg, fromMaster[n], fromMaster'[n], p, version[p])
              /\ FreshStep(ToMasterMsg, toMaster[n], toMaster'[n], p, version[p])
    PROVE  Fresh(p)'
<1>1. ASSUME NEW n \in Slaves PROVE FreshCopy(n, p)' /\ FreshStreams(n, p)'
  <2>1. fromMaster[n] \in Seq(FromMasterMsg) /\ toMaster[n] \in Seq(ToMasterMsg)
    BY DEF TypeInv, TypeOK, Nodes
  <2>2. FreshPages(fromMaster[n], p) /\ FreshPages(toMaster[n], p) /\ FreshCopy(n, p)
    BY DEF Fresh, FreshStreams
  <2>3. FreshPages(fromMaster'[n], p)
    BY <2>1, <2>2, FreshKept
  <2>4. FreshPages(toMaster'[n], p)
    BY <2>1, <2>2, FreshKept
  <2>5. FreshStreams(n, p)'
    BY <2>3, <2>4 DEF FreshStreams, FreshPages
  <2>6. FreshCopy(n, p)'
    BY <2>2 DEF FreshCopy
  <2> QED BY <2>5, <2>6
<1> QED BY <1>1 DEF Fresh

\* Lock and unlock calls: unlock_write sends the copy of the section.
LEMMA FreshApp ==
    ASSUME OnlySlavesCall, Invs, FreshInv, NEW a \in Nodes, NEW b \in Pages, App(a, b),
           ~Store(a, b)
    PROVE  FreshInv'
<1> USE DEF directoryVars, localVars
<1> SUFFICES ASSUME NEW p \in Pages PROVE Fresh(p)'
  BY DEF FreshInv
<1>0. TypeInv /\ MasterIdle
  BY DEF Invs
<1>1. a \in Slaves /\ a # Master /\ Master \in Nodes /\ Fresh(p) /\ Fresh(b)
  BY <1>0, SlaveApp, MasterAssumption DEF FreshInv, Nodes
<1>2. /\ fromMaster' = fromMaster /\ daemon' = daemon /\ version' = version
      /\ content' = content
  BY DEF App, lock_page_hit, lock_page_miss, lock_page_wake, app_fault,
         unlock_read, unlock_write_send, unlock_write_giveup
<1>3. uptodate'[Master] = uptodate[Master]
  BY <1>0, <1>1, AppOthers DEF TypeInv
<1>4. MasterHolds(p)' => content'[Master][p] = version[p]
  BY <1>1, <1>2, <1>3 DEF MasterHolds, Fresh
<1>5. ASSUME NEW n \in Slaves
      PROVE  \/ protection'[n][p] = "none"
             \/ lock'[n][p] = "release"
             \/ protection[n][p] # "none" /\ lock[n][p] # "release"
  <2>1. n \in Nodes
    BY DEF Nodes
  <2>2. CASE unlock_write_giveup(a, b)
    <3>1. /\ protection' = [protection EXCEPT ![a][b] = "none"]
          /\ lock' = [lock EXCEPT ![a][b] = "free"]
      BY <2>2 DEF unlock_write_giveup, giveup_localpage
    <3>2. CASE n = a /\ p = b
      BY <1>0, <2>1, <3>1, <3>2 DEF TypeInv, TypeOK
    <3>3. CASE n # a \/ p # b
      BY <1>0, <2>1, <3>1, <3>3 DEF TypeInv, TypeOK
    <3> QED BY <3>2, <3>3
  <2>3. CASE ~unlock_write_giveup(a, b)
    <3>1. protection' = protection
      BY <2>3 DEF App, lock_page_hit, lock_page_miss, lock_page_wake, Store, app_fault,
           unlock_read, unlock_write_send
    <3>2. lock[n][p] = "release" => lock'[n][p] = "release"
      <4>1. ASSUME NEW r \in Access,
                   \/ lock_page_hit(a, b, r) \/ lock_page_miss(a, b, r)
                   \/ lock_page_wake(a, b, r)
            PROVE  lock[n][p] = "release" => lock'[n][p] = "release"
        <5>1. /\ lock[a][b] # "release"
              /\ \/ lock' = [lock EXCEPT ![a][b] = Holding(r)]
                 \/ lock' = [lock EXCEPT ![a][b] = Asking(r)]
          BY <4>1 DEF lock_page_hit, lock_page_miss, lock_page_wake, Asking
        <5>2. lock \in [Nodes -> [Pages -> LockState]]
          BY <1>0 DEF TypeInv, TypeOK
        <5>3. CASE n = a /\ p = b
          BY <5>1, <5>3
        <5>4. CASE n # a \/ p # b
          BY <2>1, <5>1, <5>2, <5>4
        <5> QED BY <5>3, <5>4
      <4>2. CASE Store(a, b) \/ app_fault(a, b)
        BY <4>2 DEF Store, app_fault
      <4>3. CASE unlock_read(a, b)
        BY <1>0, <2>1, <4>3 DEF unlock_read, TypeInv, TypeOK
      <4>4. CASE unlock_write_send(a, b)
        BY <1>0, <2>1, <4>4 DEF unlock_write_send, TypeInv, TypeOK
      <4> QED BY <2>3, <4>1, <4>2, <4>3, <4>4 DEF App
    <3> QED BY <3>1, <3>2
  <2> QED BY <2>2, <2>3
<1>6. ASSUME NEW n \in Slaves
      PROVE  FreshStep(ToMasterMsg, toMaster[n], toMaster'[n], p, version[p])
  <2>1. n \in Nodes
    BY DEF Nodes
  <2>2. ASSUME NEW m \in ToMasterMsg, SendToMaster(a, m),
               m.type = "GIVEPAGE" /\ m.page = p => m.data = version[p]
        PROVE  FreshStep(ToMasterMsg, toMaster[n], toMaster'[n], p, version[p])
    BY <1>0, <2>1, <2>2 DEF SendToMaster, TypeInv, TypeOK, FreshStep
  <2>3. ASSUME NEW r \in Access, lock_page_miss(a, b, r)
        PROVE  FreshStep(ToMasterMsg, toMaster[n], toMaster'[n], p, version[p])
    <3>1. Lockpage(b, r) \in ToMasterMsg /\ Lockpage(b, r).type # "GIVEPAGE"
      BY DEF Lockpage, ToMasterMsg
    <3> QED BY <2>2, <2>3, <3>1 DEF lock_page_miss
  <2>4. CASE unlock_write_send(a, b)
    <3> DEFINE m == satisfy_request(a, b, protection[a][b])
    <3>1. m \in ToMasterMsg /\ SendToMaster(a, m)
      BY <1>0, <2>4, PageMessage DEF unlock_write_send, TypeInv
    <3>2. content[a][b] = version[b]
      BY <1>1, <2>4 DEF unlock_write_send, Fresh, FreshCopy
    <3>3. m.page = b /\ m.data = version[b]
      BY <3>2 DEF satisfy_request
    <3> HIDE DEF m
    <3> QED BY <2>2, <3>1, <3>3
  <2>5. ASSUME toMaster' = toMaster
        PROVE  FreshStep(ToMasterMsg, toMaster[n], toMaster'[n], p, version[p])
    BY <2>5 DEF FreshStep
  <2> QED BY <2>3, <2>4, <2>5 DEF App, lock_page_hit, lock_page_wake, Store, app_fault,
           unlock_read, unlock_write_giveup
<1>7. ASSUME NEW n \in Slaves
      PROVE  FreshStep(FromMasterMsg, fromMaster[n], fromMaster'[n], p, version[p])
  BY <1>2 DEF FreshStep
<1> QED BY <1>0, <1>1, <1>2, <1>4, <1>5, <1>6, <1>7, FreshAfter

\* The handlers of a slave: it stores what it receives.
LEMMA FreshClient ==
    ASSUME Invs, FreshInv, NEW a \in Nodes, ClientHandler(a)
    PROVE  FreshInv'
<1> USE DEF directoryVars, localVars
<1> SUFFICES ASSUME NEW p \in Pages PROVE Fresh(p)'
  BY DEF FreshInv
<1> DEFINE m == Head(fromMaster[a])
<1>0. TypeInv /\ MasterIdle
  BY DEF Invs
<1>1. a \in Slaves /\ a # Master /\ Master \in Nodes /\ Fresh(p)
  BY <1>0, SlaveHandler, MasterAssumption DEF FreshInv, Nodes
<1>2. /\ daemon' = daemon /\ version' = version /\ lock' = lock
      /\ uptodate'[Master] = uptodate[Master] /\ content'[Master] = content[Master]
  BY <1>0, <1>1 DEF ClientHandler, handle_givepage_client, handle_invalidate_msg,
         send_invalidate_ack, StorePage, TypeInv, TypeOK
<1>3. MasterHolds(p)' => content'[Master][p] = version[p]
  BY <1>1, <1>2 DEF MasterHolds, Fresh
<1>4. ASSUME NEW n \in Slaves
      PROVE  /\ \/ protection'[n][p] = "none"
                \/ content'[n][p] = version[p]
                \/ content'[n][p] = content[n][p] /\ protection'[n][p] = protection[n][p]
             /\ FreshStep(FromMasterMsg, fromMaster[n], fromMaster'[n], p, version[p])
             /\ FreshStep(ToMasterMsg, toMaster[n], toMaster'[n], p, version[p])
  <2>1. n \in Nodes
    BY DEF Nodes
  <2>2. CASE handle_givepage_client(a)
    <3>1. /\ fromMaster[a] # <<>> /\ m.type = "GIVEPAGE" /\ toMaster' = toMaster
          /\ fromMaster' = [fromMaster EXCEPT ![a] = Tail(@)]
          /\ content' = [content EXCEPT ![a][m.page] = m.data]
          /\ protection' = [protection EXCEPT ![a][m.page] = m.rights]
      BY <2>2 DEF handle_givepage_client, ClientReady, StorePage
    <3>2. m = fromMaster[a][1] /\ 1 \in DOMAIN fromMaster[a]
      BY <1>0, <3>1, HeadTailProperties, LenProperties DEF TypeInv, TypeOK
    <3>3. m.page = p => m.data = version[p]
      BY <1>1, <3>1, <3>2 DEF Fresh, FreshStreams, FreshPages
    <3>4. \/ content'[n][p] = version[p]
          \/ content'[n][p] = content[n][p] /\ protection'[n][p] = protection[n][p]
      BY <1>0, <2>1, <3>1, <3>3 DEF TypeInv, TypeOK
    <3>5. \/ fromMaster'[n] = fromMaster[n]
          \/ fromMaster[n] # <<>> /\ fromMaster'[n] = Tail(fromMaster[n])
      BY <1>0, <2>1, <3>1 DEF TypeInv, TypeOK
    <3> QED BY <3>1, <3>4, <3>5 DEF FreshStep
  <2>3. CASE handle_invalidate_msg(a)
    <3>1. /\ fromMaster[a] # <<>> /\ toMaster' = toMaster /\ content' = content
          /\ fromMaster' = [fromMaster EXCEPT ![a] = Tail(@)]
          /\ protection' = [protection EXCEPT ![a][m.page] = "none"]
      BY <2>3 DEF handle_invalidate_msg, ClientReady
    <3>2. protection'[n][p] = "none" \/ protection'[n][p] = protection[n][p]
      BY <1>0, <2>1, <3>1 DEF TypeInv, TypeOK
    <3>3. \/ fromMaster'[n] = fromMaster[n]
          \/ fromMaster[n] # <<>> /\ fromMaster'[n] = Tail(fromMaster[n])
      BY <1>0, <2>1, <3>1 DEF TypeInv, TypeOK
    <3> QED BY <3>1, <3>2, <3>3 DEF FreshStep
  <2>4. CASE send_invalidate_ack(a)
    <3>1. PICK q \in ack_due[a] : SendToMaster(a, InvalidateAck(q))
      BY <2>4 DEF send_invalidate_ack
    <3>2. InvalidateAck(q) \in ToMasterMsg /\ InvalidateAck(q).type # "GIVEPAGE"
      BY <1>0, <3>1 DEF InvalidateAck, ToMasterMsg, TypeInv, TypeOK
    <3>3. FreshStep(ToMasterMsg, toMaster[n], toMaster'[n], p, version[p])
      BY <1>0, <2>1, <3>1, <3>2 DEF SendToMaster, TypeInv, TypeOK, FreshStep
    <3>4. fromMaster' = fromMaster /\ content' = content /\ protection' = protection
      BY <2>4 DEF send_invalidate_ack
    <3> QED BY <3>3, <3>4 DEF FreshStep
  <2> QED BY <2>2, <2>3, <2>4 DEF ClientHandler
<1>5. ASSUME NEW n \in Slaves, content'[n][p] = content[n][p],
             protection'[n][p] = protection[n][p]
      PROVE  \/ protection'[n][p] = "none"
             \/ lock'[n][p] = "release"
             \/ /\ protection[n][p] # "none" /\ lock[n][p] # "release"
                /\ content'[n][p] = content[n][p]
  BY <1>2, <1>5
<1> QED BY <1>0, <1>1, <1>2, <1>3, <1>4, <1>5, FreshAfter
\* The handlers of the master: it stores the copy that comes back.
LEMMA FreshServer ==
    ASSUME Invs, FreshInv, NEW a \in Nodes, ServerHandler(a)
    PROVE  FreshInv'
<1> USE DEF directoryVars, localVars
<1> SUFFICES ASSUME NEW p \in Pages PROVE Fresh(p)'
  BY DEF FreshInv
<1> DEFINE m == Head(toMaster[a])
<1>0. TypeInv /\ MasterIdle
  BY DEF Invs
<1>1. a \in Slaves /\ Master \in Nodes /\ Fresh(p)
  BY <1>0, SlaveHandler DEF FreshInv, Nodes
<1>2. /\ fromMaster' = fromMaster /\ version' = version /\ lock' = lock
      /\ toMaster[a] # <<>> /\ toMaster' = [toMaster EXCEPT ![a] = Tail(@)]
      /\ daemon \in {Select, <<"accepted", a>>}
  BY DEF ServerHandler, handle_lockpage_msg, handle_invalidate_ack_msg,
         handle_givepage_server, ServerReady
<1>3. \A n \in Slaves : protection'[n] = protection[n] /\ content'[n] = content[n]
  BY <1>0, MasterAssumption DEF ServerHandler, handle_lockpage_msg, handle_invalidate_ack_msg,
         handle_givepage_server, StorePage, Nodes, TypeInv, TypeOK
<1>4. /\ m = toMaster[a][1] /\ 1 \in DOMAIN toMaster[a]
  BY <1>0, <1>2, HeadTailProperties, LenProperties DEF TypeInv, TypeOK
<1>5. MasterHolds(p)' => content'[Master][p] = version[p]
  <2>1. CASE handle_lockpage_msg(a) \/ handle_invalidate_ack_msg(a)
    <3>1. uptodate' = uptodate /\ content' = content /\ daemon # <<"giveup", p>>
      BY <1>2, <2>1 DEF handle_lockpage_msg, handle_invalidate_ack_msg, Select
    <3> QED BY <1>1, <3>1 DEF MasterHolds, Fresh
  <2>2. CASE handle_givepage_server(a)
    <3>1. /\ m.type = "GIVEPAGE" /\ daemon # <<"giveup", p>>
          /\ content' = [content EXCEPT ![Master][m.page] = m.data]
          /\ uptodate' = [uptodate EXCEPT ![Master][m.page] = TRUE]
      BY <1>2, <2>2 DEF handle_givepage_server, ServerReady, StorePage, Select
    <3>2. m.page = p => m.data = version[p]
      BY <1>1, <1>4, <3>1 DEF Fresh, FreshStreams, FreshPages
    <3>3. CASE m.page = p
      BY <1>0, <1>1, <3>1, <3>2, <3>3 DEF TypeInv, TypeOK
    <3>4. CASE m.page # p
      <4>1. content'[Master][p] = content[Master][p] /\ uptodate'[Master][p] = uptodate[Master][p]
        BY <1>0, <1>1, <3>1, <3>4 DEF TypeInv, TypeOK
      <4> QED BY <1>1, <3>1, <4>1 DEF MasterHolds, Fresh
    <3> QED BY <3>3, <3>4
  <2> QED BY <2>1, <2>2 DEF ServerHandler
<1>6. ASSUME NEW n \in Slaves
      PROVE  /\ FreshStep(FromMasterMsg, fromMaster[n], fromMaster'[n], p, version[p])
             /\ FreshStep(ToMasterMsg, toMaster[n], toMaster'[n], p, version[p])
  <2>1. \/ toMaster'[n] = toMaster[n]
        \/ toMaster[n] # <<>> /\ toMaster'[n] = Tail(toMaster[n])
    BY <1>0, <1>2 DEF TypeInv, TypeOK, Nodes
  <2> QED BY <1>2, <2>1 DEF FreshStep
<1> QED BY <1>0, <1>1, <1>2, <1>3, <1>5, <1>6, FreshAfter

\* process_list_requests: it sends the copy of the master, which has the page.
LEMMA FreshProcess ==
    ASSUME Invs, FreshInv, NEW b \in Pages, process_list_requests(b)
    PROVE  FreshInv'
<1> USE DEF directoryVars, localVars
<1> SUFFICES ASSUME NEW p \in Pages PROVE Fresh(p)'
  BY DEF FreshInv
<1>0. TypeInv /\ MasterIdle /\ HomeInv
  BY DEF Invs
<1>1. Master \in Nodes /\ Fresh(p) /\ Fresh(b) /\ Home(p) /\ Home(b)
  BY <1>0 DEF FreshInv, HomeInv, Nodes
<1>2. toMaster' = toMaster /\ version' = version /\ lock' = lock /\ content' = content
  BY DEF process_list_requests, ProcessCheck, ServeReader, InvalidateReaders, AwaitReaders,
         GrantWriter, GrantWriterGiveup, daemon_fault
<1>3. \A n \in Slaves : protection'[n] = protection[n]
  BY <1>0, MasterAssumption DEF process_list_requests, ProcessCheck, ServeReader,
         InvalidateReaders, AwaitReaders, GrantWriter, GrantWriterGiveup, daemon_fault,
         giveup_localpage, Nodes, TypeInv, TypeOK
<1>4. MasterHolds(p)' => content'[Master][p] = version[p]
  <2>1. CASE GrantWriterGiveup(b)
    <3>1. /\ daemon = <<"giveup", b>>
          /\ uptodate' = [uptodate EXCEPT ![Master][b] = FALSE]
      BY <2>1 DEF GrantWriterGiveup, giveup_localpage
    <3>2. CASE p = b
      BY <1>0, <1>1, <3>1, <3>2 DEF MasterHolds, TypeInv, TypeOK
    <3>3. CASE p # b
      <4>1. uptodate'[Master][p] = uptodate[Master][p] /\ daemon # <<"giveup", p>>
        BY <1>0, <1>1, <3>1, <3>3 DEF TypeInv, TypeOK
      <4> QED BY <1>1, <1>2, <4>1 DEF MasterHolds, Fresh
    <3> QED BY <3>2, <3>3
  <2>2. CASE ~GrantWriterGiveup(b)
    <3>1. uptodate' = uptodate /\ daemon \in {<<"check", b>>, <<"loop", b>>}
      BY <2>2 DEF process_list_requests, ProcessCheck, ServeReader, InvalidateReaders,
           AwaitReaders, GrantWriter, daemon_fault, AtRequest
    <3>2. daemon # <<"giveup", p>>
      BY <3>1
    <3> QED BY <1>1, <1>2, <3>1, <3>2 DEF MasterHolds, Fresh
  <2> QED BY <2>1, <2>2
<1>5. ASSUME NEW n \in Slaves
      PROVE  FreshStep(FromMasterMsg, fromMaster[n], fromMaster'[n], p, version[p])
  <2>1. n \in Nodes
    BY DEF Nodes
  <2>2. ASSUME NEW r \in Access, NEW a, SendFromMaster(a, satisfy_request(Master, b, r)),
               daemon = <<"loop", b>>
        PROVE  FreshStep(FromMasterMsg, fromMaster[n], fromMaster'[n], p, version[p])
    <3> DEFINE m == satisfy_request(Master, b, r)
    <3>1. MasterHolds(b)
      BY <1>1, <2>2 DEF MasterHolds, Home
    <3>2. m \in FromMasterMsg
      BY <1>0, <1>1, GrantMessage
    <3>3. m.page = b /\ m.data = version[b]
      BY <1>1, <3>1 DEF satisfy_request, Fresh
    <3>4. SendFromMaster(a, m)
      BY <2>2
    <3> HIDE DEF m
    <3> QED BY <1>0, <2>1, <3>2, <3>3, <3>4 DEF SendFromMaster, TypeInv, TypeOK, FreshStep
  <2>3. CASE InvalidateReaders(b)
    <3> DEFINE k == [i \in 1..Cardinality({j \in DOMAIN readers[b] : readers[b][j] = n})
                        |-> Invalidate(b)]
    <3>1. k \in Seq(FromMasterMsg)
      BY <1>0, <2>1, InvalidationsType DEF TypeInv
    <3>2. \A i \in DOMAIN k : k[i].type # "GIVEPAGE"
      BY DEF Invalidate
    <3>3. fromMaster'[n] = fromMaster[n] \o k
      BY <2>1, <2>3 DEF InvalidateReaders, invalidate_readers
    <3> HIDE DEF k
    <3> QED BY <3>1, <3>2, <3>3 DEF FreshStep
  <2>4. CASE ServeReader(b) \/ GrantWriter(b)
    <3>1. /\ daemon = <<"loop", b>>
          /\ \E r \in Access, a \in {Head(requests[b]).from} :
                SendFromMaster(a, satisfy_request(Master, b, r))
      BY <2>4 DEF ServeReader, GrantWriter, AtRequest, Access
    <3> QED BY <2>2, <3>1
  <2>5. CASE ProcessCheck(b) \/ AwaitReaders(b) \/ GrantWriterGiveup(b) \/ daemon_fault(b)
    BY <2>5 DEF ProcessCheck, AwaitReaders, GrantWriterGiveup, daemon_fault, FreshStep
  <2> QED BY <2>3, <2>4, <2>5 DEF process_list_requests
<1>6. ASSUME NEW n \in Slaves
      PROVE  FreshStep(ToMasterMsg, toMaster[n], toMaster'[n], p, version[p])
  BY <1>2 DEF FreshStep
<1> QED BY <1>0, <1>1, <1>2, <1>3, <1>4, <1>5, <1>6, FreshAfter

\* Every copy of a page is the last version.
THEOREM CopiesAreFresh ==
    ASSUME OnlySlavesCall
    PROVE  Spec => []FreshInv
<1>1. Init => FreshInv
  BY MasterAssumption DEF Init, FreshInv, Fresh, FreshCopy, FreshStreams, FreshPages, Nodes
<1>2. Invs /\ FreshInv /\ [Next]_vars => FreshInv'
  <2> SUFFICES ASSUME Invs, FreshInv, [Next]_vars PROVE FreshInv'
    OBVIOUS
  <2>1. CASE \E a \in Nodes, b \in Pages : App(a, b)
    BY <2>1, FreshApp, FreshStore
  <2>2. CASE \E a \in Nodes : ClientHandler(a) \/ ServerHandler(a)
    BY <2>2, FreshClient, FreshServer
  <2>3. CASE \E b \in Pages : process_list_requests(b)
    BY <2>3, FreshProcess
  <2>4. CASE \/ BlockOnMutex
             \/ \E a \in Slaves : SlaveLost(a) \/ MasterLost(a)
             \/ UNCHANGED vars
    <3> USE DEF directoryVars, localVars
    <3>1. /\ fromMaster' = fromMaster /\ toMaster' = toMaster /\ lock' = lock
          /\ protection' = protection /\ uptodate' = uptodate /\ content' = content
          /\ version' = version
          /\ \A p \in Pages : daemon = <<"giveup", p>> => daemon' = daemon
      BY <2>4 DEF BlockOnMutex, SlaveLost, MasterLost, vars, Select
    <3> QED BY <3>1 DEF FreshInv, Fresh, FreshCopy, FreshStreams, FreshPages, MasterHolds
  <2> QED BY <2>1, <2>2, <2>3, <2>4 DEF Next
<1>3. Spec => []MasterIdle
  BY MasterStaysIdle
<1>4. Spec => []HomeInv
  BY HomeCorrect
<1> QED BY <1>1, <1>2, <1>3, <1>4, TypeCorrect, InvalidationsCorrect, CopiesCorrect,
           RightsCorrect, PTL DEF Spec, Invs

\* lock_read and lock_write give the last version of the page: a process that can
\* load in its section sees every store made before.
THEOREM ReadersSeeLastStore ==
    ASSUME OnlySlavesCall
    PROVE  Spec => []LatestVersion
<1>1. MasterIdle /\ FreshInv => LatestVersion
  BY DEF MasterIdle, FreshInv, Fresh, FreshCopy, LatestVersion, Reading, Nodes
<1>2. Spec => []MasterIdle
  BY MasterStaysIdle
<1>3. Spec => []FreshInv
  BY CopiesAreFresh
<1> QED BY <1>1, <1>2, <1>3, PTL

=============================================================================
