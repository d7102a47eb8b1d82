------------------------------ MODULE Lifecycle ------------------------------
(***************************************************************************)
(* Start-up and termination: InitMaster, InitSlave, the select loop of the *)
(* master's listener, CONNECT and TERMINATE, client_count, QuitDSM, and    *)
(* what the directory of one page does to processes that come and go.      *)
(*                                                                         *)
(* The slaves read and write the page (one that has it for reading does    *)
(* not ask to write it); the master's own application only calls           *)
(* sync_barrier(1).  What else they may do with a page is in DSMPages.     *)
(*                                                                         *)
(* The master's main thread is a client of its own listener: it connects   *)
(* to itself, and the listener watches both ends of that connection.       *)
(* master->sockfd is only assigned after the listener thread was created,  *)
(* so the listener may read whatever malloc left there.                    *)
(***************************************************************************)
EXTENDS Integers, Sequences, FiniteSets

CONSTANTS
  Slaves,
  Lockers,              \* the slaves whose program locks the page
  Master,               \* the master as a client of itself
  MAX_WAITING_NODES,    \* connections the kernel queues for accept
  FreedNodeIntact       \* outcomes of reading `next` from a list node just freed

ASSUME LifecycleAssumption ==
  /\ IsFiniteSet(Slaves) /\ Lockers \subseteq Slaves /\ Master \notin Slaves
  /\ MAX_WAITING_NODES \in Nat \ {0}
  /\ FreedNodeIntact \in (SUBSET BOOLEAN) \ {{}}

VARIABLES
  main,          \* the master's main thread
  garbage,       \* what malloc left in master->sockfd: "negative", "closed" (no open
                 \* descriptor), or an open one that is not a socket: "idle", then
                 \* "input" once there is something to read
  sockfd,        \* what the listener reads in master->sockfd: "garbage" or "own"
  listener,      \* "off", "top", "select", "serve", "pages" (in process_list_requests),
                 \* "spin" (there for ever, see DSMPages), "cancelled"
  active,        \* active_fd_set
  ready,         \* what is left of read_fd_set
  fds,           \* clients whose accepted socket the master has open
  backlog,       \* connections waiting for accept
  client_count,
  signalled,     \* cond_master_end was signalled while the main thread waited
  slave,         \* slave -> where its process is
  up,            \* client -> messages to the master
  down,          \* client -> messages from the master
  uptodate,      \* the master has the page
  requests,      \* page->requests_queue
  readers,       \* page->current_readers_queue
  copy           \* slave -> the rights it has on the page

vars == <<main, garbage, sockfd, listener, active, ready, fds, backlog, client_count,
          signalled, slave, up, down, uptodate, requests, readers, copy>>
pages == <<uptodate, requests, readers, copy>>
net == <<fds, backlog, up, down>>
lst == <<listener, active, ready>>

Clients == Slaves \cup {Master}

\* A client's socket is none of the descriptors that have a name of their own.
ASSUME NamesAssumption == Clients \cap {"garbage", "server", "own"} = {}

Listening == main \notin {"start", "dead", "exited"}      \* server_sockfd is open
MasterGone == main \in {"dead", "exited"}
Closed(c) == c \in Slaves /\ slave[c] \in {"gone", "failed"}

Init ==
  /\ main = "start" /\ garbage \in {"negative", "closed", "idle"} /\ sockfd = "garbage"
  /\ listener = "off" /\ active = {} /\ ready = {} /\ fds = {} /\ backlog = <<>>
  /\ client_count = 0 /\ signalled = FALSE
  /\ slave = [s \in Slaves |-> "start"]
  /\ up = [c \in Clients |-> <<>>] /\ down = [c \in Clients |-> <<>>]
  /\ uptodate = TRUE /\ requests = <<>> /\ readers = <<>> /\ copy = [s \in Slaves |-> "none"]

-----------------------------------------------------------------------------
(* The master's main thread.                                               *)

\* dsm_m_init up to pthread_create.  dsm_master_init returns master->sockfd, which
\* it has not set: a negative value ends the process.
dsm_m_init ==
  /\ main = "start"
  /\ IF garbage = "negative" THEN main' = "dead" /\ UNCHANGED <<listener, active>>
     ELSE main' = "created" /\ listener' = "top" /\ active' = {"garbage", "server"}
  /\ UNCHANGED <<garbage, sockfd, ready, net, client_count, signalled, slave, pages>>

\* dsm_socket_connect to itself: the kernel queues the connection.
ConnectSelf ==
  /\ main = "created" /\ Len(backlog) < MAX_WAITING_NODES
  /\ main' = "connected" /\ backlog' = Append(backlog, Master)
  /\ UNCHANGED <<garbage, sockfd, lst, fds, up, down, client_count, signalled, slave, pages>>

\* The assignment of its result, and of write_owner.
AssignSockfd ==
  /\ main = "connected"
  /\ main' = "running" /\ sockfd' = "own"
  /\ UNCHANGED <<garbage, lst, net, client_count, signalled, slave, pages>>

\* sync_barrier(1): the master's application asks its own listener ...
wait_barrier_send ==
  /\ main = "running"
  /\ main' = "calling" /\ up' = [up EXCEPT ![Master] = Append(@, "SYNC_BARRIER")]
  /\ UNCHANGED <<garbage, sockfd, lst, fds, backlog, down, client_count, signalled, slave, pages>>

\* ... and waits.  (Barrier has the spurious wakeups of this wait.)
wait_barrier_wait ==
  /\ main = "calling" /\ main' = "asking"
  /\ UNCHANGED <<garbage, sockfd, lst, net, client_count, signalled, slave, pages>>

\* QuitDSM, terminate: TERMINATE on its own connection.
QuitMaster ==
  /\ main = "running"
  /\ main' = "quitting" /\ up' = [up EXCEPT ![Master] = Append(@, "TERMINATE")]
  /\ UNCHANGED <<garbage, sockfd, lst, fds, backlog, down, client_count, signalled, slave, pages>>

\* The loop around pthread_cond_wait; a wakeup may be spurious.
CheckCount ==
  /\ main \in {"quitting", "waiting"}
  /\ main' = IF client_count > 0 THEN "waiting" ELSE "leaving"
  /\ signalled' = FALSE
  /\ UNCHANGED <<garbage, sockfd, lst, net, client_count, slave, pages>>

\* dsm_destroy: the listener is cancelled; server_sockfd and the connections stay open.
dsm_destroy ==
  /\ main = "leaving"
  /\ main' = "left" /\ listener' = "cancelled"
  /\ UNCHANGED <<garbage, sockfd, active, ready, net, client_count, signalled, slave, pages>>

\* The program returns from main.
ExitMaster ==
  /\ main = "left" /\ main' = "exited"
  /\ UNCHANGED <<garbage, sockfd, lst, net, client_count, signalled, slave, pages>>

-----------------------------------------------------------------------------
(* The master's listener.                                                  *)

Alive == Listening /\ listener # "cancelled"

\* error(): the whole process exits.
Exit == main' = "dead" /\ listener' = "off"

\* Mutant: master->sockfd is put into the set before the loop only.
TopOnce ==
  /\ Alive /\ listener = "top"
  /\ listener' = "select" /\ UNCHANGED active
  /\ UNCHANGED <<main, garbage, sockfd, ready, net, client_count, signalled, slave, pages>>

\* The top of the loop: what master->sockfd holds now is watched; what it held
\* before stays in the set.
Top ==
  /\ Alive /\ listener = "top"
  /\ listener' = "select" /\ active' = active \cup {sockfd}
  /\ UNCHANGED <<main, garbage, sockfd, ready, net, client_count, signalled, slave, pages>>

Bad(fd) == (fd = "garbage" /\ garbage = "closed") \/ (fd \in Clients /\ fd \notin fds)
Readable(fd) ==
  CASE fd = "garbage" -> garbage = "input"
    [] fd = "server" -> backlog # <<>>
    [] fd = "own" -> down[Master] # <<>>
    [] OTHER -> up[fd] # <<>> \/ Closed(fd)

\* select: an error for a descriptor that is not open, else it waits for input.
Select ==
  /\ Alive /\ listener = "select"
  /\ IF \E fd \in active : Bad(fd) THEN Exit /\ UNCHANGED ready
     ELSE /\ \E fd \in active : Readable(fd)
          /\ ready' = {fd \in active : Readable(fd)}
          /\ listener' = "serve" /\ UNCHANGED main
  /\ UNCHANGED <<garbage, sockfd, active, net, client_count, signalled, slave, pages>>

\* The next descriptor of the for loop; descriptors are numbers the kernel chose.
Serving(fd) == Alive /\ listener = "serve" /\ fd \in ready
Onward(rest) == IF rest = {} THEN "top" ELSE "serve"
Served(fd) == ready' = ready \ {fd} /\ listener' = Onward(ready')

\* The lists hold descriptors, and accept hands out the lowest free one: the entries
\* of a client whose socket was closed may now mean the new client.
Renamed(old, new) ==
  /\ requests' = [i \in DOMAIN requests |->
        IF requests[i].from = old THEN [requests[i] EXCEPT !.from = new] ELSE requests[i]]
  /\ readers' = [i \in DOMAIN readers |-> IF readers[i] = old THEN new ELSE readers[i]]
Listed(c) == \/ \E i \in DOMAIN requests : requests[i].from = c
             \/ \E i \in DOMAIN readers : readers[i] = c
Descriptor(new) ==
  /\ \E old \in {new} \cup {c \in Clients \ fds : Listed(c)} : Renamed(old, new)
  /\ UNCHANGED <<uptodate, copy>>

\* Mutant: the new socket is not watched.
AcceptUnwatched ==
  /\ Serving("server") /\ Served("server")
  /\ backlog' = Tail(backlog) /\ fds' = fds \cup {Head(backlog)} /\ UNCHANGED active
  /\ client_count' = client_count + 1 /\ Descriptor(Head(backlog))
  /\ UNCHANGED <<main, garbage, sockfd, up, down, signalled, slave>>

\* Mutant: only the slaves are counted.
AcceptSlavesCounted ==
  /\ Serving("server") /\ Served("server")
  /\ backlog' = Tail(backlog) /\ fds' = fds \cup {Head(backlog)} /\ active' = active \cup {Head(backlog)}
  /\ client_count' = client_count + (IF Head(backlog) = Master THEN 0 ELSE 1)
  /\ Descriptor(Head(backlog))
  /\ UNCHANGED <<main, garbage, sockfd, up, down, signalled, slave>>

Accept ==
  /\ Serving("server") /\ Served("server")
  /\ backlog' = Tail(backlog) /\ fds' = fds \cup {Head(backlog)} /\ active' = active \cup {Head(backlog)}
  /\ client_count' = client_count + 1 /\ Descriptor(Head(backlog))
  /\ UNCHANGED <<main, garbage, sockfd, up, down, signalled, slave>>

\* A message of client c and the handler it is dispatched to.
Receive(c, type) ==
  /\ Serving(c) /\ up[c] # <<>> /\ Head(up[c]) = type
  /\ up' = [up EXCEPT ![c] = Tail(@)]

\* send() to a client whose process is gone fails now or kills with SIGPIPE.
Reply(c, msg) ==
  \/ Served(c) /\ down' = [down EXCEPT ![c] = Append(@, msg)] /\ UNCHANGED main
  \/ Closed(c) /\ Exit /\ UNCHANGED <<down, ready>>

\* The answer tells whether bitness and page size match.
handle_connect_msg(s) ==
  /\ \E match \in BOOLEAN : /\ Receive(s, IF match THEN "CONNECT" ELSE "CONNECT_OTHER")
                            /\ Reply(s, IF match THEN "ACK" ELSE "NACK")
  /\ UNCHANGED <<garbage, sockfd, active, fds, backlog, client_count, signalled, slave, pages>>

\* The master's own call is enough for its count of 1.
handle_sync_barrier_msg ==
  /\ Receive(Master, "SYNC_BARRIER")
  /\ Reply(Master, "BARRIER_ACK")
  /\ UNCHANGED <<garbage, sockfd, active, fds, backlog, client_count, signalled, slave, pages>>

\* Mutant: the condition is signalled when one client is left.
handle_terminate_early(c) ==
  /\ Receive(c, "TERMINATE") /\ Served(c)
  /\ client_count' = client_count - 1
  /\ signalled' = (signalled \/ (client_count' = 1 /\ main = "waiting"))
  /\ UNCHANGED <<main, garbage, sockfd, active, fds, backlog, down, slave, pages>>

\* A signal is lost when nobody waits.
handle_terminate_msg(c) ==
  /\ Receive(c, "TERMINATE") /\ Served(c)
  /\ client_count' = client_count - 1
  /\ signalled' = (signalled \/ (client_count' = 0 /\ main = "waiting"))
  /\ UNCHANGED <<main, garbage, sockfd, active, fds, backlog, down, slave, pages>>

\* Mutant: the closed socket stays in the set.
ReceiveEndKeepsFd(c) ==
  /\ Serving(c) /\ up[c] = <<>> /\ Closed(c)
  /\ Served(c) /\ fds' = fds \ {c} /\ UNCHANGED <<active, main>>
  /\ UNCHANGED <<garbage, sockfd, backlog, up, down, client_count, signalled, slave, pages>>

\* recv() returns 0: the socket is closed and no longer watched.  A process that
\* ended with unread data makes recv() fail instead.
ReceiveEnd(c) ==
  /\ Serving(c) /\ up[c] = <<>> /\ Closed(c)
  /\ \/ Served(c) /\ fds' = fds \ {c} /\ active' = active \ {c} /\ UNCHANGED main
     \/ down[c] # <<>> /\ Exit /\ UNCHANGED <<ready, fds, active>>
  /\ UNCHANGED <<garbage, sockfd, backlog, up, down, client_count, signalled, slave, pages>>

\* recv() on a descriptor that is not a socket.
ReceiveGarbage ==
  /\ Serving("garbage")
  /\ Exit
  /\ UNCHANGED <<garbage, sockfd, active, ready, net, client_count, signalled, slave, pages>>

\* Somebody types, or the file behind the descriptor gets data.
Input ==
  /\ garbage = "idle" /\ garbage' = "input"
  /\ UNCHANGED <<main, sockfd, lst, net, client_count, signalled, slave, pages>>

-----------------------------------------------------------------------------
(* The page, on the master's listener.                                     *)

\* A handler that leaves the requests to process_list_requests, which goes through
\* them only if the page is there.
ProcessCheck(fd) ==
  /\ ready' = ready \ {fd}
  /\ listener' = IF uptodate' /\ requests' # <<>> THEN "pages" ELSE Onward(ready')

handle_lockpage_msg(s) ==
  /\ \E r \in {"read", "write"} :
        /\ Receive(s, IF r = "read" THEN "LOCKREAD" ELSE "LOCKWRITE")
        /\ requests' = Append(requests, [from |-> s, rights |-> r])
  /\ UNCHANGED <<uptodate, readers, copy>> /\ ProcessCheck(s)
  /\ UNCHANGED <<main, garbage, sockfd, active, fds, backlog, down, client_count, signalled, slave>>

handle_givepage_msg(s) ==
  /\ Receive(s, "GIVEPAGE")
  /\ uptodate' = TRUE /\ UNCHANGED <<requests, readers, copy>> /\ ProcessCheck(s)
  /\ UNCHANGED <<main, garbage, sockfd, active, fds, backlog, down, client_count, signalled, slave>>

\* What arrives at the master's own end: BARRIER_ACK, which signals the main thread
\* and is lost if that does not wait yet ...
handle_barrier_ack_msg ==
  /\ Serving("own") /\ Served("own") /\ Head(down[Master]) = "BARRIER_ACK"
  /\ down' = [down EXCEPT ![Master] = Tail(@)]
  /\ main' = IF main = "asking" THEN "running" ELSE main
  /\ UNCHANGED <<garbage, sockfd, active, fds, backlog, up, client_count, signalled, slave, pages>>

\* ... or the page, sent to a descriptor that is the master's now.
handle_givepage_own ==
  /\ Serving("own") /\ Head(down[Master]) \in {"GIVEREAD", "GIVEWRITE"}
  /\ down' = [down EXCEPT ![Master] = Tail(@)]
  /\ uptodate' = TRUE /\ UNCHANGED <<requests, readers, copy>> /\ ProcessCheck("own")
  /\ UNCHANGED <<main, garbage, sockfd, active, fds, backlog, up, client_count, signalled, slave>>

\* process_list_requests: the first request.
AtRequest(r) == Alive /\ listener = "pages" /\ Head(requests).rights = r

\* send() on a socket the master has closed fails; it may also fail when the other
\* process is gone.
MayFail(c) == c \notin fds \/ Closed(c)
Send(c, msg) == c \in fds /\ down' = [down EXCEPT ![c] = Append(@, msg)]

\* A reader gets the page and is listed.  The next request is read from the node of
\* this one, which list_remove has freed.
ServeReader ==
  /\ AtRequest("read") /\ Send(Head(requests).from, "GIVEREAD")
  /\ requests' = Tail(requests) /\ readers' = Append(readers, Head(requests).from)
  /\ \E intact \in FreedNodeIntact :
        IF ~intact THEN Exit
        ELSE main' = main /\ listener' = IF requests' = <<>> THEN Onward(ready) ELSE "pages"
  /\ UNCHANGED <<garbage, sockfd, active, ready, fds, backlog, up, client_count, signalled, slave, uptodate, copy>>

\* A writer gets the page when nobody reads it; the function returns.
GrantWriter ==
  /\ AtRequest("write") /\ readers = <<>> /\ Send(Head(requests).from, "GIVEWRITE")
  /\ requests' = Tail(requests) /\ uptodate' = FALSE /\ listener' = Onward(ready)
  /\ UNCHANGED <<main, garbage, sockfd, active, ready, fds, backlog, up, client_count, signalled, slave, readers, copy>>

\* The page cannot be sent.
SendPageFails ==
  /\ AtRequest("read") \/ (AtRequest("write") /\ readers = <<>>)
  /\ MayFail(Head(requests).from) /\ Exit
  /\ UNCHANGED <<garbage, sockfd, active, ready, net, client_count, signalled, slave, pages>>

\* INVALIDATE to each entry of the list.
Invalidated(list) ==
  [c \in Clients |-> down[c] \o [i \in 1..Cardinality({j \in DOMAIN list : list[j] = c}) |-> "INVALIDATE"]]

\* A writer has to wait for the readers.  All of them are asked to invalidate, the
\* ones that have left too, and then the loop never ends ...
invalidate_readers ==
  /\ AtRequest("write") /\ readers # <<>>
  /\ \A i \in DOMAIN readers : readers[i] \in fds
  /\ down' = Invalidated(readers) /\ listener' = "spin"
  /\ UNCHANGED <<main, garbage, sockfd, active, ready, fds, backlog, up, client_count, signalled, slave, pages>>

\* ... or send() fails on one of them, and the next ones are not asked.
InvalidateFails ==
  /\ AtRequest("write")
  /\ \E k \in DOMAIN readers :
        /\ \A i \in 1..(k - 1) : readers[i] \in fds
        /\ down' = Invalidated(SubSeq(readers, 1, k - 1))
        /\ MayFail(readers[k]) /\ Exit
  /\ UNCHANGED <<garbage, sockfd, active, ready, fds, backlog, up, client_count, signalled, slave, pages>>

process_list_requests ==
  ServeReader \/ GrantWriter \/ SendPageFails \/ invalidate_readers \/ InvalidateFails

-----------------------------------------------------------------------------
(* A slave.                                                                *)

\* dsm_master_init: connect(), which fails while nobody listens.
SlaveConnect(s) ==
  /\ slave[s] = "start"
  /\ \/ /\ Listening /\ Len(backlog) < MAX_WAITING_NODES
        /\ backlog' = Append(backlog, s) /\ slave' = [slave EXCEPT ![s] = "connected"]
     \/ ~Listening /\ slave' = [slave EXCEPT ![s] = "refused"] /\ UNCHANGED backlog
  /\ UNCHANGED <<main, garbage, sockfd, lst, fds, up, down, client_count, signalled, pages>>

\* CONNECT carries the slave's bitness and page size, the master's or others.
SendConnect(s) ==
  /\ slave[s] = "connected"
  /\ slave' = [slave EXCEPT ![s] = "waiting"]
  /\ \E msg \in {"CONNECT", "CONNECT_OTHER"} : up' = [up EXCEPT ![s] = Append(@, msg)]
  /\ UNCHANGED <<main, garbage, sockfd, lst, fds, backlog, down, client_count, signalled, pages>>

\* dsm_n_init after CONNECT.  dsm_receive_msg looks at dsm_g->mem, which is not set
\* yet, and crashes when malloc left something there; a page is too big without
\* memory.  Any other message than a refusal is good enough to go on.
ReceiveAck(s) ==
  /\ slave[s] = "waiting" /\ down[s] # <<>>
  /\ down' = [down EXCEPT ![s] = Tail(@)]
  /\ \E crash \in BOOLEAN :
       slave' = [slave EXCEPT ![s] = IF Head(down[s]) \in {"ACK", "INVALIDATE"} /\ ~crash
                                     THEN "joined" ELSE "failed"]
  /\ UNCHANGED <<main, garbage, sockfd, lst, fds, backlog, up, client_count, signalled, pages>>

\* The connection ends because the master's process has: in dsm_n_init an error;
\* in the listener the socket is closed, select then fails on it.
MasterLost(s) ==
  /\ slave[s] \in {"connected", "waiting", "joined", "asking"} /\ MasterGone
  /\ slave' = [slave EXCEPT ![s] = "failed"]
  /\ UNCHANGED <<main, garbage, sockfd, lst, net, client_count, signalled, pages>>

\* lock_read or lock_write of a page that is not here: LOCKPAGE, and the wait.
lock_page(s) ==
  /\ s \in Lockers /\ slave[s] = "joined" /\ copy[s] = "none"
  /\ slave' = [slave EXCEPT ![s] = "asking"]
  /\ \E msg \in {"LOCKREAD", "LOCKWRITE"} : up' = [up EXCEPT ![s] = Append(@, msg)]
  /\ UNCHANGED <<main, garbage, sockfd, lst, fds, backlog, down, client_count, signalled, pages>>

\* The slave's listener has the next message, and mutex_page is not held by a
\* lock_write that has returned.
AtMessage(s) == slave[s] \in {"joined", "asking"} /\ copy[s] # "write" /\ down[s] # <<>>

\* The page arrives and lock_page returns.  (DSMPages lets INVALIDATE come between.)
ReceivePage(s) ==
  /\ AtMessage(s) /\ Head(down[s]) \in {"GIVEREAD", "GIVEWRITE"}
  /\ down' = [down EXCEPT ![s] = Tail(@)]
  /\ slave' = [slave EXCEPT ![s] = "joined"]
  /\ copy' = [copy EXCEPT ![s] = IF Head(down[s]) = "GIVEREAD" THEN "read" ELSE "write"]
  /\ UNCHANGED <<main, garbage, sockfd, lst, fds, backlog, up, client_count, signalled, uptodate, requests, readers>>

handle_invalidate_msg(s) ==
  /\ AtMessage(s) /\ Head(down[s]) = "INVALIDATE"
  /\ down' = [down EXCEPT ![s] = Tail(@)]
  /\ copy' = [copy EXCEPT ![s] = "none"] /\ up' = [up EXCEPT ![s] = Append(@, "INVALIDATE_ACK")]
  /\ UNCHANGED <<main, garbage, sockfd, lst, fds, backlog, client_count, signalled, slave, uptodate, requests, readers>>

\* unlock_write.
unlock_write(s) ==
  /\ slave[s] = "joined" /\ copy[s] = "write"
  /\ copy' = [copy EXCEPT ![s] = "none"] /\ up' = [up EXCEPT ![s] = Append(@, "GIVEPAGE")]
  /\ UNCHANGED <<main, garbage, sockfd, lst, fds, backlog, down, client_count, signalled, slave, uptodate, requests, readers>>

\* Mutant: TERMINATE is sent before the pages are given back.
QuitSlaveFirst(s) ==
  /\ slave[s] = "joined"
  /\ slave' = [slave EXCEPT ![s] = "quit"]
  /\ up' = [up EXCEPT ![s] = @ \o <<"TERMINATE">> \o IF copy[s] = "write" THEN <<"GIVEPAGE">> ELSE <<>>]
  /\ copy' = [copy EXCEPT ![s] = "none"]
  /\ UNCHANGED <<main, garbage, sockfd, lst, fds, backlog, down, client_count, signalled, uptodate, requests, readers>>

\* QuitDSM: terminate gives the writable pages back, then sends TERMINATE.  A page
\* held for reading goes with the process, which stays on the master's list.
QuitSlave(s) ==
  /\ slave[s] = "joined"
  /\ slave' = [slave EXCEPT ![s] = "quit"]
  /\ up' = [up EXCEPT ![s] = @ \o (IF copy[s] = "write" THEN <<"GIVEPAGE">> ELSE <<>>) \o <<"TERMINATE">>]
  /\ copy' = [copy EXCEPT ![s] = "none"]
  /\ UNCHANGED <<main, garbage, sockfd, lst, fds, backlog, down, client_count, signalled, uptodate, requests, readers>>

\* The process ends, after QuitDSM or in the middle.
ExitSlave(s) ==
  /\ slave[s] \in {"connected", "waiting", "joined", "asking", "quit"}
  /\ slave' = [slave EXCEPT ![s] = IF @ = "quit" THEN "gone" ELSE "failed"]
  /\ UNCHANGED <<main, garbage, sockfd, lst, net, client_count, signalled, pages>>

-----------------------------------------------------------------------------
MainStep ==
  \/ dsm_m_init \/ ConnectSelf \/ AssignSockfd \/ wait_barrier_wait \/ dsm_destroy \/ ExitMaster

ListenerStep ==
  \/ Top \/ Select \/ Accept \/ handle_sync_barrier_msg
  \/ handle_barrier_ack_msg \/ handle_givepage_own \/ ReceiveGarbage
  \/ \E c \in Clients : handle_terminate_msg(c) \/ ReceiveEnd(c)
  \/ \E s \in Slaves : handle_connect_msg(s) \/ handle_lockpage_msg(s) \/ handle_givepage_msg(s)
  \/ process_list_requests

SlaveStep(s) ==
  SendConnect(s) \/ ReceiveAck(s) \/ MasterLost(s) \/ ReceivePage(s) \/ handle_invalidate_msg(s)
SlaveProgram(s) == SlaveConnect(s) \/ lock_page(s) \/ unlock_write(s) \/ QuitSlave(s) \/ ExitSlave(s)

Next ==
  \/ MainStep \/ wait_barrier_send \/ QuitMaster \/ CheckCount \/ ListenerStep \/ Input
  \/ \E s \in Slaves : SlaveStep(s) \/ SlaveProgram(s)

\* Threads are scheduled; a wakeup is only certain after a signal; what to lock, when
\* to quit and to start is the programs' choice.  A listener that spins takes no step.
Fairness ==
  /\ WF_vars(MainStep) /\ WF_vars(CheckCount /\ (main = "quitting" \/ signalled))
  /\ WF_vars(ListenerStep)
  /\ \A s \in Slaves : WF_vars(SlaveStep(s))

Spec == Init /\ [][Next]_vars /\ Fairness

-----------------------------------------------------------------------------
(* Properties.                                                             *)

\* The variables have their types.
TypeOK ==
  /\ client_count \in Nat /\ fds \subseteq Clients
  /\ active \subseteq Clients \cup {"garbage", "server", "own"} /\ ready \subseteq active
  /\ Len(backlog) <= MAX_WAITING_NODES
  /\ uptodate \in BOOLEAN /\ copy \in [Slaves -> {"none", "read", "write"}]
  /\ requests \in Seq([from : Clients, rights : {"read", "write"}]) /\ readers \in Seq(Clients)

\* Clients that were accepted and whose TERMINATE has not been handled.
Connected(c) == IF c = Master THEN main \notin {"start", "created", "dead"}
                ELSE slave[c] \notin {"start", "refused"}
HasQuit(c) == IF c = Master THEN main \in {"quitting", "waiting", "leaving", "left", "exited"}
              ELSE slave[c] \in {"quit", "gone"}
InList(x, seq) == \E i \in DOMAIN seq : seq[i] = x
Present == {c \in Clients : Connected(c) /\ ~InList(c, backlog)
                            /\ ~(HasQuit(c) /\ ~InList("TERMINATE", up[c]))}

\* client_count is the number of connections accepted whose TERMINATE has not been
\* handled, the master's own included: nobody is counted twice or forgotten.
CountExact == main # "dead" => client_count = Cardinality(Present)

\* When the master stops waiting in QuitDSM, no slave is in the system (one that
\* was told it joined was counted before it was told) and the page, if a slave had
\* it, has come back (GIVEPAGE is ahead of TERMINATE).
NobodyLeftBehind ==
  [][(main' = "leaving" /\ main # "leaving") =>
       /\ \A s \in Slaves : slave[s] \notin {"joined", "asking"}
       /\ uptodate]_vars

\* The master's process dies only of the descriptor it did not initialise, of a
\* slave that failed, of the freed list node, or of a slave that has left and that
\* current_readers_queue still names.
DeathExplained ==
  main = "dead" => \/ garbage # "idle" \/ \E s \in Slaves : slave[s] = "failed"
                   \/ FALSE \in FreedNodeIntact
                   \/ \E s \in Slaves : slave[s] = "gone" /\ InList(s, readers)

\* The master's call of sync_barrier returns unless its signal came too soon, although
\* the listener may have gone into select before master->sockfd was assigned, and
\* unless the listener spins.
AskAnswered ==
  main = "asking" /\ (InList("SYNC_BARRIER", up[Master]) \/ InList("BARRIER_ACK", down[Master]))
    ~> main # "asking" \/ listener = "spin"

\* A slave that waits for the answer to CONNECT gets it, or learns that the master
\* is gone, unless the listener spins.
ConnectAnswered ==
  \A s \in Slaves : slave[s] = "waiting" ~> slave[s] # "waiting" \/ listener = "spin"

\* QuitDSM on the master returns once no slave is in the system, unless one failed.
QuitReturns ==
  main = "waiting" ~>
    (main # "waiting" \/ \E s \in Slaves : slave[s] \in {"joined", "asking", "failed"})

=============================================================================
