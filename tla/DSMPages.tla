------------------------------ MODULE DSMPages ------------------------------
(***************************************************************************)
(* The page protocol of the distributed shared memory: the lock calls of   *)
(* the application threads (dsm.c, dsm_core.c), the listener daemon of     *)
(* every process and its message handlers (dsm_socket.c, dsm_core.c) and   *)
(* the per-page directory of the master (dsm_memory.h).                    *)
(*                                                                         *)
(* Every process runs two threads, the application and the listener.  The  *)
(* master process is also a client of itself: it is connected to its own   *)
(* server socket, and it has ONE dsm_page_t per page, which is both the    *)
(* directory entry and its own copy of the page.                           *)
(*                                                                         *)
(* A page's bytes are abstracted to the number of the write that produced  *)
(* them.  page->protection stands for the field and for the mprotect()     *)
(* state the code sets with it.                                            *)
(***************************************************************************)
EXTENDS Naturals, Sequences, FiniteSets, SequencesExt

CONSTANTS
    Slaves,          \* the slave processes
    Master,          \* the master process
    Pages,           \* page identifiers
    Calls,           \* the lock calls applications make: <<process, page, right>>
    MaxVersion,      \* bound: number of writes to one page
    MaxBacklog,      \* bound: no new request while this many are pending or listed
    FreedNodeIntact, \* outcomes of reading `next` from the list node that
                     \* list_remove has just freed: TRUE, it still holds the
                     \* old pointer; FALSE, the allocator has overwritten it
    LeavesLoop       \* {FALSE} is the code: process_list_requests loops while it
                     \* waits for invalidation acks.  With TRUE in the set it may
                     \* also return to the listener there and rounds complete: an
                     \* over-approximation, for safety properties only.

Nodes == Slaves \cup {Master}
Access == {"read", "readwrite"}       \* PROT_READ, PROT_READ|PROT_WRITE

ASSUME MasterAssumption == Master \notin Slaves
ASSUME CallsAssumption == Calls \subseteq Nodes \X Pages \X Access
ASSUME BoundAssumption == MaxVersion \in Nat /\ MaxBacklog \in Nat
ASSUME OutcomesAssumption == /\ FreedNodeIntact \in (SUBSET BOOLEAN) \ {{}}
                             /\ LeavesLoop \in (SUBSET BOOLEAN) \ {{}}

VARIABLES
    uptodate,        \* [node][page] page->uptodate
    protection,      \* [node][page] page->protection, with the mprotect state
    content,         \* [node][page] the version in the process's memory
    lock,            \* [node][page] where the application is with this page
    toMaster,        \* [node] stream from the process to the master
    fromMaster,      \* [node] stream from the master to the process
    ack_due,         \* [node] pages whose INVALIDATE_ACK the listener must send
    daemon,          \* what the master's listener is doing
    requests,        \* [page] master: page->requests_queue
    readers,         \* [page] master: page->current_readers_queue
    invalidate_sent, \* [page] master: page->invalidate_sent
    write_owner,     \* [page] master: page->write_owner
    crashed,         \* processes that have died
    version          \* [page] history: number of writes so far

localVars == <<uptodate, protection, content>>
directoryVars == <<requests, readers, invalidate_sent, write_owner>>
vars == <<uptodate, protection, content, lock, toMaster, fromMaster, ack_due,
          daemon, requests, readers, invalidate_sent, write_owner, crashed,
          version>>

-----------------------------------------------------------------------------
(* Data.                                                                   *)

Rights == Access \cup {"none"}        \* and PROT_NONE

\* Where the application is with a page: outside, blocked in lock_page, in
\* the section a lock call opened, or inside unlock_write.
LockState == {"free", "ask_read", "ask_write", "read", "write", "release"}
Asking(r) == IF r = "read" THEN "ask_read" ELSE "ask_write"
Holding(r) == IF r = "read" THEN "read" ELSE "write"

\* Mutant: the rights are not set in the message.
LockpageNoRights(p, r) == [type |-> "LOCKPAGE", page |-> p, rights |-> "none"]

Lockpage(p, r) == [type |-> "LOCKPAGE", page |-> p, rights |-> r]
Invalidate(p) == [type |-> "INVALIDATE", page |-> p]
InvalidateAck(p) == [type |-> "INVALIDATE_ACK", page |-> p]

ToMasterMsg == [type : {"LOCKPAGE"}, page : Pages, rights : Access]
          \cup [type : {"INVALIDATE_ACK"}, page : Pages]
          \cup [type : {"GIVEPAGE"}, page : Pages, rights : Rights, data : Nat]
FromMasterMsg == [type : {"INVALIDATE"}, page : Pages]
            \cup [type : {"GIVEPAGE"}, page : Pages, rights : Rights, data : Nat]
Request == [from : Nodes, rights : Access]

\* The master's listener is in select(); or blocked on mutex_page in a handler
\* of a message from an accepted socket or from its own client socket; or in
\* process_list_requests, before the uptodate test ("check"), at the head of
\* the loop ("loop"), or between satisfy_request and giveup_localpage.
Select == <<"select", Master>>
DaemonState == ({"select", "accepted", "own"} \X Nodes)
          \cup ({"check", "loop", "giveup"} \X Pages)

Running(n) == /\ n \notin crashed
              /\ \A p \in Pages : lock[n][p] \in {"free", "read", "write"}
\* Mutant: the handlers do not take mutex_page.
MutexIgnored(n, p) == lock[n][p] \in LockState

MutexFree(n, p) == lock[n][p] \in {"free", "ask_read", "ask_write"}

MasterRuns == Master \notin crashed

TypeOK ==
    /\ uptodate \in [Nodes -> [Pages -> BOOLEAN]]
    /\ protection \in [Nodes -> [Pages -> Rights]]
    /\ content \in [Nodes -> [Pages -> Nat]]
    /\ lock \in [Nodes -> [Pages -> LockState]]
    /\ toMaster \in [Nodes -> Seq(ToMasterMsg)]
    /\ fromMaster \in [Nodes -> Seq(FromMasterMsg)]
    /\ ack_due \in [Nodes -> SUBSET Pages]
    /\ daemon \in DaemonState
    /\ requests \in [Pages -> Seq(Request)]
    /\ readers \in [Pages -> Seq(Nodes)]
    /\ invalidate_sent \in [Pages -> BOOLEAN]
    /\ write_owner \in [Pages -> Nodes]
    /\ crashed \subseteq Nodes
    /\ version \in [Pages -> Nat]

\* dsm_memory_init on every process, after every slave has connected.
Init ==
    /\ uptodate = [n \in Nodes |-> [p \in Pages |-> n = Master]]
    /\ protection = [n \in Nodes |->
                        [p \in Pages |-> IF n = Master THEN "readwrite" ELSE "none"]]
    /\ content = [n \in Nodes |-> [p \in Pages |-> 0]]
    /\ lock = [n \in Nodes |-> [p \in Pages |-> "free"]]
    /\ toMaster = [n \in Nodes |-> <<>>]
    /\ fromMaster = [n \in Nodes |-> <<>>]
    /\ ack_due = [n \in Nodes |-> {}]
    /\ daemon = Select
    /\ requests = [p \in Pages |-> <<>>]
    /\ readers = [p \in Pages |-> <<>>]
    /\ invalidate_sent = [p \in Pages |-> FALSE]
    /\ write_owner = [p \in Pages |-> Master]
    /\ crashed = {}
    /\ version = [p \in Pages |-> 0]

-----------------------------------------------------------------------------
(* Helpers shared by both threads.                                         *)

\* The message satisfy_request builds: the sender's copy of the page.
satisfy_request(n, p, r) ==
    [type |-> "GIVEPAGE", page |-> p, rights |-> r, data |-> content[n][p]]

\* Mutant: giveup_localpage only removes the mapping.
giveup_keeps_uptodate(n, p) ==
    /\ uptodate' = uptodate
    /\ protection' = [protection EXCEPT ![n][p] = "none"]

\* giveup_localpage: the process drops its copy.
giveup_localpage(n, p) ==
    /\ uptodate' = [uptodate EXCEPT ![n][p] = FALSE]
    /\ protection' = [protection EXCEPT ![n][p] = "none"]

SendToMaster(n, m) == toMaster' = [toMaster EXCEPT ![n] = Append(@, m)]
SendFromMaster(n, m) == fromMaster' = [fromMaster EXCEPT ![n] = Append(@, m)]

-----------------------------------------------------------------------------
(* The application thread.                                                 *)

\* What a new request adds to: nothing in the code bounds the length of
\* current_readers_queue (a process is listed again for every copy it is
\* sent), of requests_queue or of the streams.
Backlog(n, p) ==
    Len(readers[p]) + Len(requests[p]) + Len(toMaster[n]) + Len(fromMaster[n])

\* lock_page asks the master only when the local copy is not up to date.
NeedsMaster(n, p, r) == ~uptodate[n][p]

\* lock_read / lock_write on a page whose copy is up to date: lock_page takes
\* mutex_page and returns with it.
lock_page_hit(n, p, r) ==
    /\ Running(n) /\ <<n, p, r>> \in Calls /\ lock[n][p] = "free"
    /\ ~NeedsMaster(n, p, r)
    /\ Len(toMaster[n]) < MaxBacklog
    /\ lock' = [lock EXCEPT ![n][p] = Holding(r)]
    /\ UNCHANGED <<localVars, toMaster, fromMaster, daemon, directoryVars,
                   crashed, version, ack_due>>

\* Otherwise it sends one LOCKPAGE and waits on cond_uptodate, which releases
\* mutex_page.  The mutex is held from the test to the wait, and on the master
\* uptodate only becomes true under it, so this is one step.
lock_page_miss(n, p, r) ==
    /\ Running(n) /\ <<n, p, r>> \in Calls /\ lock[n][p] = "free"
    /\ NeedsMaster(n, p, r)
    /\ Backlog(n, p) < MaxBacklog
    /\ SendToMaster(n, Lockpage(p, r))
    /\ lock' = [lock EXCEPT ![n][p] = Asking(r)]
    /\ UNCHANGED <<localVars, fromMaster, daemon, directoryVars, crashed, version,
                   ack_due>>

\* pthread_cond_wait returns, the loop sees uptodate, lock_page returns.
lock_page_wake(n, p, r) ==
    /\ n \notin crashed
    /\ lock[n][p] = Asking(r)
    /\ uptodate[n][p]
    /\ lock' = [lock EXCEPT ![n][p] = Holding(r)]
    /\ UNCHANGED <<localVars, toMaster, fromMaster, daemon, directoryVars,
                   crashed, version, ack_due>>

\* The application stores to a page it called lock_write on.
Store(n, p) ==
    /\ Running(n) /\ lock[n][p] = "write" /\ protection[n][p] = "readwrite"
    /\ version[p] < MaxVersion
    /\ version' = [version EXCEPT ![p] = @ + 1]
    /\ content' = [content EXCEPT ![n][p] = version[p] + 1]
    /\ UNCHANGED <<uptodate, protection, lock, toMaster, fromMaster, daemon,
                   directoryVars, crashed, ack_due>>

\* The application accesses a page it called lock_read or lock_write on, and
\* the page is not mapped with that right: SIGSEGV kills the process (no
\* handler is installed).  unlock_write on a PROT_NONE page dies here too, when
\* satisfy_request reads the page.
app_fault(n, p) ==
    /\ Running(n)
    /\ \/ lock[n][p] = "write" /\ protection[n][p] # "readwrite"
       \/ lock[n][p] = "read" /\ protection[n][p] = "none"
    /\ crashed' = crashed \cup {n}
    /\ UNCHANGED <<localVars, lock, toMaster, fromMaster, daemon,
                   directoryVars, version, ack_due>>

unlock_read(n, p) ==
    /\ Running(n) /\ lock[n][p] = "read"
    /\ lock' = [lock EXCEPT ![n][p] = "free"]
    /\ UNCHANGED <<localVars, toMaster, fromMaster, daemon, directoryVars,
                   crashed, version, ack_due>>

\* unlock_write first sends the page to the master, with the rights the page
\* has now ...
unlock_write_send(n, p) ==
    /\ Running(n) /\ lock[n][p] = "write" /\ protection[n][p] # "none"
    /\ SendToMaster(n, satisfy_request(n, p, protection[n][p]))
    /\ lock' = [lock EXCEPT ![n][p] = "release"]
    /\ UNCHANGED <<localVars, fromMaster, daemon, directoryVars, crashed, version,
                   ack_due>>

\* ... then drops its copy and releases mutex_page.
unlock_write_giveup(n, p) ==
    /\ n \notin crashed /\ lock[n][p] = "release"
    /\ giveup_localpage(n, p)
    /\ write_owner' = IF n = Master THEN [write_owner EXCEPT ![p] = Master]
                                    ELSE write_owner
    /\ lock' = [lock EXCEPT ![n][p] = "free"]
    /\ UNCHANGED <<content, toMaster, fromMaster, daemon, requests, readers,
                   invalidate_sent, crashed, version, ack_due>>

-----------------------------------------------------------------------------
(* The listener daemon: handlers of messages on the client socket, run by  *)
(* every process (on the master this is the socket connected to itself).   *)

\* The listener of n can run a handler on the head of fromMaster[n].  A slave
\* has no other socket; the master's listener must be in select(), or already
\* blocked in this very handler.
ClientReady(n, type) ==
    /\ n \notin crashed
    /\ n = Master => daemon \in {Select, <<"own", Master>>}
    /\ ack_due[n] = {}
    /\ fromMaster[n] # <<>>
    /\ Head(fromMaster[n]).type = type
    /\ MutexFree(n, Head(fromMaster[n]).page)

\* Mutant: the data is not copied.
StorePageNoCopy(n, m) ==
    /\ content' = content
    /\ protection' = [protection EXCEPT ![n][m.page] = m.rights]
    /\ uptodate' = [uptodate EXCEPT ![n][m.page] = TRUE]
    /\ write_owner' = IF n = Master THEN [write_owner EXCEPT ![m.page] = Master]
                                    ELSE write_owner

\* handle_givepage_msg, the part under mutex_page.
StorePage(n, m) ==
    /\ content' = [content EXCEPT ![n][m.page] = m.data]
    /\ protection' = [protection EXCEPT ![n][m.page] = m.rights]
    /\ uptodate' = [uptodate EXCEPT ![n][m.page] = TRUE]
    /\ write_owner' = IF n = Master THEN [write_owner EXCEPT ![m.page] = Master]
                                    ELSE write_owner

\* On the master the handler goes on to process_list_requests, which does not
\* hold mutex_page.
handle_givepage_client(n) ==
    /\ ClientReady(n, "GIVEPAGE")
    /\ StorePage(n, Head(fromMaster[n]))
    /\ fromMaster' = [fromMaster EXCEPT ![n] = Tail(@)]
    /\ daemon' = IF n = Master THEN <<"check", Head(fromMaster[n]).page>> ELSE daemon
    /\ UNCHANGED <<lock, toMaster, requests, readers, invalidate_sent, crashed, version,
                   ack_due>>

\* Under mutex_page the handler drops the copy ...
handle_invalidate_msg(n) ==
    /\ ClientReady(n, "INVALIDATE")
    /\ LET p == Head(fromMaster[n]).page
       IN  /\ uptodate' = [uptodate EXCEPT ![n][p] = FALSE]
           /\ protection' = [protection EXCEPT ![n][p] = "none"]
           /\ ack_due' = [ack_due EXCEPT ![n] = {p}]
    /\ fromMaster' = [fromMaster EXCEPT ![n] = Tail(@)]
    /\ daemon' = IF n = Master THEN <<"own", Master>> ELSE daemon
    /\ UNCHANGED <<content, lock, toMaster, directoryVars, crashed, version>>

\* ... and answers after it has released the mutex: the application's next
\* LOCKPAGE may overtake the answer.
send_invalidate_ack(n) ==
    /\ n \notin crashed
    /\ n = Master => daemon = <<"own", Master>>
    /\ \E p \in ack_due[n] : SendToMaster(n, InvalidateAck(p))
    /\ ack_due' = [ack_due EXCEPT ![n] = {}]
    /\ daemon' = IF n = Master THEN Select ELSE daemon
    /\ UNCHANGED <<localVars, lock, fromMaster, directoryVars, crashed, version>>

-----------------------------------------------------------------------------
(* The master's listener: messages from the accepted sockets.              *)

ServerReady(n, type) ==
    /\ MasterRuns
    /\ daemon \in {Select, <<"accepted", n>>}
    /\ toMaster[n] # <<>>
    /\ Head(toMaster[n]).type = type

\* Mutant: the request is queued but the queue is not processed.
handle_lockpage_queue_only(n) ==
    /\ ServerReady(n, "LOCKPAGE")
    /\ LET m == Head(toMaster[n])
       IN  requests' = [requests EXCEPT ![m.page] =
                            Append(@, [from |-> n, rights |-> m.rights])]
    /\ daemon' = Select
    /\ toMaster' = [toMaster EXCEPT ![n] = Tail(@)]
    /\ UNCHANGED <<localVars, lock, fromMaster, readers, invalidate_sent,
                   write_owner, crashed, version, ack_due>>

handle_lockpage_msg(n) ==
    /\ ServerReady(n, "LOCKPAGE")
    /\ LET m == Head(toMaster[n])
       IN  /\ requests' = [requests EXCEPT ![m.page] =
                              Append(@, [from |-> n, rights |-> m.rights])]
           /\ daemon' = <<"check", m.page>>
    /\ toMaster' = [toMaster EXCEPT ![n] = Tail(@)]
    /\ UNCHANGED <<localVars, lock, fromMaster, readers, invalidate_sent,
                   write_owner, crashed, version, ack_due>>

handle_invalidate_ack_msg(n) ==
    /\ ServerReady(n, "INVALIDATE_ACK")
    /\ LET p == Head(toMaster[n]).page
       IN  /\ readers' = [readers EXCEPT ![p] = RemoveFirst(@, n)]
           /\ daemon' = <<"check", p>>
    /\ toMaster' = [toMaster EXCEPT ![n] = Tail(@)]
    /\ UNCHANGED <<localVars, lock, fromMaster, requests, invalidate_sent,
                   write_owner, crashed, version, ack_due>>

handle_givepage_server(n) ==
    /\ ServerReady(n, "GIVEPAGE")
    /\ LET m == Head(toMaster[n])
       IN  /\ MutexFree(Master, m.page)
           /\ StorePage(Master, m)
           /\ daemon' = <<"check", m.page>>
    /\ toMaster' = [toMaster EXCEPT ![n] = Tail(@)]
    /\ UNCHANGED <<lock, fromMaster, requests, readers, invalidate_sent,
                   crashed, version, ack_due>>

\* The listener has received a message whose handler needs mutex_page while
\* the master's application holds it: it blocks and serves no other socket.
BlockOnMutex ==
    /\ MasterRuns /\ daemon = Select
    /\ \/ \E n \in Nodes :
             /\ ServerReady(n, "GIVEPAGE")
             /\ ~MutexFree(Master, Head(toMaster[n]).page)
             /\ daemon' = <<"accepted", n>>
       \/ /\ fromMaster[Master] # <<>>
          /\ ~MutexFree(Master, Head(fromMaster[Master]).page)
          /\ daemon' = <<"own", Master>>
    /\ UNCHANGED <<localVars, lock, toMaster, fromMaster, directoryVars,
                   crashed, version, ack_due>>

-----------------------------------------------------------------------------
(* process_list_requests, run by the master's listener without mutex_page. *)

\* The loop is entered only if the master has the page; uptodate is not read
\* again inside the loop.
ProcessCheck(p) ==
    /\ MasterRuns /\ daemon = <<"check", p>>
    /\ daemon' = IF uptodate[Master][p] /\ requests[p] # <<>>
                 THEN <<"loop", p>> ELSE Select
    /\ UNCHANGED <<localVars, lock, toMaster, fromMaster, directoryVars,
                   crashed, version, ack_due>>

\* The head of the queue asks for r.  The else branch of the loop body ends the
\* master with "Bad Rights"; lock_page asks for one of the two rights below, so
\* no request reaches it.
AtRequest(p, r) ==
    /\ MasterRuns /\ daemon = <<"loop", p>>
    /\ Head(requests[p]).rights = r

\* Mutant: the reader is not recorded.
ServeReaderUnlisted(p) ==
    /\ AtRequest(p, "read")
    /\ protection[Master][p] # "none"
    /\ SendFromMaster(Head(requests[p]).from, satisfy_request(Master, p, "read"))
    /\ requests' = [requests EXCEPT ![p] = Tail(@)]
    /\ daemon' = IF Len(requests[p]) > 1 THEN daemon ELSE Select
    /\ UNCHANGED <<localVars, lock, toMaster, readers, invalidate_sent,
                   write_owner, crashed, version, ack_due>>

\* Mutant: a process that is listed as a reader is not sent the page again.
ServeReaderOnce(p) ==
    /\ AtRequest(p, "read")
    /\ protection[Master][p] # "none"
    /\ LET n == Head(requests[p]).from
       IN  IF \E i \in DOMAIN readers[p] : readers[p][i] = n THEN UNCHANGED <<fromMaster, readers>>
           ELSE /\ SendFromMaster(n, satisfy_request(Master, p, "read"))
                /\ readers' = [readers EXCEPT ![p] = Append(@, n)]
    /\ requests' = [requests EXCEPT ![p] = Tail(@)]
    /\ daemon' = IF Len(requests[p]) > 1 THEN daemon ELSE Select
    /\ UNCHANGED <<localVars, lock, toMaster, invalidate_sent, write_owner, crashed,
                   version, ack_due>>

\* A reader: send the page, move the request to the readers, take the next
\* one.  The next pointer is read from the node list_remove has freed; if the
\* allocator has overwritten it, following it kills the process.
ServeReader(p) ==
    /\ AtRequest(p, "read")
    /\ protection[Master][p] # "none"
    /\ LET n == Head(requests[p]).from
       IN  /\ SendFromMaster(n, satisfy_request(Master, p, "read"))
           /\ readers' = [readers EXCEPT ![p] = Append(@, n)]
    /\ requests' = [requests EXCEPT ![p] = Tail(@)]
    /\ daemon' = IF Len(requests[p]) > 1 THEN daemon ELSE Select
    /\ \E intact \in FreedNodeIntact :
          crashed' = IF intact THEN crashed ELSE crashed \cup {Master}
    /\ UNCHANGED <<localVars, lock, toMaster, invalidate_sent, write_owner,
                   version, ack_due>>

\* Where the loop may go when a writer has to wait for the readers.  The code
\* stays: every liveness property is checked with LeavesLoop = {FALSE}.
AfterWait(p) == {IF leaves THEN Select ELSE <<"loop", p>> : leaves \in LeavesLoop}

\* A writer, and there are readers: ask each of them to invalidate, once.  A
\* process listed k times is sent k messages.
invalidate_readers(p) ==
    fromMaster' = [n \in Nodes |->
        fromMaster[n] \o [i \in 1..Cardinality({j \in DOMAIN readers[p] :
                                                  readers[p][j] = n})
                             |-> Invalidate(p)]]

\* Mutant: invalidate_sent is not set.
InvalidateReadersNoFlag(p) ==
    /\ AtRequest(p, "readwrite")
    /\ ~invalidate_sent[p] /\ readers[p] # <<>>
    /\ invalidate_readers(p)
    /\ daemon' \in AfterWait(p)
    /\ UNCHANGED <<localVars, lock, toMaster, directoryVars, crashed, version,
                   ack_due>>

InvalidateReaders(p) ==
    /\ AtRequest(p, "readwrite")
    /\ ~invalidate_sent[p] /\ readers[p] # <<>>
    /\ invalidate_readers(p)
    /\ invalidate_sent' = [invalidate_sent EXCEPT ![p] = TRUE]
    /\ daemon' \in AfterWait(p)
    /\ UNCHANGED <<localVars, lock, toMaster, requests, readers, write_owner,
                   crashed, version, ack_due>>

\* A writer, readers remain and the invalidations are sent: neither branch of
\* the loop body applies and reqlist is not advanced.
AwaitReaders(p) ==
    /\ AtRequest(p, "readwrite")
    /\ invalidate_sent[p] /\ readers[p] # <<>>
    /\ daemon' \in AfterWait(p)
    /\ UNCHANGED <<localVars, lock, toMaster, fromMaster, directoryVars,
                   crashed, version, ack_due>>

\* Mutant: sending the invalidations is enough, the acks are not awaited.
NoReadersOrAsked(p) == readers[p] = <<>> \/ invalidate_sent[p]

NoReaders(p) == readers[p] = <<>>

\* A writer and no reader: send the page ...
GrantWriter(p) ==
    /\ AtRequest(p, "readwrite")
    /\ NoReaders(p)
    /\ protection[Master][p] # "none"
    /\ invalidate_sent' = [invalidate_sent EXCEPT ![p] = FALSE]
    /\ SendFromMaster(Head(requests[p]).from, satisfy_request(Master, p, "readwrite"))
    /\ daemon' = <<"giveup", p>>
    /\ UNCHANGED <<localVars, lock, toMaster, requests, readers, write_owner,
                   crashed, version, ack_due>>

\* Mutant: the request is not removed from the queue.
GrantWriterKeepsRequest(p) ==
    /\ MasterRuns /\ daemon = <<"giveup", p>>
    /\ giveup_localpage(Master, p)
    /\ write_owner' = [write_owner EXCEPT ![p] = Head(requests[p]).from]
    /\ daemon' = Select
    /\ UNCHANGED <<content, lock, toMaster, fromMaster, requests, readers,
                   invalidate_sent, crashed, version, ack_due>>

\* ... then drop the local copy, record the owner and return.
GrantWriterGiveup(p) ==
    /\ MasterRuns /\ daemon = <<"giveup", p>>
    /\ giveup_localpage(Master, p)
    /\ write_owner' = [write_owner EXCEPT ![p] = Head(requests[p]).from]
    /\ requests' = [requests EXCEPT ![p] = Tail(@)]
    /\ daemon' = Select
    /\ UNCHANGED <<content, lock, toMaster, fromMaster, readers,
                   invalidate_sent, crashed, version, ack_due>>

\* satisfy_request reads a page that the application has given up since
\* ProcessCheck: SIGSEGV.
daemon_fault(p) ==
    /\ MasterRuns /\ daemon = <<"loop", p>>
    /\ protection[Master][p] = "none"
    /\ Head(requests[p]).rights = "readwrite" => readers[p] = <<>>
    /\ crashed' = crashed \cup {Master}
    /\ UNCHANGED <<localVars, lock, toMaster, fromMaster, daemon,
                   directoryVars, version, ack_due>>

process_list_requests(p) ==
    \/ ProcessCheck(p) \/ ServeReader(p) \/ InvalidateReaders(p)
    \/ AwaitReaders(p) \/ GrantWriter(p) \/ GrantWriterGiveup(p)
    \/ daemon_fault(p)

-----------------------------------------------------------------------------
(* The death of a process seen from the other end of its connection.       *)

\* recv() on the connection of a dead slave fails, or a send() on it does:
\* dsm_receive and dsm_send exit.  (An orderly end of file only closes the
\* socket, and changes nothing here.)
SlaveLost(n) ==
    /\ MasterRuns /\ n \in Slaves \cap crashed
    /\ crashed' = crashed \cup {Master}
    /\ UNCHANGED <<localVars, lock, toMaster, fromMaster, daemon,
                   directoryVars, version, ack_due>>

\* A slave's listener that loses the master closes the socket and selects on
\* it again: select() fails and the process exits.
MasterLost(n) ==
    /\ n \in Slaves \ crashed /\ Master \in crashed
    /\ crashed' = crashed \cup {n}
    /\ UNCHANGED <<localVars, lock, toMaster, fromMaster, daemon,
                   directoryVars, version, ack_due>>

-----------------------------------------------------------------------------
App(n, p) ==
    \/ \E r \in Access : \/ lock_page_hit(n, p, r)
                         \/ lock_page_miss(n, p, r)
                         \/ lock_page_wake(n, p, r)
    \/ Store(n, p) \/ app_fault(n, p) \/ unlock_read(n, p)
    \/ unlock_write_send(n, p) \/ unlock_write_giveup(n, p)

ClientHandler(n) ==
    \/ handle_givepage_client(n)
    \/ handle_invalidate_msg(n)
    \/ send_invalidate_ack(n)

ServerHandler(n) ==
    \/ handle_lockpage_msg(n)
    \/ handle_invalidate_ack_msg(n)
    \/ handle_givepage_server(n)

Next ==
    \/ \E n \in Nodes, p \in Pages : App(n, p)
    \/ \E n \in Nodes : ClientHandler(n) \/ ServerHandler(n)
    \/ BlockOnMutex
    \/ \E p \in Pages : process_list_requests(p)
    \/ \E n \in Slaves : SlaveLost(n) \/ MasterLost(n)

Spec == Init /\ [][Next]_vars

\* Fairness.  Both threads of a process keep running, and an application
\* leaves the sections it enters.  select() returns every readable socket and
\* the listener serves all of them before it selects again, so a message that
\* can be handled again and again is handled: strong fairness per socket.
Fairness ==
    /\ \A n \in Nodes, p \in Pages :
          /\ \A r \in Access : WF_vars(lock_page_wake(n, p, r))
          /\ WF_vars(unlock_read(n, p))
          /\ WF_vars(unlock_write_send(n, p))
          /\ WF_vars(unlock_write_giveup(n, p))
    /\ \A n \in Nodes : SF_vars(ClientHandler(n)) /\ SF_vars(ServerHandler(n))
    /\ \A p \in Pages : WF_vars(process_list_requests(p))

FairSpec == Spec /\ Fairness

-----------------------------------------------------------------------------
(* Properties.                                                             *)

\* The application of n is in a section of page p in which the memory lets it
\* store, or load.
Writing(n, p) == lock[n][p] = "write" /\ protection[n][p] = "readwrite"
Reading(n, p) == lock[n][p] \in {"read", "write"} /\ protection[n][p] # "none"

\* lock_write is exclusive: while one process can store to a page, no other
\* process is in a section in which it can load it.
SingleWriter ==
    \A p \in Pages : \A n, m \in Nodes :
        n # m /\ Writing(n, p) => ~Reading(m, p)

\* lock_read and lock_write give the last version of the page: a process that
\* can load in its section sees every store made before.
LatestVersion ==
    \A n \in Nodes, p \in Pages : Reading(n, p) => content[n][p] = version[p]

\* The master has the page.  Between satisfy_request and giveup_localpage it
\* has already sent it away.
MasterHolds(p) == uptodate[Master][p] /\ daemon # <<"giveup", p>>

IsGivepage(m, p, r) == m.type = "GIVEPAGE" /\ m.page = p /\ m.rights = r

\* The places where the writable copy of a page is.
Homes(p) ==
    {h \in {<<"master", Master, 0>>} : MasterHolds(p)}
    \cup (UNION {{<<"granted", n, i>> : i \in {j \in DOMAIN fromMaster[n] :
                    IsGivepage(fromMaster[n][j], p, "readwrite")}} : n \in Nodes})
    \cup {<<"held", n, 0>> : n \in {s \in Slaves :
                    protection[s][p] = "readwrite" /\ lock[s][p] # "release"}}
    \cup (UNION {{<<"returned", n, i>> : i \in {j \in DOMAIN toMaster[n] :
                    IsGivepage(toMaster[n][j], p, "readwrite")}} : n \in Nodes})

\* There is one place.
OneHome == \A p \in Pages : Cardinality(Homes(p)) = 1

\* A copy of the page is on its way back to the master, with whatever rights.
Returned(p) ==
    \E n \in Nodes : \E i \in DOMAIN toMaster[n] :
        toMaster[n][i].type = "GIVEPAGE" /\ toMaster[n][i].page = p

\* A page is always somewhere, also when the master's application locks it and
\* returns it to its own listener: unlock_write sends the page before it drops
\* it, and mutex_page must keep the listener from storing the page in between,
\* where it would be dropped with the old copy.
PageNeverLost == \A p \in Pages : Homes(p) # {} \/ Returned(p)

\* write_owner is the current writer: when the master does not have the page,
\* it is with, or on the way to or from, the process recorded there.
OwnerRecorded ==
    \A p \in Pages : ~uptodate[Master][p] =>
        \A h \in Homes(p) : h[2] = write_owner[p]

\* The writable copy of a page is never lost and never duplicated, through
\* grants, sections and returns, and write_owner says who has it.
PageHasOneHome == OneHome /\ OwnerRecorded

\* The directory knows every reader it would have to invalidate: a slave that
\* has a valid read-only copy, or will receive one, is in current_readers_queue.
CopiesListed ==
    \A n \in Slaves, p \in Pages :
        \/ uptodate[n][p] /\ protection[n][p] = "read" /\ lock[n][p] # "release"
        \/ \E i \in DOMAIN fromMaster[n] : IsGivepage(fromMaster[n][i], p, "read")
        => n \in ToSet(readers[p])

\* list_remove leaves the tail pointer of current_readers_queue behind, so
\* nothing may be added between a removal and the moment the list is empty:
\* readers leave only while an invalidation is pending, and none joins then.
ReadersDrainFirst ==
    [][\A p \in Pages :
         /\ Len(readers'[p]) < Len(readers[p]) => invalidate_sent[p]
         /\ Len(readers'[p]) > Len(readers[p]) => ~invalidate_sent[p]]_vars

\* A slave receives a page only while it waits for it in lock_page, and with
\* the rights it asked for: handle_givepage_msg never overwrites a page the
\* application is using or has given up.
NoUnsolicitedPage ==
    \A n \in Slaves : \A i \in DOMAIN fromMaster[n] :
        fromMaster[n][i].type = "GIVEPAGE" =>
            lock[n][fromMaster[n][i].page] = Asking(fromMaster[n][i].rights)

\* The request of a blocked lock call is on its way, or in the queue and not yet
\* answered (the head is, once satisfy_request is done), or its answer is on its way.
UnderWay(n, p) ==
    \/ \E i \in DOMAIN toMaster[n] :
          toMaster[n][i].type = "LOCKPAGE" /\ toMaster[n][i].page = p
    \/ \E i \in DOMAIN requests[p] :
          requests[p][i].from = n /\ ~(i = 1 /\ daemon = <<"giveup", p>>)
    \/ \E i \in DOMAIN fromMaster[n] :
          fromMaster[n][i].type = "GIVEPAGE" /\ fromMaster[n][i].page = p

\* lock_page sends one request and then only waits, so nothing may lose it: it
\* is under way until the page is here.  (What may be lost is the page, to an
\* INVALIDATE that is handled before the application wakes up.)
RequestKept ==
    [][\A n \in Slaves, p \in Pages :
         /\ lock'[n][p] \in {"ask_read", "ask_write"}
         /\ lock[n][p] = "free" \/ UnderWay(n, p)
         => UnderWay(n, p)' \/ uptodate'[n][p]]_vars

\* Nobody but the application changes a page or its mapping during a section:
\* mutex_page keeps the daemon out.  Stated for the processes in N.
StableSection(N) ==
    \A n \in N, p \in Pages :
        lock[n][p] \in {"read", "write"} /\ lock'[n][p] = lock[n][p] =>
            /\ protection'[n][p] = protection[n][p]
            /\ uptodate'[n][p] = uptodate[n][p]
            /\ content'[n][p] = content[n][p] \/ Writing(n, p)

SectionsStable == [][StableSection(Nodes)]_vars
SlaveSectionsStable == [][StableSection(Slaves)]_vars

\* Every request is satisfied: a blocked lock call returns, unless its process
\* or the master dies.
Returns(n, p, r) ==
    lock[n][p] = Asking(r) ~> \/ lock[n][p] = Holding(r)
                              \/ crashed \cap {n, Master} # {}

EveryLockReturns == \A n \in Nodes, p \in Pages, r \in Access : Returns(n, p, r)

=============================================================================
