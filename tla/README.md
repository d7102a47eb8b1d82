# A TLA+ development for PSAR-DSM

PSAR-DSM is a page-based distributed shared memory in C: one *master* and
several *slave* processes map the same number of pages, and an application
brackets its accesses with `lock_read`/`unlock_read` and
`lock_write`/`unlock_write`; `sync_barrier` synchronises processes. This
directory models the protocol behind those calls, checks it with TLC and proves
its safety with TLAPS. Paths below are relative to the repository root; the
program is in `src/` (so `PROJECT.json` writes `src/src/dsm_core.c`).

## 1. Inventory

Every process has two threads: the application, and a listener
(`dsm_daemon`, `dsm_socket.c`) that waits in `select()`, reads one message per
readable socket and runs its handler. Every process has one connection to the
master. The master has one too, *to itself*: its application is a client like
the others, but both ends share one `dsm_page_t` per page, which is at once the
directory entry of the page and the master's own copy of it.

| Component | State | Operations | What makes it correct |
|---|---|---|---|
| Page protocol, client side (`dsm.c`, `dsm_core.c`) | per page: `uptodate`, `protection` (with the mapping), the bytes, `mutex_page`, `cond_uptodate` | `lock_read`, `lock_write` → `lock_page`; `unlock_read`; `unlock_write` → `satisfy_request`, `giveup_localpage`; `handle_givepage_msg`, `handle_invalidate_msg` | one writer or several readers; a section sees the last write; nobody touches a page during a section; a lock call returns |
| Page directory (`dsm_core.c`, `dsm_memory.[ch]`) | master, per page: `requests_queue`, `current_readers_queue`, `invalidate_sent`, `write_owner` | `handle_lockpage_msg`, `handle_invalidate_ack_msg`, `handle_givepage_msg`, `process_list_requests`, `invalidate_readers` | the writable copy is never lost or duplicated; every read copy is listed; every request is served, none starves |
| Linked list (`list.c`) | `head`, `tail`, `length`, heap nodes | `list_init`, `list_add`, `list_remove`, `list_destroy` | it is a queue: nothing lost, nothing leaked, no freed node reached |
| Barrier (`dsm_core.c`, `dsm.c`) | `mutex_sync_barrier`, `cond_sync_barrier`; master: `sync_barrier_waiters` | `sync_barrier` → `wait_barrier`; `handle_sync_barrier_msg`, `handle_barrier_ack_msg` | nobody passes before everybody has arrived; once all have, everybody passes |
| Listener and transport (`dsm_socket.c`) | sockets, `active_fd_set` | `msg_listener_start` (select loop, accept), `dsm_send`, `dsm_receive`, `dsm_socket_connect`, `dsm_socket_bind_listen` | messages of one connection arrive whole and in order; a closed connection is dropped and nothing else |
| Message codec (`dsm_protocol.c`) | – | `dsm_send_msg`, `dsm_receive_msg`, `dsm_dispatch_message` | what is decoded is what was encoded, for every page number; every message fits the receiver's buffer |
| Start-up and termination (`dsm.c`, `dsm_master.c`, `dsm_core.c`) | `client_count`, `cond_master_end`, `master->sockfd`, `dsm_g` | `InitMaster`, `InitSlave`, `handle_connect_msg`, `handle_terminate_msg`, `QuitDSM`, `terminate`, `dsm_destroy` | every client is counted once; the master leaves last, with every page; nobody waits for ever |
| binn (`binn.[ch]`, copied into the repository) | the `binn` structure: block, `used_size`, `count`, `dirty`, saved header | create, add/set, `binn_ptr`, get, pairs, iterators, `binn_release`, `binn_open` | nothing is written outside the block; readers find what writers wrote, across all length limits and integer widths; keys stay distinct |
| Demos and tests | – | call sequences | used as a source of call patterns |

Hard behaviours: two threads per process that share the page structure; a
listener that blocks in a handler, or loops in one, and thereby stops receiving;
`process_list_requests`, which runs without `mutex_page`; an answer sent after
the mutex is released, overtaken by the application's next request; a condition
signalled without a predicate; use of freed memory; a peer that dies; a
descriptor read before it is assigned; two threads that send on one socket;
lengths and integers whose width in a message depends on their value. They are
listed line by line under `hazards` in `PROJECT.json`.

## 2. Modules

| Module | What it models |
|---|---|
| `DSMPages` | client side, directory, listener: the whole life of a page |
| `MCDSMPages` | its instances: which processes make which lock calls |
| `DSMPagesProofs` | theorems about `DSMPages`: types, sections, claims; the readers list and the invalidations; exclusion, freshness, the one writable copy |
| `LinkedList` | `list.c` with its pointers, `malloc` and `free` |
| `ListQueue` | the abstract queue that `LinkedList` implements |
| `MCLinkedList` | symmetry of addresses |
| `LinkedListProofs` | theorems about `LinkedList`, the refinement of `ListQueue` included |
| `Barrier` | `sync_barrier` and its handlers |
| `BarrierProofs` | theorems about `Barrier` |
| `BinnTypes` | binn's types, storage classes, and the two conversions of integers |
| `BinnFormat` | binn's buffers: every writer and every reader, as operators; what an entry denotes |
| `BinnFormatProofs` | lemmas about them: what the writers put where, what the readers find |
| `Binn`, `MCBinn` | a program that uses one container; its instance |
| `BinnProofs` | theorems about `Binn`: where bytes end, headers, refused setters, what is read back |
| `Protocol` | `dsm_protocol.c` on top of `BinnFormat`; pages and addresses of `dsm_memory.c` |
| `Transport`, `MCTransport` | one connection: the `send()` and `recv()` calls around `Protocol`; its instance |
| `TransportProofs` | theorems about `Transport`: framing, delivery, sizes, page identifiers |
| `Lifecycle` | start-up, the select loop, termination, and one page among processes that come and go |
| `LifecycleProofs` | theorems about `Lifecycle` |
| `SequenceFacts` | lemmas on sequences and on powers of two that the proofs use |

### DSMPages

State. `uptodate`, `protection`, `content` are the fields of `dsm_page_t` and
the page itself on each process; a page's bytes are abstracted to the number of
the write that produced them, and `version` (history) counts the writes.
`protection` stands for the field and for the `mprotect` state that the code
always sets together with it. `lock[n][p]` is where the application of `n` is
with page `p`: outside, blocked in `lock_page` (`ask_*`), in a section, or in
the middle of `unlock_write` (`release`). It also tells who has `mutex_page`
(`MutexFree`): a lock call returns *with* the mutex, and the wait releases it.
`toMaster`/`fromMaster` are the TCP streams of each connection. `daemon` is the
place of the master's listener: in `select`, blocked on `mutex_page` inside a
handler, or at a point of `process_list_requests`. A slave's listener needs only
`ack_due`. `requests`, `readers`, `invalidate_sent`, `write_owner` are the
directory.

Actions and code:

| Action | Code |
|---|---|
| `lock_page_hit`, `lock_page_miss`, `lock_page_wake` | `lock_page` (`dsm_core.c`) under `lock_read`/`lock_write`: copy up to date; LOCKPAGE sent and wait; end of the wait |
| `Store`, `app_fault` | the application's access in a section, allowed by the mapping or killed by SIGSEGV |
| `unlock_read`, `unlock_write_send`, `unlock_write_giveup` | `dsm.c`; two steps for `unlock_write` because the master's listener may run between the send and the loss of the copy |
| `handle_givepage_client`, `handle_givepage_server` | `handle_givepage_msg`, on a client socket and on the master for a page that comes back |
| `handle_invalidate_msg`, `send_invalidate_ack` | `handle_invalidate_msg`, up to the unlock and after it |
| `handle_lockpage_msg`, `handle_invalidate_ack_msg` | the master's handlers |
| `BlockOnMutex` | the listener has received a message whose handler waits for `mutex_page` |
| `ProcessCheck` … `GrantWriterGiveup`, `daemon_fault` | `process_list_requests`, one action for each branch; split where the application can run in between |
| `SlaveLost`, `MasterLost` | the other end notices a death and exits |

Two constants stand for questions that the source leaves open.

* `FreedNodeIntact`: `process_list_requests` reads `reqlist->next` from the node
  that `list_remove` freed on the line before. With an allocator that leaves the
  word alone the loop goes on; glibc since 2.29 writes its tcache key there, and
  following it kills the master. `{TRUE, FALSE}` checks both outcomes.
* `LeavesLoop`: **`{FALSE}` is the code.** While a writer waits for
  INVALIDATE_ACK, the loop in `process_list_requests` neither advances nor
  returns, and the listener that runs it is the only thread that could receive
  the acknowledgement. So in the program as it stands a page that has ever had a
  reader is never written again by a slave (finding `v_requests_satisfied`), and
  `handle_invalidate_ack_msg` is never reached. With `TRUE` the model may leave
  the loop there; every behaviour of the code is still a behaviour of the model
  with `{TRUE, FALSE}`. Safety is therefore checked for the code and, beyond it,
  for the rounds of invalidation the handlers are written for.

Other modelling decisions. The branch of `process_list_requests` for bad rights
(`error("Bad Rights")`) has no action: LOCKPAGE is sent by `lock_page` only, with
one of two rights. Streams are FIFO and whole messages (the two `send()`
calls of `dsm_send` are in `Transport`). The buffer that
`dsm_receive_msg` frees before the GIVEPAGE handler copies from it is taken to
be intact. `SlaveLost` covers the connection error; an orderly end of file only
closes the socket.

### LinkedList and ListQueue

`LinkedList` has `head`, `tail`, `length` and a heap; `malloc` returns any free
address, `free` leaves anything in `next`. `list_remove` does not update `tail`,
so the list is a queue only when it is used in certain ways. `usage` is one of
the three ways the program has: requests are removed from the front; readers are
removed by value and, once one is removed, nobody is added until the list is
empty; barrier waiters are added and destroyed together. That the readers are
used in this way is itself a property of the protocol,
`DSMPages!ReadersDrainFirst`. The refinement `ImplementsQueue` maps the list to
the sequence a walk from `head` meets.

### Barrier

`app[n]` separates the send of SYNC_BARRIER, the start of the wait and its end,
because the acknowledgement can be handled between the first two; `waiters` is
`sync_barrier_waiters`. `spurious` and `lost` record what the guarantees depend
on.

### BinnTypes, BinnFormat, Binn

A buffer is a sparse function from byte offsets to *fields*. A field has a width
in bytes, so all offsets, sizes and allocations are the code's own numbers; its
content is one number (an integer's bit pattern, a name for a text or a blob), so
the model does not spell out bytes. Writers (`AddValue`, the raw setters,
`binn_save_header`) and readers (`IsValidBinnHeader`, `AdvanceDataPos`,
`SearchForKey`, `SearchForID`, `GetValue`, `binn_read_pair`, `binn_next`) compute
widths each from its own code; where they disagree a reader meets an offset at
which no field starts, and reads `Garbage`. That is what makes `ReadsBack` and
`HeaderTruthful` say something. `compress_int` and `copy_int_value` work on real
bit patterns of widths `IntBits`.

`Binn` drives these operators: create, add, save, iterate, release, open and free
in any order, with the accepted entries (`added`) and the iterator's answers
(`seen`) as history. The two typed families (`binn_list_get_int32` with a result,
`binn_list_int32` without) are `TypedGet` and `TypedValue`. `realloc` gives the
block a new name (`pbuf`), so that a saved pointer into the old one is visible:
`Dangling`. A setter of a map or an object writes the entry's key first and the
value after it. When the value is refused (a blob of negative size, say), it puts
`used_size` back, but the key's bytes stay behind it, the block may have grown, and
`dirty` is not set: `SetEntry` does just that, and the entry written next lies over
those bytes. If the block moved, the pointer saved before is stale; releasing the
structure then yields the phase `lost` (section 4). `StaleOnlyByRefusal` says that
nothing but a refused setter leads there, and the properties of the readers exclude
the phase; `dsm_send_msg` never gets into it, since it asks for the bytes once, after
its last setter.

`Entries` are the arguments that programs pass to setters, `Offers` those that
they pass at a point of time. `EntriesAssumption` says of them what a caller in C
cannot get wrong without undefined behaviour: an integer is one of its type, a
string ends, a text is passed as the key of an object, and the bytes passed as a
container are one. `Denotes` and `Converted` in `BinnFormat` say what a reader and
a typed getter must answer for an entry, without reference to any buffer; they are
the reference definitions of `ReadsBack`, `IteratorInOrder` and `GettersConvert`.
`copy_float_value` converts a double to a float by a C cast, that is `Float32`, a
constant (any rounding), and answers TRUE; so the getters of floats give another
number than was stored, and `GettersConvert` speaks of integers, Booleans and null
only.

### Protocol and Transport

A message is a type and a function from keys to C values. `Encoded` and `Decoded`
are `dsm_send_msg` and `dsm_receive_msg`: the conversion of each argument to the
parameter of its setter (`Cast`), the object, and the conversion of each getter's
result to the field of the argument structure (`ArgType`). `Transport` has the
two directions of one slave's connection. `SendSize` and `SendBody` are the two
`send()` calls, `ReceiveSize` and `ReceiveBody` the two `recv()` calls with
`MSG_WAITALL`; the receiver knows only bytes, and when the next bytes are not
exactly one body it has been `garbled`, after which the model stops that
direction. `MCTransport!MCMessages` says which message may follow which, from the
handlers: it is not the page protocol, only its grammar.

### Lifecycle

`main` is the place of the master's main thread, `slave[s]` that of a slave,
`listener` that of the master's listener in its loop. The master is a client of
its own listener: `"own"` is its end of that connection (`master->sockfd`), and
`Master` the accepted end. `garbage` is what `malloc` left in `master->sockfd`,
which the listener reads before `dsm_m_init` assigns it: a negative value ends
`InitMaster` at once, a number that is not open makes `select` fail, and an open
descriptor (0, standard input, when the memory happens to be zero) is watched for
ever and ends the process when there is input. `Top` is the FD_CLR/FD_SET pair at
the head of the loop: the right descriptor is added once it is there, the wrong
one never removed. Slaves may end at any point (`ExitSlave`); `ReceiveAck` includes
the crash that an uninitialised `dsm_g->mem` can cause in `dsm_receive_msg`.

The directory of one page is part of the model, because it refers to processes by
descriptor and outlives them: `requests` and `readers` are its two lists, `copy[s]`
is what a slave has. A slave that has read the page and quits stays in `readers`;
its socket is closed when the end of file is read (`ReceiveEnd`), and its number
may be given to the next client (`Descriptor`, in `Accept`), which the entries then
name. `process_list_requests` returns at once when the page is away
(`ProcessCheck`), sends the page or INVALIDATE to whatever the entries name, and a
`send()` on a closed descriptor, or to a process that is gone, ends the master
(`SendPageFails`, `InvalidateFails`). When all readers could be asked, the listener
stays in the loop for ever (`listener = "spin"`; see `LeavesLoop` above). The
slaves in `Lockers` lock the page; the master's application calls only
`sync_barrier(1)`, the call that its own listener answers alone, and quits.
Simplified here and complete in `DSMPages` or `Barrier`: a slave that has the page
for reading does not ask to write it, `mutex_page` and the order of GIVEPAGE and
INVALIDATE on a slave, spurious wake-ups of the barrier. A closed number is given
again to accepted connections only, although any `open` of the process could
get it.

### How the modules fit together

`Protocol` extends `BinnFormat`, `Transport` extends `Protocol`: the bytes of the
messages in `Transport` are those the model of binn produces. `DSMPages`,
`Barrier` and `Lifecycle` take messages as whole and in order, which is what
`MessagesSurvive` and `NothingLeftWaiting` establish as long as
`OnlyOverlapGarbles` does not apply, that is, while the two threads of a slave are
not inside `dsm_send` together. `LinkedList` supports the queues of `DSMPages`
through `ReadersDrainFirst`. `Lifecycle` takes from `DSMPages` that a slave may
obtain the writable page while the master serves requests, and the branches of `process_list_requests`.

## 3. Runs

| Run | Instance | What it shows |
|---|---|---|
| `slaves` | 2 slaves, 1 page, all slaves read and write; `{TRUE,FALSE}` for both constants | exclusion, freshness, one writable copy, truthful `write_owner` and readers list, no unsolicited page, no request lost, undisturbed sections |
| `master_locks` | 1 slave and the master's application, 1 page | the page is always somewhere, although the master's `unlock_write` sends it to its own listener before it drops it |
| `code_live` | the code, 2 slaves, one page only written and one only read, nested locks possible | every lock call returns; no deadlock |
| `lists_as_used` | 4 addresses, 2 elements, all three usages | `list.c` implements the queue |
| `barrier` | 3 processes, 2 calls each | no early return, one answer per call, and all return if no signal was lost |
| `binn` | integers of 2 to 5 bits, one-byte lengths up to 5, blocks from 20 bytes, 6 entries, 9 keys | writers and readers of binn.c agree: no byte outside the block, truthful headers, every entry read back by every path, exact conversions, distinct keys, iterators in order, refused setters that take back what they wrote, and the only ones that leave a stale pointer |
| `transport` | the real limits (127, 256, 512, pages of 4096), integers of 8, 12, 16 and 20 bits, 4 messages each way | every message arrives as it was sent, about the same page, fits its buffer, and only overlapping sends break the framing |
| `lifecycle` | master, 2 slaves that lock the page, a backlog of 2 | exact `client_count`, a master that dies only for a reason, leaves last and with its page |
| `lifecycle_live` | master, 2 slaves of which one locks the page, both may fail, a backlog of 1 | every CONNECT is answered or the master is gone; the master's barrier call is answered although its listener may have waited for the wrong descriptor; QuitDSM ends |
| `v_requests_satisfied` | 1 reader, 1 writer, the code | *violation*: the writer never gets the page |
| `v_master_mutex` | master reads, slave writes | *violation*: the listener takes the page away during the master's section |
| `v_barrier_opens` | 2 processes | *violation*: BARRIER_ACK before `pthread_cond_wait` |

Bounds. `MaxBacklog` stops new requests while that many are pending or listed:
the code puts no limit on the readers list (a process is listed again for every
copy) or on the streams. 4 is enough for each of two slaves to be listed twice,
or for a full round of requests to be behind a full round of acknowledgements.
`MaxVersion = 2` gives a copy that is two writes old and one that is one write
old. Two slaves are enough for one reader and one writer in every role (the
master holds the directory besides them); the instance of `slaves` with three
slaves was also checked once (3.7 million states) without a violation. The
symmetry of the slaves is used only for safety and where all make the same
calls. Deadlock is checked in `code_live`, `lists_as_used` and
`binn`; elsewhere the bounds, or the deaths that the model includes, stop the
system.

In `binn` the widths and limits are scaled down so that TLC can take *every*
integer of every type and still cross every limit: strings of length 5 and 6,
containers of more than 5 bytes and of more than 5 entries, a block that has to
grow once and more than once. The code's comparisons depend only on the order of
these limits, which is kept. In `transport` the limits are the real ones, because
the question is whether the real messages fit, and only the integers are narrower;
the page numbers lie on both sides of each of their limits, up to the largest
page count a 32-bit signed integer (here 16 bits) can announce. In `lifecycle` two
slaves are enough for one that fails, is late or has left beside one that behaves,
and the backlog of 2 is full when both connect before the master's own connection.
`FreedNodeIntact = {TRUE}` in the two runs of `Lifecycle`: the other outcome only
ends the master, and `slaves` checks it. In `lifecycle_live` one slave locks the page
and the other only joins and leaves, because TLC needs longer than five minutes when
both lock; with one there is never a reader and a writer at once, so that the listener
does not spin, and the properties except a spinning listener in any case. `LeavesLoop = {TRUE, FALSE}` is
used in `slaves` only, where more behaviours than the code's can do no harm; the
runs on liveness and all violating runs have the code's `{FALSE}`.

Fairness (`DSMPages!Fairness`). The threads of a process are scheduled, so a
wake-up, the steps of `unlock_write` and those of `process_list_requests` get
weak fairness; an application leaves its sections, as the API asks, so the two
unlock calls do too. It need not make any call. `select()` returns all readable
sockets and the loop serves each of them once before the next `select()`, so a
message that can be handled again and again is handled: strong fairness for each
socket. In `Barrier` both threads get weak fairness. In `Lifecycle` the main
thread, the listener and the steps of a slave inside `InitSlave` get weak
fairness; a waiting main thread only has to run after a signal
(`CheckCount /\ signalled`), spurious wake-ups are allowed and not relied on; when
to start, ask, quit or fail is left to the processes. `Transport` has no liveness
property: TLC would have to evaluate the enabledness of every encoding in every
state. `NothingLeftWaiting` says instead, as an invariant, that a receiver which
waits has all its bytes already in flight once the senders are done.

Mutants: `PROJECT.json` names, for every property of a passing run, a plausible
bug in a mapped definition (a dropped guard, a missing reset, a count off by
one) under which TLC finds that property violated. They are the definitions
marked `Mutant` and no specification uses them.

## 4. Findings

The violating runs are disagreements between the code and its own comments or
report; `PROJECT.json` quotes the lines.

1. A slave's `lock_write` never returns once a reader is listed: the listener
   loops over the request while it waits for a message only it can receive
   (`v_requests_satisfied`).
2. `process_list_requests` works on the page without `mutex_page`: the master's
   application can lose its page in the middle of a section (`v_master_mutex`).
3. A barrier acknowledgement that comes before the wait is lost (`v_barrier_opens`).

The models contain more behaviour that an application would not expect. These
observations have no run of their own; the properties named here are stated around
them, and say how far they reach.

* `lock_page` asks for nothing when a copy is there, whatever its rights
  (`dsm_core.c:291`): `lock_write` on a page held for reading returns with a mapping
  that forbids the write, and the write ends the process (`lock_page_hit`,
  `app_fault`). On the master, `lock_write` does not invalidate the readers either,
  so exclusion and freshness hold only when the master's application takes no lock.
* A page that was sent can be invalidated again before the application that waits for
  it runs (`dsm_core.c:309`): its loop waits on, with no request under way.
  `RequestKept` shows that this is the only way: until the page is here, no request
  is lost.
* After a reader was served, the loop goes on from a node that it has just freed
  (`dsm_core.c:450`): either the next request is served, or the master crashes. The
  run `slaves` has both outcomes, and `DeathExplained` names it as a cause of death.
* A spurious wakeup leaves the barrier before the others have called
  (`dsm_core.c:415`). `BarrierSafe` and `OneAnswerPerCall` hold until the first one.
* A slave that read a page and quits properly stays in `current_readers_queue`; the
  next `lock_write` of that page sends INVALIDATE on its closed descriptor, and the
  master exits (`dsm_core.c:359`, `dsm_socket.c:116` and `:242`). `DeathExplained`
  names it as the one way in which a proper departure ends the master.
* A setter of binn that refuses its value may have moved the block without marking
  the structure dirty (`binn.c:619`); `binn_release` then returns a pointer into the
  block that `realloc` freed. `StaleOnlyByRefusal` shows that nothing else leaves a
  stale pointer behind.
* `QuitDSM` on the master waits for ever once a slave has failed, or was refused by
  CONNECT_ACK, because only TERMINATE lowers `client_count`. `CountExact` says what it
  counts, and `QuitReturns` has to except that case.

## 5. Proofs

All theorems hold for every value of the constants that meets the named
assumptions of the models, which say no more than the program gives: the master
is not a slave; calls are made on existing pages with `PROT_READ` or
`PROT_READ|PROT_WRITE`; the outcome sets are not empty; the set of callers of a
barrier is finite and not empty; a heap is finite and does not contain NULL, and
there is something to put into a list (`HeapAssumption`); the slaves that start are
finitely many and the queue of `accept` has a place; the bounds named in section 3
are natural numbers; the processes of `Lifecycle` are not called by the names the
model uses for descriptors (`NamesAssumption`); page size, page count and page
identifiers fit 32 bits (`MemoryAssumption`), integer widths increase
(`WidthsAssumption`), the keys of a message are the texts of `dsm_protocol.h`,
short enough for a key and told apart by `strnicmp` (`KeysAssumption`), the type
of a message fits an int32 (`TypesAssumption`), a new block of binn has room for a header, texts have lengths,
a key is its text, so that two keys of one text are one key (`FormatAssumption`), and callers of binn pass what its types need
(`EntriesAssumption`). Three groups of theorems have hypotheses of their
own, defined beside them:

* `OnlySlavesCall`: the master's application takes no lock. Without it exclusion
  and freshness are false (section 4, and the run `v_master_mutex`). `Calls` of
  the run `slaves` meets it.
* `EveryoneCounted`: every `sync_barrier` waits for at least all the callers, as
  in the demos and in the run `barrier`. With a smaller count the barrier is meant
  to open early.
* `SentProper`: each message that is sent has the arguments of its type, an
  identifier of a page below `2^31` and flags and counts of an unsigned short;
  `PageAfterAck`: pages are sent after CONNECT_ACK; `SentPages`: an identifier is
  that of an address in the memory. They say what the senders send, so they are
  about `Messages`, the constant that stands for the handlers; nothing is assumed
  of the codec. TLC found them true in every state of the instance of
  `transport`.

An invariant that was found for a proof was first checked by TLC on the instance
of the run that has the property.

### Types, sections and claims (`DSMPagesProofs`, part 1)

* `TypeCorrect`, `TypeSafe`: `TypeOK` and, with it, `LoopHasRequest` (the
  listener is inside the loop of `process_list_requests` only while there is a
  request), without which the head of the queue would have no type.
* `SlavesKeepSections` (`SlaveSectionsStable`): on a slave no handler touches a
  page during a section. One case per action; the handlers that change a page
  need `mutex_page`, and the steps of other processes change only their own
  pages.
* `ClaimsCorrect` and `PagesAreSolicited` (`NoUnsolicitedPage`).
  `NoUnsolicitedPage` speaks only of GIVEPAGE messages and is not inductive: the
  message comes from a queued request, which comes from a LOCKPAGE. `ClaimInv`
  follows a *claim* of a slave to a page through the three places (`Asks`,
  `Queued`, `Granted`): each claim carries the rights its application is blocked
  for, the application has no valid copy, and there is at most one claim in all
  three places together. Between `satisfy_request` and the end of the loop body
  the head of `requests_queue` is already answered, so the queue that counts
  (`Queue`) is without it. Steps that only remove or move positions are
  discharged by one lemma (`KeepClaim`); the four steps in the life of a claim
  have a lemma each (`NewClaim`, `QueueClaim`, `GrantClaim`, `EndClaim`).
* `RequestsAreKept` (`RequestKept`) is the converse: a blocked call has a claim, until
  the page is here. `UnderWayIs` identifies the property's `UnderWay` with the three
  places; each step either leaves a claim where it is (`ClaimStays`) or moves it on.

### The readers list (`DSMPagesProofs`, part 2, any lock calls)

* `InvalidationsCorrect` (`AcksInv`): while `invalidate_sent` is set, every entry
  of a process in `current_readers_queue` has exactly one of an INVALIDATE, an
  answer its listener owes, or an INVALIDATE_ACK; otherwise there is none of them.
  A process can be listed several times, so this is an equation between numbers,
  and `SequenceFacts` says what `Append`, `Tail`, `\o` and `list_remove` do to
  such numbers. The invalidation belongs to the writer at the head of the queue
  (`WriterFirst`): that is why it is reset before anything else is served.
* `ReadersDrain` (`ReadersDrainFirst`) follows: an INVALIDATE_ACK, the only thing
  that shortens the list, exists only during an invalidation, and `ServeReader`,
  which extends it, needs a reader at the head of the queue. This is the usage
  `"readers"` of `LinkedList`.
* `CopiesCorrect` and `ReadersAreListed` (`CopiesListed`). That a copy is listed is
  not inductive: INVALIDATE_ACK takes an entry away, and must be shown to come
  after the copy is gone. `CopiesInv` adds the order on the streams: once the
  invalidation has been sent, an INVALIDATE *follows* every copy that the slave
  has or will receive, and a copy on its way back to the master is ahead of the
  INVALIDATE_ACK.

### Coherence (`DSMPagesProofs`, part 3, `OnlySlavesCall`)

* `HomeCorrect` (`HomeInv`): for each slave, the number of writable copies on
  their way to it, held by it and on their way back is 1 if the master does not
  have the page and `write_owner` names that slave, and 0 otherwise; readers are
  listed only while the master has the page. Between `satisfy_request` and
  `giveup_localpage` the owner is already the head of the queue (`Owner`).
  `HomeIsOne` and `OwnerIsRecorded` follow, and together they are `OneHomePerPage`
  (`PageHasOneHome`).
* `OneWriter` (`SingleWriter`) combines `HomeInv` with `CopiesInv`: a second
  writable copy contradicts the first, a read-only copy is listed and so the
  master would have the page.
* `CopiesAreFresh` (`FreshInv`) and `ReadersSeeLastStore` (`LatestVersion`): all
  copies, in memories and messages, are the last version. A store makes every
  other copy stale, so its case is exactly that there is none, for which it needs
  all the invariants above.
* `RightsCorrect` (a GIVEPAGE carries one of the two rights) needs no hypothesis;
  `MasterStaysIdle` says what `OnlySlavesCall` means for the master's connection.

### List (`LinkedListProofs`)

`ListInv` says that the allocated nodes are a path without repetition from `head`
to NULL, as long as `length`, and that `tail` is its last node whenever the usage
allows `list_add`. `NothingLeaks` (`NoLeak`), `TailStaysLast` (`TailIsLast`) and
`ListIsQueue` (`ImplementsQueue`) follow. The refinement maps the heap to what a
walk from `head` reads. The walk is a recursive function of the number of steps;
there is no induction rule to unfold it with, so `WalkIsPath` takes the least step
at which walk and path disagree and derives a contradiction from the one before.
Each operation then maps to the queue's operation on the elements of the path.

### Barrier (`BarrierProofs`)

`BarrierTypes` (`TypeOK`) and `CallsAnsweredOnce` (`OneAnswerPerCall`, which is
inductive) hold whatever the callers pass as count. `BarrierSafe` is not
inductive: `RoundInv` adds that everybody's calls are answered together, so that
the numbers of answered calls are equal at any time. Its one hard step is
`AnswersAll`: nobody is in `sync_barrier_waiters` twice, hence a list as long as
the set of callers has everybody once (`EverybodyOnce`, a counting argument on
finite sets). `BarrierHolds` (`BarrierSafe`) follows.

### Start-up and termination (`LifecycleProofs`)

`LifecycleInv` has eight parts, and one lemma per action shows that all are kept:
`Shapes` (the types), `Watched` (`active_fd_set` holds the open sockets, so that
`select` never sees a closed one; what it reported is still so when the loop comes
to it), `Queued` (a connection waits once for `accept` and nothing is handled for it
before), `Ends` (TERMINATE is the last message of a client that quit and stays until
it is handled), `Named` (the two lists of the page name clients whose socket is open
or whose process has closed it), `Counted`, `DeathExplained` and `Protocol`.

`CountExact` compares `client_count` with a set defined from the backlog and from
the TERMINATE messages in the streams; that TERMINATE lowers it by one for the
right client needs `Ends` and `Queued`. `DeathExplained` needs to know whom a failing
`send()` was for: a socket the list names and that is closed belongs, by `Named`, to
a slave that has left or failed, and in `Protocol` a *request* is that of a slave
which waits in `lock_page` (`Asked`), so that only a stale *reader* remains as a
reason. `Protocol` is claimed only while the master's listener runs and no accepted
slave has failed (`Quiet`): after a failure a descriptor may be reused, and messages
of one conversation reach another client. `Handshake` says where a slave's request,
or the answer to it, is, and `Located` that the page is with the master, with a slave
in the system, or in the stream of one. From these come `LifecycleTypes`,
`CountIsExact`, `DeathIsExplained` and the action property `MasterLeavesLast`
(`NobodyLeftBehind`): `client_count = 0` leaves no slave that joined, and a page on
its way would be ahead of a TERMINATE that has not been handled.

### Connections (`TransportProofs`)

`FrameInv` describes what is in flight. As long as nobody garbled a direction,
the chunks of `wire[d]` are, for the `k`-th message that has not been received,
its size at place `2k - 1` and its body at `2k` (one place earlier when
`dsm_receive` has already read the size), except that the last body may still be
in the hands of the thread that is `Busy`. `sent` has what the messages are. This
is what `OnlyOverlapGarbles` needs: it is not inductive, since a garbled reading
is only the last step of a history that begins with two `dsm_send` on one socket.
`SendSizeFrame`, `SendBodyFrame`, `ReceiveSizeFrame` and `ReceiveBodyFrame` keep
it, one lemma per action.

* `FrameCorrect`, `OnlyOverlapGarblesCorrect`, `NothingLeftWaitingCorrect` need no
  hypothesis on the messages at all, only that an encoded message has at least one
  byte. `Available`, the bytes in flight, is a sum over the stream; that it
  reaches the announced size is `AvailableBytes`, by the least place where it
  would not.
* `EncodedSize` follows `dsm_send_msg` setter by setter through
  `CheckAllocation`, `AppendFields` and `AddValue` and bounds the bytes of every
  kind of message: 9 of header and at most 20 for each of four entries, and the
  page. `NobodyGivesUpCorrect` uses it: 89 bytes besides the page are enough where
  the code has 512, and the only message that needs the page's room comes after
  CONNECT_ACK (`PageAfterAck`, `DeliveredCorrect`).
* `RoundTripCorrect` is the codec: a message of the protocol (`Proper`) is decoded
  as it was encoded. `FieldsAgree` compares, type by type, the fields
  `dsm_send_msg` sets with those `dsm_receive_msg` gets; `MessageFilled` takes the
  setters through binn (`FilledNew`, `FilledMore`: a container holds exactly the
  entries it was given) and `FilledReads` the bytes of the header and the walk to
  each key; `GetArgIs` and `CastBack` follow a number through the signed setter,
  the compression to the smallest integer, the getter and the field of the
  argument structure, for any integer widths that increase.
* `MessagesSurviveCorrect` and `TypeCorrect` follow from `FrameInv`,
  `RoundTripCorrect` and `SentProper`: the bytes handed to `dsm_receive_msg` are
  those of the next message. `SamePageBothEndsCorrect` adds the arithmetic of addresses: the
  identifier is below `2^31`, so neither the setter's int32 nor
  `get_page_from_id`'s unsigned int changes it. The powers of two come from
  `SequenceFacts`, where they are counted as the subsets of a finite set
  (`FS_SUBSET`).

### Containers (`BinnFormatProofs`, `BinnProofs`)

`BinnFormatProofs` follows each writer from the bytes it asks for to the bytes it
writes, for any type, key and value: `CheckAllocationRoom`, `FieldsWritten` (the
fields of a value, by storage class), `AddValueGrown`, `HeadAppended` (the length
and text of a key, or an id) and, on top of them, `SetterGrown`: `binn_add_value`
either adds exactly one entry behind `used_size`, inside the block, over whatever lay
there, or refuses and takes back what it did (`Undone`): the same count, size in use
and bytes in use, though perhaps in a new block and with the bytes of a key behind
them. Therefore `used_size` is not the end of what is in a block; what every writer
keeps, and needs, is `SplitAt`: no field lies across `used_size`.
`HeaderSaved` says the same of `binn_save_header`, which writes backwards from the
first byte of data, and `HeaderRead` what `IsValidBinnHeader` makes of it.

`BinnInv` says where a container is in its life: a structure whose fields are
inside the block and whose saved header, *if the pointer is still into the block*,
is truthful; the bytes that were released; the structure that was opened from them.
The condition is needed because a setter may give the structure a new block
without marking it dirty. From it follow `TypeCorrect` (`TypeOK`),
`WritesFitCorrect` (`WritesFit`) and `HeaderTruthfulCorrect` (`HeaderTruthful`);
`RefusedSetHarmlessCorrect` (`RefusedSetHarmless`) also needs `SetterGrown`. That what
refused setters leave behind is never read is part of the next theorems: the readers
stop at `used_size` or at `count`, and what is saved, released or loaded ends there.

The readers need more than `BinnInv`: where every entry is. `Written` (the block of
a structure) and `Packed` (bytes with their header) say that there are positions
`pos[0] < pos[1] < ...`, from the first byte of data to `used_size`, such that the
fields from `pos[i - 1]` to `pos[i]` are the key and the value of the `i`-th accepted
entry. `ContentInv` states that of all four phases of a container; it also says
that the keys are apart, and that an iterator that returned `k` entries stands at
`pos[k]` and returned the first `k` (`IterOf`; entries that were added while it
runs lie behind its `count`). It is inductive relative to `BinnInv` only, which
says that what a setter appends starts at `used_size` and that the header that
`binn_release` copies is the one of this block; and it is why the positions are an
existential and not a variable of the model: the program keeps none, its readers
find them by walking. `ContentCorrect` is `Spec => [](BinnInv /\ ContentInv)`.

Each reader is followed once, for any packed bytes, in `BinnFormatProofs`:
`ValueRead` (what `GetValue` makes of a value of any storage class, the compressed
integers and nested containers included), `EntryThere` and `WalkEndIs`
(`AdvanceDataPos` steps from each position to the next and never fails inside),
`KeySearched` and `IdSearched` (the search meets the entry whose key matches, and
answers nothing when there is none), `ListFinds`, `MapFinds`, `ObjectFinds`,
`PairFinds`, `NextReads` (`binn_next`), `CopyIs` (`copy_int_value`: which conversions
between widths and signs are exact and which are refused). From these and
`ContentCorrect` come `ReadsBackCorrect`, `GettersConvertCorrect`,
`KeysDistinctCorrect` and `IteratorInOrderCorrect`, for any entries in any number,
any integer widths and any limits of lengths.

The library's induction theorems take an operator as a parameter, which the
installed provers cannot instantiate, so facts about the recursive functions
`AppendFields`, `Encoded` and `Available` are proved in the form "the set of
lengths for which it holds is Nat" (`Induction` in `SequenceFacts`, from the least
element of the complement).

### Only model-checked

* Liveness (`EveryLockReturns`, `BarrierOpensIfHeard`, `AskAnswered`,
  `ConnectAnswered`, `QuitReturns`): out of the prover's reach.
* `PageNeverLost`, with the master's application among the lockers.
* `StaleOnlyByRefusal`: which setters may leave a stale pointer behind.
* The hypotheses `SentProper`, `PageAfterAck` and `SentPages` of the theorems on
  connections: that the handlers behind `Messages` send such messages holds in
  every state of the instance of `transport`; no theorem composes the handlers of
  `DSMPages` with the connection.

## 6. Not modelled, and the plan

Not modelled, and why:

* binn beyond the containers a program builds and reads: buffers supplied by the
  caller, failures of `malloc`, the value structures and their ownership
  (`binn_value`, the `*_value`, `*_read` and `*_new` families), conversions
  between text and numbers, `disable_int_compression` (nothing sets it), the build
  options `BINN_EXTENDED` and `BINN_DISABLE_SMALL_HEADER`. No code of the system
  uses them.
* `dsm_memory_destroy`, and what a listener that was cancelled in the middle of a
  handler does with memory that `dsm_destroy` frees; a second `Init*` after
  `QuitDSM`, which finds `dsm_g` not reset.
* the buffer that `dsm_receive_msg` frees before the GIVEPAGE handler copies the
  page from it: its bytes are taken to be intact.
* processes that leave in the middle of the full page protocol: `DSMPages` has no
  QuitDSM; `Lifecycle` has it, with one page and without `mutex_page`.
* logging, the demo programs' own I/O.

What would come next:

1. The composition of the handlers with the connection, so that `SentProper`,
   `PageAfterAck` and `SentPages` become invariants of one specification.
2. An abstract shared memory (a register per page with read and write sections)
   that `DSMPages` without calls of the master's application implements.
3. A composition of pages, barrier and the call sequences of the demo programs,
   for deadlocks between nested locks, the barrier and a blocked listener.
