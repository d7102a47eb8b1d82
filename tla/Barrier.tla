------------------------------ MODULE Barrier ------------------------------
(***************************************************************************)
(* sync_barrier: the application thread sends SYNC_BARRIER and waits on    *)
(* cond_sync_barrier; the master's listener counts the callers in          *)
(* sync_barrier_waiters and answers all of them with BARRIER_ACK; the      *)
(* listener of every caller signals the condition.  The master is a caller *)
(* like the others, through the connection to itself.                      *)
(***************************************************************************)
EXTENDS Naturals, Sequences, FiniteSets, SequencesExt

CONSTANTS
    Callers,          \* processes that call sync_barrier
    Counts,           \* the values of slave_to_wait they pass
    MaxRounds         \* bound: calls of one process

ASSUME CallersAssumption == IsFiniteSet(Callers) /\ Callers # {}
ASSUME CountsAssumption == Counts \subseteq Nat /\ MaxRounds \in Nat

VARIABLES
    app,         \* [caller] outside, between the send and the wait, waiting,
                 \* or woken and about to return
    toMaster,    \* [caller] SYNC_BARRIER messages, as their slave_to_wait
    acks,        \* [caller] number of BARRIER_ACK on the way to it
    waiters,     \* master: dsm_g->sync_barrier_waiters
    arrived,     \* [caller] history: calls made
    passed,      \* [caller] history: calls that have returned
    spurious,    \* history: callers woken without a signal
    lost         \* history: callers whose signal came before they waited

vars == <<app, toMaster, acks, waiters, arrived, passed, spurious, lost>>

TypeOK ==
    /\ app \in [Callers -> {"out", "sent", "waiting", "woken"}]
    /\ toMaster \in [Callers -> Seq(Counts)]
    /\ acks \in [Callers -> Nat]
    /\ waiters \in Seq(Callers)
    /\ arrived \in [Callers -> Nat]
    /\ passed \in [Callers -> Nat]
    /\ spurious \subseteq Callers /\ lost \subseteq Callers

Init ==
    /\ app = [n \in Callers |-> "out"]
    /\ toMaster = [n \in Callers |-> <<>>]
    /\ acks = [n \in Callers |-> 0]
    /\ waiters = <<>>
    /\ arrived = [n \in Callers |-> 0]
    /\ passed = [n \in Callers |-> 0]
    /\ spurious = {} /\ lost = {}

-----------------------------------------------------------------------------
(* wait_barrier, in the application thread.                                *)

\* Mutant: the count goes out as an uninitialised 0.
wait_barrier_send_raw(n, k) ==
    /\ app[n] = "out"
    /\ arrived[n] < MaxRounds
    /\ app' = [app EXCEPT ![n] = "sent"]
    /\ toMaster' = [toMaster EXCEPT ![n] = Append(@, 0)]
    /\ arrived' = [arrived EXCEPT ![n] = @ + 1]
    /\ UNCHANGED <<acks, waiters, passed, spurious, lost>>

\* Lock mutex_sync_barrier and send SYNC_BARRIER.
wait_barrier_send(n, k) ==
    /\ app[n] = "out"
    /\ arrived[n] < MaxRounds
    /\ app' = [app EXCEPT ![n] = "sent"]
    /\ toMaster' = [toMaster EXCEPT ![n] = Append(@, k)]
    /\ arrived' = [arrived EXCEPT ![n] = @ + 1]
    /\ UNCHANGED <<acks, waiters, passed, spurious, lost>>

\* Start waiting, which releases the mutex.
wait_barrier_wait(n) ==
    /\ app[n] = "sent"
    /\ app' = [app EXCEPT ![n] = "waiting"]
    /\ UNCHANGED <<toMaster, acks, waiters, arrived, passed, spurious, lost>>

\* The wait ends without a signal, as POSIX allows; it is not in a loop.
spurious_wakeup(n) ==
    /\ app[n] = "waiting"
    /\ app' = [app EXCEPT ![n] = "woken"]
    /\ spurious' = spurious \cup {n}
    /\ UNCHANGED <<toMaster, acks, waiters, arrived, passed, lost>>

wait_barrier_return(n) ==
    /\ app[n] = "woken"
    /\ app' = [app EXCEPT ![n] = "out"]
    /\ passed' = [passed EXCEPT ![n] = @ + 1]
    /\ UNCHANGED <<toMaster, acks, waiters, arrived, spurious, lost>>

-----------------------------------------------------------------------------
(* The listeners.                                                          *)

\* Mutant: the caller is counted twice.
EnoughOffByOne(k) == Len(waiters) + 2 >= k

\* Mutant: the caller itself is not counted.
EnoughStrict(k) == Len(waiters) >= k

\* The callers already queued and this one are enough for its own count.
Enough(k) == Len(waiters) + 1 >= k

\* Mutant: list_destroy is forgotten.
handle_sync_barrier_keep(n) ==
    /\ toMaster[n] # <<>>
    /\ toMaster' = [toMaster EXCEPT ![n] = Tail(@)]
    /\ waiters' = IF Enough(Head(toMaster[n])) THEN waiters ELSE Append(waiters, n)
    /\ acks' = IF Enough(Head(toMaster[n]))
               THEN [m \in Callers |-> acks[m] + Cardinality(
                        {i \in DOMAIN Append(waiters, n) : Append(waiters, n)[i] = m})]
               ELSE acks
    /\ UNCHANGED <<app, arrived, passed, spurious, lost>>

\* Master: answer everybody in the list and the sender, and empty the list; or
\* queue the sender.
handle_sync_barrier_msg(n) ==
    /\ toMaster[n] # <<>>
    /\ toMaster' = [toMaster EXCEPT ![n] = Tail(@)]
    /\ LET all == Append(waiters, n)
       IN  IF Enough(Head(toMaster[n]))
           THEN /\ acks' = [m \in Callers |->
                              acks[m] + Cardinality({i \in DOMAIN all : all[i] = m})]
                /\ waiters' = <<>>
           ELSE waiters' = all /\ acks' = acks
    /\ UNCHANGED <<app, arrived, passed, spurious, lost>>

\* pthread_cond_signal, without mutex_sync_barrier: it wakes a thread that
\* waits and is lost on one that does not wait yet.
handle_barrier_ack_msg(n) ==
    /\ acks[n] > 0
    /\ acks' = [acks EXCEPT ![n] = @ - 1]
    /\ app' = [app EXCEPT ![n] = IF @ = "waiting" THEN "woken" ELSE @]
    /\ lost' = IF app[n] = "sent" THEN lost \cup {n} ELSE lost
    /\ UNCHANGED <<toMaster, waiters, arrived, passed, spurious>>

-----------------------------------------------------------------------------
Next ==
    \E n \in Callers :
        \/ \E k \in Counts : wait_barrier_send(n, k)
        \/ wait_barrier_wait(n) \/ spurious_wakeup(n) \/ wait_barrier_return(n)
        \/ handle_sync_barrier_msg(n) \/ handle_barrier_ack_msg(n)

Spec == Init /\ [][Next]_vars

\* Both threads of every process keep running.  No process has to call.
Fairness ==
    \A n \in Callers :
        /\ WF_vars(wait_barrier_wait(n)) /\ WF_vars(wait_barrier_return(n))
        /\ WF_vars(handle_sync_barrier_msg(n))
        /\ WF_vars(handle_barrier_ack_msg(n))

FairSpec == Spec /\ Fairness

-----------------------------------------------------------------------------
(* Properties, for Counts = {Cardinality(Callers)}.                        *)

\* A barrier: nobody returns from a call before everybody has made it, as long
\* as only signals have woken callers.
BarrierSafe ==
    spurious = {} => \A n, m \in Callers : passed[n] <= arrived[m]

\* The places where the answer to a call of n still is.
Pending(n) ==
    Len(toMaster[n]) + Cardinality({i \in DOMAIN waiters : waiters[i] = n}) + acks[n]

\* A call is counted once and answered once, never after it has returned: no
\* answer of one round reaches a caller of the next.
OneAnswerPerCall ==
    spurious = {} => \A n \in Callers :
        Pending(n) <= IF app[n] \in {"sent", "waiting"} THEN 1 ELSE 0

\* Everybody has made the call that n waits in.
AllArrived(n) == app[n] = "waiting" /\ \A m \in Callers : arrived[m] >= arrived[n]

\* Once everybody has made the call, it returns everywhere (spurious wakeups
\* aside): handle_barrier_ack_msg wakes every caller.
BarrierOpens ==
    \A n \in Callers : AllArrived(n) ~> app[n] = "out" \/ spurious # {}

\* The same, unless a signal came before its caller was waiting.
BarrierOpensIfHeard ==
    \A n \in Callers : AllArrived(n) ~> app[n] = "out" \/ spurious \cup lost # {}
=============================================================================
