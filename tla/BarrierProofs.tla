---------------------------- MODULE BarrierProofs ----------------------------
(***************************************************************************)
(* Theorems about sync_barrier for any number of callers and of rounds.    *)
(***************************************************************************)
EXTENDS Barrier, SequenceFacts

-----------------------------------------------------------------------------
(* Types and counts.                                                       *)

\* A call of n that the master has not answered: SYNC_BARRIER is on its way, or n
\* is in sync_barrier_waiters.
Waits(n) == Count(waiters, {n})
Unanswered(n) == Len(toMaster[n]) + Waits(n)

\* What is counted.
LEMMA CountsAreNat ==
    ASSUME TypeOK, NEW n \in Callers
    PROVE  /\ Len(toMaster[n]) \in Nat /\ Waits(n) \in Nat /\ acks[n] \in Nat
           /\ Unanswered(n) \in Nat /\ Pending(n) = Unanswered(n) + acks[n]
<1>1. Len(toMaster[n]) \in Nat /\ Waits(n) \in Nat /\ acks[n] \in Nat
  BY CountNat, LenProperties DEF TypeOK, Waits
<1>2. Cardinality({i \in DOMAIN waiters : waiters[i] = n}) = Waits(n)
  BY CountEqual DEF Waits
<1> QED BY <1>1, <1>2 DEF Pending, Unanswered

\* The call of n completes the round.
Answers(n) == Enough(Head(toMaster[n]))

\* What handle_sync_barrier_msg does: it takes the call of n, and either queues it
\* or answers it and every queued one.
LEMMA SyncCounts ==
    ASSUME TypeOK, NEW n \in Callers, handle_sync_barrier_msg(n), NEW m \in Callers
    PROVE  /\ Len(toMaster'[m]) = Len(toMaster[m]) - IF m = n THEN 1 ELSE 0
           /\ Len(toMaster[n]) >= 1 /\ Head(toMaster[n]) \in Counts
           /\ toMaster' \in [Callers -> Seq(Counts)]
           /\ Append(waiters, n) \in Seq(Callers)
           /\ Count(Append(waiters, n), {m}) = Waits(m) + IF m = n THEN 1 ELSE 0
           /\ Answers(n) => /\ waiters' = <<>> /\ Waits(m)' = 0
                            /\ acks'[m] = acks[m] + Count(Append(waiters, n), {m})
                            /\ acks' \in [Callers -> Nat]
           /\ ~Answers(n) => /\ waiters' = Append(waiters, n) /\ acks' = acks
                             /\ Waits(m)' = Count(Append(waiters, n), {m})
<1> DEFINE w == Append(waiters, n)
<1>1. /\ toMaster[n] # <<>> /\ toMaster[n] \in Seq(Counts)
      /\ toMaster' = [toMaster EXCEPT ![n] = Tail(@)]
  BY DEF handle_sync_barrier_msg, TypeOK
<1>2. /\ Head(toMaster[n]) \in Counts /\ Tail(toMaster[n]) \in Seq(Counts)
      /\ Len(Tail(toMaster[n])) = Len(toMaster[n]) - 1 /\ Len(toMaster[n]) >= 1
  BY <1>1, HeadTailProperties, EmptySeq, LenProperties
<1>3. Len(toMaster'[m]) = Len(toMaster[m]) - IF m = n THEN 1 ELSE 0
  <2>1. Len(toMaster[m]) \in Nat
    BY CountsAreNat
  <2> QED BY <1>1, <1>2, <2>1 DEF TypeOK
<1>4. toMaster' \in [Callers -> Seq(Counts)]
  BY <1>1, <1>2 DEF TypeOK
<1>5. waiters \in Seq(Callers) /\ w \in Seq(Callers)
  BY DEF TypeOK
<1>6. Count(w, {m}) = Count(waiters, {m}) + IF n \in {m} THEN 1 ELSE 0
  BY <1>5, CountAppend
<1>7. Count(w, {m}) = Waits(m) + IF m = n THEN 1 ELSE 0
  BY <1>6 DEF Waits
<1>8. ASSUME Answers(n)
      PROVE  /\ waiters' = <<>> /\ Waits(m)' = 0
             /\ acks'[m] = acks[m] + Count(w, {m}) /\ acks' \in [Callers -> Nat]
  <2>1. /\ waiters' = <<>>
        /\ acks' = [c \in Callers |-> acks[c] + Cardinality({i \in DOMAIN w : w[i] = c})]
    BY <1>8 DEF handle_sync_barrier_msg, Answers
  <2>2. Waits(m)' = 0
    BY <2>1, CountEmpty DEF Waits
  <2>3. ASSUME NEW c \in Callers
        PROVE  Cardinality({i \in DOMAIN w : w[i] = c}) = Count(w, {c}) /\ Count(w, {c}) \in Nat
    BY <1>5, CountEqual, CountNat
  <2> HIDE DEF w
  <2>4. acks'[m] = acks[m] + Count(w, {m})
    BY <2>1, <2>3
  <2>5. acks' \in [Callers -> Nat]
    <3>1. ASSUME NEW c \in Callers
          PROVE  acks[c] + Cardinality({i \in DOMAIN w : w[i] = c}) \in Nat
      <4>1. acks[c] \in Nat
        BY DEF TypeOK
      <4>2. /\ Cardinality({i \in DOMAIN w : w[i] = c}) = Count(w, {c})
            /\ Count(w, {c}) \in Nat
        BY <2>3
      <4> QED BY <4>1, <4>2
    <3> QED BY <2>1, <3>1
  <2> QED BY <2>1, <2>2, <2>4, <2>5
<1>9. ASSUME ~Answers(n)
      PROVE  waiters' = w /\ acks' = acks /\ Waits(m)' = Count(w, {m})
  BY <1>9 DEF handle_sync_barrier_msg, Answers, Waits
<1> QED BY <1>2, <1>3, <1>4, <1>5, <1>7, <1>8, <1>9

\* The variables keep their types.
THEOREM BarrierTypes == Spec => []TypeOK
<1>1. Init => TypeOK
  BY DEF Init, TypeOK
<1>2. TypeOK /\ [Next]_vars => TypeOK'
  <2> SUFFICES ASSUME TypeOK, [Next]_vars PROVE TypeOK'
    OBVIOUS
  <2>1. ASSUME NEW n \in Callers, NEW k \in Counts, wait_barrier_send(n, k) PROVE TypeOK'
    <3>1. Append(toMaster[n], k) \in Seq(Counts)
      BY DEF TypeOK
    <3> QED BY <2>1, <3>1 DEF wait_barrier_send, TypeOK
  <2>2. ASSUME NEW n \in Callers, wait_barrier_wait(n) PROVE TypeOK'
    BY <2>2 DEF wait_barrier_wait, TypeOK
  <2>3. ASSUME NEW n \in Callers, spurious_wakeup(n) PROVE TypeOK'
    BY <2>3 DEF spurious_wakeup, TypeOK
  <2>4. ASSUME NEW n \in Callers, wait_barrier_return(n) PROVE TypeOK'
    BY <2>4 DEF wait_barrier_return, TypeOK
  <2>5. ASSUME NEW n \in Callers, handle_sync_barrier_msg(n) PROVE TypeOK'
    <3>1. toMaster' \in [Callers -> Seq(Counts)] /\ Append(waiters, n) \in Seq(Callers)
      BY <2>5, SyncCounts
    <3>2. \/ waiters' = <<>> /\ acks' \in [Callers -> Nat]
          \/ waiters' = Append(waiters, n) /\ acks' = acks
      BY <2>5, SyncCounts
    <3>3. /\ app' = app /\ arrived' = arrived /\ passed' = passed
          /\ spurious' = spurious /\ lost' = lost
      BY <2>5 DEF handle_sync_barrier_msg
    <3>4. waiters' \in Seq(Callers) /\ acks' \in [Callers -> Nat]
      <4>1. <<>> \in Seq(Callers) /\ acks \in [Callers -> Nat]
        BY DEF TypeOK
      <4>2. CASE waiters' = <<>> /\ acks' \in [Callers -> Nat]
        BY <4>1, <4>2
      <4>3. CASE waiters' = Append(waiters, n) /\ acks' = acks
        BY <3>1, <4>1, <4>3
      <4> QED BY <3>2, <4>2, <4>3
    <3> QED BY <3>1, <3>3, <3>4 DEF TypeOK
  <2>6. ASSUME NEW n \in Callers, handle_barrier_ack_msg(n) PROVE TypeOK'
    BY <2>6 DEF handle_barrier_ack_msg, TypeOK
  <2>7. CASE UNCHANGED vars
    BY <2>7 DEF vars, TypeOK
  <2> QED BY <2>1, <2>2, <2>3, <2>4, <2>5, <2>6, <2>7 DEF Next
<1> QED BY <1>1, <1>2, PTL DEF Spec

-----------------------------------------------------------------------------
(* One answer per call.                                                    *)

\* The answer of a call of n is in one place, while n waits for it.
AtMostOne(n) ==
    Pending(n) \in {0, 1} /\ (app[n] \notin {"sent", "waiting"} => Pending(n) = 0)

\* While only signals wake callers, a call is counted once and answered once, and
\* never after it has returned: no answer of one round reaches a caller of the next.
\* The property is inductive, whatever counts the callers pass.
THEOREM CallsAnsweredOnce == Spec => []OneAnswerPerCall
<1>1. Init => OneAnswerPerCall
  <2> SUFFICES ASSUME Init, NEW n \in Callers PROVE Pending(n) = 0
    BY DEF Init, OneAnswerPerCall
  <2>1. TypeOK
    BY DEF Init, TypeOK
  <2>2. Waits(n) = 0 /\ Len(toMaster[n]) = 0 /\ acks[n] = 0
    BY CountEmpty, EmptySeq DEF Init, Waits
  <2> QED BY <2>1, <2>2, CountsAreNat DEF Unanswered
<1>2. TypeOK /\ TypeOK' /\ OneAnswerPerCall /\ [Next]_vars => OneAnswerPerCall'
  <2> SUFFICES ASSUME TypeOK, TypeOK', OneAnswerPerCall, [Next]_vars,
                      spurious' = {}, NEW m \in Callers
               PROVE  AtMostOne(m)'
    BY DEF OneAnswerPerCall, AtMostOne
  <2>1. spurious = {}
    BY DEF Next, wait_barrier_send, wait_barrier_wait, spurious_wakeup, wait_barrier_return,
           handle_sync_barrier_msg, handle_barrier_ack_msg, vars
  <2> USE DEF AtMostOne
  <2>2. /\ AtMostOne(m)
        /\ Pending(m) = Len(toMaster[m]) + Waits(m) + acks[m]
        /\ Len(toMaster[m]) \in Nat /\ Waits(m) \in Nat /\ acks[m] \in Nat
    <3>1. /\ Pending(m) = Len(toMaster[m]) + Waits(m) + acks[m] /\ Pending(m) \in Nat
          /\ Len(toMaster[m]) \in Nat /\ Waits(m) \in Nat /\ acks[m] \in Nat
      BY CountsAreNat DEF Unanswered
    <3>2. AtMostOne(m)
      BY <2>1, <3>1 DEF OneAnswerPerCall, AtMostOne
    <3> QED BY <3>1, <3>2
  <2>3. Pending(m)' = Len(toMaster'[m]) + Waits(m)' + acks'[m]
    <3>1. Cardinality({i \in DOMAIN waiters' : waiters'[i] = m}) = Count(waiters', {m})
      BY CountEqual
    <3> QED BY <3>1 DEF Pending, Waits
  <2>4. ASSUME NEW n \in Callers, NEW k \in Counts, wait_barrier_send(n, k)
        PROVE  AtMostOne(m)'
    <3>1. Len(Append(toMaster[n], k)) = Len(toMaster[n]) + 1
      BY AppendProperties DEF TypeOK
    <3>2. /\ Len(toMaster'[m]) = Len(toMaster[m]) + IF m = n THEN 1 ELSE 0
          /\ acks' = acks /\ waiters' = waiters /\ app[n] = "out"
          /\ app'[m] = IF m = n THEN "sent" ELSE app[m]
      BY <2>2, <2>4, <3>1 DEF wait_barrier_send, TypeOK
    <3>3. Waits(m)' = Waits(m)
      BY <3>2 DEF Waits
    <3>4. CASE m = n
      <4>1. /\ Pending(m) = 0 /\ app'[m] = "sent" /\ acks'[m] = acks[m]
            /\ Len(toMaster'[m]) = Len(toMaster[m]) + 1
        BY <2>2, <3>2, <3>4
      <4>2. Pending(m)' = 1
        BY <2>2, <2>3, <3>3, <4>1
      <4> QED BY <4>1, <4>2
    <3>5. CASE m # n
      <4>1. /\ Len(toMaster'[m]) = Len(toMaster[m]) + 0 /\ app'[m] = app[m]
            /\ acks'[m] = acks[m]
        BY <3>2, <3>5
      <4>2. Pending(m)' = Pending(m)
        BY <2>2, <2>3, <3>3, <4>1
      <4> QED BY <2>2, <4>1, <4>2
    <3> QED BY <3>4, <3>5
  <2>5. ASSUME NEW n \in Callers, wait_barrier_wait(n) \/ wait_barrier_return(n)
        PROVE  AtMostOne(m)'
    <3>1. /\ toMaster' = toMaster /\ acks' = acks /\ waiters' = waiters
          /\ app'[m] \in {"sent", "waiting"} <=> app[m] \in {"sent", "waiting"}
      BY <2>5 DEF wait_barrier_wait, wait_barrier_return, TypeOK
    <3>2. Waits(m)' = Waits(m)
      BY <3>1 DEF Waits
    <3> QED BY <2>2, <2>3, <3>1, <3>2
  <2>6. ASSUME NEW n \in Callers, spurious_wakeup(n) PROVE FALSE
    BY <2>6 DEF spurious_wakeup
  <2>7. ASSUME NEW n \in Callers, handle_sync_barrier_msg(n)
        PROVE  AtMostOne(m)'
    <3>1. /\ Len(toMaster'[m]) = Len(toMaster[m]) - IF m = n THEN 1 ELSE 0
          /\ Count(Append(waiters, n), {m}) = Waits(m) + IF m = n THEN 1 ELSE 0
      BY <2>7, SyncCounts
    <3>2. \/ Waits(m)' = 0 /\ acks'[m] = acks[m] + Count(Append(waiters, n), {m})
          \/ Waits(m)' = Count(Append(waiters, n), {m}) /\ acks'[m] = acks[m]
      BY <2>7, SyncCounts
    <3>3. Pending(m)' = Pending(m)
      <4>1. CASE m = n
        <5>1. /\ Len(toMaster'[m]) = Len(toMaster[m]) - 1
              /\ Count(Append(waiters, n), {m}) = Waits(m) + 1
          BY <3>1, <4>1
        <5> QED BY <2>2, <2>3, <3>2, <5>1
      <4>2. CASE m # n
        <5>1. /\ Len(toMaster'[m]) = Len(toMaster[m]) - 0
              /\ Count(Append(waiters, n), {m}) = Waits(m) + 0
          BY <3>1, <4>2
        <5> QED BY <2>2, <2>3, <3>2, <5>1
      <4> QED BY <4>1, <4>2
    <3>4. app' = app
      BY <2>7 DEF handle_sync_barrier_msg
    <3> QED BY <2>2, <3>3, <3>4
  <2>8. ASSUME NEW n \in Callers, handle_barrier_ack_msg(n)
        PROVE  AtMostOne(m)'
    <3>1. /\ toMaster' = toMaster /\ waiters' = waiters /\ acks[n] > 0
          /\ acks'[m] = acks[m] - IF m = n THEN 1 ELSE 0
          /\ m # n => app'[m] = app[m]
      BY <2>2, <2>8 DEF handle_barrier_ack_msg, TypeOK
    <3>2. Waits(m)' = Waits(m)
      BY <3>1 DEF Waits
    <3>3. Pending(m)' = Pending(m) - IF m = n THEN 1 ELSE 0
      BY <2>2, <2>3, <3>1, <3>2
    <3>4. CASE m = n
      <4>1. Pending(m) = 1 /\ Pending(m)' = 0
        BY <2>2, <3>1, <3>3, <3>4
      <4> QED BY <4>1
    <3>5. CASE m # n
      <4>1. Pending(m)' = Pending(m) - 0 /\ app'[m] = app[m]
        BY <3>1, <3>3, <3>5
      <4> QED BY <2>2, <4>1
    <3> QED BY <3>4, <3>5
  <2>9. CASE UNCHANGED vars
    <3>1. toMaster' = toMaster /\ acks' = acks /\ waiters' = waiters /\ app' = app
      BY <2>9 DEF vars
    <3>2. Waits(m)' = Waits(m)
      BY <3>1 DEF Waits
    <3> QED BY <2>2, <2>3, <3>1, <3>2
  <2> QED BY <2>4, <2>5, <2>6, <2>7, <2>8, <2>9 DEF Next
<1> QED BY <1>1, <1>2, BarrierTypes, PTL DEF Spec
-----------------------------------------------------------------------------
(* The barrier.                                                            *)

\* Every caller waits for all of them.
EveryoneCounted == \A k \in Counts : k >= Cardinality(Callers)

\* The number of calls of n that the master has answered.
Answered(n) == arrived[n] - Unanswered(n)

\* Everybody's calls have been answered together, and a caller has returned from
\* all its calls or is in the last one.
RoundInv ==
    /\ \A n \in Callers : arrived[n] = passed[n] + IF app[n] = "out" THEN 0 ELSE 1
    /\ spurious = {} => \A n, m \in Callers : Answered(n) = Answered(m)

\* The master answers only when everybody is waiting: nobody is in the list twice,
\* and the list with the last caller is as long as there are callers.
LEMMA AnswersAll ==
    ASSUME EveryoneCounted, TypeOK, OneAnswerPerCall, spurious = {},
           NEW n \in Callers, handle_sync_barrier_msg(n), Answers(n)
    PROVE  \A m \in Callers : Count(Append(waiters, n), {m}) = 1
<1> DEFINE w == Append(waiters, n)
<1>1. /\ w \in Seq(Callers) /\ Head(toMaster[n]) \in Counts /\ Len(toMaster[n]) >= 1
  BY SyncCounts
<1>2. Len(w) = Len(waiters) + 1 /\ Len(waiters) \in Nat
  BY AppendProperties, LenProperties DEF TypeOK
<1>3. Len(w) >= Cardinality(Callers)
  <2>1. Head(toMaster[n]) \in Nat /\ Head(toMaster[n]) >= Cardinality(Callers)
    BY <1>1, CountsAssumption DEF EveryoneCounted
  <2>2. Len(waiters) + 1 >= Head(toMaster[n])
    BY DEF Answers, Enough
  <2>3. Cardinality(Callers) \in Nat
    BY FS_CardinalityType, CallersAssumption
  <2> QED BY <1>2, <2>1, <2>2, <2>3
<1>4. ASSUME NEW m \in Callers PROVE Count(w, {m}) =< 1
  <2>1. Count(w, {m}) = Waits(m) + IF m = n THEN 1 ELSE 0
    BY SyncCounts
  <2>2. /\ Pending(m) = Len(toMaster[m]) + Waits(m) + acks[m] /\ Pending(m) =< 1
        /\ Len(toMaster[m]) \in Nat /\ Waits(m) \in Nat /\ acks[m] \in Nat
    <3>1. /\ Pending(m) = Len(toMaster[m]) + Waits(m) + acks[m] /\ Pending(m) \in Nat
          /\ Len(toMaster[m]) \in Nat /\ Waits(m) \in Nat /\ acks[m] \in Nat
      BY CountsAreNat DEF Unanswered
    <3>2. Pending(m) =< 1
      BY <3>1 DEF OneAnswerPerCall
    <3> QED BY <3>1, <3>2
  <2>3. CASE m = n
    BY <1>1, <2>1, <2>2, <2>3
  <2>4. CASE m # n
    BY <2>1, <2>2, <2>4
  <2> QED BY <2>3, <2>4
<1> HIDE DEF w
<1>5. \A m \in Callers : Count(w, {m}) = 1
  BY <1>1, <1>3, <1>4, EverybodyOnce, CallersAssumption
<1> QED BY <1>5 DEF w

\* A call changes what has been answered only when the master answers, and then by
\* one for everybody.
THEOREM RoundsCorrect ==
    ASSUME EveryoneCounted
    PROVE  Spec => []RoundInv
<1>1. Init => RoundInv
  <2> SUFFICES ASSUME Init PROVE RoundInv
    OBVIOUS
  <2>1. ASSUME NEW n \in Callers PROVE Answered(n) = 0
    <3>1. Waits(n) = 0 /\ Len(toMaster[n]) = 0 /\ arrived[n] = 0
      BY CountEmpty, EmptySeq DEF Init, Waits
    <3> QED BY <3>1 DEF Answered, Unanswered
  <2> QED BY <2>1 DEF Init, RoundInv
<1>2. TypeOK /\ OneAnswerPerCall /\ RoundInv /\ [Next]_vars => RoundInv'
  <2> SUFFICES ASSUME TypeOK, OneAnswerPerCall, RoundInv, [Next]_vars PROVE RoundInv'
    OBVIOUS
  <2>1. ASSUME NEW n \in Callers
        PROVE  arrived'[n] = passed'[n] + IF app'[n] = "out" THEN 0 ELSE 1
    <3>1. /\ arrived[n] = passed[n] + IF app[n] = "out" THEN 0 ELSE 1
          /\ arrived[n] \in Nat /\ passed[n] \in Nat
      BY DEF RoundInv, TypeOK
    <3>2. ASSUME NEW a \in Callers, NEW k \in Counts, wait_barrier_send(a, k)
          PROVE  arrived'[n] = passed'[n] + IF app'[n] = "out" THEN 0 ELSE 1
      BY <3>1, <3>2 DEF wait_barrier_send, TypeOK
    <3>3. ASSUME NEW a \in Callers, wait_barrier_wait(a)
          PROVE  arrived'[n] = passed'[n] + IF app'[n] = "out" THEN 0 ELSE 1
      BY <3>1, <3>3 DEF wait_barrier_wait, TypeOK
    <3>4. ASSUME NEW a \in Callers, spurious_wakeup(a)
          PROVE  arrived'[n] = passed'[n] + IF app'[n] = "out" THEN 0 ELSE 1
      BY <3>1, <3>4 DEF spurious_wakeup, TypeOK
    <3>5. ASSUME NEW a \in Callers, wait_barrier_return(a)
          PROVE  arrived'[n] = passed'[n] + IF app'[n] = "out" THEN 0 ELSE 1
      BY <3>1, <3>5 DEF wait_barrier_return, TypeOK
    <3>6. ASSUME NEW a \in Callers, handle_sync_barrier_msg(a)
          PROVE  arrived'[n] = passed'[n] + IF app'[n] = "out" THEN 0 ELSE 1
      BY <3>1, <3>6 DEF handle_sync_barrier_msg, TypeOK
    <3>7. ASSUME NEW a \in Callers, handle_barrier_ack_msg(a)
          PROVE  arrived'[n] = passed'[n] + IF app'[n] = "out" THEN 0 ELSE 1
      BY <3>1, <3>7 DEF handle_barrier_ack_msg, TypeOK
    <3>8. CASE UNCHANGED vars
      BY <3>1, <3>8 DEF vars
    <3> QED BY <3>2, <3>3, <3>4, <3>5, <3>6, <3>7, <3>8 DEF Next
  <2>2. ASSUME spurious' = {}, NEW n \in Callers, NEW m \in Callers
        PROVE  Answered(n)' = Answered(m)'
    <3>1. spurious = {}
      BY <2>2 DEF Next, wait_barrier_send, wait_barrier_wait, spurious_wakeup,
             wait_barrier_return, handle_sync_barrier_msg, handle_barrier_ack_msg, vars
    <3>2. Answered(n) = Answered(m)
      BY <3>1 DEF RoundInv
    <3>3. ASSUME NEW c \in Callers
          PROVE  /\ Answered(c) = arrived[c] - (Len(toMaster[c]) + Waits(c))
                 /\ Answered(c)' = arrived'[c] - (Len(toMaster'[c]) + Waits(c)')
                 /\ arrived[c] \in Nat /\ Len(toMaster[c]) \in Nat /\ Waits(c) \in Nat
      BY CountsAreNat DEF Answered, Unanswered, TypeOK
    <3>4. ASSUME NEW a \in Callers, NEW k \in Counts, wait_barrier_send(a, k), NEW c \in Callers
          PROVE  Answered(c)' = Answered(c)
      <4>0. /\ Answered(c) = arrived[c] - (Len(toMaster[c]) + Waits(c))
            /\ Answered(c)' = arrived'[c] - (Len(toMaster'[c]) + Waits(c)')
            /\ arrived[c] \in Nat /\ Len(toMaster[c]) \in Nat /\ Waits(c) \in Nat
        BY <3>3
      <4>1. Len(Append(toMaster[a], k)) = Len(toMaster[a]) + 1
        BY AppendProperties DEF TypeOK
      <4>2. Waits(c)' = Waits(c)
        BY <3>4 DEF wait_barrier_send, Waits
      <4>3. CASE c = a
        <5>1. Len(toMaster'[c]) = Len(toMaster[c]) + 1 /\ arrived'[c] = arrived[c] + 1
          BY <3>4, <4>1, <4>3 DEF wait_barrier_send, TypeOK
        <5>2. Len(toMaster'[c]) + Waits(c)' = Len(toMaster[c]) + Waits(c) + 1
          BY <4>0, <4>2, <5>1
        <5>3. Len(toMaster[c]) + Waits(c) \in Nat
          BY <4>0
        <5> QED BY <4>0, <5>1, <5>2, <5>3
      <4>4. CASE c # a
        <5>1. Len(toMaster'[c]) = Len(toMaster[c]) /\ arrived'[c] = arrived[c]
          BY <3>4, <4>4 DEF wait_barrier_send, TypeOK
        <5> QED BY <4>0, <4>2, <5>1
      <4> QED BY <4>3, <4>4
    <3>5. ASSUME NEW a \in Callers, handle_sync_barrier_msg(a), ~Answers(a), NEW c \in Callers
          PROVE  Answered(c)' = Answered(c)
      <4>0. /\ Answered(c) = arrived[c] - (Len(toMaster[c]) + Waits(c))
            /\ Answered(c)' = arrived'[c] - (Len(toMaster'[c]) + Waits(c)')
            /\ arrived[c] \in Nat /\ Len(toMaster[c]) \in Nat /\ Waits(c) \in Nat
        BY <3>3
      <4>1. /\ Len(toMaster'[c]) = Len(toMaster[c]) - IF c = a THEN 1 ELSE 0
            /\ Count(Append(waiters, a), {c}) = Waits(c) + IF c = a THEN 1 ELSE 0
            /\ Waits(c)' = Count(Append(waiters, a), {c})
        BY <3>5, SyncCounts
      <4>2. arrived'[c] = arrived[c]
        BY <3>5 DEF handle_sync_barrier_msg
      <4>3. CASE c = a
        <5>1. Len(toMaster'[c]) = Len(toMaster[c]) - 1 /\ Waits(c)' = Waits(c) + 1
          BY <4>1, <4>3
        <5> QED BY <4>0, <4>2, <5>1
      <4>4. CASE c # a
        <5>1. Len(toMaster'[c]) = Len(toMaster[c]) - 0 /\ Waits(c)' = Waits(c) + 0
          BY <4>1, <4>4
        <5> QED BY <4>0, <4>2, <5>1
      <4> QED BY <4>3, <4>4
    <3>6. ASSUME NEW a \in Callers, handle_sync_barrier_msg(a), Answers(a), NEW c \in Callers
          PROVE  Answered(c)' = Answered(c) + 1
      <4>0. /\ Answered(c) = arrived[c] - (Len(toMaster[c]) + Waits(c))
            /\ Answered(c)' = arrived'[c] - (Len(toMaster'[c]) + Waits(c)')
            /\ arrived[c] \in Nat /\ Len(toMaster[c]) \in Nat /\ Waits(c) \in Nat
        BY <3>3
      <4>1. /\ Len(toMaster'[c]) = Len(toMaster[c]) - IF c = a THEN 1 ELSE 0
            /\ Count(Append(waiters, a), {c}) = Waits(c) + IF c = a THEN 1 ELSE 0
            /\ Waits(c)' = 0
        BY <3>6, SyncCounts
      <4>2. arrived'[c] = arrived[c]
        BY <3>6 DEF handle_sync_barrier_msg
      <4>3. Count(Append(waiters, a), {c}) = 1
        BY <3>1, <3>6, AnswersAll
      <4>4. CASE c = a
        <5>1. /\ Len(toMaster'[c]) = Len(toMaster[c]) - 1 /\ Waits(c) + 1 = 1
              /\ Waits(c)' = 0
          BY <4>1, <4>3, <4>4
        <5> QED BY <4>0, <4>2, <5>1
      <4>5. CASE c # a
        <5>1. /\ Len(toMaster'[c]) = Len(toMaster[c]) - 0 /\ Waits(c) + 0 = 1
              /\ Waits(c)' = 0
          BY <4>1, <4>3, <4>5
        <5> QED BY <4>0, <4>2, <5>1
      <4> QED BY <4>4, <4>5
    <3>7. ASSUME toMaster' = toMaster, waiters' = waiters, arrived' = arrived, NEW c \in Callers
          PROVE  Answered(c)' = Answered(c)
      BY <3>7 DEF Answered, Unanswered, Waits
    <3>8. \/ \E a \in Callers, k \in Counts : wait_barrier_send(a, k)
          \/ \E a \in Callers : handle_sync_barrier_msg(a)
          \/ toMaster' = toMaster /\ waiters' = waiters /\ arrived' = arrived
      BY DEF Next, wait_barrier_wait, spurious_wakeup, wait_barrier_return,
             handle_barrier_ack_msg, vars
    <3> QED BY <3>2, <3>4, <3>5, <3>6, <3>7, <3>8
  <2> QED BY <2>1, <2>2 DEF RoundInv
<1> QED BY <1>1, <1>2, BarrierTypes, CallsAnsweredOnce, PTL DEF Spec

\* A barrier: nobody returns from a call before everybody has made it, as long as
\* only signals have woken callers and everybody waits for all of them.
THEOREM BarrierHolds ==
    ASSUME EveryoneCounted
    PROVE  Spec => []BarrierSafe
<1>1. TypeOK /\ OneAnswerPerCall /\ RoundInv => BarrierSafe
  <2> SUFFICES ASSUME TypeOK, OneAnswerPerCall, RoundInv, spurious = {},
                      NEW n \in Callers, NEW m \in Callers
               PROVE  passed[n] <= arrived[m]
    BY DEF BarrierSafe
  <2>1. ASSUME NEW c \in Callers
        PROVE  /\ arrived[c] \in Nat /\ passed[c] \in Nat /\ Unanswered(c) \in Nat
               /\ Answered(c) = arrived[c] - Unanswered(c)
               /\ Pending(c) = Unanswered(c) + acks[c] /\ acks[c] \in Nat
    BY CountsAreNat DEF TypeOK, Answered
  <2>2. Answered(n) = Answered(m)
    BY DEF RoundInv
  <2>3. arrived[n] = passed[n] + IF app[n] = "out" THEN 0 ELSE 1
    BY DEF RoundInv
  <2>4. passed[n] <= Answered(n)
    <3>1. Pending(n) <= IF app[n] \in {"sent", "waiting"} THEN 1 ELSE 0
      BY DEF OneAnswerPerCall
    <3>2. CASE app[n] = "out"
      <4>1. Pending(n) <= 0 /\ arrived[n] = passed[n] + 0
        BY <2>3, <3>1, <3>2
      <4> QED BY <2>1, <4>1
    <3>3. CASE app[n] # "out"
      <4>1. Pending(n) <= 1 /\ arrived[n] = passed[n] + 1
        BY <2>1, <2>3, <3>1, <3>3
      <4> QED BY <2>1, <4>1
    <3> QED BY <3>2, <3>3
  <2> QED BY <2>1, <2>2, <2>4
<1>2. Spec => []RoundInv
  BY RoundsCorrect
<1> QED BY <1>1, <1>2, BarrierTypes, CallsAnsweredOnce, PTL
=============================================================================
