--------------------------- MODULE TxSchedulerProofs ---------------------------
(***************************************************************************)
(* Proofs about TxScheduler for every table size, retry limit, interval,   *)
(* clock width and number of messages.                                     *)
(***************************************************************************)
EXTENDS TxScheduler, SharedLemmas, FiniteSetTheorems, TLAPS

(* Remainders stay below the modulus.                                      *)
LEMMA ModRange == ASSUME NEW a \in Nat, NEW m \in Nat \ {0}
                  PROVE  a % m \in 0 .. m - 1
  OBVIOUS

\* The clock stays in range and the capped age never exceeds the cap.
LEMMA AfterType == ASSUME NEW t \in 0 .. ClockMod - 1, NEW d \in Nat
                   PROVE  After(t, d) \in 0 .. ClockMod - 1
  BY SchedulerAssumption, ModRange DEF After

(* Letting a capped age grow keeps it in range.                            *)
LEMMA OlderType == ASSUME NEW a \in 0 .. RetryInterval, NEW d \in Nat
                   PROVE  Older(a, d) \in 0 .. RetryInterval
  BY SchedulerAssumption DEF Older

(* The id counter stays in range when it steps or wraps.                   *)
LEMMA NextIdType == ASSUME msg_id_counter \in 0 .. MaxId
                    PROVE  NextId \in 1 .. MaxId
  BY SchedulerAssumption, ModRange DEF NextId

--------------------------------------------------------------------------------
(* The inductive invariant. Entries in use hold different messages among   *)
(* those accepted; messages not yet accepted have no result; and, until    *)
(* the id counter wraps, a message's id is its serial number, so an id     *)
(* peers know from this boot belongs to an entry that was on the air.      *)
SerialsDistinct ==
  /\ \A i \in Slots : occupied[i] => queue[i].serial \in 1 .. accepted
  /\ \A i, j \in Slots : occupied[i] /\ occupied[j] /\ i # j
       => queue[i].serial # queue[j].serial

Unreported == \A s \in Serials : s > accepted => results[s] = 0

IdIsSerial ==
  MaxMsgs <= MaxId =>
    /\ msg_id_counter = accepted
    /\ \A i \in Slots : occupied[i] => queue[i].aprs_msg_id = queue[i].serial

HeardWasKeyed ==
  MaxMsgs <= MaxId =>
    /\ \A id \in heard : id \in EarlierIds \/ id <= accepted
    /\ \A i \in Slots : occupied[i] /\ queue[i].aprs_msg_id \in heard \ EarlierIds
         => keyed[i] > 0

Bookkeeping == SerialsDistinct /\ Unreported

IndInv == TypeOK /\ OneResult /\ AttemptsMatchState /\ Bookkeeping
AckInv == IdIsSerial /\ HeardWasKeyed /\ AckedWasOnAir

--------------------------------------------------------------------------------
(* A transmission that is due leaves room for one more: what transmit_now_ *)
(* writes back is a well-formed record.                                    *)
LEMMA TransmittedType ==
  ASSUME TypeOK, AttemptsMatchState, NEW i \in Slots, Active(i), Due(queue[i])
  PROVE  /\ Transmitted(queue[i]) \in TxMessage
         /\ Transmitted(queue[i]).retry_count = queue[i].retry_count + 1
         /\ Transmitted(queue[i]).state = "PENDING"
         /\ Transmitted(queue[i]).retry_count \in 1 .. MaxRetries
         /\ Transmitted(queue[i]).serial = queue[i].serial
         /\ Transmitted(queue[i]).aprs_msg_id = queue[i].aprs_msg_id
<1> DEFINE m == queue[i]
<1>1. m \in TxMessage /\ occupied[i] /\ m.state \in {"QUEUED", "PENDING"}
  BY DEF TypeOK, Active, IsTerminal, TxMessage, States
<1>2. m.retry_count \in 0 .. MaxRetries - 1
  BY <1>1, SchedulerAssumption DEF AttemptsMatchState
<1>3. now_ms \in 0 .. ClockMod - 1
  BY DEF TypeOK
<1> HIDE DEF m
<1> DEFINE n == [m EXCEPT !.retry_count = @ + 1, !.last_tx_ms = now_ms,
                          !.state = "PENDING"]
<1>4. m.retry_count + 1 \in 0 .. MaxRetries /\ "PENDING" \in States
  BY <1>2, SchedulerAssumption DEF States
<1>5. /\ n \in TxMessage
      /\ n.retry_count = m.retry_count + 1 /\ n.state = "PENDING"
      /\ n.serial = m.serial /\ n.aprs_msg_id = m.aprs_msg_id
  BY <1>1, <1>3, <1>4 DEF TxMessage
<1>6. n.retry_count \in 1 .. MaxRetries
  BY <1>2, <1>5, SchedulerAssumption
<1> QED
  BY <1>5, <1>6 DEF Transmitted, m

(* complete_() of a well-formed record leaves the table well-formed.       *)
LEMMA CompleteType ==
  ASSUME TypeOK, NEW i \in Slots, NEW m \in TxMessage, NEW t \in Terminal,
         Complete(i, m, t)
  PROVE  /\ queue' \in [Slots -> TxMessage]
         /\ results' \in [Serials -> Nat]
         /\ queue'[i].state = t /\ queue'[i].retry_count = m.retry_count
         /\ queue'[i].serial = m.serial /\ queue'[i].aprs_msg_id = m.aprs_msg_id
         /\ \A j \in Slots : j # i => queue'[j] = queue[j]
<1> DEFINE n == [m EXCEPT !.state = t]
<1>1. /\ n \in TxMessage
      /\ n.state = t /\ n.retry_count = m.retry_count
      /\ n.serial = m.serial /\ n.aprs_msg_id = m.aprs_msg_id
  BY DEF TxMessage, States
<1>2. queue' = [queue EXCEPT ![i] = [m EXCEPT !.state = t]]
  BY DEF Complete
<1>3. results' = [results EXCEPT ![m.serial] = @ + 1]
  BY DEF Complete
<1> HIDE DEF n
<1>4. results' \in [Serials -> Nat]
  <2>1. \A s \in Serials : results[s] + 1 \in Nat
    BY DEF TypeOK
  <2> QED BY <1>3, <2>1 DEF TypeOK
<1> QED
  BY <1>1, <1>2, <1>4 DEF TypeOK, n

(* The empty scheduler is well typed.                                      *)
LEMMA TypeInit == Init => TypeOK /\ AttemptsMatchState
<1> SUFFICES ASSUME Init PROVE TypeOK /\ AttemptsMatchState
  OBVIOUS
<1>1. Blank \in TxMessage
  BY SchedulerAssumption DEF Blank, TxMessage, States
<1> QED
  BY <1>1, SchedulerAssumption DEF Init, TypeOK, AttemptsMatchState

(* Every step of the scheduler keeps the types, and keeps the state of     *)
(* each record in agreement with its count of attempts.                    *)
LEMMA TypeStep ==
  ASSUME TypeOK, AttemptsMatchState, [Next]_vars
  PROVE  TypeOK' /\ AttemptsMatchState'
<1>1. ASSUME NEW c \in Clients, Enqueue(c)
      PROVE  TypeOK' /\ AttemptsMatchState'
  <2> PICK i \in Slots :
        /\ queue' = [queue EXCEPT ![i] =
             [client_id |-> c, aprs_msg_id |-> NextId, state |-> "QUEUED",
              retry_count |-> 0, last_tx_ms |-> 0, serial |-> accepted + 1]]
        /\ occupied' = [occupied EXCEPT ![i] = TRUE]
        /\ keyed' = [keyed EXCEPT ![i] = 0]
        /\ since' = [since EXCEPT ![i] = RetryInterval]
    BY <1>1 DEF Enqueue
  <2>1. NextId \in 1 .. MaxId
    BY NextIdType DEF TypeOK
  <2>2. [client_id |-> c, aprs_msg_id |-> NextId, state |-> "QUEUED",
         retry_count |-> 0, last_tx_ms |-> 0, serial |-> accepted + 1] \in TxMessage
    BY <1>1, <2>1, SchedulerAssumption DEF TxMessage, States, Enqueue, TypeOK
  <2>3. TypeOK'
    BY <1>1, <2>1, <2>2, SchedulerAssumption DEF Enqueue, TypeOK
  <2>4. AttemptsMatchState'
    BY <1>1 DEF AttemptsMatchState, TypeOK
  <2> QED BY <2>3, <2>4
<1>2. ASSUME NEW id \in 1 .. MaxId, OnAckReceived(id)
      PROVE  TypeOK' /\ AttemptsMatchState'
  <2> PICK i \in Slots : Complete(i, queue[i], "ACKED")
    BY <1>2 DEF OnAckReceived
  <2>1. queue[i] \in TxMessage
    BY DEF TypeOK
  <2>2. TypeOK'
    BY <1>2, <2>1, CompleteType DEF OnAckReceived, TypeOK, Terminal
  <2>3. AttemptsMatchState'
    BY <1>2, <2>1, CompleteType DEF OnAckReceived, AttemptsMatchState, Terminal
  <2> QED BY <2>2, <2>3
<1>3. ASSUME NEW c \in Clients, Cancel(c)
      PROVE  TypeOK' /\ AttemptsMatchState'
  <2> PICK i \in Slots : Complete(i, queue[i], "CANCELLED")
    BY <1>3 DEF Cancel
  <2>1. queue[i] \in TxMessage
    BY DEF TypeOK
  <2>2. TypeOK'
    BY <1>3, <2>1, CompleteType DEF Cancel, TypeOK, Terminal
  <2>3. AttemptsMatchState'
    BY <1>3, <2>1, CompleteType DEF Cancel, AttemptsMatchState, Terminal
  <2> QED BY <2>2, <2>3
<1>4. ASSUME NEW d \in 1 .. MaxDelay, TickStart(d)
      PROVE  TypeOK' /\ AttemptsMatchState'
  <2>0. d \in Nat
    BY SchedulerAssumption
  <2>a. After(clock, d) \in 0 .. ClockMod - 1
    BY <2>0, AfterType DEF TypeOK
  <2>b. since' \in [Slots -> 0 .. RetryInterval]
    BY <1>4, <2>0, OlderType DEF TickStart, TypeOK
  <2>1. TypeOK'
    BY <1>4, <2>a, <2>b, SchedulerAssumption DEF TickStart, TypeOK
  <2>2. AttemptsMatchState'
    BY <1>4 DEF TickStart, AttemptsMatchState
  <2> QED BY <2>1, <2>2
<1>5. ASSUME TickSkip
      PROVE  TypeOK' /\ AttemptsMatchState'
  BY <1>5, SchedulerAssumption DEF TickSkip, Advance, TypeOK, AttemptsMatchState
<1>6. ASSUME NEW outcome \in Outcomes, NEW d \in 0 .. TxTime,
             TickTransmit(outcome, d)
      PROVE  TypeOK' /\ AttemptsMatchState'
  <2>1. cursor \in Slots /\ Active(cursor) /\ Due(queue[cursor])
    BY <1>6 DEF TickTransmit, TypeOK, Slots
  <2>2. queue[cursor] \in TxMessage
    BY <2>1 DEF TypeOK
  <2>3. /\ queue' \in [Slots -> TxMessage]
        /\ results' \in [Serials -> Nat]
        /\ AttemptsMatchState'
    <3>1. CASE outcome # "sent"
      BY <1>6, <3>1 DEF TickTransmit, TypeOK, AttemptsMatchState
    <3>2. CASE outcome = "sent"
      <4> DEFINE m == Transmitted(queue[cursor])
      <4>1. /\ m \in TxMessage /\ m.state = "PENDING"
            /\ m.retry_count \in 1 .. MaxRetries
        BY <2>1, TransmittedType
      <4>2. occupied' = occupied /\ Sent(cursor)
        BY <1>6, <3>2 DEF TickTransmit
      <4> HIDE DEF m
      <4>3. CASE m.retry_count >= MaxRetries
        <5>1. Complete(cursor, m, "TIMED_OUT")
          BY <4>2, <4>3 DEF Sent, m
        <5>2. m.retry_count = MaxRetries
          BY <4>1, <4>3, SchedulerAssumption
        <5> QED
          BY <2>1, <4>1, <4>2, <5>1, <5>2, CompleteType
          DEF AttemptsMatchState, Terminal
      <4>4. CASE ~(m.retry_count >= MaxRetries)
        <5>1. queue' = [queue EXCEPT ![cursor] = m] /\ results' = results
          BY <4>2, <4>4 DEF Sent, m
        <5>2. m.retry_count \in 1 .. MaxRetries - 1
          BY <4>1, <4>4, SchedulerAssumption
        <5> QED
          BY <2>1, <4>1, <4>2, <5>1, <5>2 DEF AttemptsMatchState, TypeOK
      <4> QED BY <4>3, <4>4
    <3> QED BY <3>1, <3>2
  <2>4. since' \in [Slots -> 0 .. RetryInterval]
    BY <1>6, OlderType, SchedulerAssumption DEF TickTransmit, TypeOK
  <2>5. keyed' \in [Slots -> 0 .. MaxRetries + 1]
    BY <1>6, SchedulerAssumption DEF TickTransmit, TypeOK
  <2>6. heard' \subseteq 0 .. MaxId
    BY <1>6, <2>2 DEF TickTransmit, TypeOK, TxMessage
  <2>0. d \in Nat
    BY SchedulerAssumption
  <2>a. After(clock, d) \in 0 .. ClockMod - 1
    BY <2>0, AfterType DEF TypeOK
  <2>7. /\ clock' \in 0 .. ClockMod - 1 /\ now_ms' \in 0 .. ClockMod - 1
        /\ cursor' \in 0 .. MaxQueue
    BY <1>6, <2>a, SchedulerAssumption DEF TickTransmit, Advance, TypeOK
  <2> QED
    BY <1>6, <2>3, <2>4, <2>5, <2>6, <2>7 DEF TickTransmit, TypeOK
<1>7. CASE UNCHANGED vars
  BY <1>7 DEF vars, TypeOK, AttemptsMatchState
<1> QED
  BY <1>1, <1>2, <1>3, <1>4, <1>5, <1>6, <1>7 DEF Next

(* The scheduler's state is well formed in every reachable state, and      *)
(* every record has had as many transmissions as its state says, never     *)
(* more than kMaxRetries.                                                  *)
THEOREM TypeCorrect == Spec => [](TypeOK /\ AttemptsMatchState)
<1>1. TypeOK /\ AttemptsMatchState /\ [Next]_vars => (TypeOK /\ AttemptsMatchState)'
  BY TypeStep
<1> QED
  BY TypeInit, <1>1, PTL DEF Spec

--------------------------------------------------------------------------------
(* complete_() of a live entry reports its message, which had no result,   *)
(* and touches no other.                                                   *)
LEMMA SettleStep ==
  ASSUME TypeOK, OneResult, Bookkeeping, NEW i \in Slots, Active(i),
         NEW m \in TxMessage, m.serial = queue[i].serial, NEW t \in Terminal,
         Complete(i, m, t), occupied' = occupied, accepted' = accepted
  PROVE  OneResult' /\ Bookkeeping'
<1> DEFINE s0 == queue[i].serial
<1>1. /\ queue'[i].state = t /\ queue'[i].serial = s0
      /\ \A j \in Slots : j # i => queue'[j] = queue[j]
  BY CompleteType
<1>2. s0 \in 1 .. accepted /\ s0 \in Serials /\ accepted \in 0 .. MaxMsgs
  BY SchedulerAssumption DEF Bookkeeping, SerialsDistinct, Active, TypeOK, Serials
<1>3. Holds(i, s0)
  BY DEF Holds
<1>4. results[s0] = 0
  BY <1>2, <1>3 DEF OneResult
<1>5. /\ results'[s0] = 1
      /\ \A s \in Serials : s # s0 => results'[s] = results[s]
  BY <1>2, <1>4 DEF Complete, TypeOK
<1>6. \A j \in Slots, s \in Serials : Holds(j, s)' <=> Holds(j, s) /\ j # i
  BY <1>1 DEF Holds, Active, IsTerminal
<1>7. \A j \in Slots : Holds(j, s0) => j = i
  BY <1>3 DEF Holds, Active, Bookkeeping, SerialsDistinct
<1>8. \A s \in 1 .. accepted : s \in Serials
  BY <1>2, SchedulerAssumption DEF Serials
<1> HIDE DEF s0
<1>9. OneResult'
  <2> SUFFICES ASSUME NEW s \in 1 .. accepted
               PROVE  \/ /\ results'[s] = 0
                         /\ \E k \in Slots : Holds(k, s)' /\ \A j \in Slots : Holds(j, s)' => j = k
                      \/ /\ results'[s] = 1
                         /\ \A k \in Slots : ~Holds(k, s)'
    BY DEF OneResult
  <2>1. CASE s = s0
    BY <1>5, <1>6, <1>7, <1>8, <2>1
  <2>2. CASE s # s0
    <3>1. ~Holds(i, s)
      BY <2>2 DEF Holds, s0
    <3>2. CASE results[s] = 0
      <4> PICK k \in Slots : Holds(k, s) /\ \A j \in Slots : Holds(j, s) => j = k
        BY <3>2 DEF OneResult
      <4> QED BY <1>5, <1>6, <1>8, <2>2, <3>1, <3>2
    <3>3. CASE results[s] = 1 /\ \A k \in Slots : ~Holds(k, s)
      BY <1>5, <1>6, <1>8, <2>2, <3>3
    <3> QED BY <3>2, <3>3 DEF OneResult
  <2> QED BY <2>1, <2>2
<1>10. SerialsDistinct'
  BY <1>1 DEF Bookkeeping, SerialsDistinct, s0
<1>11. Unreported'
  BY <1>2, <1>5 DEF Bookkeeping, Unreported
<1> QED BY <1>9, <1>10, <1>11 DEF Bookkeeping

(* A step that rewrites live entries in place, or none, keeps the books.   *)
LEMMA SameMessages ==
  ASSUME TypeOK, OneResult, Bookkeeping,
         occupied' = occupied, accepted' = accepted, results' = results,
         \A j \in Slots : /\ queue'[j].serial = queue[j].serial
                          /\ occupied[j] => (IsTerminal(queue'[j]) <=> IsTerminal(queue[j]))
  PROVE  OneResult' /\ Bookkeeping'
<1>1. \A j \in Slots, s \in 1 .. accepted : Holds(j, s)' <=> Holds(j, s)
  BY DEF Holds, Active, IsTerminal
<1> QED
  BY <1>1 DEF OneResult, Bookkeeping, SerialsDistinct, Unreported

(* enqueue() takes an unused or a terminal entry: no live message is lost. *)
LEMMA EnqueueStep ==
  ASSUME TypeOK, OneResult, Bookkeeping, NEW c \in Clients, Enqueue(c)
  PROVE  OneResult' /\ Bookkeeping'
<1> DEFINE s0 == accepted + 1
           new == [client_id |-> c, aprs_msg_id |-> NextId, state |-> "QUEUED",
                   retry_count |-> 0, last_tx_ms |-> 0, serial |-> s0]
<1> PICK i \in Slots : /\ IsFreeSlot(i)
                       /\ queue' = [queue EXCEPT ![i] = new]
                       /\ occupied' = [occupied EXCEPT ![i] = TRUE]
  BY DEF Enqueue
<1>1. /\ accepted' = s0 /\ results' = results
      /\ accepted \in 0 .. MaxMsgs /\ s0 \in Serials
  BY SchedulerAssumption DEF Enqueue, TypeOK, Serials
<1>2. ~Active(i)
  BY DEF IsFreeSlot, Active
<1>3. /\ queue'[i].serial = s0 /\ queue'[i].state = "QUEUED" /\ occupied'[i]
      /\ \A j \in Slots : j # i => queue'[j] = queue[j] /\ occupied'[j] = occupied[j]
  BY DEF TypeOK
<1> HIDE DEF new
<1>4. \A s \in 1 .. s0 : s \in Serials
  BY <1>1, SchedulerAssumption DEF Serials
<1>5. \A j \in Slots : occupied[j] => queue[j].serial \in 1 .. accepted
  BY DEF Bookkeeping, SerialsDistinct
<1>6. \A j \in Slots, s \in 1 .. s0 :
        Holds(j, s)' <=> IF j = i THEN s = s0 ELSE Holds(j, s)
  BY <1>3 DEF Holds, Active, IsTerminal, Terminal
<1>7. \A j \in Slots : ~Holds(j, s0)
  BY <1>1, <1>5 DEF Holds, Active
<1>8. results[s0] = 0
  BY <1>1 DEF Bookkeeping, Unreported
<1>9. OneResult'
  <2> SUFFICES ASSUME NEW s \in 1 .. s0
               PROVE  \/ /\ results[s] = 0
                         /\ \E k \in Slots : Holds(k, s)' /\ \A j \in Slots : Holds(j, s)' => j = k
                      \/ /\ results[s] = 1
                         /\ \A k \in Slots : ~Holds(k, s)'
    BY <1>1 DEF OneResult
  <2>1. CASE s = s0
    BY <1>6, <1>7, <1>8, <2>1
  <2>2. CASE s # s0
    <3>1. s \in 1 .. accepted
      BY <1>1, <2>2
    <3>2. ~Holds(i, s)
      BY <1>2 DEF Holds
    <3>3. CASE results[s] = 0
      <4> PICK k \in Slots : Holds(k, s) /\ \A j \in Slots : Holds(j, s) => j = k
        BY <3>1, <3>3 DEF OneResult
      <4>1. k # i
        BY <3>2
      <4>2. Holds(k, s)' /\ \A j \in Slots : Holds(j, s)' => j = k
        BY <1>6, <2>2, <4>1
      <4> QED BY <3>3, <4>2
    <3>4. CASE results[s] = 1 /\ \A k \in Slots : ~Holds(k, s)
      BY <1>6, <2>2, <3>4
    <3> QED BY <3>1, <3>3, <3>4 DEF OneResult
  <2> QED BY <2>1, <2>2
<1>10. SerialsDistinct'
  BY <1>1, <1>3, <1>5 DEF Bookkeeping, SerialsDistinct
<1>11. Unreported'
  BY <1>1 DEF Bookkeeping, Unreported, Serials
<1> QED BY <1>9, <1>10, <1>11 DEF Bookkeeping

(* Every step keeps the books: what was accepted is live once, or reported *)
(* once.                                                                   *)
LEMMA BooksStep ==
  ASSUME IndInv, [Next]_vars
  PROVE  OneResult' /\ Bookkeeping'
<1> USE DEF IndInv
<1>1. ASSUME NEW c \in Clients, Enqueue(c)
      PROVE  OneResult' /\ Bookkeeping'
  BY <1>1, EnqueueStep
<1>2. ASSUME NEW id \in 1 .. MaxId, OnAckReceived(id)
      PROVE  OneResult' /\ Bookkeeping'
  <2> PICK i \in Slots : AckMatches(i, id) /\ Complete(i, queue[i], "ACKED")
    BY <1>2 DEF OnAckReceived
  <2>1. Active(i) /\ queue[i] \in TxMessage
    BY DEF AckMatches, TypeOK
  <2> QED BY <1>2, <2>1, SettleStep DEF OnAckReceived, Terminal
<1>3. ASSUME NEW c \in Clients, Cancel(c)
      PROVE  OneResult' /\ Bookkeeping'
  <2> PICK i \in Slots : /\ IsSlotOfClient(i, c) /\ ~IsTerminal(queue[i])
                         /\ Complete(i, queue[i], "CANCELLED")
    BY <1>3 DEF Cancel
  <2>1. Active(i) /\ queue[i] \in TxMessage
    BY DEF IsSlotOfClient, OfClient, Active, TypeOK
  <2> QED BY <1>3, <2>1, SettleStep DEF Cancel, Terminal
<1>4. ASSUME NEW d \in 1 .. MaxDelay, TickStart(d)
      PROVE  OneResult' /\ Bookkeeping'
  BY <1>4, SameMessages DEF TickStart
<1>5. ASSUME TickSkip
      PROVE  OneResult' /\ Bookkeeping'
  BY <1>5, SameMessages DEF TickSkip
<1>6. ASSUME NEW outcome \in Outcomes, NEW d \in 0 .. TxTime,
             TickTransmit(outcome, d)
      PROVE  OneResult' /\ Bookkeeping'
  <2>1. /\ cursor \in Slots /\ Active(cursor) /\ Due(queue[cursor])
        /\ occupied' = occupied /\ accepted' = accepted
    BY <1>6 DEF TickTransmit, TypeOK, Slots
  <2>2. CASE outcome # "sent"
    BY <1>6, <2>1, <2>2, SameMessages DEF TickTransmit
  <2>3. CASE outcome = "sent"
    <3> DEFINE m == Transmitted(queue[cursor])
    <3>1. /\ m \in TxMessage /\ m.state = "PENDING"
          /\ m.serial = queue[cursor].serial
      BY <2>1, TransmittedType
    <3>2. Sent(cursor)
      BY <1>6, <2>3 DEF TickTransmit
    <3> HIDE DEF m
    <3>3. CASE m.retry_count >= MaxRetries
      <4>1. Complete(cursor, m, "TIMED_OUT")
        BY <3>2, <3>3 DEF Sent, m
      <4> QED BY <2>1, <3>1, <4>1, SettleStep DEF Terminal
    <3>4. CASE ~(m.retry_count >= MaxRetries)
      <4>1. queue' = [queue EXCEPT ![cursor] = m] /\ results' = results
        BY <3>2, <3>4 DEF Sent, m
      <4>2. \A j \in Slots :
              /\ queue'[j].serial = queue[j].serial
              /\ occupied[j] => (IsTerminal(queue'[j]) <=> IsTerminal(queue[j]))
        BY <2>1, <3>1, <4>1 DEF TypeOK, Active, IsTerminal, Terminal
      <4> QED BY <2>1, <4>1, <4>2, SameMessages
    <3> QED BY <3>3, <3>4
  <2> QED BY <2>2, <2>3
<1>7. CASE UNCHANGED vars
  BY <1>7, SameMessages DEF vars
<1> QED
  BY <1>1, <1>2, <1>3, <1>4, <1>5, <1>6, <1>7 DEF Next

(* The inductive invariant holds of the empty scheduler.                   *)
LEMMA InvInit == Init => IndInv
<1> SUFFICES ASSUME Init PROVE OneResult /\ Bookkeeping
  BY TypeInit DEF IndInv
<1>1. accepted = 0 /\ \A i \in Slots : ~occupied[i]
  BY DEF Init
<1>2. Unreported
  BY DEF Init, Unreported
<1> QED
  BY <1>1, <1>2 DEF OneResult, Bookkeeping, SerialsDistinct

(* Every accepted message is reported exactly once, for every table size   *)
(* and every order of acks, cancels, ticks and radio failures.             *)
THEOREM EachMessageReportedOnce == Spec => []OneResult
<1>1. IndInv /\ [Next]_vars => IndInv'
  BY TypeStep, BooksStep DEF IndInv
<1>2. IndInv => OneResult
  BY DEF IndInv
<1> QED
  BY InvInit, <1>1, <1>2, PTL DEF Spec

--------------------------------------------------------------------------------
(* A step that keeps every entry's message, and turns entries ACKED or on  *)
(* the air only as below, preserves AckInv.                                *)
LEMMA AckInvFrame ==
  ASSUME IndInv, IndInv', AckInv,
         occupied' = occupied, accepted' = accepted,
         msg_id_counter' = msg_id_counter,
         \A j \in Slots : /\ queue'[j].serial = queue[j].serial
                          /\ queue'[j].aprs_msg_id = queue[j].aprs_msg_id
                          /\ keyed[j] > 0 => keyed'[j] > 0
                          /\ queue'[j].state = "ACKED" /\ occupied[j] =>
                               \/ queue[j].state = "ACKED"
                               \/ queue[j].aprs_msg_id \in heard,
         \A id \in heard' : id \in heard \/ \E j \in Slots :
              occupied[j] /\ queue[j].aprs_msg_id = id /\ keyed'[j] > 0
  PROVE  AckInv'
<1> SUFFICES ASSUME MaxMsgs <= MaxId PROVE AckInv'
  BY DEF AckInv, IdIsSerial, HeardWasKeyed, AckedWasOnAir
<1>1. IdIsSerial'
  BY DEF AckInv, IdIsSerial
<1>2. \A i, j \in Slots : occupied[i] /\ occupied[j] /\ i # j
        => queue[i].aprs_msg_id # queue[j].aprs_msg_id
  BY DEF AckInv, IdIsSerial, IndInv, Bookkeeping, SerialsDistinct
<1>3. \A j \in Slots : occupied[j] => queue[j].aprs_msg_id <= accepted
  BY DEF AckInv, IdIsSerial, IndInv, Bookkeeping, SerialsDistinct, TypeOK
<1>4. HeardWasKeyed'
  BY <1>2, <1>3 DEF AckInv, HeardWasKeyed
<1>5. AckedWasOnAir'
  <2> SUFFICES ASSUME NEW i \in Slots
               PROVE  /\ /\ occupied[i] /\ queue'[i].state = "ACKED"
                         /\ queue'[i].aprs_msg_id \notin EarlierIds
                         => keyed'[i] > 0
                      /\ \A j \in Slots : Active(i)' /\ Active(j)' /\ i # j
                           => queue'[i].aprs_msg_id # queue'[j].aprs_msg_id
    BY DEF AckedWasOnAir
  <2>1. /\ occupied[i] /\ queue'[i].state = "ACKED"
        /\ queue'[i].aprs_msg_id \notin EarlierIds
        => keyed'[i] > 0
    BY DEF AckInv, AckedWasOnAir, HeardWasKeyed
  <2>2. \A j \in Slots : Active(i)' /\ Active(j)' /\ i # j
          => queue'[i].aprs_msg_id # queue'[j].aprs_msg_id
    BY <1>2 DEF Active
  <2> QED BY <2>1, <2>2
<1> QED BY <1>1, <1>4, <1>5 DEF AckInv

(* enqueue() gives the new record an id no live record has.                *)
LEMMA AckInvEnqueue ==
  ASSUME IndInv, IndInv', AckInv, NEW c \in Clients, Enqueue(c)
  PROVE  AckInv'
<1> SUFFICES ASSUME MaxMsgs <= MaxId PROVE AckInv'
  BY DEF AckInv, IdIsSerial, HeardWasKeyed, AckedWasOnAir
<1>1. accepted \in 0 .. MaxMsgs - 1 /\ msg_id_counter = accepted
  BY SchedulerAssumption DEF IndInv, TypeOK, Enqueue, AckInv, IdIsSerial
<1>2. NextId = accepted + 1
  BY <1>1, ModSmall, SchedulerAssumption DEF NextId
<1>3. /\ msg_id_counter' = accepted + 1 /\ accepted' = accepted + 1
      /\ heard' = heard
  BY <1>2 DEF Enqueue
<1> PICK i \in Slots :
      /\ queue' = [queue EXCEPT ![i] =
             [client_id |-> c, aprs_msg_id |-> NextId, state |-> "QUEUED",
              retry_count |-> 0, last_tx_ms |-> 0, serial |-> accepted + 1]]
      /\ occupied' = [occupied EXCEPT ![i] = TRUE]
      /\ keyed' = [keyed EXCEPT ![i] = 0]
  BY DEF Enqueue
<1>4. /\ queue'[i].serial = accepted + 1 /\ queue'[i].aprs_msg_id = accepted + 1
      /\ queue'[i].state = "QUEUED"
      /\ \A j \in Slots : j # i => /\ queue'[j] = queue[j]
                                   /\ occupied'[j] = occupied[j]
                                   /\ keyed'[j] = keyed[j]
  BY <1>2 DEF IndInv, TypeOK
<1>5. IdIsSerial'
  BY <1>3, <1>4 DEF AckInv, IdIsSerial
<1>6. \A id \in heard : id \in EarlierIds \/ id <= accepted
  BY DEF AckInv, HeardWasKeyed
<1>7. HeardWasKeyed'
  <2>1. \A id \in heard : id \in Int
    BY DEF IndInv, TypeOK
  <2>2. \A id \in heard' : id \in EarlierIds \/ id <= accepted'
    BY <1>1, <1>3, <1>6, <2>1
  <2>3. accepted + 1 \notin heard \ EarlierIds
    BY <1>1, <1>6
  <2>4. \A j \in Slots : occupied'[j] /\ queue'[j].aprs_msg_id \in heard' \ EarlierIds
          => keyed'[j] > 0
    BY <1>3, <1>4, <2>3 DEF AckInv, HeardWasKeyed
  <2> QED BY <2>2, <2>4 DEF HeardWasKeyed
<1>8. AckedWasOnAir'
  <2>1. \A j \in Slots : (/\ occupied'[j] /\ queue'[j].state = "ACKED"
                          /\ queue'[j].aprs_msg_id \notin EarlierIds)
                         => keyed'[j] > 0
    BY <1>4 DEF AckInv, AckedWasOnAir
  <2>2. \A j, k \in Slots : occupied'[j] /\ occupied'[k] /\ j # k
          => queue'[j].aprs_msg_id # queue'[k].aprs_msg_id
    BY <1>5 DEF IdIsSerial, IndInv, Bookkeeping, SerialsDistinct
  <2> QED BY <2>1, <2>2 DEF AckedWasOnAir, Active
<1> QED BY <1>5, <1>7, <1>8 DEF AckInv

(* Every step keeps the invariant behind AckedWasOnAir.                    *)
LEMMA AckInvStep ==
  ASSUME IndInv, IndInv', AckInv, [Next]_vars
  PROVE  AckInv'
<1>0. TypeOK
  BY DEF IndInv
<1>1. ASSUME NEW c \in Clients, Enqueue(c)
      PROVE  AckInv'
  BY <1>1, AckInvEnqueue
<1>2. ASSUME NEW id \in 1 .. MaxId, OnAckReceived(id)
      PROVE  AckInv'
  <2> PICK i \in Slots : AckMatches(i, id) /\ Complete(i, queue[i], "ACKED")
    BY <1>2 DEF OnAckReceived
  <2>1. queue[i].aprs_msg_id \in heard /\ queue[i] \in TxMessage
    BY <1>0, <1>2 DEF OnAckReceived, AckMatches, TypeOK
  <2>2. /\ queue'[i].serial = queue[i].serial
        /\ queue'[i].aprs_msg_id = queue[i].aprs_msg_id
        /\ \A j \in Slots : j # i => queue'[j] = queue[j]
    BY <1>0, <2>1, CompleteType DEF Terminal
  <2> QED BY <1>2, <2>1, <2>2, AckInvFrame DEF OnAckReceived
<1>3. ASSUME NEW c \in Clients, Cancel(c)
      PROVE  AckInv'
  <2> PICK i \in Slots : Complete(i, queue[i], "CANCELLED")
    BY <1>3 DEF Cancel
  <2>1. queue[i] \in TxMessage
    BY <1>0 DEF TypeOK
  <2>2. /\ queue'[i].serial = queue[i].serial /\ queue'[i].state = "CANCELLED"
        /\ queue'[i].aprs_msg_id = queue[i].aprs_msg_id
        /\ \A j \in Slots : j # i => queue'[j] = queue[j]
    BY <1>0, <2>1, CompleteType DEF Terminal
  <2> QED BY <1>3, <2>2, AckInvFrame DEF Cancel
<1>4. ASSUME NEW d \in 1 .. MaxDelay, TickStart(d)
      PROVE  AckInv'
  BY <1>4, AckInvFrame DEF TickStart
<1>5. ASSUME TickSkip
      PROVE  AckInv'
  BY <1>5, AckInvFrame DEF TickSkip
<1>6. ASSUME NEW outcome \in Outcomes, NEW d \in 0 .. TxTime,
             TickTransmit(outcome, d)
      PROVE  AckInv'
  <2>1. /\ cursor \in Slots /\ Active(cursor) /\ Due(queue[cursor])
        /\ occupied' = occupied /\ accepted' = accepted
        /\ msg_id_counter' = msg_id_counter
    BY <1>0, <1>6 DEF TickTransmit, TypeOK, Slots
  <2>2. \A j \in Slots : /\ queue'[j].serial = queue[j].serial
                         /\ queue'[j].aprs_msg_id = queue[j].aprs_msg_id
                         /\ queue'[j].state = "ACKED" => queue[j].state = "ACKED"
    <3>1. CASE outcome # "sent"
      BY <1>6, <3>1 DEF TickTransmit
    <3>2. CASE outcome = "sent"
      <4> DEFINE m == Transmitted(queue[cursor])
      <4>1. /\ m \in TxMessage /\ m.state = "PENDING"
            /\ m.serial = queue[cursor].serial
            /\ m.aprs_msg_id = queue[cursor].aprs_msg_id
        BY <2>1, TransmittedType DEF IndInv
      <4>2. Sent(cursor)
        BY <1>6, <3>2 DEF TickTransmit
      <4> HIDE DEF m
      <4>3. CASE m.retry_count >= MaxRetries
        <5>1. Complete(cursor, m, "TIMED_OUT")
          BY <4>2, <4>3 DEF Sent, m
        <5> QED BY <1>0, <2>1, <4>1, <5>1, CompleteType DEF Terminal
      <4>4. CASE ~(m.retry_count >= MaxRetries)
        <5>1. queue' = [queue EXCEPT ![cursor] = m]
          BY <4>2, <4>4 DEF Sent, m
        <5> QED BY <1>0, <2>1, <4>1, <5>1 DEF TypeOK
      <4> QED BY <4>3, <4>4
    <3> QED BY <3>1, <3>2
  <2>3. /\ \A j \in Slots : keyed[j] > 0 => keyed'[j] > 0
        /\ \A id \in heard' : id \in heard \/
              (queue[cursor].aprs_msg_id = id /\ keyed'[cursor] > 0)
    <3>1. CASE outcome = "refused"
      BY <1>6, <3>1 DEF TickTransmit
    <3>2. CASE outcome # "refused"
      <4>1. /\ keyed' = [keyed EXCEPT ![cursor] =
                           IF keyed[cursor] > MaxRetries THEN keyed[cursor]
                           ELSE keyed[cursor] + 1]
            /\ heard' = heard \cup {queue[cursor].aprs_msg_id}
        BY <1>6, <3>2 DEF TickTransmit
      <4>2. \A j \in Slots : keyed[j] \in Nat
        BY <1>0, SchedulerAssumption DEF TypeOK
      <4>3. keyed'[cursor] > 0 /\ \A j \in Slots : j # cursor => keyed'[j] = keyed[j]
        BY <1>0, <2>1, <4>1, <4>2, SchedulerAssumption DEF TypeOK
      <4> QED BY <4>1, <4>3
    <3> QED BY <3>1, <3>2
  <2>4. occupied[cursor]
    BY <2>1 DEF Active
  <2> QED BY <2>1, <2>2, <2>3, <2>4, AckInvFrame
<1>7. CASE UNCHANGED vars
  BY <1>7, AckInvFrame DEF vars
<1> QED
  BY <1>1, <1>2, <1>3, <1>4, <1>5, <1>6, <1>7 DEF Next

(* An ack never settles a message that was not on the air, as long as the  *)
(* id counter has not wrapped and no message of an earlier boot had its id. *)
THEOREM AckOnlyAfterTransmission == Spec => []AckedWasOnAir
<1>1. Init => AckInv
  BY DEF Init, AckInv, IdIsSerial, HeardWasKeyed, AckedWasOnAir, Active
<1>2. IndInv /\ [Next]_vars => IndInv'
  BY TypeStep, BooksStep DEF IndInv
<1>3. IndInv /\ AckInv /\ [Next]_vars => AckInv'
  BY <1>2, AckInvStep
<1>4. AckInv => AckedWasOnAir
  BY DEF AckInv
<1> QED
  BY InvInit, <1>1, <1>2, <1>3, <1>4, PTL DEF Spec

--------------------------------------------------------------------------------
\* The table implements the life cycle of messages.

(* How the table shows a message: it is live exactly while an entry holds  *)
(* it, and that entry has its count of attempts.                           *)
TableShows ==
  \A s \in Serials :
    /\ Life(s) = "live" <=> \E i \in Slots : Holds(i, s)
    /\ Life(s) \in {"none", "live", "done"} /\ (Life(s) = "none" <=> s > accepted)
    /\ \A i \in Slots : Holds(i, s) => Attempts(s) = queue[i].retry_count
    /\ (\A i \in Slots : ~Holds(i, s)) => Attempts(s) = 0

--------------------------------------------------------------------------------
(* The invariant of the scheduler makes the table show every message.      *)
LEMMA Shown == IndInv => TableShows
<1> SUFFICES ASSUME IndInv, NEW s \in Serials
             PROVE  /\ Life(s) = "live" <=> \E i \in Slots : Holds(i, s)
                    /\ Life(s) \in {"none", "live", "done"}
                    /\ Life(s) = "none" <=> s > accepted
                    /\ \A i \in Slots : Holds(i, s) => Attempts(s) = queue[i].retry_count
                    /\ (\A i \in Slots : ~Holds(i, s)) => Attempts(s) = 0
  BY DEF TableShows
<1>1. s \in Nat /\ s >= 1 /\ accepted \in Nat
  BY SchedulerAssumption DEF IndInv, TypeOK, Serials
<1>2. \A i \in Slots : Holds(i, s) => s \in 1 .. accepted
  BY DEF IndInv, Bookkeeping, SerialsDistinct, Holds, Active
<1>3. \A i, j \in Slots : Holds(i, s) /\ Holds(j, s) => i = j
  BY DEF IndInv, Bookkeeping, SerialsDistinct, Holds, Active
<1>4. Life(s) = "live" <=> \E i \in Slots : Holds(i, s)
  <2>1. s \in 1 .. accepted => (results[s] = 0 <=> \E i \in Slots : Holds(i, s))
    BY DEF IndInv, OneResult
  <2> QED BY <1>1, <1>2, <2>1 DEF Life
<1>5. \A i \in Slots : Holds(i, s) => Attempts(s) = queue[i].retry_count
  BY <1>3 DEF Attempts
<1> QED BY <1>4, <1>5 DEF Life, Attempts

(* The same of the next state.                                             *)
LEMMA ShownNext == IndInv' => TableShows'
BY Shown, PTL

(* The instance counts as this module does.                                *)
LEMMA SameCount == \A S : Lifecycle!Cardinality(S) = Cardinality(S)
BY DEF Lifecycle!Cardinality, Cardinality

(* A message can be accepted only while fewer than MaxQueue are live: they *)
(* are held by different entries, none of them the free one.               *)
LEMMA RoomLeft ==
  ASSUME IndInv, NEW e \in Slots, ~Active(e)
  PROVE  Cardinality({s \in Serials : Life(s) = "live"}) < MaxQueue
<1> DEFINE L == {s \in Serials : Life(s) = "live"}
           f == [s \in L |-> CHOOSE i \in Slots : Holds(i, s)]
<1>1. \A s \in L : f[s] \in Slots /\ Holds(f[s], s)
  BY Shown DEF TableShows
<1>2. \A s \in L : f[s] \in Slots \ {e}
  BY <1>1 DEF Holds
<1>3. \A s, t \in L : f[s] = f[t] => s = t
  BY <1>1 DEF Holds
<1>4. f \in Injection(L, Slots \ {e})
  <2> HIDE DEF L
  <2>1. f \in [L -> Slots \ {e}]
    BY <1>2
  <2> QED BY <1>3, <2>1 DEF Injection, IsInjective
<1>5. IsFiniteSet(Slots) /\ Cardinality(Slots) = MaxQueue
  BY SchedulerAssumption, FS_Interval DEF Slots
<1>6. IsFiniteSet(Slots \ {e}) /\ Cardinality(Slots \ {e}) = MaxQueue - 1
  BY <1>5, FS_RemoveElement
<1>7. IsFiniteSet(L) /\ Cardinality(L) <= MaxQueue - 1
  <2> HIDE DEF L, f
  <2> QED BY <1>4, <1>6, FS_Injection
<1>8. Cardinality(L) \in Nat
  BY <1>7, FS_CardinalityType
<1> QED BY <1>7, <1>8, SchedulerAssumption

--------------------------------------------------------------------------------
(* What the mapping makes of the state.                                    *)
lives == [s \in Serials |-> Life(s)]
attempts == [s \in Serials |-> Attempts(s)]

(* enqueue() is Accept.                                                    *)
LEMMA EnqueueAccepts ==
  ASSUME IndInv, IndInv', NEW c \in Clients, Enqueue(c)
  PROVE  Lifecycle!Accept
<1> PICK i \in Slots :
      /\ IsFreeSlot(i)
      /\ queue' = [queue EXCEPT ![i] =
            [client_id |-> c, aprs_msg_id |-> NextId, state |-> "QUEUED",
             retry_count |-> 0, last_tx_ms |-> 0, serial |-> accepted + 1]]
      /\ occupied' = [occupied EXCEPT ![i] = TRUE]
  BY DEF Enqueue
<1>1. /\ accepted \in Nat /\ accepted < MaxMsgs /\ accepted' = accepted + 1
      /\ results' = results
      /\ \A s \in Serials : s \in Nat
  BY SchedulerAssumption DEF Enqueue, IndInv, TypeOK, Serials
<1> PICK n \in Serials : n = accepted + 1
  BY <1>1, SchedulerAssumption DEF Serials
<1>2. ~Active(i)
  BY DEF IsFreeSlot, Active
<1>3. /\ occupied'[i] /\ queue'[i].serial = n
      /\ queue'[i].retry_count = 0 /\ queue'[i].state = "QUEUED"
      /\ \A j \in Slots : j # i => queue'[j] = queue[j] /\ occupied'[j] = occupied[j]
  BY DEF IndInv, TypeOK
<1>4. Cardinality({s \in Serials : Life(s) = "live"}) < MaxQueue
  BY <1>2, RoomLeft
<1>5. \A j \in Slots : ~Holds(j, n)
  BY <1>1 DEF IndInv, Bookkeeping, SerialsDistinct, Holds, Active
<1>6. \A s \in Serials, j \in Slots :
        Holds(j, s)' <=> IF j = i THEN s = n ELSE Holds(j, s)
  BY <1>3 DEF Holds, Active, IsTerminal, Terminal
<1>7. TableShows /\ TableShows'
  BY Shown, ShownNext
<1>8. \A s \in Serials : s # n => Life(s)' = Life(s)
  BY <1>1 DEF Life
<1>9. Life(n)' = "live"
  <2>1. \E j \in Slots : Holds(j, n)'
    BY <1>1, <1>6
  <2> QED BY <1>1, <1>7, <2>1 DEF TableShows
<1>10. \A s \in Serials : Attempts(s)' = Attempts(s)
  <2> TAKE s \in Serials
  <2>1. CASE s = n
    <3>1. Attempts(s) = 0
      BY <1>5, <1>7, <2>1 DEF TableShows
    <3>2. Holds(i, s)'
      BY <1>6, <2>1
    <3>3. Attempts(s)' = queue'[i].retry_count
      BY <1>7, <3>2 DEF TableShows
    <3> QED BY <1>3, <3>1, <3>3
  <2>2. CASE s # n /\ \E j \in Slots : Holds(j, s)
    <3> PICK j \in Slots : Holds(j, s)
      BY <2>2
    <3>1. j # i
      BY <1>2 DEF Holds
    <3>2. Holds(j, s)' /\ queue'[j] = queue[j]
      BY <1>3, <1>6, <3>1
    <3>3. Attempts(s) = queue[j].retry_count /\ Attempts(s)' = queue'[j].retry_count
      BY <1>7, <3>2 DEF TableShows
    <3> QED BY <3>2, <3>3
  <2>3. CASE s # n /\ \A j \in Slots : ~Holds(j, s)
    <3>1. \A j \in Slots : ~Holds(j, s)'
      BY <1>6, <2>3
    <3> QED BY <1>7, <2>3, <3>1 DEF TableShows
  <2> QED BY <2>1, <2>2, <2>3
<1>11. lives' = [lives EXCEPT ![n] = "live"] /\ attempts' = attempts
  BY <1>8, <1>9, <1>10 DEF lives, attempts
<1>12. {s \in Serials : lives[s] = "live"} = {s \in Serials : Life(s) = "live"}
  BY DEF lives
<1> QED
  BY <1>1, <1>4, <1>11, <1>12, SameCount
     DEF Lifecycle!Accept, Lifecycle!Live, Lifecycle!Messages, lives, attempts, Serials

(* A live entry holds a message that was accepted.                         *)
LEMMA SerialInRange ==
  ASSUME IndInv, NEW i \in Slots, Active(i)
  PROVE  queue[i].serial \in Serials /\ queue[i].serial \in 1 .. accepted
<1>1. accepted \in 0 .. MaxMsgs
  BY DEF IndInv, TypeOK
<1>2. queue[i].serial \in 1 .. accepted
  BY DEF IndInv, Bookkeeping, SerialsDistinct, Active
<1> QED BY <1>1, <1>2, SchedulerAssumption DEF Serials

(* A step that settles the message of a live entry, and touches no other,  *)
(* is Settle.                                                              *)
LEMMA CompleteSettles ==
  ASSUME IndInv, IndInv', NEW i \in Slots, Active(i),
         NEW m \in TxMessage, m.serial = queue[i].serial, NEW t \in Terminal,
         Complete(i, m, t), occupied' = occupied, accepted' = accepted
  PROVE  queue[i].serial \in Serials /\ Lifecycle!Settle(queue[i].serial)
<1> PICK n \in Serials : n = queue[i].serial /\ n \in 1 .. accepted
  BY SerialInRange
<1>1. /\ queue'[i].state = t /\ queue'[i].serial = n
      /\ \A j \in Slots : j # i => queue'[j] = queue[j]
  BY CompleteType DEF IndInv
<1>2. Holds(i, n) /\ \A j \in Slots : Holds(j, n) => j = i
  BY DEF Holds, Active, IndInv, Bookkeeping, SerialsDistinct
<1>3. \A j \in Slots, s \in Serials : Holds(j, s)' <=> Holds(j, s) /\ j # i
  BY <1>1 DEF Holds, Active, IsTerminal
<1>4. TableShows /\ TableShows'
  BY Shown, ShownNext
<1>5. Life(n) = "live" /\ Life(n)' = "done"
  <2>1. \A j \in Slots : ~Holds(j, n)'
    BY <1>2, <1>3
  <2>2. n \in 1 .. accepted' /\ accepted' \in Nat /\ n \in Nat
    BY SchedulerAssumption DEF IndInv, TypeOK
  <2>3. ~(n > accepted')
    BY <2>2
  <2> QED BY <1>2, <1>4, <2>1, <2>3 DEF TableShows
<1>6. \A s \in Serials : s # n => Life(s)' = Life(s) /\ Attempts(s)' = Attempts(s)
  <2> SUFFICES ASSUME NEW s \in Serials, s # n
               PROVE  Life(s)' = Life(s) /\ Attempts(s)' = Attempts(s)
    OBVIOUS
  <2>1. ~Holds(i, s)
    BY DEF Holds
  <2>2. \A j \in Slots : Holds(j, s)' <=> Holds(j, s)
    BY <1>3, <2>1
  <2>3. Life(s)' = Life(s)
    BY DEF Life, Complete, IndInv, TypeOK
  <2>4. Attempts(s)' = Attempts(s)
    BY <1>1, <1>4, <2>1, <2>2 DEF TableShows
  <2> QED BY <2>3, <2>4
<1>7. Attempts(n)' = 0
  BY <1>2, <1>3, <1>4 DEF TableShows
<1>8. /\ lives' = [lives EXCEPT ![n] = "done"]
      /\ attempts' = [attempts EXCEPT ![n] = 0]
      /\ lives[n] = "live"
  BY <1>5, <1>6, <1>7 DEF lives, attempts
<1> QED
  BY <1>8 DEF Lifecycle!Settle, Lifecycle!Live, Lifecycle!Messages, lives, attempts, Serials

(* A step that leaves the table and the results alone is invisible.        *)
LEMMA Invisible ==
  ASSUME IndInv, IndInv', UNCHANGED <<accepted, occupied, queue, results>>
  PROVE  lives' = lives /\ attempts' = attempts /\ accepted' = accepted
BY DEF lives, attempts, Life, Attempts, Holds, Active, IsTerminal

(* A successful transmission counts once, and the last one settles.        *)
LEMMA SentTransmits ==
  ASSUME IndInv, IndInv', NEW i \in Slots, Active(i), Due(queue[i]), Sent(i),
         occupied' = occupied, accepted' = accepted
  PROVE  queue[i].serial \in Serials /\ Lifecycle!Transmit(queue[i].serial)
<1> PICK n \in Serials : n = queue[i].serial /\ n \in 1 .. accepted
  BY SerialInRange
<1> DEFINE m == Transmitted(queue[i])
<1>1. /\ m \in TxMessage /\ m.retry_count = queue[i].retry_count + 1
      /\ m.state = "PENDING" /\ m.serial = n
      /\ queue[i].retry_count \in Nat
  BY TransmittedType DEF IndInv, TypeOK, TxMessage
<1>2. TableShows /\ TableShows'
  BY Shown, ShownNext
<1>3. Holds(i, n) /\ \A j \in Slots : Holds(j, n) => j = i
  BY DEF Holds, Active, IndInv, Bookkeeping, SerialsDistinct
<1>4. Life(n) = "live" /\ Attempts(n) = queue[i].retry_count
  BY <1>2, <1>3 DEF TableShows
<1>5. Sent(i) <=> IF m.retry_count >= MaxRetries
                  THEN Complete(i, m, "TIMED_OUT")
                  ELSE queue' = [queue EXCEPT ![i] = m] /\ UNCHANGED results
  BY DEF Sent
<1> HIDE DEF m
<1>6. CASE m.retry_count >= MaxRetries
  <2>1. Lifecycle!Settle(n)
    BY <1>1, <1>5, <1>6, CompleteSettles DEF Terminal
  <2>2. Lifecycle!IsLast(n)
    BY <1>1, <1>4, <1>6 DEF Lifecycle!IsLast
  <2>3. n \in Lifecycle!Live
    BY <2>1 DEF Lifecycle!Settle
  <2> QED BY <2>1, <2>2, <2>3 DEF Lifecycle!Transmit
<1>7. CASE ~(m.retry_count >= MaxRetries)
  <2>1. /\ queue' = [queue EXCEPT ![i] = m] /\ results' = results
        /\ queue'[i] = m /\ \A j \in Slots : j # i => queue'[j] = queue[j]
    BY <1>5, <1>7 DEF IndInv, TypeOK
  <2>2. \A j \in Slots, s \in Serials : Holds(j, s)' <=> Holds(j, s)
    BY <1>1, <1>3, <2>1 DEF Holds, Active, IsTerminal, Terminal
  <2>3. \A s \in Serials : Life(s)' = Life(s)
    BY <2>1 DEF Life
  <2>4. \A s \in Serials : s # n => Attempts(s)' = Attempts(s)
    <3> SUFFICES ASSUME NEW s \in Serials, s # n PROVE Attempts(s)' = Attempts(s)
      OBVIOUS
    <3>1. ~Holds(i, s)
      BY DEF Holds
    <3> QED BY <1>2, <2>1, <2>2, <3>1 DEF TableShows
  <2>5. Attempts(n)' = Attempts(n) + 1
    <3>1. Holds(i, n)'
      BY <1>3, <2>2
    <3>2. Attempts(n)' = queue'[i].retry_count
      BY <1>2, <3>1 DEF TableShows
    <3> QED BY <1>1, <1>4, <2>1, <3>2
  <2>6. /\ lives' = lives /\ lives[n] = "live"
        /\ attempts' = [attempts EXCEPT ![n] = @ + 1]
        /\ attempts[n] + 1 = m.retry_count
    BY <1>1, <1>4, <2>3, <2>4, <2>5 DEF lives, attempts
  <2> QED
    BY <1>7, <2>6
       DEF Lifecycle!Transmit, Lifecycle!IsLast, Lifecycle!Live, Lifecycle!Messages,
           lives, attempts, Serials
<1> QED BY <1>6, <1>7

(* Every step of the scheduler is a step of the life cycle, or invisible.  *)
LEMMA LifecycleStep ==
  ASSUME IndInv, IndInv', [Next]_vars
  PROVE  Lifecycle!Next \/ (lives' = lives /\ attempts' = attempts /\ accepted' = accepted)
<1>1. ASSUME NEW c \in Clients, Enqueue(c)
      PROVE  Lifecycle!Accept
  BY <1>1, EnqueueAccepts
<1>2. ASSUME NEW id \in 1 .. MaxId, OnAckReceived(id)
      PROVE  \E s \in Serials : Lifecycle!Settle(s)
  <2> PICK i \in Slots : AckMatches(i, id) /\ Complete(i, queue[i], "ACKED")
    BY <1>2 DEF OnAckReceived
  <2>1. Active(i) /\ queue[i] \in TxMessage
    BY DEF AckMatches, IndInv, TypeOK
  <2> QED BY <1>2, <2>1, CompleteSettles DEF OnAckReceived, Terminal
<1>3. ASSUME NEW c \in Clients, Cancel(c)
      PROVE  \E s \in Serials : Lifecycle!Settle(s)
  <2> PICK i \in Slots : /\ IsSlotOfClient(i, c) /\ ~IsTerminal(queue[i])
                         /\ Complete(i, queue[i], "CANCELLED")
    BY <1>3 DEF Cancel
  <2>1. Active(i) /\ queue[i] \in TxMessage
    BY DEF IsSlotOfClient, OfClient, Active, IndInv, TypeOK
  <2> QED BY <1>3, <2>1, CompleteSettles DEF Cancel, Terminal
<1>4. ASSUME NEW d \in 1 .. MaxDelay, TickStart(d)
      PROVE  lives' = lives /\ attempts' = attempts /\ accepted' = accepted
  BY <1>4, Invisible DEF TickStart
<1>5. ASSUME TickSkip
      PROVE  lives' = lives /\ attempts' = attempts /\ accepted' = accepted
  BY <1>5, Invisible DEF TickSkip
<1>6. ASSUME NEW outcome \in Outcomes, NEW d \in 0 .. TxTime, TickTransmit(outcome, d)
      PROVE  \/ \E s \in Serials : Lifecycle!Transmit(s)
             \/ lives' = lives /\ attempts' = attempts /\ accepted' = accepted
  <2>1. /\ cursor \in Slots /\ Active(cursor) /\ Due(queue[cursor])
        /\ occupied' = occupied /\ accepted' = accepted
    BY <1>6 DEF TickTransmit, IndInv, TypeOK, Slots
  <2>2. CASE outcome = "sent"
    BY <1>6, <2>1, <2>2, SentTransmits DEF TickTransmit
  <2>3. CASE outcome # "sent"
    BY <1>6, <2>1, <2>3, Invisible DEF TickTransmit
  <2> QED BY <2>2, <2>3
<1>7. CASE UNCHANGED vars
  BY <1>7, Invisible DEF vars
<1> QED
  BY <1>1, <1>2, <1>3, <1>4, <1>5, <1>6, <1>7
     DEF Next, Lifecycle!Next, Lifecycle!Messages, Serials

(* The scheduler implements the life cycle.                                *)
THEOREM SchedulerImplementsLifecycle == Spec => ImplementsLifecycle
<1>1. Init => Lifecycle!Init
  <2> SUFFICES ASSUME Init PROVE Lifecycle!Init
    OBVIOUS
  <2>1. \A s \in Serials : Life(s) = "none"
    BY SchedulerAssumption DEF Init, Life, Serials
  <2>2. \A i \in Slots, s \in Serials : ~Holds(i, s)
    BY DEF Init, Holds, Active
  <2>3. \A s \in Serials : Attempts(s) = 0
    BY <2>2 DEF Attempts
  <2> QED BY <2>1, <2>3 DEF Init, Lifecycle!Init, Lifecycle!Messages, Serials
<1>2. IndInv /\ [Next]_vars => IndInv'
  BY TypeStep, BooksStep DEF IndInv
<1>3. IndInv /\ IndInv' /\ [Next]_vars
      => [Lifecycle!Next]_<<accepted, lives, attempts>>
  BY LifecycleStep
<1> QED
  BY InvInit, <1>1, <1>2, <1>3, PTL
     DEF Spec, ImplementsLifecycle, Lifecycle!Spec, lives, attempts

--------------------------------------------------------------------------------
(* Retries are spaced. The clock reading in a record is that of the        *)
(* beginning of its tick(), so the time e since that reading is up to      *)
(* i - 1 transmissions longer than the time since entry i was sent; lag is *)
(* how far the present tick() has come since its own reading.              *)
Within(i, e) == since[i] = RetryInterval \/ e <= since[i] + (i - 1) * TxTime

PendingSince(lag) ==
  \A i \in Slots : occupied[i] /\ queue[i].state = "PENDING" =>
    \E e \in Nat : /\ e >= lag /\ clock = After(queue[i].last_tx_ms, e)
                   /\ Within(i, e)

Lagging(lag) ==
  IF cursor = 0 THEN lag = 0
  ELSE lag <= (cursor - 1) * TxTime /\ clock = After(now_ms, lag)

SpacingInv == \E lag \in Nat : Lagging(lag) /\ PendingSince(lag)

\* Time passes in two parts as in one.
LEMMA AfterAfter ==
  ASSUME NEW t \in Nat, NEW a \in Nat, NEW b \in Nat
  PROVE  After(After(t, a), b) = After(t, a + b)
<1>1. ClockMod \in Int /\ ClockMod > 0 /\ t + a \in Int /\ b \in Int
  BY SchedulerAssumption
<1>2. (((t + a) % ClockMod) + b) % ClockMod = (t + a + b) % ClockMod
  BY <1>1, ModAdd, Zenon
<1>3. t + a + b = t + (a + b)
  OBVIOUS
<1> QED BY <1>2, <1>3 DEF After

\* An age and its bound grow together.
LEMMA OlderWithin ==
  ASSUME NEW s \in 0 .. RetryInterval, NEW d \in Nat, NEW e \in Nat, NEW c \in Int,
         s = RetryInterval \/ e <= s + c
  PROVE  Older(s, d) = RetryInterval \/ e + d <= Older(s, d) + c
  BY SchedulerAssumption DEF Older

\* The time of k transmissions.
LEMMA TxTimes ==
  /\ \A k \in Nat : (k - 1) * TxTime \in Int /\ (k - 1) * TxTime + TxTime = (k + 1 - 1) * TxTime
  /\ \A k \in Slots : 0 <= (k - 1) * TxTime /\ (k - 1) * TxTime <= (MaxQueue - 1) * TxTime
<1>1. TxTime \in Nat /\ MaxQueue \in Nat
  BY SchedulerAssumption
<1>2. \A k \in Nat : (k - 1) * TxTime \in Int /\ (k - 1) * TxTime + TxTime = (k + 1 - 1) * TxTime
  BY <1>1, Z3
<1>3. \A a, b \in Nat : a <= b => a * TxTime <= b * TxTime /\ 0 <= a * TxTime
  BY <1>1, Z3
<1>4. \A k \in Slots : k - 1 \in Nat /\ MaxQueue - 1 \in Nat /\ k - 1 <= MaxQueue - 1
  BY <1>1 DEF Slots
<1> QED BY <1>2, <1>3, <1>4

(* A record that is due on the wrapped clock is due in true time.          *)
LEMMA DueInTruth ==
  ASSUME NEW now \in Nat, NEW last \in Nat, NEW e \in Nat, NEW lag \in Nat, e >= lag,
         After(now, lag) = After(last, e), (now - last) % ClockMod >= RetryInterval
  PROVE  e - lag >= RetryInterval
<1> DEFINE m == ClockMod
           k == (e - lag) \div m
<1>0. m \in Int /\ m > 0 /\ RetryInterval \in Nat
  BY SchedulerAssumption
<1> HIDE DEF m
<1>a. now + lag \in Int /\ last + e \in Int /\ 0 - lag - last \in Int
  OBVIOUS
<1>1. (((now + lag) % m) + (0 - lag - last)) % m = (now + lag + (0 - lag - last)) % m
  BY <1>0, <1>a, ModAdd, Zenon
<1>2. (((last + e) % m) + (0 - lag - last)) % m = (last + e + (0 - lag - last)) % m
  BY <1>0, <1>a, ModAdd, Zenon
<1>3. /\ now + lag + (0 - lag - last) = now - last
      /\ last + e + (0 - lag - last) = e - lag
  OBVIOUS
<1>4. (now + lag) % m = (last + e) % m
  BY DEF After, m
<1>5. (now - last) % m = (e - lag) % m
  BY <1>1, <1>2, <1>3, <1>4
<1>6. (e - lag) % m <= e - lag
  <2>1. e - lag = k * m + ((e - lag) % m) /\ k \in Int
    BY <1>0, DivMod
  <2>2. (e - lag) % m \in Int /\ (e - lag) % m < m /\ e - lag >= 0
    BY <1>0, DivMod
  <2> HIDE DEF k
  <2>3. k >= 0
    <3>1. k <= -1 => k * m <= -m
      BY <1>0, <2>1, Z3
    <3>2. k * m \in Int
      BY <1>0, <2>1
    <3> QED BY <1>0, <2>1, <2>2, <3>1, <3>2
  <2>4. k * m >= 0 /\ k * m \in Int
    BY <1>0, <2>1, <2>3, Z3
  <2> QED BY <2>1, <2>2, <2>4
<1>7. (e - lag) % m \in Int
  BY <1>0, DivMod
<1> QED BY <1>0, <1>5, <1>6, <1>7 DEF m

(* A step that takes no time and touches no pending record but to settle   *)
(* it keeps the invariant.                                                 *)
LEMMA SpacingFrame ==
  ASSUME SpacingInv, cursor' = cursor, now_ms' = now_ms, clock' = clock,
         \A i \in Slots : (occupied[i] /\ queue[i].state = "PENDING")' =>
           /\ occupied[i] /\ queue[i].state = "PENDING"
           /\ queue'[i].last_tx_ms = queue[i].last_tx_ms /\ since'[i] = since[i]
  PROVE  SpacingInv'
  BY DEF SpacingInv, Lagging, PendingSince, Within

(* Time passes: d units, in which no record is sent but sent, if any, and  *)
(* every age grows.                                                        *)
LEMMA TimePasses ==
  ASSUME TypeOK, NEW lag \in Nat, PendingSince(lag), NEW d \in Nat,
         clock' = After(clock, d), NEW sent \in SUBSET Slots, NEW lag2 \in Nat, lag2 <= lag + d,
         \A i \in Slots \ sent :
           /\ since'[i] = Older(since[i], d)
           /\ (occupied[i] /\ queue[i].state = "PENDING")' =>
                /\ occupied[i] /\ queue[i].state = "PENDING"
                /\ queue'[i].last_tx_ms = queue[i].last_tx_ms,
         \A i \in sent : (occupied[i] /\ queue[i].state = "PENDING")' =>
           \E e \in Nat : /\ e >= lag2 /\ clock' = After(queue'[i].last_tx_ms, e)
                          /\ Within(i, e)'
  PROVE  PendingSince(lag2)'
<1> SUFFICES ASSUME NEW i \in Slots, (occupied[i] /\ queue[i].state = "PENDING")', i \notin sent
             PROVE  \E e \in Nat : /\ e >= lag2 /\ clock' = After(queue'[i].last_tx_ms, e)
                                   /\ Within(i, e)'
  BY DEF PendingSince
<1>1. /\ occupied[i] /\ queue[i].state = "PENDING"
      /\ queue'[i].last_tx_ms = queue[i].last_tx_ms /\ since'[i] = Older(since[i], d)
  OBVIOUS
<1> PICK e \in Nat : e >= lag /\ clock = After(queue[i].last_tx_ms, e) /\ Within(i, e)
  BY <1>1 DEF PendingSince
<1>2. queue[i].last_tx_ms \in Nat /\ since[i] \in 0 .. RetryInterval
  BY SchedulerAssumption DEF TypeOK, TxMessage
<1>3. clock' = After(queue'[i].last_tx_ms, e + d)
  <2>1. After(After(queue[i].last_tx_ms, e), d) = After(queue[i].last_tx_ms, e + d)
    BY <1>2, AfterAfter, Zenon
  <2> QED BY <1>1, <2>1
<1>4. (i - 1) * TxTime \in Int
  BY TxTimes, SchedulerAssumption DEF Slots
<1>5. Older(since[i], d) = RetryInterval \/ e + d <= Older(since[i], d) + (i - 1) * TxTime
  BY <1>2, <1>4, OlderWithin DEF Within
<1>6. Within(i, e + d)'
  BY <1>1, <1>5 DEF Within
<1>7. e + d \in Nat /\ e + d >= lag2
  OBVIOUS
<1> QED BY <1>3, <1>6, <1>7

\* Every step keeps what is known of the time since the last transmissions.
LEMMA SpacingStep ==
  ASSUME IndInv, IndInv', SpacingInv, [Next]_vars
  PROVE  SpacingInv'
<1>0. TypeOK /\ TypeOK'
  BY DEF IndInv
<1>1. ASSUME NEW c \in Clients, Enqueue(c)
      PROVE  SpacingInv'
  BY <1>0, <1>1, SpacingFrame DEF Enqueue, TypeOK
<1>2. ASSUME NEW id \in 1 .. MaxId, OnAckReceived(id)
      PROVE  SpacingInv'
  <2> PICK i \in Slots : Complete(i, queue[i], "ACKED")
    BY <1>2 DEF OnAckReceived
  <2>1. queue[i] \in TxMessage
    BY <1>0 DEF TypeOK
  <2>2. queue'[i].state = "ACKED" /\ \A j \in Slots : j # i => queue'[j] = queue[j]
    BY <1>0, <2>1, CompleteType DEF Terminal
  <2> QED BY <1>2, <2>2, SpacingFrame DEF OnAckReceived
<1>3. ASSUME NEW c \in Clients, Cancel(c)
      PROVE  SpacingInv'
  <2> PICK i \in Slots : Complete(i, queue[i], "CANCELLED")
    BY <1>3 DEF Cancel
  <2>1. queue[i] \in TxMessage
    BY <1>0 DEF TypeOK
  <2>2. queue'[i].state = "CANCELLED" /\ \A j \in Slots : j # i => queue'[j] = queue[j]
    BY <1>0, <2>1, CompleteType DEF Terminal
  <2> QED BY <1>3, <2>2, SpacingFrame DEF Cancel
<1>4. ASSUME NEW d \in 1 .. MaxDelay, TickStart(d)
      PROVE  SpacingInv'
  <2> PICK lag \in Nat : Lagging(lag) /\ PendingSince(lag)
    BY DEF SpacingInv
  <2>1. d \in Nat /\ cursor' = 1 /\ now_ms' = clock' /\ clock' = After(clock, d)
    BY <1>4, SchedulerAssumption DEF TickStart
  <2>2. PendingSince(0)'
    <3>1. \A i \in Slots \ {} :
           /\ since'[i] = Older(since[i], d)
           /\ (occupied[i] /\ queue[i].state = "PENDING")' =>
                /\ occupied[i] /\ queue[i].state = "PENDING"
                /\ queue'[i].last_tx_ms = queue[i].last_tx_ms
      BY <1>4 DEF TickStart
    <3>2. 0 \in Nat /\ 0 <= lag + d /\ {} \in SUBSET Slots
      BY <2>1
    <3> QED BY <1>0, <2>1, <3>1, <3>2, TimePasses
  <2>3. Lagging(0)'
    <3>1. clock' = After(now_ms', 0)
      BY <1>0, <2>1, SchedulerAssumption DEF After, TypeOK
    <3>2. 0 <= (cursor' - 1) * TxTime
      BY <2>1, SchedulerAssumption
    <3> QED BY <2>1, <3>1, <3>2 DEF Lagging
  <2> QED BY <2>2, <2>3 DEF SpacingInv
<1>5. ASSUME TickSkip
      PROVE  SpacingInv'
  <2> PICK lag \in Nat : Lagging(lag) /\ PendingSince(lag)
    BY DEF SpacingInv
  <2>1. clock' = clock /\ queue' = queue /\ occupied' = occupied /\ since' = since
    BY <1>5 DEF TickSkip
  <2>2. CASE cursor = MaxQueue
    <3>1. cursor' = 0
      BY <1>5, <2>2 DEF TickSkip, Advance
    <3>2. PendingSince(0)'
      BY <2>1 DEF PendingSince, Within
    <3> QED BY <3>1, <3>2 DEF SpacingInv, Lagging
  <2>3. CASE cursor # MaxQueue
    <3>1. /\ cursor' = cursor + 1 /\ now_ms' = now_ms
          /\ cursor \in Nat /\ cursor # 0 /\ cursor' # 0
      BY <1>0, <1>5, <2>3, SchedulerAssumption DEF TickSkip, Advance, TypeOK
    <3>2. lag <= (cursor' - 1) * TxTime
      BY <3>1, TxTimes, SchedulerAssumption DEF Lagging
    <3>3. Lagging(lag)'
      BY <2>1, <3>1, <3>2 DEF Lagging
    <3>4. PendingSince(lag)'
      BY <2>1 DEF PendingSince, Within
    <3> QED BY <3>3, <3>4 DEF SpacingInv
  <2> QED BY <2>2, <2>3
<1>6. ASSUME NEW outcome \in Outcomes, NEW d \in 0 .. TxTime, TickTransmit(outcome, d)
      PROVE  SpacingInv'
  <2> PICK lag \in Nat : Lagging(lag) /\ PendingSince(lag)
    BY DEF SpacingInv
  <2>1. /\ cursor \in Slots /\ cursor \in Nat /\ cursor # 0
        /\ Active(cursor) /\ Due(queue[cursor]) /\ d \in Nat /\ d <= TxTime
        /\ clock' = After(clock, d) /\ occupied' = occupied
    BY <1>0, <1>6, SchedulerAssumption DEF TickTransmit, TypeOK, Slots
  <2>2. /\ lag <= (cursor - 1) * TxTime /\ clock = After(now_ms, lag)
        /\ clock' = After(now_ms, lag + d) /\ lag + d \in Nat
    BY <1>0, <2>1, AfterAfter, SchedulerAssumption DEF Lagging, TypeOK
  <2>3. ASSUME NEW lag2 \in Nat, lag2 <= lag + d PROVE PendingSince(lag2)'
    <3> DEFINE sent == IF outcome = "sent" THEN {cursor} ELSE {}
    <3>1. \A i \in Slots \ sent : /\ since'[i] = Older(since[i], d)
                                  /\ queue'[i] = queue[i]
      <4>1. CASE outcome # "sent"
        BY <1>6, <4>1 DEF TickTransmit
      <4>2. CASE outcome = "sent"
        <5>1. \A i \in Slots \ sent : since'[i] = Older(since[i], d)
          BY <1>6, <4>2 DEF TickTransmit
        <5>2. \A i \in Slots \ sent : queue'[i] = queue[i]
          BY <1>6, <4>2, <1>0 DEF TickTransmit, Sent, Complete, TypeOK
        <5> QED BY <5>1, <5>2
      <4> QED BY <4>1, <4>2
    <3>2. ASSUME NEW i \in sent, (occupied[i] /\ queue[i].state = "PENDING")'
          PROVE  \E e \in Nat : /\ e >= lag2 /\ clock' = After(queue'[i].last_tx_ms, e)
                                /\ Within(i, e)'
      <4>1. i = cursor /\ outcome = "sent"
        OBVIOUS
      <4>2. queue'[cursor].last_tx_ms = now_ms
        <5> DEFINE m == Transmitted(queue[cursor])
        <5>1. m \in TxMessage /\ m.last_tx_ms = now_ms
          <6>1. m \in TxMessage /\ queue[cursor] \in TxMessage
            BY <1>0, <2>1, TransmittedType DEF IndInv, TypeOK
          <6>2. m.last_tx_ms = now_ms
            BY <6>1 DEF Transmitted, TxMessage
          <6> QED BY <6>1, <6>2
        <5>2. Sent(cursor)
          BY <1>6, <4>1 DEF TickTransmit
        <5> HIDE DEF m
        <5>3. CASE m.retry_count >= MaxRetries
          <6>1. queue' = [queue EXCEPT ![cursor] = [m EXCEPT !.state = "TIMED_OUT"]]
            BY <5>2, <5>3 DEF Sent, Complete, m
          <6> QED BY <1>0, <2>1, <5>1, <6>1 DEF TypeOK, TxMessage
        <5>4. CASE ~(m.retry_count >= MaxRetries)
          <6>1. queue' = [queue EXCEPT ![cursor] = m]
            BY <5>2, <5>4 DEF Sent, m
          <6> QED BY <1>0, <2>1, <5>1, <6>1 DEF TypeOK
        <5> QED BY <5>3, <5>4
      <4>3. since'[cursor] = Older(0, d)
        BY <1>6, <2>1, <4>1 DEF TickTransmit
      <4>4. (cursor - 1) * TxTime \in Int
        BY <2>1, TxTimes
      <4>5. Older(0, d) = RetryInterval \/ lag + d <= Older(0, d) + (cursor - 1) * TxTime
        <5>1. 0 \in 0 .. RetryInterval /\ lag <= 0 + (cursor - 1) * TxTime
          BY <2>2, <4>4, SchedulerAssumption
        <5> QED BY <2>1, <4>4, <5>1, OlderWithin, Zenon
      <4>6. Within(i, lag + d)'
        BY <4>1, <4>3, <4>5 DEF Within
      <4> QED BY <2>2, <2>3, <4>1, <4>2, <4>6
    <3>3. sent \in SUBSET Slots
      BY <2>1
    <3> HIDE DEF sent
    <3> QED BY <1>0, <2>1, <2>3, <3>1, <3>2, <3>3, TimePasses
  <2>4. CASE cursor = MaxQueue
    <3>1. cursor' = 0
      BY <1>6, <2>4 DEF TickTransmit, Advance
    <3>2. PendingSince(0)'
      BY <2>2, <2>3
    <3> QED BY <3>1, <3>2 DEF SpacingInv, Lagging
  <2>5. CASE cursor # MaxQueue
    <3>1. cursor' = cursor + 1 /\ now_ms' = now_ms /\ cursor' # 0
      BY <1>6, <2>1, <2>5 DEF TickTransmit, Advance
    <3>2. lag + d <= (cursor' - 1) * TxTime
      BY <2>1, <2>2, <3>1, TxTimes, SchedulerAssumption
    <3>3. Lagging(lag + d)'
      BY <2>2, <3>1, <3>2 DEF Lagging
    <3>4. PendingSince(lag + d)'
      BY <2>2, <2>3
    <3> QED BY <2>2, <3>3, <3>4 DEF SpacingInv
  <2> QED BY <2>4, <2>5
<1>7. CASE UNCHANGED vars
  BY <1>7 DEF vars, SpacingInv, Lagging, PendingSince, Within
<1> QED
  BY <1>1, <1>2, <1>3, <1>4, <1>5, <1>6, <1>7 DEF Next

\* Only a transmission in tick() counts, and it goes by the interval.
LEMMA SpacedStep ==
  ASSUME IndInv, SpacingInv, [Next]_vars, NEW i \in Slots,
         occupied[i], queue[i].state = "PENDING",
         queue'[i].retry_count = queue[i].retry_count + 1
  PROVE  since[i] >= RetryInterval - (MaxQueue - 1) * TxTime
<1>0. TypeOK /\ queue[i] \in TxMessage /\ queue[i].retry_count \in Nat
  BY SchedulerAssumption DEF IndInv, TypeOK, TxMessage
<1>1. queue'[i] # queue[i]
  BY <1>0
<1>2. ~\E c \in Clients : Enqueue(c)
  <2> SUFFICES ASSUME NEW c \in Clients, Enqueue(c) PROVE FALSE
    OBVIOUS
  <2> PICK j \in Slots : /\ IsFreeSlot(j)
                         /\ \A k \in Slots : k # j => queue'[k] = queue[k]
    BY <1>0 DEF Enqueue, TypeOK
  <2>1. i = j
    BY <1>1
  <2> QED BY <2>1 DEF IsFreeSlot, IsTerminal, Terminal
<1>3. ~\E id \in 1 .. MaxId : OnAckReceived(id)
  <2> SUFFICES ASSUME NEW id \in 1 .. MaxId, OnAckReceived(id) PROVE FALSE
    OBVIOUS
  <2> PICK j \in Slots : Complete(j, queue[j], "ACKED")
    BY DEF OnAckReceived
  <2>1. queue[j] \in TxMessage
    BY <1>0 DEF TypeOK
  <2>2. /\ queue'[j].retry_count = queue[j].retry_count
        /\ \A k \in Slots : k # j => queue'[k] = queue[k]
    BY <1>0, <2>1, CompleteType DEF Terminal
  <2> QED BY <1>0, <2>2
<1>4. ~\E c \in Clients : Cancel(c)
  <2> SUFFICES ASSUME NEW c \in Clients, Cancel(c) PROVE FALSE
    OBVIOUS
  <2> PICK j \in Slots : Complete(j, queue[j], "CANCELLED")
    BY DEF Cancel
  <2>1. queue[j] \in TxMessage
    BY <1>0 DEF TypeOK
  <2>2. /\ queue'[j].retry_count = queue[j].retry_count
        /\ \A k \in Slots : k # j => queue'[k] = queue[k]
    BY <1>0, <2>1, CompleteType DEF Terminal
  <2> QED BY <1>0, <2>2
<1>5. PICK outcome \in Outcomes, d \in 0 .. TxTime : TickTransmit(outcome, d)
  BY <1>1, <1>2, <1>3, <1>4 DEF Next, TickStart, TickSkip, vars
<1>6. i = cursor /\ Due(queue[i]) /\ cursor # 0
  <2>1. cursor \in Slots /\ Due(queue[cursor]) /\ cursor # 0
    BY <1>0, <1>5 DEF TickTransmit, TypeOK, Slots
  <2>2. \A k \in Slots : k # cursor => queue'[k] = queue[k]
    BY <1>0, <1>5 DEF TickTransmit, Sent, Complete, TypeOK
  <2> QED BY <1>1, <2>1, <2>2
<1> PICK lag \in Nat : Lagging(lag) /\ PendingSince(lag)
  BY DEF SpacingInv
<1> PICK e \in Nat : /\ e >= lag /\ clock = After(queue[i].last_tx_ms, e)
                     /\ Within(i, e)
  BY DEF PendingSince
<1>7. After(now_ms, lag) = After(queue[i].last_tx_ms, e)
  BY <1>6 DEF Lagging
<1>8. (now_ms - queue[i].last_tx_ms) % ClockMod >= RetryInterval
  BY <1>6 DEF Due
<1>9. e - lag >= RetryInterval
  BY <1>0, <1>7, <1>8, DueInTruth, SchedulerAssumption DEF TypeOK, TxMessage
<1>10. /\ (i - 1) * TxTime \in Int /\ 0 <= (i - 1) * TxTime
       /\ (i - 1) * TxTime <= (MaxQueue - 1) * TxTime
  BY TxTimes, SchedulerAssumption DEF Slots
<1>11. (MaxQueue - 1) * TxTime \in Int
  BY SchedulerAssumption
<1> QED
  BY <1>0, <1>9, <1>10, <1>11, SchedulerAssumption DEF Within, TypeOK

(* Two transmissions of one message are kRetryIntervalMs apart, less what  *)
(* tick() spent on the entries before it, however often the clock wraps.   *)
THEOREM RetriesAreSpaced == Spec => RetrySpacing
<1>1. Init => SpacingInv
  BY DEF Init, SpacingInv, Lagging, PendingSince
<1>2. IndInv /\ [Next]_vars => IndInv'
  BY TypeStep, BooksStep DEF IndInv
<1>3. IndInv /\ SpacingInv /\ [Next]_vars => SpacingInv'
  BY <1>2, SpacingStep
<1>4. IndInv /\ SpacingInv /\ [Next]_vars =>
        \A i \in Slots :
          (/\ occupied[i] /\ queue[i].state = "PENDING"
           /\ queue'[i].retry_count = queue[i].retry_count + 1)
          => since[i] >= RetryInterval - (MaxQueue - 1) * TxTime
  BY SpacedStep
<1> QED
  BY InvInit, <1>1, <1>2, <1>3, <1>4, PTL DEF Spec, RetrySpacing

================================================================================
