------------------------------ MODULE TxScheduler ------------------------------
(***************************************************************************)
(* The outbound APRS message scheduler                                     *)
(* (firmware/components/aprs_fsm/TxScheduler.cpp): a static table of       *)
(* message records, filled by enqueue(), driven by tick() once per         *)
(* aprs_task loop, and settled by acks, by the retry limit or by cancel(). *)
(* All calls come from one task, but tick() blocks in the radio for every  *)
(* frame it sends: it is modelled one table entry at a time, with the      *)
(* clock running meanwhile while `now_ms' keeps the value tick() was given. *)
(***************************************************************************)
EXTENDS Integers

CONSTANTS
  MaxQueue,       \* kMaxQueue: entries of the table (8)
  MaxRetries,     \* kMaxRetries: transmissions per message (5)
  RetryInterval,  \* kRetryIntervalMs, in clock units (20 s)
  ClockMod,       \* the millisecond clock is a uint32_t: 2^32
  MaxId,          \* message ids run from 1 to MaxId and wrap (99999)
  Clients,        \* values of the caller's cookie client_id
  TxTime,         \* bound: clock units one transmission may take
  MaxDelay,       \* bound: clock units the loop may sleep between two ticks
  MaxMsgs,        \* bound: messages accepted since boot
  EarlierIds      \* ids sent before the last reset that peers may yet ack

ASSUME SchedulerAssumption ==
  /\ MaxQueue \in Nat \ {0}
  /\ MaxRetries \in Nat \ {0}
  /\ RetryInterval \in Nat \ {0}
  /\ ClockMod \in Nat /\ ClockMod > RetryInterval
  /\ MaxId \in Nat \ {0}
  /\ Clients # {}
  /\ TxTime \in Nat
  /\ MaxDelay \in Nat \ {0}
  /\ MaxMsgs \in Nat
  /\ EarlierIds \subseteq 1 .. MaxId

VARIABLES
  queue,           \* queue_: the message records
  occupied,        \* occupied_: which records are in use
  msg_id_counter,  \* msg_id_counter_
  cursor,          \* the entry tick() is working on; 0 outside tick()
  now_ms,          \* the argument of the current tick(); 0 outside tick()
  clock,           \* esp_timer_get_time() / 1000 as a uint32_t
  accepted,        \* history: messages accepted since boot
  results,         \* history: terminal results reported, per message
  keyed,           \* history: times the entry's message went on the air
  since,           \* history: time since it was last sent, capped
  heard            \* history: ids a peer may have received

vars == <<queue, occupied, msg_id_counter, cursor, now_ms, clock,
          accepted, results, keyed, since, heard>>

Slots == 1 .. MaxQueue
Serials == 1 .. MaxMsgs     \* messages of this boot, in the order accepted
Terminal == {"ACKED", "TIMED_OUT", "CANCELLED"}
States == {"QUEUED", "PENDING"} \cup Terminal

\* What one call of the transmit function can do: send the frame; refuse
\* before keying the radio; or fail after it (an I2S write error).
Outcomes == {"sent", "refused", "aborted"}

(* TxMessage: client_id, aprs_msg_id, state, retry_count and last_tx_ms.   *)
(* dest, text and queued_at_ms decide nothing here; serial is the history  *)
(* name of the message.                                                    *)
TxMessage == [client_id: Clients, aprs_msg_id: 0 .. MaxId, state: States,
              retry_count: 0 .. MaxRetries, last_tx_ms: 0 .. ClockMod - 1,
              serial: 0 .. MaxMsgs]

Blank == [client_id |-> CHOOSE c \in Clients : TRUE, aprs_msg_id |-> 0,
          state |-> "QUEUED", retry_count |-> 0, last_tx_ms |-> 0, serial |-> 0]

IsTerminal(m) == m.state \in Terminal
Active(i) == occupied[i] /\ ~IsTerminal(queue[i])

\* Clock readings are uint32_t; `since' is the true elapsed time, capped.
After(t, d) == (t + d) % ClockMod
Older(age, d) == IF age + d < RetryInterval THEN age + d ELSE RetryInterval

(* A reset loses the table, the id counter and the clock; none is stored.  *)
Init ==
  /\ queue = [i \in Slots |-> Blank]
  /\ occupied = [i \in Slots |-> FALSE]
  /\ msg_id_counter = 0
  /\ cursor = 0
  /\ now_ms = 0
  /\ clock = 0
  /\ accepted = 0
  /\ results = [s \in Serials |-> 0]
  /\ keyed = [i \in Slots |-> 0]
  /\ since = [i \in Slots |-> RetryInterval]
  /\ heard = EarlierIds

--------------------------------------------------------------------------------
(* find_free_slot(): the first unused entry, else the first terminal one.  *)
IsFreeSlot(i) ==
  IF \E j \in Slots : ~occupied[j]
  THEN ~occupied[i] /\ \A j \in 1 .. i - 1 : occupied[j]
  ELSE IsTerminal(queue[i]) /\ \A j \in 1 .. i - 1 : ~IsTerminal(queue[j])

(* find_slot_by_client(): the first entry in use with this client_id,      *)
(* whatever its state.                                                     *)
OfClient(i, c) == occupied[i] /\ queue[i].client_id = c
IsSlotOfClient(i, c) == OfClient(i, c) /\ \A j \in 1 .. i - 1 : ~OfClient(j, c)

\* Mutant: the id counter wraps one early.
NextId_WrapsEarly == (msg_id_counter % (MaxId - 1)) + 1

NextId == (msg_id_counter % MaxId) + 1

(* enqueue() with valid parameters and a free entry. Its other returns     *)
(* (BAD_PARAM, QUEUE_FULL) change nothing.                                 *)
Enqueue(c) ==
  /\ cursor = 0
  /\ accepted < MaxMsgs
  /\ \E i \in Slots :
       /\ IsFreeSlot(i)
       /\ queue' = [queue EXCEPT ![i] =
            [client_id |-> c, aprs_msg_id |-> NextId, state |-> "QUEUED",
             retry_count |-> 0, last_tx_ms |-> 0, serial |-> accepted + 1]]
       /\ occupied' = [occupied EXCEPT ![i] = TRUE]
       /\ keyed' = [keyed EXCEPT ![i] = 0]
       /\ since' = [since EXCEPT ![i] = RetryInterval]
  /\ msg_id_counter' = NextId
  /\ accepted' = accepted + 1
  /\ UNCHANGED <<cursor, now_ms, clock, results, heard>>

(* complete_(): the terminal state, and one call of result_fn_.            *)
Complete(i, m, terminal) ==
  /\ queue' = [queue EXCEPT ![i] = [m EXCEPT !.state = terminal]]
  /\ results' = [results EXCEPT ![m.serial] = @ + 1]

\* Mutant: the check for a terminal record is missing.
AckMatches_AnyState(i, id) == occupied[i] /\ queue[i].aprs_msg_id = id

AckMatches(i, id) == Active(i) /\ queue[i].aprs_msg_id = id

(* on_ack_received(): settles the first live entry with this id. Acks are  *)
(* sent by peers that received the message; they may be late or repeated.  *)
OnAckReceived(id) ==
  /\ cursor = 0
  /\ id \in heard
  /\ \E i \in Slots :
       /\ AckMatches(i, id)
       /\ \A j \in 1 .. i - 1 : ~AckMatches(j, id)
       /\ Complete(i, queue[i], "ACKED")
  /\ UNCHANGED <<occupied, msg_id_counter, cursor, now_ms, clock, accepted,
                 keyed, since, heard>>

Cancel(c) ==
  /\ cursor = 0
  /\ \E i \in Slots :
       /\ IsSlotOfClient(i, c)
       /\ ~IsTerminal(queue[i])
       /\ Complete(i, queue[i], "CANCELLED")
  /\ UNCHANGED <<occupied, msg_id_counter, cursor, now_ms, clock, accepted,
                 keyed, since, heard>>

--------------------------------------------------------------------------------
(* tick(now_ms): visits the entries in order. A queued message is due at   *)
(* once, a pending one RetryInterval after its last transmission. The      *)
(* aprs_task loop sleeps d units, reads the clock and calls tick().        *)
TickStart(d) ==
  /\ cursor = 0
  /\ cursor' = 1
  /\ clock' = After(clock, d)
  /\ now_ms' = clock'
  /\ since' = [i \in Slots |-> Older(since[i], d)]
  /\ UNCHANGED <<queue, occupied, msg_id_counter, accepted, results,
                 keyed, heard>>

\* Mutants: the deadline compared as a number, without and with its own wrap.
Due_Deadline(m) ==
  \/ m.state = "QUEUED"
  \/ m.state = "PENDING" /\ now_ms >= m.last_tx_ms + RetryInterval
Due_WrappedDeadline(m) ==
  \/ m.state = "QUEUED"
  \/ m.state = "PENDING" /\ now_ms >= After(m.last_tx_ms, RetryInterval)

Due(m) ==
  \/ m.state = "QUEUED"
  \/ /\ m.state = "PENDING"
     /\ (now_ms - m.last_tx_ms) % ClockMod >= RetryInterval

\* The next entry, or the end of tick(), where its argument is gone.
Advance ==
  IF cursor = MaxQueue
  THEN cursor' = 0 /\ now_ms' = 0
  ELSE cursor' = cursor + 1 /\ UNCHANGED now_ms

TickSkip ==
  /\ cursor # 0
  /\ ~(Active(cursor) /\ Due(queue[cursor]))
  /\ Advance
  /\ UNCHANGED <<queue, occupied, msg_id_counter, clock, accepted,
                 results, keyed, since, heard>>

\* transmit_now_() after a successful tx_fn_: count it, and give up at the limit.
Transmitted(m) ==
  [m EXCEPT !.retry_count = @ + 1, !.last_tx_ms = now_ms, !.state = "PENDING"]

\* Mutant: off by one at the limit.
Sent_OneMore(i) ==
  LET m == Transmitted(queue[i])
  IN  IF m.retry_count > MaxRetries
      THEN Complete(i, m, "TIMED_OUT")
      ELSE queue' = [queue EXCEPT ![i] = m] /\ UNCHANGED results

Sent(i) ==
  LET m == Transmitted(queue[i])
  IN  IF m.retry_count >= MaxRetries
      THEN Complete(i, m, "TIMED_OUT")
      ELSE queue' = [queue EXCEPT ![i] = m] /\ UNCHANGED results

(* transmit_now_() of the entry under the cursor. A call that keys the     *)
(* radio takes d units of time; a failed one leaves the record as it was.  *)
TickTransmit(outcome, d) ==
  /\ cursor # 0
  /\ Active(cursor) /\ Due(queue[cursor])
  /\ IF outcome = "sent" THEN Sent(cursor) ELSE UNCHANGED <<queue, results>>
  /\ clock' = After(clock, d)
  /\ since' = [i \in Slots |->
       IF outcome = "sent" /\ i = cursor THEN Older(0, d) ELSE Older(since[i], d)]
  /\ IF outcome = "refused"
     THEN d = 0 /\ UNCHANGED <<keyed, heard>>
     ELSE /\ keyed' = [keyed EXCEPT ![cursor] =
                         IF @ > MaxRetries THEN @ ELSE @ + 1]
          /\ heard' = heard \cup {queue[cursor].aprs_msg_id}
  /\ Advance
  /\ UNCHANGED <<occupied, msg_id_counter, accepted>>

Next ==
  \/ \E c \in Clients : Enqueue(c)
  \/ \E id \in 1 .. MaxId : OnAckReceived(id)
  \/ \E c \in Clients : Cancel(c)
  \/ \E d \in 1 .. MaxDelay : TickStart(d)
  \/ TickSkip
  \/ \E outcome \in Outcomes, d \in 0 .. TxTime : TickTransmit(outcome, d)

Spec == Init /\ [][Next]_vars

(* aprs_task keeps looping, and the radio works often enough: an entry     *)
(* that comes up for transmission again and again is sent in the end.      *)
Fairness ==
  /\ WF_vars(\E d \in 1 .. MaxDelay : TickStart(d))
  /\ WF_vars(TickSkip)
  /\ WF_vars(\E outcome \in Outcomes, d \in 0 .. TxTime : TickTransmit(outcome, d))
  /\ \A i \in Slots :
       SF_vars(cursor = i /\ \E d \in 0 .. TxTime : TickTransmit("sent", d))

FairSpec == Spec /\ Fairness

--------------------------------------------------------------------------------
TypeOK ==
  /\ queue \in [Slots -> TxMessage]
  /\ occupied \in [Slots -> BOOLEAN]
  /\ msg_id_counter \in 0 .. MaxId
  /\ cursor \in 0 .. MaxQueue
  /\ now_ms \in 0 .. ClockMod - 1
  /\ clock \in 0 .. ClockMod - 1
  /\ accepted \in 0 .. MaxMsgs
  /\ results \in [Serials -> Nat]
  /\ keyed \in [Slots -> 0 .. MaxRetries + 1]
  /\ since \in [Slots -> 0 .. RetryInterval]
  /\ heard \subseteq 0 .. MaxId

(* Every accepted message is reported exactly once: it is live in exactly  *)
(* one entry and has no result yet, or it has had one result and is live   *)
(* nowhere. In particular enqueue() never reclaims a live entry, and a     *)
(* late or repeated ack never settles a message twice.                     *)
Holds(i, s) == Active(i) /\ queue[i].serial = s

OneResult ==
  \A s \in 1 .. accepted :
    \/ /\ results[s] = 0
       /\ \E i \in Slots : Holds(i, s) /\ \A j \in Slots : Holds(j, s) => j = i
    \/ /\ results[s] = 1
       /\ \A i \in Slots : ~Holds(i, s)

(* The state of a record tells how many transmissions it has had: none     *)
(* while queued, some but not all while pending, all of them when timed    *)
(* out. No message is sent more than kMaxRetries times successfully.       *)
AttemptsMatchState ==
  \A i \in Slots : occupied[i] =>
    LET m == queue[i] IN
    /\ m.state = "QUEUED" => m.retry_count = 0
    /\ m.state = "PENDING" => m.retry_count \in 1 .. MaxRetries - 1
    /\ m.state = "TIMED_OUT" => m.retry_count = MaxRetries

(* Within one turn of the id counter live messages have different ids, and *)
(* an ack settles a message only once it has been on the air, unless a     *)
(* message of an earlier boot had the same id: a late ack for an older     *)
(* message never settles a newer one.                                      *)
AckedWasOnAir ==
  MaxMsgs <= MaxId =>
    \A i \in Slots :
      /\ (/\ occupied[i] /\ queue[i].state = "ACKED"
          /\ queue[i].aprs_msg_id \notin EarlierIds)
         => keyed[i] > 0
      /\ \A j \in Slots : Active(i) /\ Active(j) /\ i # j
           => queue[i].aprs_msg_id # queue[j].aprs_msg_id

(* Two successful transmissions of one message start at least              *)
(* kRetryIntervalMs apart, less the time tick() can spend on the other     *)
(* entries: last_tx_ms is when tick() began, not when the frame was sent.  *)
(* The comparison survives the wrap of the millisecond clock.              *)
RetrySpacing ==
  [][\A i \in Slots :
       (/\ occupied[i] /\ queue[i].state = "PENDING"
        /\ queue'[i].retry_count = queue[i].retry_count + 1)
       => since[i] >= RetryInterval - (MaxQueue - 1) * TxTime]_vars

(* Every accepted message is settled in the end: again and again there is  *)
(* a moment when none is outstanding (MaxMsgs bounds the new ones).        *)
AllSettled == []<>(\A i \in Slots : ~Active(i))

(* The table, the ids and the clock implement the life cycle that users of *)
(* the scheduler rely on. Where message s is, and how often it was sent:   *)
Life(s) == IF s > accepted THEN "none" ELSE IF results[s] = 0 THEN "live" ELSE "done"

Attempts(s) ==
  IF \E i \in Slots : Holds(i, s)
  THEN queue[CHOOSE i \in Slots : Holds(i, s)].retry_count
  ELSE 0

Lifecycle == INSTANCE TxLifecycle WITH
  Capacity <- MaxQueue,
  life <- [s \in Serials |-> Life(s)],
  sent <- [s \in Serials |-> Attempts(s)]

ImplementsLifecycle == Lifecycle!Spec

--------------------------------------------------------------------------------
(* What the documentation says, refuted by the code.                       *)

(* TxScheduler.h: "kMaxRetries = 5 transmissions per message (1 initial +  *)
(* 4 retries)". A frame that fails after the radio was keyed is not        *)
(* counted: it is keyed again on every tick without limit.                 *)
KeyedAtMostMaxRetries == \A i \in Slots : keyed[i] <= MaxRetries
================================================================================
