-------------------------------- MODULE AprsTask -------------------------------
(***************************************************************************)
(* A message's way from the client to the air and back: BLE handlers push  *)
(* requests and KISS frames into two rings (each a BoundedFifo); the loop  *)
(* of aprs_task drains them into the scheduler (a TxLifecycle), transmits, *)
(* takes acks from received frames, and tells the client what happened by  *)
(* rate-limited notifications.                                             *)
(***************************************************************************)
EXTENDS Integers, Sequences, FiniteSets

CONSTANTS
  RingDepth,    \* kRingDepth: requests waiting (8)
  KissDepth,    \* kKissRingDepth: KISS frames waiting (4)
  Capacity,     \* kMaxQueue: messages live in the scheduler (8)
  MaxRetries,   \* kMaxRetries (5)
  NimbleFails,  \* whether NimBLE may run out of buffers or lose the channel
  MaxMsgs,      \* bound: requests pushed since boot
  MaxKiss       \* bound: KISS frames pushed since boot

ASSUME TaskAssumption ==
  /\ RingDepth \in Nat \ {0} /\ KissDepth \in Nat \ {0}
  /\ Capacity \in Nat \ {0} /\ MaxRetries \in Nat \ {0}
  /\ NimbleFails \in BOOLEAN
  /\ MaxMsgs \in Nat /\ MaxKiss \in Nat

VARIABLES
  ring, pushed,          \* requests under way, by number; how many so far
  kiss_ring, kissed,     \* the same for KISS frames
  apc,                   \* where the loop of aprs_task is
  todo,                  \* entries of a ring the head load showed, still to drain
  turn,                  \* messages tick() has yet to visit
  current,               \* the message tick() is transmitting, or 0
  accepted, life, sent,  \* the scheduler
  quiet,                 \* certainly kNotifyMinIntervalMs since the last tx_result
  connected,             \* connected_
  request,               \* history: the request behind each accepted message
  result,                \* history: the result of each message, "none" before
  told,                  \* history: the last the client heard of each message
  frames,                \* history: frames given to the radio in this pass
  kiss_air               \* history: KISS frames given to the radio

rings == <<ring, pushed, kiss_ring, kissed>>
loop == <<apc, todo, turn, current>>
scheduler == <<accepted, life, sent>>
link == <<quiet, connected>>
history == <<request, result, told, frames, kiss_air>>
vars == <<rings, loop, scheduler, link, history>>

Scheduler == INSTANCE TxLifecycle

Messages == 1 .. MaxMsgs
Live == Scheduler!Live
Results == {"acked", "timeout"}

(* aprs_task has published its context and enters its loop.                *)
Init ==
  /\ ring = <<>> /\ pushed = 0
  /\ kiss_ring = <<>> /\ kissed = 0
  /\ apc = "sleep" /\ todo = 0 /\ turn = {} /\ current = 0
  /\ Scheduler!Init
  /\ quiet = TRUE /\ connected = FALSE
  /\ request = <<>>
  /\ result = [s \in Messages |-> "none"]
  /\ told = [s \in Messages |-> "none"]
  /\ frames = 0 /\ kiss_air = <<>>

--------------------------------------------------------------------------------
(* The BLE host task. A handler that finds its ring full drops the request *)
(* (and its client is not told so, see BleWrite).                          *)
\* Mutant: the ring counts as full one entry too late.
PushTxRequest_Late ==
  /\ connected /\ pushed < MaxMsgs
  /\ pushed' = pushed + 1
  /\ ring' = IF Len(ring) <= RingDepth THEN Append(ring, pushed') ELSE ring
  /\ UNCHANGED <<kiss_ring, kissed, loop, scheduler, link, history>>

PushTxRequest ==
  /\ connected /\ pushed < MaxMsgs
  /\ pushed' = pushed + 1
  /\ ring' = IF Len(ring) < RingDepth THEN Append(ring, pushed') ELSE ring
  /\ UNCHANGED <<kiss_ring, kissed, loop, scheduler, link, history>>

PushKiss ==
  /\ connected /\ kissed < MaxKiss
  /\ kissed' = kissed + 1
  /\ kiss_ring' = IF Len(kiss_ring) < KissDepth THEN Append(kiss_ring, kissed') ELSE kiss_ring
  /\ UNCHANGED <<ring, pushed, loop, scheduler, link, history>>

Connection ==
  /\ connected' = ~connected
  /\ UNCHANGED <<rings, loop, scheduler, quiet, history>>

(* send_notify_() for the TX Result characteristic: dropped without a      *)
(* connection, if NimBLE fails, or if the last one was within the notify   *)
(* interval; unless quiet, that depends on how fast the loop is.           *)
Notify(s, e) ==
  \/ /\ connected
     /\ told' = [told EXCEPT ![s] = e] /\ quiet' = FALSE
  \/ /\ ~connected \/ ~quiet \/ NimbleFails
     /\ UNCHANGED <<told, quiet>>

--------------------------------------------------------------------------------
(* One pass of the loop: AprsTaskContext::tick() drains the requests that  *)
(* the ring's head showed, lets the scheduler visit its messages, drains   *)
(* the KISS ring likewise; then the received frames are looked through for *)
(* acks; then it sleeps for a second.                                      *)
LoopStart ==
  /\ apc = "sleep"
  /\ apc' = "drain" /\ todo' = Len(ring)
  /\ quiet' = TRUE
  /\ frames' = 0
  /\ UNCHANGED <<rings, turn, current, scheduler, connected, request, result, told, kiss_air>>

\* A request that finds the scheduler full is dropped silently.
Enqueue(r) ==
  IF Cardinality(Live) < Capacity
  THEN Scheduler!Accept /\ request' = Append(request, r)
  ELSE UNCHANGED <<scheduler, request>>

\* Mutant: a request that does not fit is left for the next pass, and so is
\* the one that takes the last place.
Drain_Keep ==
  /\ apc = "drain" /\ todo > 0
  /\ todo' = todo - 1
  /\ Enqueue(Head(ring))
  /\ ring' = IF Cardinality(Live') < Capacity THEN Tail(ring) ELSE ring
  /\ UNCHANGED <<pushed, kiss_ring, kissed, apc, turn, current, link,
                 result, told, frames, kiss_air>>

\* Mutant: a request that does not fit waits for room.
Drain_Wait ==
  /\ apc = "drain" /\ todo > 0
  /\ Cardinality(Live) < Capacity
  /\ todo' = todo - 1
  /\ ring' = Tail(ring)
  /\ Enqueue(Head(ring))
  /\ UNCHANGED <<pushed, kiss_ring, kissed, apc, turn, current, link,
                 result, told, frames, kiss_air>>

Drain ==
  /\ apc = "drain" /\ todo > 0
  /\ todo' = todo - 1
  /\ ring' = Tail(ring)
  /\ Enqueue(Head(ring))
  /\ UNCHANGED <<pushed, kiss_ring, kissed, apc, turn, current, link,
                 result, told, frames, kiss_air>>

\* Mutant: tick() looks at every message, whatever its state.
TickStart_All ==
  /\ apc = "drain" /\ todo = 0
  /\ apc' = "tick" /\ turn' = 1 .. accepted
  /\ UNCHANGED <<rings, todo, current, scheduler, link, history>>

TickStart ==
  /\ apc = "drain" /\ todo = 0
  /\ apc' = "tick" /\ turn' = Live
  /\ UNCHANGED <<rings, todo, current, scheduler, link, history>>

\* Not due: sent before, and less than kRetryIntervalMs ago (see TxScheduler).
TickSkip(s) ==
  /\ apc = "tick" /\ s \in turn /\ sent[s] > 0
  /\ turn' = turn \ {s}
  /\ UNCHANGED <<rings, apc, todo, current, scheduler, link, history>>

\* Due: the client is told of the attempt before it is made.
TickAttempt(s) ==
  /\ apc = "tick" /\ s \in turn
  /\ apc' = "transmit" /\ turn' = turn \ {s} /\ current' = s
  /\ Notify(s, "tx")
  /\ UNCHANGED <<rings, todo, scheduler, connected, request, result, frames, kiss_air>>

(* The radio takes or refuses the frame. A frame that was sent is counted, *)
(* it took longer than the notify interval, and the last one is reported.  *)
Transmitted(s) ==
  /\ Scheduler!Transmit(s)
  /\ IF Scheduler!IsLast(s)
     THEN /\ result' = [result EXCEPT ![s] = "timeout"]
          /\ IF connected
             THEN \/ told' = [told EXCEPT ![s] = "timeout"] /\ quiet' = FALSE
                  \/ NimbleFails /\ UNCHANGED told /\ quiet' = TRUE
             ELSE quiet' = TRUE /\ UNCHANGED told
     ELSE quiet' = TRUE /\ UNCHANGED <<result, told>>

\* Mutant: a message the radio refused is due again at once.
TickTransmit_Again(ok) ==
  /\ apc = "transmit"
  /\ apc' = "tick" /\ current' = 0
  /\ frames' = frames + 1
  /\ IF ok THEN Transmitted(current) /\ UNCHANGED turn
     ELSE turn' = turn \cup {current} /\ UNCHANGED <<scheduler, quiet, result, told>>
  /\ UNCHANGED <<rings, todo, connected, request, kiss_air>>

TickTransmit(ok) ==
  /\ apc = "transmit"
  /\ apc' = "tick" /\ current' = 0
  /\ frames' = frames + 1
  /\ IF ok THEN Transmitted(current) ELSE UNCHANGED <<scheduler, quiet, result, told>>
  /\ UNCHANGED <<rings, todo, turn, connected, request, kiss_air>>

KissStart ==
  /\ apc = "tick" /\ turn = {}
  /\ apc' = "kiss" /\ todo' = Len(kiss_ring)
  /\ UNCHANGED <<rings, turn, current, scheduler, link, history>>

(* The radio is given the frame; whether it takes it does not matter. The  *)
(* entry stays in the ring until the call returns.                         *)
KissSend ==
  /\ apc = "kiss" /\ todo > 0
  /\ apc' = "kiss_send"
  /\ kiss_air' = Append(kiss_air, Head(kiss_ring))
  /\ frames' = frames + 1
  /\ UNCHANGED <<rings, todo, turn, current, scheduler, link, request, result, told>>

\* Mutant: the entry stays in the ring.
KissRelease_NoTail ==
  /\ apc = "kiss_send"
  /\ apc' = "kiss"
  /\ todo' = todo - 1
  /\ UNCHANGED <<ring, pushed, kiss_ring, kissed, turn, current, scheduler, link, history>>

KissRelease ==
  /\ apc = "kiss_send"
  /\ apc' = "kiss"
  /\ kiss_ring' = Tail(kiss_ring) /\ todo' = todo - 1
  /\ UNCHANGED <<ring, pushed, kissed, turn, current, scheduler, link, history>>

RxStart ==
  /\ apc = "kiss" /\ todo = 0
  /\ apc' = "rx"
  /\ UNCHANGED <<rings, todo, turn, current, scheduler, link, history>>

\* A received frame is an ack, and the scheduler has a live message for it.
RxAck(s) ==
  /\ apc = "rx"
  /\ Scheduler!Settle(s)
  /\ result' = [result EXCEPT ![s] = "acked"]
  /\ Notify(s, "acked")
  /\ UNCHANGED <<rings, loop, connected, request, frames, kiss_air>>

Sleep ==
  /\ apc = "rx"
  /\ apc' = "sleep"
  /\ UNCHANGED <<rings, todo, turn, current, scheduler, link, history>>

Handlers == PushTxRequest \/ PushKiss

Loop ==
  \/ LoopStart \/ Drain \/ TickStart \/ KissStart \/ KissSend \/ KissRelease \/ RxStart \/ Sleep
  \/ \E s \in Messages : TickSkip(s) \/ TickAttempt(s) \/ RxAck(s)
  \/ \E ok \in BOOLEAN : TickTransmit(ok)

Next == Handlers \/ Connection \/ Loop

Spec == Init /\ [][Next]_vars

(* The loop runs. Nothing else need ever happen: no ack, no connection, no *)
(* frame the radio takes.                                                  *)
FairSpec == Spec /\ WF_vars(Loop)

--------------------------------------------------------------------------------
TypeOK ==
  /\ ring \in Seq(Messages) /\ Len(ring) <= RingDepth
  /\ pushed \in 0 .. MaxMsgs
  /\ kiss_ring \in Seq(1 .. MaxKiss) /\ Len(kiss_ring) <= KissDepth
  /\ kissed \in 0 .. MaxKiss
  /\ apc \in {"sleep", "drain", "tick", "transmit", "kiss", "kiss_send", "rx"}
  /\ todo \in Nat /\ turn \subseteq Messages /\ current \in {0} \cup Messages
  /\ accepted \in 0 .. MaxMsgs
  /\ life \in [Messages -> {"none", "live", "done"}]
  /\ sent \in [Messages -> 0 .. MaxRetries]
  /\ quiet \in BOOLEAN /\ connected \in BOOLEAN
  /\ request \in Seq(Messages)
  /\ result \in [Messages -> {"none"} \cup Results]
  /\ told \in [Messages -> {"none", "tx"} \cup Results]
  /\ frames \in Nat /\ kiss_air \in Seq(1 .. MaxKiss)

(* One pass of the loop gives the radio at most one frame per entry of the *)
(* scheduler and of the KISS ring, however fast the handlers push: what    *)
(* PttSafety assumes of MaxFrames, and what keeps a pass finite.           *)
FramesPerPass == frames <= Capacity + KissDepth

Increasing(q) == \A i, j \in 1 .. Len(q) : i < j => q[i] < q[j]

(* Requests reach the scheduler in the order the client wrote them, each   *)
(* at most once: nothing overtakes, and nothing is duplicated or comes     *)
(* back after it was dropped.                                              *)
RequestsInOrder == Increasing(request \o ring)

(* A KISS frame is a raw pipe without retry: every frame the ring accepted *)
(* is given to the radio at most once, in order.                           *)
KissInOrder ==
  Increasing(kiss_air \o (IF apc = "kiss_send" THEN Tail(kiss_ring) ELSE kiss_ring))

(* A message's result is the last the client hears of it: once it is       *)
(* settled it is neither settled again nor announced as transmitted.       *)
ResultIsLast ==
  [][\A s \in Messages :
       result[s] # "none" => result'[s] = result[s] /\ told'[s] = told[s]]_vars

(* Every pass of the loop ends, and whatever the handlers pushed leaves    *)
(* the rings once they stop pushing (MaxMsgs, MaxKiss), even if the radio  *)
(* refuses everything. (That a message then leaves the scheduler is        *)
(* AllSettled of TxScheduler.)                                             *)
AllDrained ==
  /\ []<>(apc = "sleep")
  /\ <>[](ring = <<>> /\ kiss_ring = <<>>)

--------------------------------------------------------------------------------
(* What the documentation says, refuted by the code.                       *)

(* 13_quickstart_guide.md: the device sends a tx_result notification "for  *)
(* each transmission attempt and a final terminal result". Two acks in one *)
(* pass settle two messages within the notify interval: the second result  *)
(* is dropped, and nothing sends it again.                                 *)
EveryResultTold ==
  [][\A s \in Messages :
       connected /\ sent[s] > 0 /\ result'[s] # result[s] => told'[s] = result'[s]]_vars
================================================================================
