----------------------------- MODULE AprsTaskProofs ----------------------------
(***************************************************************************)
(* aprs_task, its loop and what it sends and hears.                        *)
(*                                                                         *)
(* AprsTask, for every depth of the rings, size of the scheduler and       *)
(* number of requests: a pass is bounded, requests and KISS frames keep    *)
(* their order, and a result is the last a client hears of a message.      *)
(*                                                                         *)
(* Station, for every callsign, message and size: a frame carries what was *)
(* asked for, and an acknowledgment is taken exactly when it is one to     *)
(* this station.                                                           *)
(***************************************************************************)
EXTENDS AprsTask, Station, SequenceTheorems, FiniteSetTheorems, TLAPS

(* What has left a ring and what waits in it, of the values up to n.       *)
Ordered(gone, waiting, n) ==
  /\ Increasing(gone) /\ Increasing(waiting)
  /\ \A i \in 1 .. Len(gone) : gone[i] <= n
  /\ \A j \in 1 .. Len(waiting) : waiting[j] <= n
  /\ \A i \in 1 .. Len(gone), j \in 1 .. Len(waiting) : gone[i] < waiting[j]

KissWaiting == IF apc = "kiss_send" THEN Tail(kiss_ring) ELSE kiss_ring

(* The loop drains no more than the ring holds.                            *)
TodoWaits ==
  /\ apc = "drain" => todo <= Len(ring)
  /\ apc = "kiss" => todo <= Len(kiss_ring)
  /\ apc = "kiss_send" => todo >= 1 /\ todo <= Len(kiss_ring)

(* What a pass may still send, with what it has sent, stays within bounds. *)
FramesLeft ==
  /\ apc = "drain" => frames = 0
  /\ apc = "tick" => frames + Cardinality(turn) <= Capacity
  /\ apc = "transmit" => frames + Cardinality(turn) < Capacity
  /\ apc = "kiss" => frames + todo <= Capacity + KissDepth
  /\ apc = "kiss_send" => frames + todo <= Capacity + KissDepth + 1
  /\ apc \in {"rx", "sleep"} => frames <= Capacity + KissDepth

(* The scheduler is within its capacity, and what tick() visits is live.   *)
LiveInv ==
  /\ Cardinality(Live) <= Capacity
  /\ \A s \in Messages : life[s] = "none" => result[s] = "none"
  /\ \A s \in Messages : life[s] = "live" => result[s] = "none"
  /\ \A s \in Messages : s > accepted => life[s] = "none"
  /\ apc \in {"tick", "transmit"} => turn \subseteq Live
  /\ apc = "transmit" => current \in Live \ turn

AprsInv == TypeOK /\ TodoWaits /\ FramesLeft /\ LiveInv

RingsOrdered ==
  /\ Ordered(request, ring, pushed)
  /\ Ordered(kiss_air, KissWaiting, kissed)

--------------------------------------------------------------------------------
(* A value larger than all before it may join the queue.                   *)
LEMMA OrderedPush ==
  ASSUME NEW gone \in Seq(Nat), NEW waiting \in Seq(Nat), NEW n \in Nat,
         Ordered(gone, waiting, n)
  PROVE  /\ Ordered(gone, Append(waiting, n + 1), n + 1)
         /\ Ordered(gone, waiting, n + 1)
<1> DEFINE w == Append(waiting, n + 1)
<1>1. /\ Len(w) = Len(waiting) + 1 /\ Len(waiting) \in Nat /\ Len(gone) \in Nat
      /\ \A j \in 1 .. Len(waiting) : w[j] = waiting[j]
      /\ w[Len(waiting) + 1] = n + 1
  BY AppendProperties, LenProperties
<1>2. /\ \A i \in 1 .. Len(gone) : gone[i] \in Nat
      /\ \A j \in 1 .. Len(waiting) : waiting[j] \in Nat
  BY ElementOfSeq
<1> HIDE DEF w
<1>3. \A j \in 1 .. Len(w) : j \in 1 .. Len(waiting) \/ j = Len(waiting) + 1
  BY <1>1
<1>4. Increasing(w)
  <2> SUFFICES ASSUME NEW i \in 1 .. Len(w), NEW j \in 1 .. Len(w), i < j
               PROVE  w[i] < w[j]
    BY DEF Increasing
  <2>1. i \in 1 .. Len(waiting) /\ w[i] = waiting[i] /\ waiting[i] <= n
    BY <1>1, <1>3 DEF Ordered
  <2>2. CASE j \in 1 .. Len(waiting)
    BY <1>1, <2>1, <2>2 DEF Ordered, Increasing
  <2>3. CASE j = Len(waiting) + 1
    BY <1>1, <1>2, <2>1, <2>3
  <2> QED BY <1>3, <2>2, <2>3
<1>5. ASSUME NEW j \in 1 .. Len(w)
      PROVE  w[j] <= n + 1 /\ \A i \in 1 .. Len(gone) : gone[i] < w[j]
  <2>1. CASE j \in 1 .. Len(waiting)
    <3>1. w[j] = waiting[j] /\ waiting[j] <= n /\ waiting[j] \in Nat
      BY <1>1, <1>2, <2>1 DEF Ordered
    <3> QED BY <2>1, <3>1 DEF Ordered
  <2>2. CASE j = Len(waiting) + 1
    <3>1. \A i \in 1 .. Len(gone) : gone[i] <= n /\ gone[i] \in Nat
      BY <1>2 DEF Ordered
    <3> QED BY <1>1, <2>2, <3>1
  <2> QED BY <1>3, <2>1, <2>2
<1>6. /\ \A i \in 1 .. Len(gone) : gone[i] <= n + 1
      /\ \A j \in 1 .. Len(waiting) : waiting[j] <= n + 1
  BY <1>2 DEF Ordered
<1> QED BY <1>4, <1>5, <1>6 DEF Ordered, w

(* The front of the queue may leave it, or be dropped.                     *)
LEMMA OrderedTake ==
  ASSUME NEW gone \in Seq(Nat), NEW waiting \in Seq(Nat), NEW n \in Nat,
         Ordered(gone, waiting, n), waiting # <<>>
  PROVE  /\ Ordered(Append(gone, Head(waiting)), Tail(waiting), n)
         /\ Ordered(gone, Tail(waiting), n)
<1> DEFINE g == Append(gone, Head(waiting))
           w == Tail(waiting)
<1>1. /\ Len(gone) \in Nat /\ Len(waiting) \in Nat \ {0}
      /\ Head(waiting) \in Nat /\ Head(waiting) = waiting[1]
      /\ Len(w) = Len(waiting) - 1
      /\ \A i \in 1 .. Len(w) : w[i] = waiting[i + 1]
  BY LenProperties, EmptySeq, HeadTailProperties
<1>2. /\ Len(g) = Len(gone) + 1
      /\ \A i \in 1 .. Len(gone) : g[i] = gone[i]
      /\ g[Len(gone) + 1] = waiting[1]
  BY <1>1, AppendProperties
<1>3. /\ \A i \in 1 .. Len(gone) : gone[i] \in Nat
      /\ \A j \in 1 .. Len(waiting) : waiting[j] \in Nat
  BY ElementOfSeq
<1> HIDE DEF g, w
<1>4. /\ \A i \in 1 .. Len(g) : i \in 1 .. Len(gone) \/ i = Len(gone) + 1
      /\ 1 \in 1 .. Len(waiting)
      /\ \A j \in 1 .. Len(w) : j + 1 \in 1 .. Len(waiting) /\ 1 < j + 1
  BY <1>1, <1>2
<1>5. Increasing(w) /\ \A j \in 1 .. Len(w) : w[j] <= n /\ waiting[1] < w[j]
  <2>1. Increasing(waiting) /\ \A j \in 1 .. Len(waiting) : waiting[j] <= n
    BY DEF Ordered
  <2>2. ASSUME NEW j \in 1 .. Len(w) PROVE w[j] <= n /\ waiting[1] < w[j]
    <3>1. j + 1 \in 1 .. Len(waiting) /\ 1 \in 1 .. Len(waiting) /\ 1 < j + 1
      BY <1>4
    <3>2. waiting[1] < waiting[j + 1]
      BY <2>1, <3>1 DEF Increasing
    <3> QED BY <1>1, <2>1, <3>1, <3>2
  <2>3. ASSUME NEW i \in 1 .. Len(w), NEW j \in 1 .. Len(w), i < j PROVE w[i] < w[j]
    <3>1. i + 1 \in 1 .. Len(waiting) /\ j + 1 \in 1 .. Len(waiting) /\ i + 1 < j + 1
      BY <1>1, <1>4, <2>3
    <3> QED BY <1>1, <2>1, <3>1 DEF Increasing
  <2> QED BY <2>2, <2>3 DEF Increasing
<1>6. Increasing(g)
  <2> SUFFICES ASSUME NEW i \in 1 .. Len(g), NEW j \in 1 .. Len(g), i < j
               PROVE  g[i] < g[j]
    BY DEF Increasing
  <2>1. i \in 1 .. Len(gone) /\ g[i] = gone[i]
    BY <1>1, <1>2, <1>4
  <2>2. CASE j \in 1 .. Len(gone)
    BY <1>2, <2>1, <2>2 DEF Ordered, Increasing
  <2>3. CASE j = Len(gone) + 1
    BY <1>2, <1>4, <2>1, <2>3 DEF Ordered
  <2> QED BY <1>4, <2>2, <2>3
<1>7. /\ \A i \in 1 .. Len(g) : g[i] <= n
      /\ \A i \in 1 .. Len(g), j \in 1 .. Len(w) : g[i] < w[j]
      /\ \A i \in 1 .. Len(gone), j \in 1 .. Len(w) : gone[i] < w[j]
  BY <1>1, <1>2, <1>4, <1>5 DEF Ordered
<1> QED BY <1>5, <1>6, <1>7 DEF Ordered, g, w

(* In order, gone and waiting are one increasing sequence.                 *)
LEMMA OrderedIncreasing ==
  ASSUME NEW gone \in Seq(Nat), NEW waiting \in Seq(Nat), NEW n,
         Ordered(gone, waiting, n)
  PROVE  Increasing(gone \o waiting)
<1> DEFINE q == gone \o waiting
<1>1. /\ Len(q) = Len(gone) + Len(waiting)
      /\ \A i \in 1 .. Len(gone) + Len(waiting) :
           q[i] = IF i <= Len(gone) THEN gone[i] ELSE waiting[i - Len(gone)]
      /\ Len(gone) \in Nat /\ Len(waiting) \in Nat
  BY ConcatProperties, LenProperties
<1> HIDE DEF q
<1> SUFFICES ASSUME NEW i \in 1 .. Len(q), NEW j \in 1 .. Len(q), i < j
             PROVE  q[i] < q[j]
  BY DEF Increasing, q
<1>2. CASE j <= Len(gone)
  <2>1. i \in 1 .. Len(gone) /\ j \in 1 .. Len(gone) /\ q[i] = gone[i] /\ q[j] = gone[j]
    BY <1>1, <1>2
  <2> QED BY <2>1 DEF Ordered, Increasing
<1>3. CASE i <= Len(gone) /\ ~(j <= Len(gone))
  <2>1. /\ i \in 1 .. Len(gone) /\ j - Len(gone) \in 1 .. Len(waiting)
        /\ q[i] = gone[i] /\ q[j] = waiting[j - Len(gone)]
    BY <1>1, <1>3
  <2> QED BY <2>1 DEF Ordered
<1>4. CASE ~(i <= Len(gone))
  <2>1. /\ i - Len(gone) \in 1 .. Len(waiting) /\ j - Len(gone) \in 1 .. Len(waiting)
        /\ i - Len(gone) < j - Len(gone) /\ ~(j <= Len(gone))
    BY <1>1, <1>4
  <2>2. q[i] = waiting[i - Len(gone)] /\ q[j] = waiting[j - Len(gone)]
    BY <1>1, <1>4, <2>1
  <2> QED BY <2>1, <2>2 DEF Ordered, Increasing
<1> QED BY <1>1, <1>2, <1>3, <1>4

--------------------------------------------------------------------------------
(* The instance's set of live messages, now and in the next state.         *)
LEMMA SchedulerNext == Live' = {s \in Messages : life'[s] = "live"}
BY DEF Live, Messages, Scheduler!Live, Scheduler!Messages

(* A set of messages is finite, and loses one with every element taken.    *)
LEMMA MessagesFinite ==
  /\ \A S \in SUBSET Messages : IsFiniteSet(S) /\ Cardinality(S) \in Nat
  /\ \A S \in SUBSET Messages : \A s \in S :
       S \ {s} \in SUBSET Messages /\ Cardinality(S \ {s}) = Cardinality(S) - 1
  /\ \A S \in SUBSET Messages : \A s \in Messages \ S :
       S \cup {s} \in SUBSET Messages /\ Cardinality(S \cup {s}) = Cardinality(S) + 1
<1>1. IsFiniteSet(Messages)
  BY TaskAssumption, FS_Interval DEF Messages
<1>2. \A S \in SUBSET Messages : IsFiniteSet(S) /\ Cardinality(S) \in Nat
  BY <1>1, FS_Subset, FS_CardinalityType
<1> QED BY <1>2, FS_RemoveElement, FS_AddElement

(* What the scheduler's operations do, in this module's terms.             *)
LEMMA SchedulerSteps ==
  /\ Live = {s \in Messages : life[s] = "live"}
  /\ Scheduler!Accept <=>
       /\ accepted < MaxMsgs /\ Cardinality(Live) < Capacity
       /\ accepted' = accepted + 1
       /\ life' = [life EXCEPT ![accepted + 1] = "live"]
       /\ sent' = sent
  /\ \A s : Scheduler!Settle(s) <=>
       /\ s \in Live
       /\ life' = [life EXCEPT ![s] = "done"]
       /\ sent' = [sent EXCEPT ![s] = 0]
       /\ accepted' = accepted
  /\ \A s : Scheduler!Transmit(s) <=>
       /\ s \in Live
       /\ IF sent[s] + 1 >= MaxRetries
          THEN Scheduler!Settle(s)
          ELSE /\ sent' = [sent EXCEPT ![s] = sent[s] + 1]
               /\ accepted' = accepted /\ life' = life
  /\ \A s : Scheduler!IsLast(s) <=> sent[s] + 1 >= MaxRetries
<1>1. Scheduler!Cardinality(Scheduler!Live) = Cardinality(Live)
  BY DEF Scheduler!Cardinality, Cardinality, Live
<1> QED BY <1>1 DEF Live, Messages, Scheduler!Live, Scheduler!Messages, Scheduler!Accept,
                    Scheduler!Settle, Scheduler!Transmit, Scheduler!IsLast

--------------------------------------------------------------------------------
(* The invariant holds initially.                                          *)
LEMMA AprsInit == Init => AprsInv
<1> SUFFICES ASSUME Init PROVE AprsInv
  OBVIOUS
<1>1. /\ accepted = 0 /\ life = [s \in Messages |-> "none"]
      /\ sent = [s \in Messages |-> 0]
  BY DEF Init, Scheduler!Init, Messages, Scheduler!Messages
<1>2. <<>> \in Seq(Messages) /\ <<>> \in Seq(1 .. MaxKiss) /\ Len(<<>>) = 0
  BY EmptySeq
<1>3. TypeOK
  <2>1. /\ ring \in Seq(Messages) /\ Len(ring) <= RingDepth /\ pushed \in 0 .. MaxMsgs
        /\ kiss_ring \in Seq(1 .. MaxKiss) /\ Len(kiss_ring) <= KissDepth
        /\ kissed \in 0 .. MaxKiss
        /\ request \in Seq(Messages) /\ kiss_air \in Seq(1 .. MaxKiss)
    BY <1>2, TaskAssumption DEF Init
  <2>2. quiet \in BOOLEAN /\ connected \in BOOLEAN
    BY DEF Init
  <2>3. /\ apc = "sleep" /\ todo = 0 /\ turn = {} /\ current = 0 /\ frames = 0
        /\ result = [s \in Messages |-> "none"] /\ told = [s \in Messages |-> "none"]
    BY DEF Init
  <2>4. /\ life \in [Messages -> {"none", "live", "done"}]
        /\ sent \in [Messages -> 0 .. MaxRetries] /\ accepted \in 0 .. MaxMsgs
    BY <1>1, TaskAssumption
  <2>5. /\ result \in [Messages -> {"none"} \cup Results]
        /\ told \in [Messages -> {"none", "tx"} \cup Results]
    BY <2>3
  <2> QED BY <2>1, <2>2, <2>3, <2>4, <2>5 DEF TypeOK
<1>4. TodoWaits /\ FramesLeft
  BY TaskAssumption DEF Init, TodoWaits, FramesLeft
<1>5. LiveInv
  <2>1. Live = {}
    BY <1>1, SchedulerSteps
  <2>2. Cardinality(Live) <= Capacity
    BY <2>1, FS_EmptySet, TaskAssumption
  <2> QED BY <1>1, <2>2 DEF Init, LiveInv, Messages
<1> QED BY <1>3, <1>4, <1>5 DEF AprsInv

(* Steps that leave the scheduler's messages alone keep LiveInv.           *)
LEMMA SameLife ==
  ASSUME LiveInv, UNCHANGED <<accepted, life, result>>, turn' \subseteq turn,
         apc' \in {"tick", "transmit"} => apc \in {"tick", "transmit"},
         apc' = "transmit" => current' \in Live \ turn'
  PROVE  LiveInv'
<1>1. Live' = Live
  BY SchedulerSteps, SchedulerNext
<1> QED BY <1>1 DEF LiveInv

(* Settling a message with a result keeps LiveInv.                         *)
LEMMA SettleKeeps ==
  ASSUME TypeOK, LiveInv, NEW s \in Messages, NEW r \in Results, Scheduler!Settle(s),
         result' = [result EXCEPT ![s] = r],
         apc' \in {"tick", "rx"}, turn' = turn,
         apc' = "tick" => turn \subseteq Live /\ s \notin turn
  PROVE  LiveInv' /\ Live' = Live \ {s}
<1>1. /\ s \in Live /\ accepted' = accepted
      /\ life' = [life EXCEPT ![s] = "done"]
  BY SchedulerSteps
<1>2. Live \in SUBSET Messages /\ Live = {t \in Messages : life[t] = "live"}
  BY SchedulerSteps
<1>3. Live' = Live \ {s}
  <2>1. Live' = {t \in Messages : life'[t] = "live"}
    BY SchedulerNext
  <2> QED BY <1>1, <1>2, <2>1 DEF TypeOK
<1>4. Cardinality(Live') <= Capacity
  BY <1>1, <1>2, <1>3, MessagesFinite, TaskAssumption DEF LiveInv
<1>5. \A t \in Messages :
        /\ life'[t] = IF t = s THEN "done" ELSE life[t]
        /\ result'[t] = IF t = s THEN r ELSE result[t]
  BY <1>1 DEF TypeOK
<1>6. \A t \in Messages : t > accepted' => life'[t] = "none"
  BY <1>1, <1>2, <1>5 DEF LiveInv
<1> QED BY <1>1, <1>3, <1>4, <1>5, <1>6 DEF LiveInv

(* enqueue() keeps LiveInv and the types; it accepts while there is room.  *)
LEMMA EnqueueKeeps ==
  ASSUME TypeOK, LiveInv, NEW r \in Messages, Enqueue(r),
         UNCHANGED <<result, turn>>, apc = "drain", apc' = "drain"
  PROVE  /\ LiveInv'
         /\ accepted' \in 0 .. MaxMsgs /\ life' \in [Messages -> {"none", "live", "done"}]
         /\ sent' = sent
         /\ request' \in Seq(Messages) /\ request' \in {request, Append(request, r)}
<1>1. CASE Cardinality(Live) < Capacity
  <2>1. /\ accepted < MaxMsgs /\ accepted' = accepted + 1 /\ sent' = sent
        /\ life' = [life EXCEPT ![accepted + 1] = "live"]
        /\ request' = Append(request, r)
    BY <1>1, SchedulerSteps DEF Enqueue
  <2>2. accepted + 1 \in Messages /\ accepted \in Nat /\ accepted' \in 0 .. MaxMsgs
    BY <2>1, TaskAssumption DEF TypeOK, Messages
  <2>3. life[accepted + 1] = "none"
    BY <2>2 DEF LiveInv
  <2>4. \A s \in Messages : life'[s] = IF s = accepted + 1 THEN "live" ELSE life[s]
    BY <2>1, <2>2 DEF TypeOK
  <2>5. Live \in SUBSET Messages /\ Live' = Live \cup {accepted + 1} /\ accepted + 1 \notin Live
    BY <2>2, <2>3, <2>4, SchedulerSteps, SchedulerNext
  <2>6. Cardinality(Live') <= Capacity
    BY <1>1, <2>2, <2>5, MessagesFinite, TaskAssumption
  <2>7. \A s \in Messages : s > accepted' => life'[s] = "none"
    <3> SUFFICES ASSUME NEW s \in Messages, s > accepted' PROVE life'[s] = "none"
      OBVIOUS
    <3>1. s > accepted /\ s # accepted + 1
      BY <2>1, <2>2 DEF Messages
    <3> QED BY <2>4, <3>1 DEF LiveInv
  <2>8. LiveInv'
    BY <2>2, <2>3, <2>4, <2>6, <2>7 DEF LiveInv
  <2>9. request' \in Seq(Messages)
    BY <2>1, AppendProperties DEF TypeOK
  <2> QED BY <2>1, <2>2, <2>8, <2>9 DEF TypeOK
<1>2. CASE ~(Cardinality(Live) < Capacity)
  <2>1. UNCHANGED <<accepted, life, sent, request>>
    BY <1>2 DEF Enqueue, scheduler
  <2>2. Live' = Live
    BY <2>1, SchedulerSteps, SchedulerNext
  <2> QED BY <2>1, <2>2 DEF TypeOK, LiveInv
<1> QED BY <1>1, <1>2

(* A notification changes only what the client has heard of its message.   *)
LEMMA NotifyType ==
  ASSUME TypeOK, NEW s \in Messages, NEW e \in {"tx"} \cup Results, Notify(s, e)
  PROVE  /\ told' \in [Messages -> {"none", "tx"} \cup Results] /\ quiet' \in BOOLEAN
         /\ \A t \in Messages : t # s => told'[t] = told[t]
<1>1. CASE connected /\ told' = [told EXCEPT ![s] = e] /\ quiet' = FALSE
  BY <1>1 DEF TypeOK
<1>2. CASE UNCHANGED <<told, quiet>>
  BY <1>2 DEF TypeOK
<1> QED BY <1>1, <1>2 DEF Notify

(* Every step keeps the invariant.                                         *)
LEMMA AprsNext == AprsInv /\ [Next]_vars => AprsInv'
<1> SUFFICES ASSUME AprsInv, [Next]_vars PROVE AprsInv'
  OBVIOUS
<1> USE DEF AprsInv
<1>len. /\ Len(ring) \in Nat /\ Len(kiss_ring) \in Nat
        /\ Capacity \in Nat \ {0} /\ KissDepth \in Nat \ {0} /\ RingDepth \in Nat \ {0}
        /\ todo \in Nat /\ frames \in Nat
  BY LenProperties, TaskAssumption DEF TypeOK
<1>card. /\ turn \in SUBSET Messages /\ Cardinality(turn) \in Nat
         /\ Live \in SUBSET Messages /\ Cardinality(Live) \in Nat
  BY MessagesFinite, SchedulerSteps DEF TypeOK
<1>1. CASE PushTxRequest
  <2>0. /\ UNCHANGED <<kiss_ring, kissed, loop, scheduler, link, history>>
        /\ pushed' = pushed + 1 /\ pushed' \in Messages
        /\ ring' = IF Len(ring) < RingDepth THEN Append(ring, pushed') ELSE ring
    BY <1>1, TaskAssumption DEF PushTxRequest, TypeOK, Messages
  <2>1. /\ ring' \in Seq(Messages) /\ Len(ring') <= RingDepth /\ Len(ring') >= Len(ring)
        /\ pushed' \in 0 .. MaxMsgs
    <3>1. CASE Len(ring) < RingDepth
      <4>1. Append(ring, pushed') \in Seq(Messages) /\ Len(Append(ring, pushed')) = Len(ring) + 1
        BY <2>0, AppendProperties DEF TypeOK
      <4> QED BY <1>len, <2>0, <3>1, <4>1, TaskAssumption DEF Messages
    <3>2. CASE ~(Len(ring) < RingDepth)
      BY <1>len, <2>0, <3>2, TaskAssumption DEF TypeOK, Messages
    <3> QED BY <3>1, <3>2
  <2>2. TypeOK'
    BY <2>0, <2>1 DEF TypeOK, loop, scheduler, link, history
  <2>3. TodoWaits' /\ FramesLeft'
    BY <1>len, <2>0, <2>1, LenProperties DEF TodoWaits, FramesLeft, loop, history
  <2>4. LiveInv'
    BY <2>0, SameLife DEF LiveInv, loop, scheduler, history
  <2> QED BY <2>2, <2>3, <2>4
<1>2. CASE PushKiss
  <2>0. /\ UNCHANGED <<ring, pushed, loop, scheduler, link, history>>
        /\ kissed' = kissed + 1 /\ kissed' \in 1 .. MaxKiss
        /\ kiss_ring' = IF Len(kiss_ring) < KissDepth THEN Append(kiss_ring, kissed') ELSE kiss_ring
    BY <1>2, TaskAssumption DEF PushKiss, TypeOK
  <2>1. /\ kiss_ring' \in Seq(1 .. MaxKiss) /\ Len(kiss_ring') <= KissDepth
        /\ Len(kiss_ring') >= Len(kiss_ring) /\ kissed' \in 0 .. MaxKiss
    <3>1. CASE Len(kiss_ring) < KissDepth
      <4>1. /\ Append(kiss_ring, kissed') \in Seq(1 .. MaxKiss)
            /\ Len(Append(kiss_ring, kissed')) = Len(kiss_ring) + 1
        BY <2>0, AppendProperties DEF TypeOK
      <4> QED BY <1>len, <2>0, <3>1, <4>1, TaskAssumption
    <3>2. CASE ~(Len(kiss_ring) < KissDepth)
      BY <1>len, <2>0, <3>2, TaskAssumption DEF TypeOK
    <3> QED BY <3>1, <3>2
  <2>2. TypeOK'
    BY <2>0, <2>1 DEF TypeOK, loop, scheduler, link, history
  <2>3. TodoWaits' /\ FramesLeft'
    BY <1>len, <2>0, <2>1, LenProperties DEF TodoWaits, FramesLeft, loop, history
  <2>4. LiveInv'
    BY <2>0, SameLife DEF LiveInv, loop, scheduler, history
  <2> QED BY <2>2, <2>3, <2>4
<1>3. CASE Connection
  <2>0. UNCHANGED <<rings, loop, scheduler, quiet, history>> /\ connected' \in BOOLEAN
    BY <1>3 DEF Connection
  <2>1. TypeOK'
    BY <2>0 DEF TypeOK, rings, loop, scheduler, history
  <2>2. TodoWaits' /\ FramesLeft'
    BY <2>0 DEF TodoWaits, FramesLeft, rings, loop, history
  <2>3. LiveInv'
    BY <2>0, SameLife DEF LiveInv, loop, scheduler, history
  <2> QED BY <2>1, <2>2, <2>3
<1>4. CASE LoopStart
  <2>0. /\ UNCHANGED <<rings, turn, current, scheduler, connected, request, result, told, kiss_air>>
        /\ apc' = "drain" /\ todo' = Len(ring) /\ quiet' = TRUE /\ frames' = 0
    BY <1>4 DEF LoopStart
  <2>1. TypeOK'
    BY <1>len, <2>0 DEF TypeOK, rings, scheduler
  <2>2. TodoWaits' /\ FramesLeft'
    BY <1>len, <2>0 DEF TodoWaits, FramesLeft, rings
  <2>3. LiveInv'
    BY <2>0, SameLife DEF scheduler
  <2> QED BY <2>1, <2>2, <2>3
<1>5. CASE Drain
  <2>0. /\ UNCHANGED <<pushed, kiss_ring, kissed, apc, turn, current, link,
                        result, told, frames, kiss_air>>
        /\ apc = "drain" /\ todo > 0 /\ todo' = todo - 1 /\ ring' = Tail(ring)
        /\ Enqueue(Head(ring))
    BY <1>5 DEF Drain
  <2>1. todo <= Len(ring) /\ ring # <<>>
    BY <1>len, <2>0, EmptySeq DEF TodoWaits
  <2>2. /\ Head(ring) \in Messages /\ ring' \in Seq(Messages)
        /\ Len(ring') = Len(ring) - 1
    BY <2>0, <2>1, HeadTailProperties DEF TypeOK
  <2>3. /\ LiveInv' /\ sent' = sent
        /\ accepted' \in 0 .. MaxMsgs /\ life' \in [Messages -> {"none", "live", "done"}]
        /\ request' \in Seq(Messages)
    BY <2>0, <2>2, EnqueueKeeps
  <2>4. TypeOK'
    BY <1>len, <2>0, <2>2, <2>3 DEF TypeOK, link
  <2>5. TodoWaits' /\ FramesLeft'
    BY <1>len, <2>0, <2>1, <2>2 DEF TodoWaits, FramesLeft
  <2> QED BY <2>3, <2>4, <2>5
<1>6. CASE TickStart
  <2>0. /\ UNCHANGED <<rings, todo, current, scheduler, link, history>>
        /\ apc = "drain" /\ apc' = "tick" /\ turn' = Live
    BY <1>6 DEF TickStart
  <2>1. TypeOK'
    BY <1>card, <2>0 DEF TypeOK, rings, scheduler, link, history
  <2>2. TodoWaits' /\ FramesLeft'
    BY <1>len, <1>card, <2>0 DEF TodoWaits, FramesLeft, LiveInv, rings, history
  <2>3. Live' = Live
    BY <2>0, SchedulerSteps, SchedulerNext DEF scheduler
  <2>4. LiveInv'
    BY <2>0, <2>3 DEF LiveInv, scheduler, history
  <2> QED BY <2>1, <2>2, <2>4
<1>7. ASSUME NEW s \in Messages, TickSkip(s) PROVE AprsInv'
  <2>0. /\ UNCHANGED <<rings, apc, todo, current, scheduler, link, history>>
        /\ apc = "tick" /\ s \in turn /\ turn' = turn \ {s}
    BY <1>7 DEF TickSkip
  <2>1. TypeOK'
    BY <2>0 DEF TypeOK, rings, scheduler, link, history
  <2>2. Cardinality(turn') = Cardinality(turn) - 1
    BY <1>card, <2>0, MessagesFinite
  <2>3. TodoWaits' /\ FramesLeft'
    BY <1>len, <1>card, <2>0, <2>2 DEF TodoWaits, FramesLeft, rings, history
  <2>4. LiveInv'
    BY <2>0, SameLife DEF scheduler, history
  <2> QED BY <2>1, <2>3, <2>4
<1>8. ASSUME NEW s \in Messages, TickAttempt(s) PROVE AprsInv'
  <2>0. /\ UNCHANGED <<rings, todo, scheduler, connected, request, result, frames, kiss_air>>
        /\ apc = "tick" /\ s \in turn /\ turn' = turn \ {s}
        /\ apc' = "transmit" /\ current' = s /\ Notify(s, "tx")
    BY <1>8 DEF TickAttempt
  <2>1. told' \in [Messages -> {"none", "tx"} \cup Results] /\ quiet' \in BOOLEAN
    BY <2>0, NotifyType
  <2>2. TypeOK'
    BY <2>0, <2>1 DEF TypeOK, rings, scheduler
  <2>3. Cardinality(turn') = Cardinality(turn) - 1
    BY <1>card, <2>0, MessagesFinite
  <2>4. TodoWaits' /\ FramesLeft'
    BY <1>len, <1>card, <2>0, <2>3 DEF TodoWaits, FramesLeft
  <2>5. LiveInv'
    <3>1. s \in Live \ turn'
      BY <2>0 DEF LiveInv
    <3> QED BY <2>0, <3>1, SameLife DEF scheduler
  <2> QED BY <2>2, <2>4, <2>5
<1>9. ASSUME NEW ok \in BOOLEAN, TickTransmit(ok) PROVE AprsInv'
  <2>0. /\ UNCHANGED <<rings, todo, turn, connected, request, kiss_air>>
        /\ apc = "transmit" /\ apc' = "tick" /\ current' = 0 /\ frames' = frames + 1
    BY <1>9 DEF TickTransmit
  <2>1. turn \subseteq Live /\ current \in Live /\ current \notin turn /\ current \in Messages
    BY <1>card, <2>0 DEF LiveInv
  <2>2. TodoWaits' /\ FramesLeft'
    BY <1>len, <1>card, <2>0 DEF TodoWaits, FramesLeft
  <2>3. CASE UNCHANGED <<scheduler, quiet, result, told>>
    <3>1. TypeOK'
      BY <1>len, <2>0, <2>3 DEF TypeOK, rings, scheduler
    <3>2. LiveInv'
      BY <2>0, <2>3, SameLife DEF scheduler
    <3> QED BY <2>2, <3>1, <3>2
  <2>4. CASE Transmitted(current) /\ Scheduler!IsLast(current)
    <3>1. /\ Scheduler!Settle(current) /\ result' = [result EXCEPT ![current] = "timeout"]
          /\ quiet' \in BOOLEAN
          /\ told' \in {told, [told EXCEPT ![current] = "timeout"]}
      BY <2>4, SchedulerSteps DEF Transmitted
    <3>2. LiveInv'
      BY <2>0, <2>1, <3>1, SettleKeeps DEF Results
    <3>3. /\ accepted' = accepted /\ life' = [life EXCEPT ![current] = "done"]
          /\ sent' = [sent EXCEPT ![current] = 0]
      BY <3>1, SchedulerSteps
    <3>4. /\ life' \in [Messages -> {"none", "live", "done"}]
          /\ sent' \in [Messages -> 0 .. MaxRetries]
          /\ result' \in [Messages -> {"none"} \cup Results]
      BY <2>1, <3>1, <3>3, TaskAssumption DEF TypeOK, Results
    <3>5. told' \in [Messages -> {"none", "tx"} \cup Results]
      <4>1. CASE told' = told
        BY <4>1 DEF TypeOK
      <4>2. CASE told' = [told EXCEPT ![current] = "timeout"]
        BY <4>2 DEF TypeOK, Results
      <4> QED BY <3>1, <4>1, <4>2
    <3>6. TypeOK'
      BY <1>len, <2>0, <3>1, <3>3, <3>4, <3>5 DEF TypeOK, rings
    <3> QED BY <2>2, <3>2, <3>6
  <2>5. CASE Transmitted(current) /\ ~Scheduler!IsLast(current)
    <3>1. /\ ~(sent[current] + 1 >= MaxRetries)
          /\ sent' = [sent EXCEPT ![current] = sent[current] + 1]
          /\ UNCHANGED <<accepted, life, result, told>> /\ quiet' \in BOOLEAN
      BY <2>5, SchedulerSteps DEF Transmitted
    <3>2. sent' \in [Messages -> 0 .. MaxRetries]
      BY <2>1, <3>1, TaskAssumption DEF TypeOK
    <3>3. TypeOK'
      BY <1>len, <2>0, <3>1, <3>2 DEF TypeOK, rings
    <3>4. LiveInv'
      BY <2>0, <3>1, SameLife
    <3> QED BY <2>2, <3>3, <3>4
  <2> QED BY <1>9, <2>3, <2>4, <2>5 DEF TickTransmit
<1>10. CASE KissStart
  <2>0. /\ UNCHANGED <<rings, turn, current, scheduler, link, history>>
        /\ apc = "tick" /\ turn = {} /\ apc' = "kiss" /\ todo' = Len(kiss_ring)
    BY <1>10 DEF KissStart
  <2>1. TypeOK'
    BY <1>len, <2>0 DEF TypeOK, rings, scheduler, link, history
  <2>2. Len(kiss_ring) <= KissDepth /\ frames <= Capacity
    BY <1>len, <2>0, FS_EmptySet DEF TypeOK, FramesLeft
  <2>3. TodoWaits' /\ FramesLeft'
    BY <1>len, <2>0, <2>2 DEF TodoWaits, FramesLeft, rings, history
  <2>4. LiveInv'
    BY <2>0, SameLife DEF scheduler, history
  <2> QED BY <2>1, <2>3, <2>4
<1>11. CASE KissSend
  <2>0. /\ UNCHANGED <<rings, todo, turn, current, scheduler, link, request, result, told>>
        /\ apc = "kiss" /\ todo > 0 /\ apc' = "kiss_send" /\ frames' = frames + 1
        /\ kiss_air' = Append(kiss_air, Head(kiss_ring))
    BY <1>11 DEF KissSend
  <2>1. kiss_ring # <<>>
    BY <1>len, <2>0, EmptySeq DEF TodoWaits
  <2>2. kiss_air' \in Seq(1 .. MaxKiss)
    BY <2>0, <2>1, HeadTailProperties, AppendProperties DEF TypeOK
  <2>3. TypeOK'
    BY <1>len, <2>0, <2>2 DEF TypeOK, rings, scheduler, link
  <2>4. TodoWaits' /\ FramesLeft'
    BY <1>len, <2>0 DEF TodoWaits, FramesLeft, rings
  <2>5. LiveInv'
    BY <2>0, SameLife DEF scheduler
  <2> QED BY <2>3, <2>4, <2>5
<1>12. CASE KissRelease
  <2>0. /\ UNCHANGED <<ring, pushed, kissed, turn, current, scheduler, link, history>>
        /\ apc = "kiss_send" /\ apc' = "kiss"
        /\ kiss_ring' = Tail(kiss_ring) /\ todo' = todo - 1
    BY <1>12 DEF KissRelease
  <2>1. kiss_ring # <<>> /\ todo >= 1
    BY <1>len, <2>0, EmptySeq DEF TodoWaits
  <2>2. kiss_ring' \in Seq(1 .. MaxKiss) /\ Len(kiss_ring') = Len(kiss_ring) - 1
    BY <2>0, <2>1, HeadTailProperties DEF TypeOK
  <2>3. TypeOK'
    BY <1>len, <2>0, <2>1, <2>2 DEF TypeOK, scheduler, link, history
  <2>4. TodoWaits' /\ FramesLeft'
    BY <1>len, <2>0, <2>1, <2>2 DEF TodoWaits, FramesLeft, history
  <2>5. LiveInv'
    BY <2>0, SameLife DEF scheduler, history
  <2> QED BY <2>3, <2>4, <2>5
<1>13. CASE RxStart
  <2>0. /\ UNCHANGED <<rings, todo, turn, current, scheduler, link, history>>
        /\ apc = "kiss" /\ todo = 0 /\ apc' = "rx"
    BY <1>13 DEF RxStart
  <2>1. TypeOK'
    BY <2>0 DEF TypeOK, rings, scheduler, link, history
  <2>2. TodoWaits' /\ FramesLeft'
    BY <1>len, <2>0 DEF TodoWaits, FramesLeft, rings, history
  <2>3. LiveInv'
    BY <2>0, SameLife DEF scheduler, history
  <2> QED BY <2>1, <2>2, <2>3
<1>14. ASSUME NEW s \in Messages, RxAck(s) PROVE AprsInv'
  <2>0. /\ UNCHANGED <<rings, loop, connected, request, frames, kiss_air>>
        /\ apc = "rx" /\ Scheduler!Settle(s)
        /\ result' = [result EXCEPT ![s] = "acked"] /\ Notify(s, "acked")
    BY <1>14 DEF RxAck
  <2>1. told' \in [Messages -> {"none", "tx"} \cup Results] /\ quiet' \in BOOLEAN
    BY <2>0, NotifyType DEF Results
  <2>2. /\ accepted' = accepted /\ life' = [life EXCEPT ![s] = "done"]
        /\ sent' = [sent EXCEPT ![s] = 0]
    BY <2>0, SchedulerSteps
  <2>3. /\ life' \in [Messages -> {"none", "live", "done"}]
        /\ sent' \in [Messages -> 0 .. MaxRetries]
        /\ result' \in [Messages -> {"none"} \cup Results]
    BY <2>0, <2>2, TaskAssumption DEF TypeOK, Results
  <2>4. TypeOK'
    BY <2>0, <2>1, <2>2, <2>3 DEF TypeOK, rings, loop
  <2>5. TodoWaits' /\ FramesLeft'
    BY <2>0 DEF TodoWaits, FramesLeft, rings, loop
  <2>6. LiveInv'
    BY <2>0, SettleKeeps DEF loop, Results
  <2> QED BY <2>4, <2>5, <2>6
<1>15. CASE Sleep
  <2>0. /\ UNCHANGED <<rings, todo, turn, current, scheduler, link, history>>
        /\ apc = "rx" /\ apc' = "sleep"
    BY <1>15 DEF Sleep
  <2>1. TypeOK'
    BY <2>0 DEF TypeOK, rings, scheduler, link, history
  <2>2. TodoWaits' /\ FramesLeft'
    BY <2>0 DEF TodoWaits, FramesLeft, rings, history
  <2>3. LiveInv'
    BY <2>0, SameLife DEF scheduler, history
  <2> QED BY <2>1, <2>2, <2>3
<1>16. CASE UNCHANGED vars
  <2>1. UNCHANGED <<rings, loop, scheduler, link, history>>
    BY <1>16 DEF vars
  <2>2. TypeOK'
    BY <2>1 DEF TypeOK, rings, loop, scheduler, link, history
  <2>3. TodoWaits' /\ FramesLeft'
    BY <2>1 DEF TodoWaits, FramesLeft, rings, loop, history
  <2>4. LiveInv'
    BY <2>1, SameLife DEF LiveInv, loop, scheduler, history
  <2> QED BY <2>2, <2>3, <2>4
<1> QED BY <1>1, <1>2, <1>3, <1>4, <1>5, <1>6, <1>7, <1>8, <1>9, <1>10, <1>11, <1>12,
           <1>13, <1>14, <1>15, <1>16 DEF Next, Handlers, Loop

(* The order of requests and KISS frames is kept by every step.            *)
LEMMA OrderNext ==
  ASSUME AprsInv, RingsOrdered, [Next]_vars
  PROVE  RingsOrdered'
<1> USE DEF AprsInv
<1>nat. /\ request \in Seq(Nat) /\ ring \in Seq(Nat) /\ pushed \in Nat
        /\ kiss_air \in Seq(Nat) /\ kiss_ring \in Seq(Nat) /\ kissed \in Nat
        /\ Len(ring) \in Nat /\ Len(kiss_ring) \in Nat /\ todo \in Nat
  <2>1. Messages \subseteq Nat /\ 1 .. MaxKiss \subseteq Nat
    BY TaskAssumption DEF Messages
  <2>2. request \in Seq(Nat) /\ ring \in Seq(Nat) /\ kiss_air \in Seq(Nat) /\ kiss_ring \in Seq(Nat)
    BY <2>1, SeqMonotonic DEF TypeOK
  <2>3. pushed \in Nat /\ kissed \in Nat /\ todo \in Nat
    BY TaskAssumption DEF TypeOK
  <2> QED BY <2>2, <2>3, LenProperties
<1>send. apc = "kiss_send" => kiss_ring # <<>>
  BY <1>nat, EmptySeq DEF TodoWaits
<1>wait. KissWaiting \in Seq(Nat)
  BY <1>nat, <1>send, HeadTailProperties DEF KissWaiting
<1>1. CASE PushTxRequest
  <2>1. /\ pushed' = pushed + 1 /\ ring' \in {ring, Append(ring, pushed + 1)}
        /\ UNCHANGED <<kiss_ring, kissed, apc, request, kiss_air>>
    BY <1>1 DEF PushTxRequest, loop, history
  <2>2. Ordered(request, ring, pushed)
    BY DEF RingsOrdered
  <2>3. /\ Ordered(request, ring, pushed + 1)
        /\ Ordered(request, Append(ring, pushed + 1), pushed + 1)
    BY <1>nat, <2>2, OrderedPush
  <2>4. KissWaiting' = KissWaiting
    BY <2>1 DEF KissWaiting
  <2>5. Ordered(request', ring', pushed')
    BY <2>1, <2>3
  <2> QED BY <2>1, <2>4, <2>5 DEF RingsOrdered
<1>2. CASE PushKiss
  <2>1. /\ kissed' = kissed + 1 /\ kiss_ring' \in {kiss_ring, Append(kiss_ring, kissed + 1)}
        /\ UNCHANGED <<ring, pushed, apc, request, kiss_air>>
    BY <1>2 DEF PushKiss, loop, history
  <2>2. Ordered(kiss_air, KissWaiting, kissed)
    BY DEF RingsOrdered
  <2>3. /\ Ordered(kiss_air, KissWaiting, kissed + 1)
        /\ Ordered(kiss_air, Append(KissWaiting, kissed + 1), kissed + 1)
    BY <1>nat, <1>wait, <2>2, OrderedPush
  <2>4. KissWaiting' \in {KissWaiting, Append(KissWaiting, kissed + 1)}
    <3>1. CASE apc = "kiss_send" /\ kiss_ring' = Append(kiss_ring, kissed + 1)
      BY <1>nat, <1>send, <2>1, <3>1, HeadTailAppend DEF KissWaiting
    <3>2. CASE apc # "kiss_send" \/ kiss_ring' = kiss_ring
      BY <2>1, <3>2 DEF KissWaiting
    <3> QED BY <2>1, <3>1, <3>2
  <2>5. Ordered(kiss_air', KissWaiting', kissed')
    BY <2>1, <2>3, <2>4
  <2> QED BY <2>1, <2>5 DEF RingsOrdered
<1>3. CASE Drain
  <2>1. /\ ring' = Tail(ring) /\ todo > 0 /\ apc = "drain" /\ Enqueue(Head(ring))
        /\ UNCHANGED <<pushed, kiss_ring, kissed, apc, kiss_air>>
    BY <1>3 DEF Drain
  <2>2. ring # <<>>
    BY <1>nat, <2>1, EmptySeq DEF TodoWaits
  <2>3. request' \in {request, Append(request, Head(ring))}
    BY <2>1 DEF Enqueue
  <2>4. /\ Ordered(request, Tail(ring), pushed)
        /\ Ordered(Append(request, Head(ring)), Tail(ring), pushed)
    BY <1>nat, <2>2, OrderedTake DEF RingsOrdered
  <2>5. Ordered(request', ring', pushed')
    BY <2>1, <2>3, <2>4
  <2>6. KissWaiting' = KissWaiting
    BY <2>1 DEF KissWaiting
  <2> QED BY <2>1, <2>5, <2>6 DEF RingsOrdered
<1>4. CASE KissSend
  <2>1. /\ kiss_air' = Append(kiss_air, Head(kiss_ring)) /\ todo > 0
        /\ apc = "kiss" /\ apc' = "kiss_send"
        /\ UNCHANGED <<ring, pushed, kiss_ring, kissed, request>>
    BY <1>4 DEF KissSend, rings
  <2>2. kiss_ring # <<>> /\ KissWaiting = kiss_ring /\ KissWaiting' = Tail(kiss_ring)
    BY <1>nat, <2>1, EmptySeq DEF TodoWaits, KissWaiting
  <2>3. Ordered(kiss_air', KissWaiting', kissed')
    BY <1>nat, <2>1, <2>2, OrderedTake DEF RingsOrdered
  <2> QED BY <2>1, <2>3 DEF RingsOrdered
<1>5. CASE KissRelease
  <2>1. /\ kiss_ring' = Tail(kiss_ring) /\ apc = "kiss_send" /\ apc' = "kiss"
        /\ UNCHANGED <<ring, pushed, kissed, request, kiss_air>>
    BY <1>5 DEF KissRelease, history
  <2>2. KissWaiting' = KissWaiting
    BY <2>1 DEF KissWaiting
  <2> QED BY <2>1, <2>2 DEF RingsOrdered
<1>6. CASE /\ UNCHANGED <<ring, pushed, kiss_ring, kissed, request, kiss_air>>
           /\ \/ apc' = apc
              \/ apc # "kiss_send" /\ apc' # "kiss_send"
  <2>1. KissWaiting' = KissWaiting
    BY <1>6 DEF KissWaiting
  <2> QED BY <1>6, <2>1 DEF RingsOrdered
<1>7. ASSUME NEW s \in Messages, TickSkip(s) \/ TickAttempt(s) \/ RxAck(s)
      PROVE  RingsOrdered'
  BY <1>6, <1>7 DEF TickSkip, TickAttempt, RxAck, rings, loop, history
<1>8. ASSUME NEW ok \in BOOLEAN, TickTransmit(ok) PROVE RingsOrdered'
  BY <1>6, <1>8 DEF TickTransmit, rings
<1>9. CASE Connection \/ LoopStart \/ TickStart \/ KissStart \/ RxStart \/ Sleep \/ UNCHANGED vars
  BY <1>6, <1>9 DEF Connection, LoopStart, TickStart, KissStart, RxStart, Sleep,
                    vars, rings, loop, history
<1> QED BY <1>1, <1>2, <1>3, <1>4, <1>5, <1>7, <1>8, <1>9 DEF Next, Handlers, Loop

(* A message that has a result is done: no step of the loop touches it.    *)
LEMMA ResultStep ==
  ASSUME AprsInv, [Next]_vars, NEW s \in Messages, result[s] # "none"
  PROVE  result'[s] = result[s] /\ told'[s] = told[s]
<1>1. s \notin Live
  BY SchedulerSteps DEF AprsInv, LiveInv
<1>2. ASSUME NEW t \in Messages, TickAttempt(t) \/ RxAck(t)
      PROVE  result'[s] = result[s] /\ told'[s] = told[s]
  <2>1. /\ Notify(t, "tx") \/ Notify(t, "acked")
        /\ result' \in {result, [result EXCEPT ![t] = "acked"]}
    BY <1>2 DEF TickAttempt, RxAck
  <2>2. t \in Live
    BY <1>2, SchedulerSteps DEF TickAttempt, RxAck, AprsInv, LiveInv
  <2>3. told'[s] = told[s]
    BY <1>1, <2>1, <2>2, NotifyType DEF AprsInv, Results
  <2> QED BY <1>1, <2>1, <2>2, <2>3 DEF AprsInv, TypeOK
<1>3. ASSUME NEW ok \in BOOLEAN, TickTransmit(ok)
      PROVE  result'[s] = result[s] /\ told'[s] = told[s]
  <2>1. current # s
    BY <1>1, <1>3 DEF TickTransmit, AprsInv, LiveInv
  <2>2. /\ result' \in {result, [result EXCEPT ![current] = "timeout"]}
        /\ told' \in {told, [told EXCEPT ![current] = "timeout"]}
    BY <1>3 DEF TickTransmit, Transmitted
  <2>3. result'[s] = result[s]
    BY <2>1, <2>2 DEF AprsInv, TypeOK
  <2>4. told'[s] = told[s]
    BY <2>1, <2>2 DEF AprsInv, TypeOK
  <2> QED BY <2>3, <2>4
<1>4. CASE UNCHANGED <<result, told>>
  BY <1>4
<1>5. CASE \/ PushTxRequest \/ PushKiss \/ Connection \/ LoopStart \/ Drain \/ TickStart
           \/ KissStart \/ KissSend \/ KissRelease \/ RxStart \/ Sleep \/ UNCHANGED vars
  BY <1>4, <1>5 DEF PushTxRequest, PushKiss, Connection, LoopStart, Drain, TickStart,
       KissStart, KissSend, KissRelease, RxStart, Sleep, vars, history
<1>6. ASSUME NEW t \in Messages, TickSkip(t)
      PROVE  result'[s] = result[s] /\ told'[s] = told[s]
  BY <1>6 DEF TickSkip, history
<1> QED BY <1>2, <1>3, <1>5, <1>6 DEF Next, Handlers, Loop

--------------------------------------------------------------------------------
(* Every reachable state of aprs_task and its queues is well typed.        *)
THEOREM AprsTypeCorrect == Spec => []TypeOK
<1>1. AprsInv => TypeOK
  BY DEF AprsInv
<1> QED BY <1>1, AprsInit, AprsNext, PTL DEF Spec

(* A pass of the loop gives the radio at most one frame per entry of the   *)
(* scheduler and of the KISS ring, however fast the handlers push.         *)
THEOREM PassIsBounded == Spec => []FramesPerPass
<1>1. AprsInv => FramesPerPass
  <2> SUFFICES ASSUME AprsInv PROVE FramesPerPass
    OBVIOUS
  <2>1. /\ Capacity \in Nat /\ KissDepth \in Nat /\ frames \in Nat /\ todo \in Nat
        /\ Cardinality(turn) \in Nat
    BY TaskAssumption, MessagesFinite DEF AprsInv, TypeOK
  <2>2. apc \in {"sleep", "drain", "tick", "transmit", "kiss", "kiss_send", "rx"}
    BY DEF AprsInv, TypeOK
  <2> QED BY <2>1, <2>2 DEF AprsInv, FramesLeft, TodoWaits, FramesPerPass
<1> QED BY <1>1, AprsInit, AprsNext, PTL DEF Spec

(* Nothing overtakes in the rings, is duplicated, or comes back after it   *)
(* was dropped.                                                            *)
LEMMA AlwaysOrdered == Spec => [](AprsInv /\ RingsOrdered)
<1>1. Init => RingsOrdered
  <2> SUFFICES ASSUME Init PROVE RingsOrdered
    OBVIOUS
  <2>1. /\ request = <<>> /\ ring = <<>> /\ kiss_air = <<>> /\ KissWaiting = <<>>
        /\ Len(<<>>) = 0
    BY EmptySeq DEF Init, KissWaiting
  <2> QED BY <2>1 DEF RingsOrdered, Ordered, Increasing
<1> QED BY <1>1, AprsInit, AprsNext, OrderNext, PTL DEF Spec

(* Requests reach the scheduler in the order they were written, each at    *)
(* most once.                                                              *)
THEOREM RequestsKeepOrder == Spec => []RequestsInOrder
<1>1. AprsInv /\ RingsOrdered => RequestsInOrder
  <2> SUFFICES ASSUME AprsInv, RingsOrdered PROVE RequestsInOrder
    OBVIOUS
  <2>1. Messages \subseteq Nat
    BY TaskAssumption DEF Messages
  <2>2. request \in Seq(Nat) /\ ring \in Seq(Nat)
    BY <2>1, SeqMonotonic DEF AprsInv, TypeOK
  <2> QED BY <2>2, OrderedIncreasing DEF RingsOrdered, RequestsInOrder
<1> QED BY <1>1, AlwaysOrdered, PTL

(* KISS frames are given to the radio in order, each at most once.         *)
THEOREM KissKeepsOrder == Spec => []KissInOrder
<1>1. AprsInv /\ RingsOrdered => KissInOrder
  <2> SUFFICES ASSUME AprsInv, RingsOrdered PROVE KissInOrder
    OBVIOUS
  <2>1. 1 .. MaxKiss \subseteq Nat
    BY TaskAssumption
  <2>2. kiss_air \in Seq(Nat) /\ kiss_ring \in Seq(Nat)
    BY <2>1, SeqMonotonic DEF AprsInv, TypeOK
  <2>3. apc = "kiss_send" => kiss_ring # <<>>
    BY <2>2, EmptySeq, LenProperties DEF AprsInv, TypeOK, TodoWaits
  <2>4. KissWaiting \in Seq(Nat)
    BY <2>2, <2>3, HeadTailProperties DEF KissWaiting
  <2> QED BY <2>2, <2>4, OrderedIncreasing DEF RingsOrdered, KissInOrder, KissWaiting
<1> QED BY <1>1, AlwaysOrdered, PTL

(* A message's result is final, and the last the client hears of it.       *)
THEOREM ResultIsFinal == Spec => ResultIsLast
<1>1. AprsInv /\ [Next]_vars =>
        [\A s \in Messages :
           result[s] # "none" => result'[s] = result[s] /\ told'[s] = told[s]]_vars
  BY ResultStep
<1> QED BY <1>1, AprsInit, AprsNext, PTL DEF Spec, ResultIsLast

--------------------------------------------------------------------------------
(* The station: what aprs_task sends and hears. First the codec, on texts  *)
(* of any length.                                                          *)

(* The sizes, one by one.                                                  *)
LEMMA Sizes ==
  /\ kAddrCallsignMaxLen \in Nat /\ kAddrCallsignMaxLen > 0
  /\ kMaxInfoLen \in Nat /\ kMaxAckIdLen \in Nat /\ kMaxAckIdLen > 0
  /\ kMaxAddresses \in Nat /\ kMaxAddresses >= 3
  /\ kAddresseeLen \in Nat /\ kAddresseeLen = kAddrCallsignMaxLen + 3
  /\ kMaxInfoLen >= kAddresseeLen + 5 + kMaxAckIdLen
<1>1. kAddrCallsignMaxLen \in Nat \ {0} /\ kMaxInfoLen \in Nat \ {0} /\ kMaxAckIdLen \in Nat \ {0}
  BY Ax25Assumption, Zenon
<1>2. /\ kMaxAddresses \in Nat /\ kMaxAddresses >= 3
      /\ kAddresseeLen = kAddrCallsignMaxLen + 3
      /\ kMaxInfoLen >= kAddresseeLen + 5 + kMaxAckIdLen
  BY Ax25Assumption, Zenon
<1> QED BY <1>1, <1>2

(* A blank is a character, and capitals are characters and no blanks.      *)
LEMMA Letters ==
  /\ Blank \in Characters
  /\ \A c \in Characters : Upper(c) \in Characters /\ (c # Blank => Upper(c) # Blank)
<1> USE Ax25Assumption DEF Blank
<1>1. ASSUME NEW c \in Characters
      PROVE  Upper(c) \in Characters /\ (c # Blank => Upper(c) # Blank)
  <2>1. CASE c = "a"
    BY <2>1 DEF Upper
  <2>2. CASE c = "b"
    BY <2>2 DEF Upper
  <2>3. CASE c \notin {"a", "b"}
    <3>1. Upper(c) = c
      BY <2>3, Zenon DEF Upper
    <3> QED BY <3>1
  <2> QED BY <2>1, <2>2, <2>3
<1> QED BY <1>1

(* An SSID is written with one digit or two.                               *)
LEMMA Numbers ==
  ASSUME NEW n \in 0..15
  PROVE  /\ Digits(n) \in Seq(Characters) /\ Len(Digits(n)) \in 1..2
         /\ \A i \in 1..Len(Digits(n)) : Digits(n)[i] # Blank
<1>0. /\ {"0", "1", "2", "3", "4", "5", "6", "7", "8", "9"} \subseteq Characters
      /\ \A c \in {"0", "1", "2", "3", "4", "5", "6", "7", "8", "9"} : c # Blank
  BY Ax25Assumption DEF Blank
<1>1. \A c \in Characters \ {Blank} :
        /\ <<c>> \in Seq(Characters) /\ Len(<<c>>) \in 1..2
        /\ \A i \in 1..Len(<<c>>) : <<c>>[i] # Blank
  OBVIOUS
<1>2. \A c, d \in Characters \ {Blank} :
        /\ <<c, d>> \in Seq(Characters) /\ Len(<<c, d>>) \in 1..2
        /\ \A i \in 1..Len(<<c, d>>) : <<c, d>>[i] # Blank
  OBVIOUS
<1>3. \A k \in 1..9 : Digit[k] \in Characters \ {Blank}
  BY <1>0 DEF Digit
<1>4. "0" \in Characters \ {Blank} /\ "1" \in Characters \ {Blank}
  BY <1>0
<1>5. CASE n = 0
  <2>1. Digits(n) = <<"0">>
    <3>1. n \notin 1..9 /\ n # 10 /\ n \notin 11..15
      BY <1>5
    <3> QED BY <1>5, <3>1, Zenon DEF Digits
  <2> QED BY <2>1, <1>1, <1>4, Zenon
<1>6. CASE n \in 1..9
  <2>1. Digits(n) = <<Digit[n]>>
    <3>1. n # 0 /\ n # 10 /\ n \notin 11..15
      BY <1>6
    <3> QED BY <1>6, <3>1, Zenon DEF Digits
  <2> QED BY <2>1, <1>1, <1>3, <1>6, Zenon
<1>7. CASE n = 10
  <2>1. Digits(n) = <<"1", "0">>
    <3>1. n # 0 /\ n \notin 1..9 /\ n \notin 11..15
      BY <1>7
    <3> QED BY <1>7, <3>1, Zenon DEF Digits
  <2> QED BY <2>1, <1>2, <1>4, Zenon
<1>8. CASE n \in 11..15
  <2>0. n # 0 /\ n \notin 1..9 /\ n # 10 /\ n - 10 \in 1..9
    BY <1>8
  <2>1. Digits(n) = <<"1", Digit[n - 10]>>
    BY <1>8, <2>0, Zenon DEF Digits
  <2> QED BY <2>1, <2>0, <1>2, <1>3, <1>4, Zenon
<1> QED BY <1>5, <1>6, <1>7, <1>8

(* A word, by its places.                                                  *)
LEMMA Words ==
  ASSUME NEW s, NEW n \in Nat
  PROVE  IsWord(s, n) <=> /\ s \in Seq(Characters) /\ Len(s) <= n
                          /\ \A i \in 1..Len(s) : s[i] # Blank
  BY DEF IsWord, Range

(* What is filled up with blanks to n characters is read back by dropping  *)
(* them: decode_address undoes encode_address, and the addressee of a      *)
(* message is the one it was written with.                                 *)
LEMMA TrimmedPadded ==
  ASSUME NEW n \in Nat, NEW s, IsWord(s, n)
  PROVE  /\ Padded(s, n) \in Seq(Characters) /\ Len(Padded(s, n)) = n
         /\ Trimmed(Padded(s, n)) = s
<1>1. s \in Seq(Characters) /\ Len(s) <= n /\ \A i \in 1..Len(s) : s[i] # Blank
  BY Words
<1>2. Padded(s, n) \in [1..n -> Characters]
  BY <1>1, Letters DEF Padded
<1>3. Padded(s, n) \in Seq(Characters) /\ Len(Padded(s, n)) = n
  BY <1>2
<1> DEFINE p == Padded(s, n)
           kept == {i \in DOMAIN p : p[i] # Blank}
<1>4. kept = 1..Len(s)
  BY <1>1, <1>2 DEF Padded
<1>5. CASE s = <<>>
  <2>1. kept = {}
    BY <1>4, <1>5
  <2> QED BY <1>3, <1>5, <2>1 DEF Trimmed
<1>6. CASE s # <<>>
  <2>1. Len(s) \in Nat /\ Len(s) > 0
    BY <1>1, <1>6, EmptySeq
  <2>2. (CHOOSE i \in kept : \A j \in kept : j <= i) = Len(s)
    <3>1. Len(s) \in kept /\ \A j \in kept : j <= Len(s)
      BY <1>4, <2>1
    <3>2. \A i \in kept : (\A j \in kept : j <= i) => i = Len(s)
      BY <1>4, <2>1, <3>1
    <3> HIDE DEF kept
    <3> QED BY <3>1, <3>2
  <2>3. Trimmed(p) = Cut(p, Len(s))
    BY <2>1, <2>2, <1>4 DEF Trimmed
  <2>4. Cut(p, Len(s)) = SubSeq(p, 1, Len(s))
    BY <1>1, <1>3, <2>1 DEF Cut
  <2>5. \A i \in 1..Len(s) : p[i] = s[i]
    BY <1>1, <2>1 DEF Padded
  <2>6. SubSeq(p, 1, Len(s)) \in Seq(Characters) /\ Len(SubSeq(p, 1, Len(s))) = Len(s)
        /\ \A i \in 1..Len(s) : SubSeq(p, 1, Len(s))[i] = p[i]
    <3>1. \A i \in 1..Len(s) : p[i] \in Characters
      BY <1>1, <2>5, ElementOfSeq
    <3> HIDE DEF p
    <3> QED BY <3>1, <2>1, SubSeqProperties
  <2> HIDE DEF p
  <2>7. SubSeq(p, 1, Len(s)) = s
    BY <1>1, <2>5, <2>6, SeqEqual
  <2> QED BY <1>3, <2>3, <2>4, <2>7 DEF p
<1> QED BY <1>5, <1>6

(* Two words are a word.                                                   *)
LEMMA WordConcat ==
  ASSUME NEW s, NEW t, NEW n \in Nat, NEW m \in Nat, IsWord(s, n), IsWord(t, m)
  PROVE  IsWord(s \o t, n + m)
<1>1. s \in Seq(Characters) /\ Len(s) <= n /\ \A i \in 1..Len(s) : s[i] # Blank
  BY Words
<1>2. t \in Seq(Characters) /\ Len(t) <= m /\ \A i \in 1..Len(t) : t[i] # Blank
  BY Words
<1>3. Len(s) \in Nat /\ Len(t) \in Nat
  BY <1>1, <1>2
<1>4. /\ s \o t \in Seq(Characters) /\ Len(s \o t) = Len(s) + Len(t)
      /\ \A i \in 1..Len(s) + Len(t) :
            (s \o t)[i] = IF i <= Len(s) THEN s[i] ELSE t[i - Len(s)]
  BY <1>1, <1>2, ConcatProperties
<1>5. ASSUME NEW i \in 1..Len(s) + Len(t) PROVE (s \o t)[i] # Blank
  <2>1. CASE i <= Len(s)
    BY <1>1, <1>4, <1>5, <2>1
  <2>2. CASE ~(i <= Len(s))
    BY <1>2, <1>3, <1>4, <1>5, <2>2
  <2> QED BY <2>1, <2>2
<1> HIDE <1>1, <1>2
<1>6. Len(s \o t) <= n + m
  BY <1>1, <1>2, <1>3, <1>4
<1>7. \A i \in 1..Len(s \o t) : (s \o t)[i] # Blank
  BY <1>4, <1>5
<1>8. n + m \in Nat
  OBVIOUS
<1> QED BY <1>4, <1>6, <1>7, <1>8, Words, Zenon

(* A callsign with its SSID fits into the nine characters of an addressee. *)
LEMMA StationIds ==
  ASSUME NEW c, IsWord(c, kAddrCallsignMaxLen), NEW n \in 0..15
  PROVE  IsWord(StationId(c, n), kAddresseeLen)
<1>1. CASE n = 0
  <2>1. StationId(c, n) = c
    BY <1>1, Words, ConcatEmptySeq, Sizes DEF StationId
  <2> QED BY <2>1, Words, Sizes
<1>2. CASE n # 0
  <2>1. StationId(c, n) = c \o (<<"-">> \o Digits(n))
    BY <1>2 DEF StationId
  <2>2. IsWord(<<"-">>, 1)
    <3>1. "-" \in Characters /\ "-" # Blank
      BY Ax25Assumption DEF Blank
    <3>2. <<"-">> \in Seq(Characters) /\ Len(<<"-">>) <= 1
          /\ \A i \in 1..Len(<<"-">>) : <<"-">>[i] # Blank
      BY <3>1
    <3> QED BY <3>2, Words
  <2>3. IsWord(Digits(n), 2)
    <3>1. /\ Digits(n) \in Seq(Characters) /\ Len(Digits(n)) \in 1..2
          /\ \A i \in 1..Len(Digits(n)) : Digits(n)[i] # Blank
      BY Numbers
    <3>2. Len(Digits(n)) <= 2 /\ 2 \in Nat
      BY <3>1
    <3> QED BY <3>1, <3>2, Words, Zenon
  <2>4. IsWord(<<"-">> \o Digits(n), 1 + 2)
    BY <2>2, <2>3, WordConcat
  <2>5. IsWord(c \o (<<"-">> \o Digits(n)), kAddrCallsignMaxLen + (1 + 2))
    BY <2>4, WordConcat, Sizes
  <2>6. kAddrCallsignMaxLen + (1 + 2) = kAddresseeLen
    BY Sizes
  <2> QED BY <2>1, <2>5, <2>6
<1> QED BY <1>1, <1>2

(* Capitals make no blanks.                                                *)
LEMMA Capitals ==
  ASSUME NEW s, NEW n \in Nat, IsWord(s, n)
  PROVE  IsWord(InUpper(s), n)
<1>1. s \in Seq(Characters) /\ Len(s) <= n /\ \A i \in 1..Len(s) : s[i] # Blank
  BY Words
<1>2. InUpper(s) \in [1..Len(s) -> Characters] /\ Len(s) \in Nat
  BY <1>1, Letters DEF InUpper
<1>3. InUpper(s) \in Seq(Characters) /\ Len(InUpper(s)) = Len(s)
  BY <1>2
<1>4. \A i \in 1..Len(s) : InUpper(s)[i] # Blank
  BY <1>1, Letters DEF InUpper
<1> QED BY <1>1, <1>3, <1>4, Words

(* The four bits of SSID and the extension bit come out of the byte as     *)
(* they went in, whatever C/H is.                                          *)
LEMMA SsidBytes ==
  ASSUME NEW s \in 0..15, NEW h \in {0, 128}, NEW e \in {0, 1}
  PROVE  /\ ((h + 96 + 2 * (s % 16) + e) \div 2) % 16 = s
         /\ (h + 96 + 2 * (s % 16) + e) % 2 = e
  OBVIOUS

(* A frame of two to kMaxAddresses addresses and a body that fits is       *)
(* decoded to the addresses as they are encoded, and to the body.          *)
LEMMA RoundTrip ==
  ASSUME NEW S, NEW addr \in Seq(S), Len(addr) \in 2..kMaxAddresses, addr[1] = Tocall,
         NEW info, Len(info) <= kMaxInfoLen
  PROVE  LET f == decode(encode([addr |-> addr, info |-> info])) IN
           /\ f # Refused /\ f.info = info
           /\ \A i \in 1..Len(addr) :
                f.addr[i] = decode_address(encode_address(addr[i], i = 1, i = Len(addr)))
<1> DEFINE n == Len(addr)
           field == [i \in 1..n |-> encode_address(addr[i], i = 1, i = n)]
           wire == [addr |-> field, info |-> info]
<1>0. n \in Nat /\ n >= 2 /\ n <= kMaxAddresses
  BY Sizes
<1>1. encode([addr |-> addr, info |-> info]) = wire
  BY DEF encode
<1>2. Len(field) = n /\ DOMAIN field = 1..n
  <2> DEFINE T == {encode_address(addr[i], i = 1, i = n) : i \in 1..n}
  <2>1. field \in [1..n -> T]
    OBVIOUS
  <2> HIDE DEF T, field
  <2>2. field \in Seq(T)
    BY <2>1, <1>0
  <2> QED BY <2>1, <2>2, <1>0
<1>3. ~IsLast(field[1])
  <2>1. field[1] = encode_address(Tocall, TRUE, FALSE)
    <3>1. (1 = 1) = TRUE /\ (1 = n) = FALSE /\ 1 \in 1..n
      BY <1>0
    <3>2. field[1] = encode_address(addr[1], 1 = 1, 1 = n)
      BY <3>1
    <3> QED BY <3>1, <3>2
  <2>2. field[1].ssid_byte = 128 + 96 + 2 * (0 % 16) + 0
    BY <2>1 DEF encode_address, Tocall, Address
  <2>3. field[1].ssid_byte % 2 = 0
    BY <2>2, SsidBytes
  <2> QED BY <2>3 DEF IsLast
<1>4. decode(wire) = [addr |-> [i \in 1..n |-> decode_address(field[i])], info |-> info]
  <2> HIDE DEF field
  <2> QED BY <1>0, <1>2, <1>3 DEF decode
<1>5. decode(wire) # Refused
  <2>1. DOMAIN [i \in 1..n |-> decode_address(field[i])] = 1..n /\ 1 \in 1..n
    BY <1>0
  <2>2. DOMAIN <<>> = {}
    OBVIOUS
  <2>3. decode(wire).addr # <<>>
    BY <1>4, <2>1, <2>2
  <2> QED BY <2>3 DEF Refused
<1>6. \A i \in 1..n : decode(wire).addr[i]
                        = decode_address(encode_address(addr[i], i = 1, i = n))
  BY <1>4
<1> QED BY <1>1, <1>4, <1>5, <1>6

(* What make_ui_frame() makes and encode() sends is read as the callsign   *)
(* in capitals, the SSID and the body.                                     *)
LEMMA OwnFrame ==
  ASSUME NEW c, IsWord(c, kAddrCallsignMaxLen), NEW n \in 0..15,
         NEW info, Len(info) <= kMaxInfoLen
  PROVE  LET f == decode(encode([make_ui_frame(c, n) EXCEPT !.info = info])) IN
           /\ f # Refused /\ f.info = info
           /\ f.addr[2].callsign = InUpper(c) /\ f.addr[2].ssid = n
<1> DEFINE own == Address(c, n, FALSE)
           f == decode(encode([make_ui_frame(c, n) EXCEPT !.info = info]))
<1>1. Cut(c, kAddrCallsignMaxLen) = c
  <2>1. c \in Seq(Characters) /\ Len(c) <= kAddrCallsignMaxLen
    BY Words, Sizes
  <2>2. SubSeq(c, 1, Len(c)) = c
    BY <2>1, SubSeqFull
  <2>3. Len(c) < kAddrCallsignMaxLen \/ Len(c) = kAddrCallsignMaxLen
    BY <2>1, Sizes
  <2> QED BY <2>2, <2>3 DEF Cut
<1>2. [make_ui_frame(c, n) EXCEPT !.info = info] = [addr |-> <<Tocall, own>>, info |-> info]
  <2>1. make_ui_frame(c, n) = [addr |-> <<Tocall, own>>, info |-> <<>>]
    BY <1>1 DEF make_ui_frame
  <2> HIDE DEF own
  <2> QED BY <2>1
<1>3. <<Tocall, own>> \in Seq({Tocall, own}) /\ Len(<<Tocall, own>>) = 2
      /\ <<Tocall, own>>[1] = Tocall /\ <<Tocall, own>>[2] = own
  OBVIOUS
<1>4. 2 \in 2..kMaxAddresses
  BY Sizes
<1>5. /\ f # Refused /\ f.info = info
      /\ f.addr[2] = decode_address(encode_address(own, FALSE, TRUE))
  <2> DEFINE addr == <<Tocall, own>>
  <2>1. (2 = 1) = FALSE /\ (2 = Len(addr)) = TRUE /\ 2 \in 1..Len(addr)
    BY <1>3
  <2>2. addr \in Seq({Tocall, own}) /\ Len(addr) \in 2..kMaxAddresses /\ addr[1] = Tocall
        /\ addr[2] = own
    BY <1>3, <1>4
  <2> HIDE DEF own, addr
  <2>3. LET g == decode(encode([addr |-> addr, info |-> info])) IN
          /\ g # Refused /\ g.info = info
          /\ g.addr[2] = decode_address(encode_address(addr[2], 2 = 1, 2 = Len(addr)))
    BY <2>1, <2>2, RoundTrip
  <2> QED BY <1>2, <2>1, <2>2, <2>3 DEF addr
<1>6. encode_address(own, FALSE, TRUE).call = Padded(InUpper(c), kAddrCallsignMaxLen)
  BY DEF encode_address, Address
<1>7. encode_address(own, FALSE, TRUE).ssid_byte = 0 + 96 + 2 * (n % 16) + 1
  BY DEF encode_address, Address
<1>8. Trimmed(Padded(InUpper(c), kAddrCallsignMaxLen)) = InUpper(c)
  BY Capitals, TrimmedPadded, Sizes
<1>9. ((0 + 96 + 2 * (n % 16) + 1) \div 2) % 16 = n
  BY SsidBytes
<1>10. LET d == decode_address(encode_address(own, FALSE, TRUE)) IN
         d.callsign = InUpper(c) /\ d.ssid = n
  <2> DEFINE e == encode_address(own, FALSE, TRUE)
  <2> HIDE DEF e
  <2>1. e.call = Padded(InUpper(c), kAddrCallsignMaxLen)
        /\ e.ssid_byte = 0 + 96 + 2 * (n % 16) + 1
    BY <1>6, <1>7 DEF e
  <2>2. decode_address(e).callsign = Trimmed(e.call)
        /\ decode_address(e).ssid = (e.ssid_byte \div 2) % 16
    BY DEF decode_address, Address
  <2> QED BY <2>1, <2>2, <1>8, <1>9, Zenon DEF e
<1> HIDE DEF own, f
<1>11. f # Refused /\ f.info = info /\ f.addr[2].callsign = InUpper(c) /\ f.addr[2].ssid = n
  BY <1>5, <1>10
<1> QED BY <1>11 DEF f

(* The first character of two texts is that of the first one.              *)
LEMMA FirstOfConcat ==
  ASSUME NEW s \in Seq(Characters), NEW t \in Seq(Characters), Len(s) > 0
  PROVE  /\ s \o t \in Seq(Characters) /\ Len(s \o t) = Len(s) + Len(t)
         /\ (s \o t)[1] = s[1]
<1>1. Len(s) \in Nat /\ Len(t) \in Nat
  OBVIOUS
<1>2. 1 \in 1..Len(s) + Len(t) /\ 1 <= Len(s)
  BY <1>1
<1> QED BY <1>2, ConcatProperties

(* Where the parts are in a text of one character, a field of some width   *)
(* and a rest.                                                             *)
LEMMA Header ==
  ASSUME NEW c \in Characters, NEW pad \in Seq(Characters), NEW rest \in Seq(Characters)
  PROVE  LET info == (<<c>> \o pad) \o rest IN
           /\ info \in Seq(Characters) /\ Len(info) = 1 + Len(pad) + Len(rest)
           /\ info[1] = c
           /\ SubSeq(info, 2, Len(pad) + 1) = pad
           /\ \A m, n \in 1..Len(rest) :
                SubSeq(info, Len(pad) + 1 + m, Len(pad) + 1 + n) = SubSeq(rest, m, n)
<1> DEFINE first == <<c>>
           head == first \o pad
           info == head \o rest
<1>1. first \in Seq(Characters) /\ Len(first) = 1 /\ first[1] = c
  OBVIOUS
<1> HIDE DEF first
<1>2. Len(pad) \in Nat /\ Len(rest) \in Nat
  OBVIOUS
<1>3. head \in Seq(Characters) /\ Len(head) = 1 + Len(pad) /\ head[1] = c
  <2>1. Len(first) > 0
    BY <1>1
  <2>2. head \in Seq(Characters) /\ Len(head) = Len(first) + Len(pad) /\ head[1] = first[1]
    BY <1>1, <2>1, FirstOfConcat
  <2> QED BY <1>1, <2>2
<1>4. SubSeq(head, 2, Len(pad) + 1) = pad
  <2>1. CASE Len(pad) = 0
    <3>1. pad = <<>>
      BY <2>1, EmptySeq
    <3>2. SubSeq(head, 2, Len(pad) + 1) = <<>>
      BY <2>1, SubSeqEmpty
    <3> QED BY <3>1, <3>2
  <2>2. CASE Len(pad) > 0
    <3> DEFINE nn == Len(pad) + 1
    <3>1. /\ 2 \in Len(first) + 1 .. Len(first) + Len(pad)
          /\ nn \in Len(first) + 1 .. Len(first) + Len(pad)
          /\ 2 - Len(first) = 1 /\ nn - Len(first) = Len(pad)
      BY <1>1, <1>2, <2>2
    <3> HIDE DEF nn
    <3>2. SubSeq(head, 2, nn) = SubSeq(pad, 2 - Len(first), nn - Len(first))
      BY <1>1, <3>1, SubSeqOfConcat2
    <3> QED BY <3>1, <3>2, SubSeqFull DEF nn
  <2>3. Len(pad) = 0 \/ Len(pad) > 0
    BY <1>2
  <2> QED BY <2>1, <2>2, <2>3, Zenon
<1> HIDE DEF head
<1>5. info \in Seq(Characters) /\ Len(info) = 1 + Len(pad) + Len(rest) /\ info[1] = c
  <2>1. Len(head) > 0
    BY <1>2, <1>3
  <2> QED BY <1>3, <2>1, FirstOfConcat
<1>6. SubSeq(info, 2, Len(pad) + 1) = pad
  <2>1. CASE Len(pad) = 0
    <3>1. pad = <<>>
      BY <2>1, EmptySeq
    <3>2. SubSeq(info, 2, Len(pad) + 1) = <<>>
      BY <2>1, SubSeqEmpty
    <3> QED BY <3>1, <3>2
  <2>2. CASE Len(pad) > 0
    <3>1. 2 \in 1..Len(head) /\ Len(pad) + 1 \in 1..Len(head)
      BY <1>2, <1>3, <2>2
    <3>2. SubSeq(info, 2, Len(pad) + 1) = SubSeq(head, 2, Len(pad) + 1)
      BY <1>3, <3>1, SubSeqOfConcat1
    <3> QED BY <3>2, <1>4
  <2>3. Len(pad) = 0 \/ Len(pad) > 0
    BY <1>2
  <2> QED BY <2>1, <2>2, <2>3, Zenon
<1>7. ASSUME NEW m \in 1..Len(rest), NEW n \in 1..Len(rest)
      PROVE  SubSeq(info, Len(pad) + 1 + m, Len(pad) + 1 + n) = SubSeq(rest, m, n)
  <2> DEFINE mm == Len(pad) + 1 + m
             nn == Len(pad) + 1 + n
  <2>1. mm \in Len(head)+1 .. Len(head)+Len(rest) /\ nn \in Len(head)+1 .. Len(head)+Len(rest)
        /\ mm - Len(head) = m /\ nn - Len(head) = n
    BY <1>2, <1>3, <1>7
  <2> HIDE DEF mm, nn
  <2>2. SubSeq(info, mm, nn) = SubSeq(rest, mm - Len(head), nn - Len(head))
    BY <1>3, <2>1, SubSeqOfConcat2
  <2> QED BY <2>1, <2>2 DEF mm, nn
<1> QED BY <1>5, <1>6, <1>7 DEF head, first

(* An information field begins with a colon and the addressee; the rest is *)
(* found by its place.                                                     *)
LEMMA Named ==
  ASSUME NEW to, IsWord(to, kAddresseeLen), NEW rest \in Seq(Characters)
  PROVE  LET info == (<<":">> \o Padded(to, kAddresseeLen)) \o rest IN
           /\ info \in Seq(Characters) /\ Len(info) = 1 + kAddresseeLen + Len(rest)
           /\ info[1] = ":"
           /\ Addressee(info) = to
           /\ \A m, n \in 1..Len(rest) :
                SubSeq(info, kAddresseeLen + 1 + m, kAddresseeLen + 1 + n) = SubSeq(rest, m, n)
<1> DEFINE pad == Padded(to, kAddresseeLen)
<1>1. pad \in Seq(Characters) /\ Len(pad) = kAddresseeLen /\ Trimmed(pad) = to
  BY TrimmedPadded, Sizes
<1>2. ":" \in Characters
  BY Ax25Assumption
<1> DEFINE info == (<<":">> \o pad) \o rest
<1> HIDE DEF pad
<1>3. /\ info \in Seq(Characters) /\ Len(info) = 1 + Len(pad) + Len(rest)
      /\ info[1] = ":" /\ SubSeq(info, 2, Len(pad) + 1) = pad
      /\ \A m, n \in 1..Len(rest) :
            SubSeq(info, Len(pad) + 1 + m, Len(pad) + 1 + n) = SubSeq(rest, m, n)
  BY <1>1, <1>2, Header
<1> HIDE DEF info
<1>4. Addressee(info) = to
  BY <1>1, <1>3 DEF Addressee
<1>5. info = (<<":">> \o Padded(to, kAddresseeLen)) \o rest
  BY DEF info, pad
<1> QED BY <1>1, <1>3, <1>4, <1>5

(* In colon, part and id, each is found by its place.                      *)
LEMMA Tailored ==
  ASSUME NEW part \in Seq(Characters), NEW id \in Seq(Characters)
  PROVE  LET rest == <<":">> \o (part \o id) IN
           /\ rest \in Seq(Characters) /\ Len(rest) = 1 + Len(part) + Len(id)
           /\ SubSeq(rest, 1, 1 + Len(part)) = <<":">> \o part
           /\ Len(id) > 0 => SubSeq(rest, 2 + Len(part), Len(rest)) = id
<1> DEFINE sep == <<":">>
           front == sep \o part
           rest == sep \o (part \o id)
<1>1. sep \in Seq(Characters) /\ Len(sep) = 1
  <2>1. ":" \in Characters
    BY Ax25Assumption
  <2> QED BY <2>1
<1> HIDE DEF sep
<1>2. Len(part) \in Nat /\ Len(id) \in Nat
  OBVIOUS
<1>3. front \in Seq(Characters) /\ Len(front) = 1 + Len(part)
  BY <1>1, <1>2, ConcatProperties
<1>4. rest = front \o id
  BY <1>1, ConcatAssociative
<1> HIDE DEF front, rest
<1>5. rest \in Seq(Characters) /\ Len(rest) = 1 + Len(part) + Len(id)
  BY <1>2, <1>3, <1>4, ConcatProperties
<1>6. SubSeq(rest, 1, 1 + Len(part)) = front
  <2>1. 1 \in 1..Len(front) /\ Len(front) \in 1..Len(front)
    BY <1>2, <1>3
  <2>2. SubSeq(rest, 1, Len(front)) = SubSeq(front, 1, Len(front))
    BY <1>3, <1>4, <2>1, SubSeqOfConcat1
  <2> QED BY <1>3, <2>2, SubSeqFull
<1>7. ASSUME Len(id) > 0 PROVE SubSeq(rest, 2 + Len(part), Len(rest)) = id
  <2> DEFINE mm == 2 + Len(part)
             nn == Len(rest)
  <2>1. mm \in Len(front)+1 .. Len(front)+Len(id) /\ nn \in Len(front)+1 .. Len(front)+Len(id)
        /\ mm - Len(front) = 1 /\ nn - Len(front) = Len(id)
    BY <1>2, <1>3, <1>5, <1>7
  <2> HIDE DEF mm, nn
  <2>2. SubSeq(rest, mm, nn) = SubSeq(id, mm - Len(front), nn - Len(front))
    BY <1>3, <1>4, <2>1, SubSeqOfConcat2
  <2> QED BY <2>1, <2>2, SubSeqFull DEF mm, nn
<1> QED BY <1>5, <1>6, <1>7 DEF rest, front, sep

(* Texts may be put together from the left or from the right.              *)
LEMMA Assoc ==
  \A s, t, u \in Seq(Characters) : (s \o t) \o u = s \o (t \o u)
  BY ConcatAssociative

(* Four texts, from the left or from the right.                            *)
LEMMA Concats ==
  ASSUME NEW c \in Seq(Characters), NEW d \in Seq(Characters), NEW e \in Seq(Characters)
  PROVE  \A h \in Seq(Characters) : ((h \o c) \o d) \o e = h \o (c \o (d \o e))
<1> SUFFICES ASSUME NEW h \in Seq(Characters)
             PROVE  ((h \o c) \o d) \o e = h \o (c \o (d \o e))
  BY Zenon
<1>1. h \o c \in Seq(Characters) /\ d \o e \in Seq(Characters)
  BY ConcatProperties
<1>2. ((h \o c) \o d) \o e = (h \o c) \o (d \o e)
  <2>1. \A x \in Seq(Characters) : (x \o d) \o e = x \o (d \o e)
    BY Assoc
  <2> QED BY <1>1, <2>1, Zenon
<1>3. (h \o c) \o (d \o e) = h \o (c \o (d \o e))
  <2>1. \A x \in Seq(Characters) : (h \o c) \o x = h \o (c \o x)
    BY Assoc
  <2> QED BY <1>1, <2>1, Zenon
<1> QED BY <1>2, <1>3, Zenon

(* Where a receiver finds the parts of what Sent() puts together.          *)
LEMMA SentParts ==
  ASSUME NEW to, IsWord(to, kAddresseeLen),
         NEW part \in Seq(Characters), NEW id \in Seq(Characters)
  PROVE  LET info == Sent(to, part, id) IN
           /\ info \in Seq(Characters)
           /\ Len(info) = 2 + kAddresseeLen + Len(part) + Len(id)
           /\ info[1] = ":"
           /\ Addressee(info) = to
           /\ SubSeq(info, kAddresseeLen + 2, kAddresseeLen + 2 + Len(part)) = <<":">> \o part
           /\ SubSeq(info, kAddresseeLen + 3 + Len(part), Len(info)) = id
<1> DEFINE A == kAddresseeLen
           rest == <<":">> \o (part \o id)
           info == (<<":">> \o Padded(to, A)) \o rest
<1>0. <<":">> \in Seq(Characters) /\ Padded(to, A) \in Seq(Characters)
  <2>1. ":" \in Characters
    BY Ax25Assumption
  <2> QED BY <2>1, TrimmedPadded, Sizes
<1>1. Sent(to, part, id) = info
  <2>1. <<":">> \o Padded(to, A) \in Seq(Characters)
    BY <1>0, ConcatProperties
  <2>2. ((((<<":">> \o Padded(to, A)) \o <<":">>) \o part) \o id)
          = (<<":">> \o Padded(to, A)) \o (<<":">> \o (part \o id))
    <3>1. ASSUME NEW y \in Seq(Characters)
          PROVE  \A h \in Seq(Characters) : ((h \o y) \o part) \o id = h \o (y \o (part \o id))
      BY Concats
    <3> QED BY <1>0, <2>1, <3>1, Zenon
  <2> QED BY <2>2 DEF Sent
<1>2. /\ rest \in Seq(Characters) /\ Len(rest) = 1 + Len(part) + Len(id)
      /\ SubSeq(rest, 1, 1 + Len(part)) = <<":">> \o part
      /\ Len(id) > 0 => SubSeq(rest, 2 + Len(part), Len(rest)) = id
  BY Tailored
<1> HIDE DEF rest
<1>3. /\ info \in Seq(Characters) /\ Len(info) = 1 + A + Len(rest)
      /\ info[1] = ":" /\ Addressee(info) = to
      /\ \A m, n \in 1..Len(rest) : SubSeq(info, A + 1 + m, A + 1 + n) = SubSeq(rest, m, n)
  BY <1>2, Named
<1> HIDE DEF info
<1>4. Len(part) \in Nat /\ Len(id) \in Nat /\ A \in Nat
  BY Sizes
<1> HIDE DEF A
<1>5. SubSeq(info, A + 2, A + 2 + Len(part)) = <<":">> \o part
  <2>1. /\ 1 \in 1..Len(rest) /\ 1 + Len(part) \in 1..Len(rest)
        /\ A + 1 + 1 = A + 2 /\ A + 1 + (1 + Len(part)) = A + 2 + Len(part)
    BY <1>2, <1>4
  <2>2. SubSeq(info, A + 1 + 1, A + 1 + (1 + Len(part))) = SubSeq(rest, 1, 1 + Len(part))
    BY <1>3, <2>1
  <2> QED BY <1>2, <2>1, <2>2
<1>6. SubSeq(info, A + 3 + Len(part), Len(info)) = id
  <2>1. CASE Len(id) = 0
    <3>1. id = <<>>
      BY <2>1, EmptySeq
    <3>2. Len(info) < A + 3 + Len(part) /\ Len(info) \in Int /\ A + 3 + Len(part) \in Int
      BY <1>2, <1>3, <1>4, <2>1
    <3> QED BY <3>1, <3>2, SubSeqEmpty
  <2>2. CASE Len(id) > 0
    <3>1. /\ 2 + Len(part) \in 1..Len(rest) /\ Len(rest) \in 1..Len(rest)
          /\ A + 1 + (2 + Len(part)) = A + 3 + Len(part) /\ A + 1 + Len(rest) = Len(info)
      BY <1>2, <1>3, <1>4, <2>2
    <3>2. SubSeq(info, A + 1 + (2 + Len(part)), A + 1 + Len(rest))
            = SubSeq(rest, 2 + Len(part), Len(rest))
      BY <1>3, <3>1
    <3> QED BY <1>2, <2>2, <3>1, <3>2
  <2>3. Len(id) = 0 \/ Len(id) > 0
    BY <1>4
  <2> QED BY <2>1, <2>2, <2>3, Zenon
<1>7. Len(info) = 2 + A + Len(part) + Len(id)
  BY <1>2, <1>3, <1>4
<1> QED BY <1>1, <1>3, <1>5, <1>6, <1>7 DEF A

(* A frame acknowledges an id to our_id exactly when its addressee is      *)
(* our_id, its part reads ack, and the id has one to kMaxAckIdLen          *)
(* characters.                                                             *)
LEMMA AckOfSent ==
  ASSUME NEW to, IsWord(to, kAddresseeLen),
         NEW part \in Seq(Characters), Len(part) = 3, NEW id \in Seq(Characters),
         NEW frame, frame # Refused, frame.info = Sent(to, part, id), NEW our_id
  PROVE  AckedId(frame, our_id)
           = IF to = our_id /\ part = Ack /\ Len(id) \in 1..kMaxAckIdLen THEN id ELSE <<>>
<1> DEFINE info == Sent(to, part, id)
           A == kAddresseeLen
<1>1. /\ Len(info) = 2 + A + 3 + Len(id) /\ info[1] = ":" /\ Addressee(info) = to
      /\ SubSeq(info, A + 2, A + 2 + 3) = <<":">> \o part
      /\ SubSeq(info, A + 3 + 3, Len(info)) = id
  <2>1. /\ Len(info) = 2 + A + Len(part) + Len(id) /\ info[1] = ":" /\ Addressee(info) = to
        /\ SubSeq(info, A + 2, A + 2 + Len(part)) = <<":">> \o part
        /\ SubSeq(info, A + 3 + Len(part), Len(info)) = id
    BY SentParts
  <2> HIDE DEF info, A
  <2> QED BY <2>1
<1>2. A + 2 + 3 = A + 5 /\ A + 3 + 3 = A + 6 /\ Len(id) \in Nat /\ A \in Nat
  BY Sizes
<1>3. (<<":">> \o part = <<":", "a", "c", "k">>) <=> part = Ack
  <2>1. /\ <<":">> \in Seq(Characters) /\ Ack \in Seq(Characters) /\ Len(Ack) = 3
    <3>1. ":" \in Characters /\ "a" \in Characters /\ "c" \in Characters /\ "k" \in Characters
      BY Ax25Assumption
    <3> QED BY <3>1 DEF Ack
  <2>2. <<":">> \o Ack = <<":", "a", "c", "k">>
    <3>1. Ack[1] = "a" /\ Ack[2] = "c" /\ Ack[3] = "k" /\ Len(<<":">>) = 1 /\ <<":">>[1] = ":"
      BY DEF Ack
    <3>2. /\ <<":">> \o Ack \in Seq(Characters) /\ Len(<<":">> \o Ack) = 4
          /\ \A i \in 1..4 : (<<":">> \o Ack)[i] = IF i <= 1 THEN <<":">>[i] ELSE Ack[i - 1]
      <4> DEFINE sep == <<":">>
      <4>1. sep \in Seq(Characters) /\ Len(sep) = 1
        BY <2>1, <3>1
      <4> HIDE DEF sep
      <4>2. /\ sep \o Ack \in Seq(Characters) /\ Len(sep \o Ack) = 4
            /\ \A i \in 1..4 : (sep \o Ack)[i] = IF i <= 1 THEN sep[i] ELSE Ack[i - 1]
        <5>1. /\ sep \o Ack \in Seq(Characters) /\ Len(sep \o Ack) = Len(sep) + Len(Ack)
              /\ \A i \in 1..Len(sep) + Len(Ack) :
                   (sep \o Ack)[i] = IF i <= Len(sep) THEN sep[i] ELSE Ack[i - Len(sep)]
          BY <2>1, <4>1, ConcatProperties, Zenon
        <5>2. Len(sep) + Len(Ack) = 4
          BY <2>1, <4>1
        <5> QED BY <4>1, <5>1, <5>2
      <4> QED BY <4>2 DEF sep
    <3> DEFINE whole == <<":">> \o Ack
               acked_text == <<":", "a", "c", "k">>
    <3>3. whole[1] = ":" /\ whole[2] = "a" /\ whole[3] = "c" /\ whole[4] = "k"
      BY <3>1, <3>2
    <3>4. acked_text \in Seq(Characters) /\ Len(acked_text) = 4
      <4>1. ":" \in Characters /\ "a" \in Characters /\ "c" \in Characters /\ "k" \in Characters
        BY Ax25Assumption
      <4> QED BY <4>1
    <3>5. \A i \in 1..4 : whole[i] = acked_text[i]
      <4> HIDE DEF whole
      <4> QED BY <3>3
    <3> QED BY <3>2, <3>4, <3>5, SeqEqual
  <2>3. <<":">> \o part = <<":">> \o Ack => part = Ack
    BY <2>1, ConcatSimplifications
  <2> QED BY <2>2, <2>3
<1> HIDE DEF info
<1>4. Len(info) >= A + 5
  BY <1>1, <1>2
<1> HIDE DEF A
<1>5. frame.info = info
  BY DEF info
<1>6. SubSeq(info, A + 2, A + 5) = <<":">> \o part /\ SubSeq(info, A + 6, Len(info)) = id
  BY <1>1, <1>2
<1>7. AckedId(frame, our_id)
        = IF /\ frame # Refused
             /\ Len(info) >= A + 5 /\ info[1] = ":"
             /\ Addressee(info) = our_id
             /\ SubSeq(info, A + 2, A + 5) = <<":", "a", "c", "k">>
             /\ Len(SubSeq(info, A + 6, Len(info))) \in 1..kMaxAckIdLen
          THEN SubSeq(info, A + 6, Len(info)) ELSE <<>>
  BY <1>5, Zenon DEF AckedId, IsFor, A
<1> QED BY <1>1, <1>3, <1>4, <1>6, <1>7, Zenon

(* What a receiver finds in the information field that encode_message()    *)
(* makes.                                                                  *)
LEMMA Message ==
  ASSUME NEW to, IsWord(to, kAddrCallsignMaxLen), NEW n \in 0..15,
         NEW text \in Seq(Characters), NEW id \in Seq(Characters)
  PROVE  LET info == encode_message(to, n, text, id) IN
           /\ Len(info) = kAddresseeLen + 3 + Len(text) + Len(id)
           /\ Addressee(info) = StationId(to, n)
           /\ SubSeq(info, kAddresseeLen + 2, Len(info)) = <<":">> \o text \o <<"{">> \o id
<1> DEFINE A == kAddresseeLen
           head == <<":">> \o Padded(StationId(to, n), A)
           rest == ((<<":">> \o text) \o <<"{">>) \o id
           info == head \o rest
<1>0. IsWord(StationId(to, n), A)
  BY StationIds
<1>1. <<":">> \in Seq(Characters) /\ <<"{">> \in Seq(Characters) /\ head \in Seq(Characters)
  <2>1. ":" \in Characters /\ "{" \in Characters
    BY Ax25Assumption
  <2>2. <<":">> \in Seq(Characters) /\ <<"{">> \in Seq(Characters)
    <3>1. \A c \in Characters : <<c>> \in Seq(Characters)
      OBVIOUS
    <3> QED BY <2>1, <3>1, Zenon
  <2>3. Padded(StationId(to, n), A) \in Seq(Characters)
    BY <1>0, TrimmedPadded, Sizes
  <2> QED BY <2>2, <2>3, ConcatProperties
<1>2. /\ <<":">> \o text \in Seq(Characters) /\ Len(<<":">> \o text) = 1 + Len(text)
      /\ (<<":">> \o text) \o <<"{">> \in Seq(Characters)
      /\ Len((<<":">> \o text) \o <<"{">>) = 2 + Len(text)
      /\ rest \in Seq(Characters) /\ Len(rest) = 2 + Len(text) + Len(id)
  <2> DEFINE sep == <<":">>
             brace == <<"{">>
  <2>1. Len(sep) = 1 /\ Len(brace) = 1 /\ sep \in Seq(Characters) /\ brace \in Seq(Characters)
    BY <1>1
  <2> HIDE DEF sep, brace
  <2>2. sep \o text \in Seq(Characters) /\ Len(sep \o text) = 1 + Len(text)
    BY <2>1, ConcatProperties
  <2>3. (sep \o text) \o brace \in Seq(Characters) /\ Len((sep \o text) \o brace) = 2 + Len(text)
    <3> DEFINE x == sep \o text
    <3>1. x \in Seq(Characters) /\ Len(x) = 1 + Len(text) /\ Len(text) \in Nat
      BY <2>2
    <3> HIDE DEF x
    <3>2. x \o brace \in Seq(Characters) /\ Len(x \o brace) = Len(x) + Len(brace)
      BY <2>1, <3>1, ConcatProperties
    <3>3. Len(x \o brace) = 2 + Len(text)
      BY <2>1, <3>1, <3>2
    <3> QED BY <3>2, <3>3 DEF x
  <2>4. /\ ((sep \o text) \o brace) \o id \in Seq(Characters)
        /\ Len(((sep \o text) \o brace) \o id) = 2 + Len(text) + Len(id)
    <3> DEFINE x == (sep \o text) \o brace
    <3>1. x \in Seq(Characters) /\ Len(x) = 2 + Len(text)
      BY <2>3
    <3> HIDE DEF x
    <3>2. x \o id \in Seq(Characters) /\ Len(x \o id) = Len(x) + Len(id)
      BY <3>1, ConcatProperties
    <3> QED BY <3>1, <3>2 DEF x
  <2> QED BY <2>2, <2>3, <2>4 DEF sep, brace
<1>3. encode_message(to, n, text, id) = info
  <2>1. \A y, z \in Seq(Characters) : (head \o y) \o z = head \o (y \o z)
    <3> HIDE DEF head
    <3> QED BY <1>1, Assoc
  <2>2. (head \o <<":">>) \o text = head \o (<<":">> \o text)
    BY <1>1, <2>1, Zenon
  <2>3. (head \o (<<":">> \o text)) \o <<"{">> = head \o ((<<":">> \o text) \o <<"{">>)
    BY <1>1, <1>2, <2>1, Zenon
  <2>4. (head \o ((<<":">> \o text) \o <<"{">>)) \o id = info
    BY <1>1, <1>2, <2>1, Zenon
  <2>5. encode_message(to, n, text, id) = (((head \o <<":">>) \o text) \o <<"{">>) \o id
    BY DEF encode_message
  <2> QED BY <2>2, <2>3, <2>4, <2>5
<1> HIDE DEF rest
<1>4. /\ Len(info) = 1 + A + Len(rest) /\ Addressee(info) = StationId(to, n)
      /\ \A k, m \in 1..Len(rest) : SubSeq(info, A + 1 + k, A + 1 + m) = SubSeq(rest, k, m)
  BY <1>0, <1>2, Named
<1>5. Len(text) \in Nat /\ Len(id) \in Nat /\ A \in Nat
  BY Sizes
<1> HIDE DEF A, info
<1>a. Len(rest) = 2 + Len(text) + Len(id)
  BY <1>2
<1>b. Len(info) = 1 + A + Len(rest)
  BY <1>4
<1>6. /\ 1 \in 1..Len(rest) /\ Len(rest) \in 1..Len(rest)
      /\ A + 1 + 1 = A + 2 /\ A + 1 + Len(rest) = Len(info)
      /\ Len(info) = A + 3 + Len(text) + Len(id)
  BY <1>a, <1>b, <1>5
<1>7. SubSeq(info, A + 1 + 1, A + 1 + Len(rest)) = SubSeq(rest, 1, Len(rest))
  BY <1>4, <1>6
<1>8. SubSeq(rest, 1, Len(rest)) = rest
  BY <1>2, SubSeqFull
<1>9. SubSeq(info, A + 2, Len(info)) = rest
  BY <1>6, <1>7, <1>8
<1> QED BY <1>3, <1>4, <1>6, <1>9 DEF rest, A

(* What goes out through a digipeater or none is refused, or it has the    *)
(* body that was sent; it is refused only when it is too long.             *)
LEMMA Wired ==
  ASSUME NEW info \in Seq(Characters), NEW via \in 0..1
  PROVE  LET w == Wire(info, via) IN
           /\ decode(w) = Refused \/ decode(w).info = info
           /\ Len(info) <= kMaxInfoLen => decode(w) # Refused /\ decode(w).info = info
           /\ DOMAIN w = {"addr", "info"}
<1> DEFINE S == {Tocall, Peer, Digipeater}
           path == [i \in 1..via |-> Digipeater]
           first == <<Tocall, Peer>>
           addr == first \o path
           w == Wire(info, via)
<1>1. via \in Nat /\ path \in Seq(S) /\ Len(path) = via
  <2> HIDE DEF S
  <2>1. Digipeater \in S
    BY DEF S
  <2>2. path \in [1..via -> S] /\ via \in Nat
    BY <2>1
  <2> HIDE DEF path
  <2> QED BY <2>2
<1>2. first \in Seq(S) /\ Len(first) = 2 /\ first[1] = Tocall
  OBVIOUS
<1> HIDE DEF S, path, first
<1>3. addr \in Seq(S) /\ Len(addr) = 2 + via /\ addr[1] = Tocall
  <2>1. /\ addr \in Seq(S) /\ Len(addr) = Len(first) + Len(path)
        /\ \A i \in 1..Len(first) + Len(path) :
             addr[i] = IF i <= Len(first) THEN first[i] ELSE path[i - Len(first)]
    BY <1>1, <1>2, ConcatProperties
  <2>2. 1 \in 1..Len(first) + Len(path) /\ 1 <= Len(first) /\ Len(first) + Len(path) = 2 + via
    BY <1>1, <1>2
  <2> QED BY <1>2, <2>1, <2>2
<1> HIDE DEF addr
<1>4. w = encode([addr |-> addr, info |-> info])
  BY DEF Wire, addr, first, path
<1>5. ASSUME Len(info) <= kMaxInfoLen
      PROVE  decode(w) # Refused /\ decode(w).info = info /\ DOMAIN w = {"addr", "info"}
  <2>1. Len(addr) \in 2..kMaxAddresses
    BY <1>1, <1>3, Sizes
  <2>2. decode(w) # Refused /\ decode(w).info = info
    BY <1>3, <1>4, <1>5, <2>1, RoundTrip
  <2>3. DOMAIN w = {"addr", "info"}
    BY <1>4, <1>5, <2>1 DEF encode
  <2> QED BY <2>2, <2>3
<1>6. ASSUME ~(Len(info) <= kMaxInfoLen)
      PROVE  decode(w) = Refused /\ DOMAIN w = {"addr", "info"}
  <2>1. w = Refused
    BY <1>4, <1>6 DEF encode
  <2>2. Len(<<>>) \notin 2..kMaxAddresses
    BY Sizes
  <2> QED BY <2>1, <2>2 DEF decode, Refused
<1> HIDE DEF w
<1>7. /\ decode(w) = Refused \/ decode(w).info = info
      /\ Len(info) <= kMaxInfoLen => decode(w) # Refused /\ decode(w).info = info
      /\ DOMAIN w = {"addr", "info"}
  BY <1>5, <1>6
<1> QED BY <1>7 DEF w

(* A frame of one address and one of more than kMaxAddresses are refused.  *)
LEMMA BadAddresses ==
  ASSUME NEW w, DOMAIN w = {"addr", "info"}
  PROVE  decode(OneAddress(w)) = Refused /\ decode(TooMany(w)) = Refused
<1>1. decode(OneAddress(w)) = Refused
  <2> DEFINE e == encode_address(Peer, TRUE, TRUE)
  <2> HIDE DEF e
  <2>1. OneAddress(w).addr = <<e>>
    BY DEF OneAddress, e
  <2>2. Len(<<e>>) = 1 /\ 1 \notin 2..kMaxAddresses
    OBVIOUS
  <2>3. Len(OneAddress(w).addr) \notin 2..kMaxAddresses
    BY <2>1, <2>2
  <2> HIDE <2>1
  <2> QED BY <2>3, Zenon DEF decode
<1>2. decode(TooMany(w)) = Refused
  <2> DEFINE n == kMaxAddresses + 1
             field == [i \in 1..n |-> encode_address(Digipeater, i = 1, i = n)]
             T == {encode_address(Digipeater, i = 1, i = n) : i \in 1..n}
  <2>1. TooMany(w).addr = field
    BY DEF TooMany
  <2>2. field \in [1..n -> T] /\ n \in Nat /\ n \notin 2..kMaxAddresses
    BY Sizes
  <2> HIDE DEF field, T, n
  <2>3. Len(field) = n
    BY <2>2
  <2>4. Len(TooMany(w).addr) \notin 2..kMaxAddresses
    BY <2>1, <2>2, <2>3
  <2> QED BY <2>4, Zenon DEF decode
<1> QED BY <1>1, <1>2

(* An acknowledgment with an addressee of eight characters is none: what   *)
(* should be a colon is the a of ack.                                      *)
LEMMA NarrowNotAcked ==
  ASSUME NEW to, IsWord(to, kAddresseeLen), NEW id \in Seq(Characters), Len(id) > 0,
         NEW frame, frame.info = Narrow(to) \o <<":">> \o Ack \o id, NEW our_id
  PROVE  /\ AckedId(frame, our_id) = <<>>
         /\ Narrow(to) \o <<":">> \o Ack \o id \in Seq(Characters)
<1> DEFINE n == kAddresseeLen - 1
           pad == Padded(to, n)
           head == <<":">> \o pad
           rest == <<":">> \o (Ack \o id)
           info == head \o rest
<1>1. n \in Nat /\ kAddresseeLen = n + 1
  BY Sizes
<1>2. pad \in Seq(Characters) /\ Len(pad) = n
  <2>1. to \in Seq(Characters)
    BY Words, Sizes
  <2> HIDE DEF n
  <2>2. pad \in [1..n -> Characters]
    BY <2>1, <1>1, Letters DEF Padded
  <2> HIDE DEF pad
  <2> QED BY <1>1, <2>2
<1>3. /\ ":" \in Characters /\ <<":">> \in Seq(Characters) /\ Ack \in Seq(Characters)
      /\ Len(Ack) = 3 /\ Ack[1] = "a" /\ Len(<<":">>) = 1
  <2>1. ":" \in Characters /\ "a" \in Characters /\ "c" \in Characters /\ "k" \in Characters
    BY Ax25Assumption
  <2> QED BY <2>1 DEF Ack
<1> HIDE DEF n, pad
<1>4. head \in Seq(Characters)
  BY <1>2, <1>3, ConcatProperties
<1>5. Narrow(to) \o <<":">> \o Ack \o id = info
  <2>1. Narrow(to) = head
    BY DEF Narrow, head, pad, n
  <2> HIDE DEF head
  <2>2. ASSUME NEW y \in Seq(Characters)
        PROVE  \A h \in Seq(Characters) : ((h \o y) \o Ack) \o id = h \o (y \o (Ack \o id))
    BY <1>3, Concats
  <2>3. ((head \o <<":">>) \o Ack) \o id = head \o (<<":">> \o (Ack \o id))
    BY <1>3, <1>4, <2>2, Zenon
  <2> QED BY <2>1, <2>3
<1>6. /\ rest \in Seq(Characters) /\ Len(rest) = 4 + Len(id)
      /\ SubSeq(rest, 1, 4) = <<":">> \o Ack
  <2>1. /\ rest \in Seq(Characters) /\ Len(rest) = 1 + Len(Ack) + Len(id)
        /\ SubSeq(rest, 1, 1 + Len(Ack)) = <<":">> \o Ack
    BY <1>3, Tailored
  <2>2. 1 + Len(Ack) = 4 /\ 1 + Len(Ack) + Len(id) = 4 + Len(id)
    BY <1>3
  <2> HIDE DEF rest
  <2> QED BY <2>1, <2>2
<1>7. rest[2] = "a"
  <2> DEFINE sep == <<":">>
  <2>1. sep \in Seq(Characters) /\ Len(sep) = 1
    BY <1>3
  <2> HIDE DEF sep, rest
  <2>2. \A i \in 1..Len(sep) + Len(Ack) :
           (sep \o Ack)[i] = IF i <= Len(sep) THEN sep[i] ELSE Ack[i - Len(sep)]
    BY <1>3, <2>1, ConcatProperties, Zenon
  <2>3. (sep \o Ack)[2] = Ack[1]
    <3>1. 2 \in 1..Len(sep) + Len(Ack) /\ ~(2 <= Len(sep)) /\ 2 - Len(sep) = 1
      BY <1>3, <2>1
    <3> QED BY <2>2, <3>1
  <2>4. \A i \in 1..4 : rest[i] \in Characters
    BY <1>6, ElementOfSeq
  <2>5. SubSeq(rest, 1, 4)[2] = rest[2]
    <3>1. \A i \in 1..4-1+1 : SubSeq(rest, 1, 4)[i] = rest[1+i-1]
      BY <2>4, SubSeqProperties
    <3> QED BY <3>1
  <2> QED BY <1>3, <1>6, <2>3, <2>5 DEF sep
<1> HIDE DEF rest
<1>8. /\ info \in Seq(Characters) /\ Len(info) = 1 + n + Len(rest)
      /\ \A k, m \in 1..Len(rest) : SubSeq(info, n + 1 + k, n + 1 + m) = SubSeq(rest, k, m)
  <2>1. /\ info \in Seq(Characters) /\ Len(info) = 1 + Len(pad) + Len(rest)
        /\ \A k, m \in 1..Len(rest) :
              SubSeq(info, Len(pad) + 1 + k, Len(pad) + 1 + m) = SubSeq(rest, k, m)
    <3>1. ":" \in Characters /\ pad \in Seq(Characters) /\ rest \in Seq(Characters)
      BY <1>2, <1>3, <1>6
    <3> QED BY <3>1, Header
  <2> HIDE DEF info
  <2> QED BY <1>2, <2>1
<1> HIDE DEF head, info
<1>9. SubSeq(info, kAddresseeLen + 2, kAddresseeLen + 5) # <<":", "a", "c", "k">>
  <2>1. 2 \in 1..Len(rest) /\ 5 \in 1..Len(rest) /\ n + 1 + 2 = kAddresseeLen + 2
        /\ n + 1 + 5 = kAddresseeLen + 5
    BY <1>1, <1>6
  <2>2. SubSeq(info, n + 1 + 2, n + 1 + 5) = SubSeq(rest, 2, 5)
    BY <1>8, <2>1
  <2>3. SubSeq(rest, 2, 5)[1] = rest[2]
    <3>1. \A i \in 2..5 : rest[i] \in Characters
      BY <1>6, <2>1, ElementOfSeq
    <3>2. \A i \in 1..5-2+1 : SubSeq(rest, 2, 5)[i] = rest[2+i-1]
      BY <3>1, SubSeqProperties
    <3> QED BY <3>2
  <2>4. <<":", "a", "c", "k">>[1] = ":"
    OBVIOUS
  <2> QED BY <1>7, <2>1, <2>2, <2>3, <2>4
<1>10. frame.info = info
  BY <1>5
<1>11. AckedId(frame, our_id) = <<>>
  BY <1>9, <1>10, Zenon DEF AckedId
<1> QED BY <1>5, <1>8, <1>11

(* Of the frames that may be heard aprs_task takes for an acknowledgment   *)
(* exactly what is one, and is addressed to it.                            *)
LEMMA AckedOfHeard ==
  ASSUME NEW h \in Heard, NEW our_id
  PROVE  AckedId(decode(h.wire), our_id)
           = IF h.says = "ack" /\ h.to = our_id THEN h.id ELSE <<>>
<1> DEFINE to == h.to
<1>1. IsWord(to, kAddresseeLen) /\ h \in HeardFrames(to)
  BY HeardAssumption
<1>0. \A a, b, c \in Characters :
        <<a, b, c>> \in Seq(Characters) /\ Len(<<a, b, c>>) = 3 /\ <<a, b, c>>[1] = a
  OBVIOUS
<1>2. Ack \in Seq(Characters) /\ Len(Ack) = 3 /\ Ack[1] = "a"
  <2>1. "a" \in Characters /\ "c" \in Characters /\ "k" \in Characters
    BY Ax25Assumption
  <2> QED BY <1>0, <2>1, Zenon DEF Ack
<1>a. <<"r", "e", "j">> \in Seq(Characters) /\ Len(<<"r", "e", "j">>) = 3 /\ <<"r", "e", "j">> # Ack
  <2>1. "r" \in Characters /\ "e" \in Characters /\ "j" \in Characters
    BY StationAssumption
  <2>2. <<"r", "e", "j">>[1] = "r" /\ "r" # "a"
    BY <1>0, <2>1, Zenon
  <2> QED BY <1>0, <1>2, <2>1, <2>2, Zenon
<1>b. <<"h", "i", "{">> \in Seq(Characters) /\ Len(<<"h", "i", "{">>) = 3 /\ <<"h", "i", "{">> # Ack
  <2>1. "h" \in Characters /\ "i" \in Characters /\ "{" \in Characters
    BY StationAssumption, Ax25Assumption
  <2>2. <<"h", "i", "{">>[1] = "h" /\ "h" # "a"
    BY <1>0, <2>1, Zenon
  <2> QED BY <1>0, <1>2, <2>1, <2>2, Zenon
<1>c. <<>> \in Seq(Characters) /\ Len(<<>>) = 0
  OBVIOUS
<1>3. \A f, i : AckedId(f, i) = <<>> \/ f # Refused
  BY DEF AckedId
<1>4. PICK id \in Ids :
        \/ \E via \in 0..1 : h = Frame("ack", to, id, Wire(Sent(to, Ack, id), via))
        \/ h = Frame("message", to, id, Wire(Sent(to, <<"r", "e", "j">>, id), 0))
        \/ h = Frame("message", to, id, Wire(Sent(to, <<"h", "i", "{">>, id), 0))
        \/ h = Frame("damaged", to, id, Wire(Narrow(to) \o <<":">> \o Ack \o id, 0))
        \/ h = Frame("damaged", to, id, Wire(Sent(to, Ack, <<>>), 0))
        \/ h = Frame("damaged", to, id, Wire(Sent(to, Ack, Overlong(id)), 0))
        \/ h = Frame("damaged", to, id, OneAddress(Wire(Sent(to, Ack, id), 0)))
        \/ h = Frame("damaged", to, id, TooMany(Wire(Sent(to, Ack, id), 0)))
  <2> HIDE DEF to
  <2>1. CASE h \in Acks(to)
    <3>1. PICK i \in Ids, via \in 0..1 : h = Frame("ack", to, i, Wire(Sent(to, Ack, i), via))
      BY <2>1 DEF Acks
    <3> QED BY <3>1, Zenon
  <2>2. CASE h \in UNION {NoAcks(to, i) : i \in Ids}
    <3>1. PICK i \in Ids : h \in NoAcks(to, i)
      BY <2>2
    <3>2. \/ h = Frame("message", to, i, Wire(Sent(to, <<"r", "e", "j">>, i), 0))
          \/ h = Frame("message", to, i, Wire(Sent(to, <<"h", "i", "{">>, i), 0))
          \/ h = Frame("damaged", to, i, Wire(Narrow(to) \o <<":">> \o Ack \o i, 0))
          \/ h = Frame("damaged", to, i, Wire(Sent(to, Ack, <<>>), 0))
          \/ h = Frame("damaged", to, i, Wire(Sent(to, Ack, Overlong(i)), 0))
          \/ h = Frame("damaged", to, i, OneAddress(Wire(Sent(to, Ack, i), 0)))
          \/ h = Frame("damaged", to, i, TooMany(Wire(Sent(to, Ack, i), 0)))
      <4>1. \A x, f1, f2, f3, f4, f5, f6, f7 : x \in {f1, f2, f3, f4, f5, f6, f7} =>
              x = f1 \/ x = f2 \/ x = f3 \/ x = f4 \/ x = f5 \/ x = f6 \/ x = f7
        OBVIOUS
      <4> QED BY <3>1, <4>1, Zenon DEF NoAcks
    <3> QED BY <3>2, Zenon
  <2> QED BY <1>1, <2>1, <2>2, Zenon DEF HeardFrames
<1>5. id \in Seq(Characters) /\ Len(id) \in 1..kMaxAckIdLen
  BY StationAssumption
<1>6. ASSUME NEW part \in Seq(Characters), Len(part) = 3, NEW last \in Seq(Characters),
             NEW via \in 0..1
      PROVE  /\ \/ AckedId(decode(Wire(Sent(to, part, last), via)), our_id) = <<>>
                \/ AckedId(decode(Wire(Sent(to, part, last), via)), our_id)
                     = IF to = our_id /\ part = Ack /\ Len(last) \in 1..kMaxAckIdLen
                       THEN last ELSE <<>>
             /\ Len(last) <= kMaxAckIdLen =>
                  AckedId(decode(Wire(Sent(to, part, last), via)), our_id)
                    = IF to = our_id /\ part = Ack /\ Len(last) \in 1..kMaxAckIdLen
                      THEN last ELSE <<>>
             /\ DOMAIN Wire(Sent(to, part, last), via) = {"addr", "info"}
  <2> DEFINE info == Sent(to, part, last)
             w == Wire(info, via)
             id_taken == IF to = our_id /\ part = Ack /\ Len(last) \in 1..kMaxAckIdLen
                         THEN last ELSE <<>>
  <2>1. info \in Seq(Characters) /\ Len(info) = 2 + kAddresseeLen + Len(part) + Len(last)
    BY <1>1, SentParts
  <2>2. /\ decode(w) = Refused \/ decode(w).info = info
        /\ Len(info) <= kMaxInfoLen => decode(w) # Refused /\ decode(w).info = info
        /\ DOMAIN w = {"addr", "info"}
    BY <2>1, Wired
  <2> HIDE DEF w
  <2>3. decode(w) # Refused /\ decode(w).info = info => AckedId(decode(w), our_id) = id_taken
    BY <1>1, <1>6, AckOfSent
  <2>4. Len(last) <= kMaxAckIdLen => Len(info) <= kMaxInfoLen
    <3>1. Len(last) \in Nat
      OBVIOUS
    <3> QED BY <1>6, <2>1, <3>1, Sizes
  <2> HIDE DEF info, id_taken
  <2>5. /\ AckedId(decode(w), our_id) = <<>> \/ AckedId(decode(w), our_id) = id_taken
        /\ Len(last) <= kMaxAckIdLen => AckedId(decode(w), our_id) = id_taken
        /\ DOMAIN w = {"addr", "info"}
    BY <1>3, <2>2, <2>3, <2>4
  <2> QED BY <2>5 DEF w, info, id_taken
<1> HIDE DEF to
<1>7. ASSUME NEW via \in 0..1, h = Frame("ack", to, id, Wire(Sent(to, Ack, id), via))
      PROVE  AckedId(decode(h.wire), our_id)
               = IF h.says = "ack" /\ to = our_id THEN h.id ELSE <<>>
  <2>1. h.says = "ack" /\ h.id = id /\ h.wire = Wire(Sent(to, Ack, id), via)
    BY <1>7 DEF Frame
  <2>2. Len(id) <= kMaxAckIdLen
    BY <1>5, Sizes
  <2>3. AckedId(decode(Wire(Sent(to, Ack, id), via)), our_id)
          = IF to = our_id /\ Len(id) \in 1..kMaxAckIdLen THEN id ELSE <<>>
    BY <1>2, <1>5, <1>6, <2>2
  <2> QED BY <1>5, <2>1, <2>3
<1>8. ASSUME NEW part \in Seq(Characters), Len(part) = 3, part # Ack,
             h = Frame("message", to, id, Wire(Sent(to, part, id), 0))
      PROVE  AckedId(decode(h.wire), our_id)
               = IF h.says = "ack" /\ to = our_id THEN h.id ELSE <<>>
  <2>1. h.says = "message" /\ h.wire = Wire(Sent(to, part, id), 0)
    BY <1>8 DEF Frame
  <2>2. AckedId(decode(Wire(Sent(to, part, id), 0)), our_id) = <<>>
    BY <1>5, <1>6, <1>8
  <2> QED BY <2>1, <2>2
<1>9. ASSUME h = Frame("damaged", to, id, Wire(Narrow(to) \o <<":">> \o Ack \o id, 0))
      PROVE  AckedId(decode(h.wire), our_id)
               = IF h.says = "ack" /\ to = our_id THEN h.id ELSE <<>>
  <2> DEFINE info == Narrow(to) \o <<":">> \o Ack \o id
             w == Wire(info, 0)
  <2>1. h.says = "damaged" /\ h.wire = w
    BY <1>9 DEF Frame
  <2>2. Len(id) > 0
    BY <1>5, Sizes
  <2>3. \A f : f.info = info => AckedId(f, our_id) = <<>>
    BY <1>1, <1>5, <2>2, NarrowNotAcked DEF to
  <2>4. decode(w) = Refused \/ decode(w).info = info
    <3>1. info \in Seq(Characters)
      <4>1. [info |-> info].info = info
        OBVIOUS
      <4> QED BY <1>1, <1>5, <2>2, <4>1, NarrowNotAcked DEF to
    <3> HIDE DEF info
    <3> QED BY <3>1, Wired
  <2> HIDE DEF w, info
  <2>5. AckedId(decode(w), our_id) = <<>>
    BY <1>3, <2>3, <2>4
  <2> QED BY <2>1, <2>5
<1>10. ASSUME h = Frame("damaged", to, id, Wire(Sent(to, Ack, <<>>), 0))
       PROVE  AckedId(decode(h.wire), our_id)
                = IF h.says = "ack" /\ to = our_id THEN h.id ELSE <<>>
  <2>1. h.says = "damaged" /\ h.wire = Wire(Sent(to, Ack, <<>>), 0)
    BY <1>10 DEF Frame
  <2>2. AckedId(decode(Wire(Sent(to, Ack, <<>>), 0)), our_id) = <<>>
    <3> DEFINE none == <<>>
    <3>1. none \in Seq(Characters) /\ Len(none) \notin 1..kMaxAckIdLen /\ 0 \in 0..1
      BY <1>c
    <3> HIDE DEF none
    <3>2. \/ AckedId(decode(Wire(Sent(to, Ack, none), 0)), our_id) = <<>>
          \/ AckedId(decode(Wire(Sent(to, Ack, none), 0)), our_id)
               = IF to = our_id /\ Ack = Ack /\ Len(none) \in 1..kMaxAckIdLen
                 THEN none ELSE <<>>
      BY <1>2, <1>6, <3>1, Zenon
    <3> QED BY <3>1, <3>2 DEF none
  <2> QED BY <2>1, <2>2
<1>11. ASSUME h = Frame("damaged", to, id, Wire(Sent(to, Ack, Overlong(id)), 0))
       PROVE  AckedId(decode(h.wire), our_id)
                = IF h.says = "ack" /\ to = our_id THEN h.id ELSE <<>>
  <2>1. h.says = "damaged" /\ h.wire = Wire(Sent(to, Ack, Overlong(id)), 0)
    BY <1>11 DEF Frame
  <2>2. Overlong(id) \in Seq(Characters) /\ Len(Overlong(id)) \notin 1..kMaxAckIdLen
    <3> DEFINE zeros == [i \in 1..kMaxAckIdLen |-> "0"]
    <3>1. "0" \in Characters
      BY Ax25Assumption
    <3>2. zeros \in [1..kMaxAckIdLen -> Characters] /\ kMaxAckIdLen \in Nat
      BY <3>1, Sizes
    <3> HIDE DEF zeros
    <3>3. zeros \in Seq(Characters) /\ Len(zeros) = kMaxAckIdLen
      BY <3>2
    <3>4. id \o zeros \in Seq(Characters) /\ Len(id \o zeros) = Len(id) + Len(zeros)
      BY <1>5, <3>3, ConcatProperties
    <3>5. Len(id \o zeros) \notin 1..kMaxAckIdLen
      BY <1>5, <3>2, <3>3, <3>4
    <3> QED BY <3>4, <3>5 DEF Overlong, zeros
  <2>3. AckedId(decode(Wire(Sent(to, Ack, Overlong(id)), 0)), our_id) = <<>>
    BY <1>2, <1>6, <2>2
  <2> QED BY <2>1, <2>3
<1>12. ASSUME NEW w, DOMAIN w = {"addr", "info"},
              \/ h = Frame("damaged", to, id, OneAddress(w))
              \/ h = Frame("damaged", to, id, TooMany(w))
       PROVE  AckedId(decode(h.wire), our_id)
                = IF h.says = "ack" /\ to = our_id THEN h.id ELSE <<>>
  <2>1. h.says = "damaged" /\ h.wire \in {OneAddress(w), TooMany(w)}
    BY <1>12 DEF Frame
  <2>2. decode(OneAddress(w)) = Refused /\ decode(TooMany(w)) = Refused
    BY <1>12, BadAddresses
  <2>3. AckedId(Refused, our_id) = <<>>
    BY DEF AckedId
  <2> QED BY <2>1, <2>2, <2>3
<1>13. DOMAIN Wire(Sent(to, Ack, id), 0) = {"addr", "info"}
  BY <1>2, <1>5, <1>6
<1> QED BY <1>a, <1>b, <1>4, <1>7, <1>8, <1>9, <1>10, <1>11, <1>12, <1>13 DEF to

--------------------------------------------------------------------------------
(* The SSID lags behind the callsign only while StoreCallsign is done and  *)
(* StoreSsid is not; a frame whose making saw neither has read both of     *)
(* the same identity.                                                      *)
ConfigInv ==
  /\ hpc # "ssid" => Id(callsign, ssid) = identity
  /\ hpc # "idle" => fields \in Identities
  /\ hpc = "ssid" => callsign = fields.callsign
  /\ building # Nothing /\ ~torn => hpc # "ssid" /\ building.ssid = ssid

StationInv ==
  StationTypeOK /\ ConfigInv /\ OnAirIsWhatWasAsked /\ AckTakenIffOurs

(* What may be configured and what may be sent are within their sizes.     *)
LEMMA Legal ==
  /\ \A i \in Identities :
       IsWord(i.callsign, kAddrCallsignMaxLen) /\ i.ssid \in 0..15
  /\ \A m \in Requests :
       /\ m \in [dest : Dests, text : Texts, id : Ids]
       /\ IsWord(m.dest.callsign, kAddrCallsignMaxLen) /\ m.dest.ssid \in 0..15
       /\ m.text \in Seq(Characters) /\ m.id \in Seq(Characters)
       /\ kAddresseeLen + 3 + Len(m.text) + Len(m.id) <= kMaxInfoLen
<1>1. \A i \in Identities : i.callsign \in Callsigns /\ i.ssid \in Ssids
  BY DEF Identities
<1>2. \A m \in Requests : /\ m \in [dest : Dests, text : Texts, id : Ids]
                           /\ m.dest \in Dests /\ m.text \in Texts /\ m.id \in Ids
  BY DEF Requests
<1> QED BY <1>1, <1>2, StationAssumption

(* The station starts up in a good state.                                  *)
LEMMA StationInitInv == StationInit => StationInv
<1> SUFFICES ASSUME StationInit PROVE StationInv
  OBVIOUS
<1>1. Id(callsign, ssid) = identity /\ identity \in Identities
  BY DEF StationInit, Identities, Id
<1>2. StationTypeOK /\ ConfigInv
  BY <1>1 DEF StationInit, StationTypeOK, ConfigInv, NoFrame
<1>3. OnAirIsWhatWasAsked /\ AckTakenIffOurs
  BY DEF StationInit, OnAirIsWhatWasAsked, AckTakenIffOurs, Quiet
<1> QED BY <1>2, <1>3 DEF StationInv

(* A step that sends nothing cannot send what was not asked for.           *)
LEMMA Silent ==
  ASSUME NotOnAir
  PROVE  OnAirIsWhatWasAsked' /\ on_air'.by = NoId
  BY DEF NotOnAir, OnAirIsWhatWasAsked, NoFrame

(* A step that hears nothing acknowledges nothing.                         *)
LEMMA Unheard ==
  ASSUME NotHeard
  PROVE  AckTakenIffOurs'
  BY DEF NotHeard, AckTakenIffOurs, Quiet

(* What a receiver reads in a frame of the station's own, field by field.  *)
LEMMA OwnFrameRead ==
  \A c, n, info :
    IsWord(c, kAddrCallsignMaxLen) /\ n \in 0..15 /\ Len(info) <= kMaxInfoLen =>
      /\ decode(encode([make_ui_frame(c, n) EXCEPT !.info = info])) # Refused
      /\ decode(encode([make_ui_frame(c, n) EXCEPT !.info = info])).info = info
      /\ decode(encode([make_ui_frame(c, n) EXCEPT !.info = info])).addr[2].callsign
           = InUpper(c)
      /\ decode(encode([make_ui_frame(c, n) EXCEPT !.info = info])).addr[2].ssid = n
<1> SUFFICES ASSUME NEW c, NEW n, NEW info,
                    IsWord(c, kAddrCallsignMaxLen), n \in 0..15, Len(info) <= kMaxInfoLen
             PROVE  LET f == decode(encode([make_ui_frame(c, n) EXCEPT !.info = info])) IN
                      /\ f # Refused /\ f.info = info
                      /\ f.addr[2].callsign = InUpper(c) /\ f.addr[2].ssid = n
  OBVIOUS
<1> QED BY OwnFrame

(* The frame that is encoded under a callsign c and an SSID n carries the  *)
(* message that was asked for.                                             *)
LEMMA FrameSent ==
  ASSUME NEW m \in Requests, NEW n \in Ssids,
         NEW c, IsWord(c, kAddrCallsignMaxLen),
         on_air'.wire = encode([make_ui_frame(c, n) EXCEPT
            !.info = encode_message(m.dest.callsign, m.dest.ssid, m.text, m.id)]),
         on_air'.msg = <<m>>,
         on_air'.by # NoId => on_air'.by = Id(c, n)
  PROVE  OnAirIsWhatWasAsked'
<1> DEFINE info == encode_message(m.dest.callsign, m.dest.ssid, m.text, m.id)
           frame == decode(encode([make_ui_frame(c, n) EXCEPT !.info = info]))
<1>1. /\ Len(info) <= kMaxInfoLen
      /\ Addressee(info) = StationId(m.dest.callsign, m.dest.ssid)
      /\ SubSeq(info, kAddresseeLen + 2, Len(info)) = <<":">> \o m.text \o <<"{">> \o m.id
  <2>1. /\ IsWord(m.dest.callsign, kAddrCallsignMaxLen) /\ m.dest.ssid \in 0..15
        /\ m.text \in Seq(Characters) /\ m.id \in Seq(Characters)
        /\ kAddresseeLen + 3 + Len(m.text) + Len(m.id) <= kMaxInfoLen
    BY Legal
  <2> HIDE DEF info
  <2>2. Len(info) = kAddresseeLen + 3 + Len(m.text) + Len(m.id)
    BY <2>1, Message DEF info
  <2>3. /\ Addressee(info) = StationId(m.dest.callsign, m.dest.ssid)
        /\ SubSeq(info, kAddresseeLen + 2, Len(info)) = <<":">> \o m.text \o <<"{">> \o m.id
    BY <2>1, Message DEF info
  <2>4. Len(info) <= kMaxInfoLen
    BY <2>1, <2>2
  <2> QED BY <2>3, <2>4
<1> HIDE DEF info
<1>2. n \in 0..15
  BY StationAssumption
<1>3. /\ frame # Refused /\ frame.info = info
      /\ frame.addr[2].callsign = InUpper(c) /\ frame.addr[2].ssid = n
  <2>1. IsWord(c, kAddrCallsignMaxLen) /\ n \in 0..15 /\ Len(info) <= kMaxInfoLen
    BY <1>1, <1>2
  <2> QED BY ONLY <2>1, OwnFrameRead DEF frame
<1> HIDE DEF frame
<1>4. decode(on_air'.wire) = frame
  BY DEF frame, info
<1>5. on_air'.by # NoId => on_air'.by.callsign = c /\ on_air'.by.ssid = n
  BY DEF Id
<1>6. on_air'.msg # <<>> /\ Range(on_air'.msg) = {m}
  BY DEF Range
<1> QED BY <1>1, <1>3, <1>4, <1>5, <1>6, Zenon DEF OnAirIsWhatWasAsked

(* beacon_now sends the position as the station that is configured.        *)
LEMMA BeaconSent ==
  ASSUME StationInv, Beacon
  PROVE  OnAirIsWhatWasAsked' /\ on_air'.by \in Identities \cup {NoId}
<1> DEFINE frame == decode(encode([make_ui_frame(callsign, ssid) EXCEPT !.info = encode_position]))
<1>1. IsWord(callsign, kAddrCallsignMaxLen) /\ ssid \in 0..15 /\ Id(callsign, ssid) = identity
      /\ identity \in Identities
  <2>1. Id(callsign, ssid) \in Identities /\ identity \in Identities
        /\ Id(callsign, ssid) = identity
    BY DEF StationInv, StationTypeOK, ConfigInv, Beacon
  <2> QED BY <2>1, Legal DEF Id
<1>2. Len(encode_position) <= kMaxInfoLen
  <2>1. Len(encode_position) = 2
    BY DEF encode_position
  <2> QED BY <2>1, Sizes
<1>3. /\ frame # Refused /\ frame.info = encode_position
      /\ frame.addr[2].callsign = InUpper(callsign) /\ frame.addr[2].ssid = ssid
  BY <1>1, <1>2, OwnFrame
<1> HIDE DEF frame
<1>4. decode(on_air'.wire) = frame /\ on_air'.msg = <<>> /\ on_air'.by = identity
  BY DEF frame, Beacon
<1>5. on_air'.by.callsign = callsign /\ on_air'.by.ssid = ssid
  BY <1>1, <1>4 DEF Id
<1>6. Range(on_air'.msg) = {}
  BY <1>4 DEF Range
<1> QED BY <1>1, <1>3, <1>4, <1>5, <1>6 DEF OnAirIsWhatWasAsked

(* What is taken of a frame that is heard, by the identity as it is in     *)
(* that moment.                                                            *)
LEMMA HearSettles ==
  ASSUME StationInv, NEW h \in Heard, Hear(h)
  PROVE  AckTakenIffOurs'
<1> SUFFICES ASSUME heard'.by # NoId, heard'.by.callsign = InUpper(heard'.by.callsign)
             PROVE  acked' = IF heard'.says = "ack" /\ heard'.to = OnAirName(heard'.by)
                             THEN heard'.id ELSE <<>>
  BY Zenon DEF AckTakenIffOurs
<1>1. hpc # "ssid" /\ heard'.by = identity
  BY DEF Hear
<1>2. identity.callsign = callsign /\ identity.ssid = ssid
  BY <1>1 DEF StationInv, ConfigInv, Id
<1>3. OnAirName(heard'.by) = StationId(callsign, ssid)
  BY <1>1, <1>2 DEF OnAirName
<1>4. acked' = AckedId(decode(h.wire), StationId(callsign, ssid))
      /\ heard'.says = h.says /\ heard'.to = h.to /\ heard'.id = h.id
  BY DEF Hear
<1> QED BY <1>3, <1>4, AckedOfHeard

(* Every step keeps the station's invariant.                               *)
LEMMA StationStep == StationInv /\ [StationNext]_stationVars => StationInv'
<1> SUFFICES ASSUME StationInv, [StationNext]_stationVars PROVE StationInv'
  OBVIOUS
<1> USE DEF StationInv
<1>1. ASSUME NEW id \in Identities, Write(id) PROVE StationInv'
  <2>1. StationTypeOK' /\ ConfigInv'
    BY <1>1, Silent DEF Write, StationTypeOK, ConfigInv, config
  <2> QED BY <1>1, <2>1, Silent, Unheard DEF Write
<1>2. CASE StoreCallsign
  <2>1. fields \in Identities /\ Id(callsign, ssid) \in Identities /\ identity \in Identities
    BY <1>2 DEF StoreCallsign, StationTypeOK, ConfigInv
  <2>2. Id(callsign, ssid)' \in Identities
    BY <1>2, <2>1 DEF StoreCallsign, Id, Identities
  <2>3. StationTypeOK'
    BY <1>2, <2>1, <2>2, Silent DEF StoreCallsign, StationTypeOK
  <2>4. ConfigInv'
    BY <1>2, <2>1 DEF StoreCallsign, ConfigInv
  <2> QED BY <1>2, <2>3, <2>4, Silent, Unheard DEF StoreCallsign
<1>3. CASE StoreSsid
  <2>1. fields \in Identities /\ callsign = fields.callsign
    BY <1>3 DEF StoreSsid, StationTypeOK, ConfigInv
  <2>2. Id(fields.callsign, fields.ssid) = fields
    BY <2>1 DEF Id, Identities
  <2>3. Id(callsign, ssid)' = fields /\ identity' = fields
    BY <1>3, <2>1, <2>2 DEF StoreSsid, Id
  <2>4. StationTypeOK'
    BY <1>3, <2>1, <2>3, Silent DEF StoreSsid, StationTypeOK
  <2>5. ConfigInv'
    BY <1>3, <2>3 DEF StoreSsid, ConfigInv
  <2> QED BY <1>3, <2>4, <2>5, Silent, Unheard DEF StoreSsid
<1>4. CASE Beacon
  <2>1. StationTypeOK' /\ ConfigInv'
    BY <1>4, BeaconSent DEF Beacon, StationTypeOK, ConfigInv, config, handler
  <2> QED BY <1>4, <2>1, BeaconSent, Unheard DEF Beacon
<1>5. ASSUME NEW m \in Requests, FrameStart(m) PROVE StationInv'
  <2>1. StationTypeOK' /\ ConfigInv'
    BY <1>5, Silent DEF FrameStart, StationTypeOK, ConfigInv, config, handler, Id, Identities
  <2> QED BY <1>5, <2>1, Silent, Unheard DEF FrameStart
<1>6. CASE FrameEncode
  <2>1. /\ building.msg \in Requests /\ building.ssid \in Ssids
        /\ IsWord(callsign, kAddrCallsignMaxLen)
    BY <1>6, Legal DEF FrameEncode, StationTypeOK, Id
  <2>2. /\ on_air'.by \in Identities \cup {NoId}
        /\ on_air'.by # NoId => on_air'.by = Id(callsign, building.ssid)
    BY <1>6 DEF FrameEncode, StationTypeOK, ConfigInv
  <2>3. OnAirIsWhatWasAsked'
    <3>1. /\ on_air'.wire = encode([make_ui_frame(callsign, building.ssid) EXCEPT
               !.info = encode_message(building.msg.dest.callsign, building.msg.dest.ssid,
                                       building.msg.text, building.msg.id)])
          /\ on_air'.msg = <<building.msg>>
      BY <1>6 DEF FrameEncode
    <3> DEFINE c == callsign
               n == building.ssid
               m == building.msg
    <3> HIDE DEF c, n, m
    <3> QED BY <2>1, <2>2, <3>1, FrameSent DEF c, n, m
  <2>4. StationTypeOK' /\ ConfigInv'
    BY <1>6, <2>2 DEF FrameEncode, StationTypeOK, ConfigInv, config, handler
  <2> QED BY <1>6, <2>3, <2>4, Unheard DEF FrameEncode
<1>7. ASSUME NEW h \in Heard, Hear(h) PROVE StationInv'
  <2>1. StationTypeOK' /\ ConfigInv'
    BY <1>7, Silent DEF Hear, StationTypeOK, ConfigInv, config, handler
  <2> QED BY <1>7, <2>1, Silent, HearSettles DEF Hear
<1>8. CASE UNCHANGED stationVars
  <2>1. StationTypeOK' /\ ConfigInv'
    BY <1>8 DEF stationVars, config, handler, StationTypeOK, ConfigInv
  <2>2. OnAirIsWhatWasAsked' /\ AckTakenIffOurs'
    BY <1>8 DEF stationVars, OnAirIsWhatWasAsked, AckTakenIffOurs
  <2> QED BY <2>1, <2>2
<1> QED BY <1>1, <1>2, <1>3, <1>4, <1>5, <1>6, <1>7, <1>8 DEF StationNext

(* Type correctness of the station, the identity it is configured with,    *)
(* and both properties: for any callsigns, messages, sizes and frames      *)
(* heard.                                                                  *)
THEOREM StationCorrect == StationSpec => []StationInv
  BY StationInitInv, StationStep, PTL DEF StationSpec

(* Who decodes a frame of this station finds in it the message and the     *)
(* station that were asked for, unless the identity changes meanwhile.     *)
THEOREM FrameIsWhatWasAsked == StationSpec => []OnAirIsWhatWasAsked
<1>1. StationInv => OnAirIsWhatWasAsked
  BY DEF StationInv
<1> QED BY <1>1, StationCorrect, PTL

(* A frame settles a message exactly when it acknowledges one to this      *)
(* station, if the callsign is in capitals.                                *)
THEOREM AckSettlesOurs == StationSpec => []AckTakenIffOurs
<1>1. StationInv => AckTakenIffOurs
  BY DEF StationInv
<1> QED BY <1>1, StationCorrect, PTL
================================================================================
