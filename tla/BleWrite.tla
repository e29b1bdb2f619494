------------------------------- MODULE BleWrite --------------------------------
(***************************************************************************)
(* A chunked write to one characteristic (Device Config, TX Request, KISS  *)
(* TX): the desktop client splits a payload and writes the chunks one      *)
(* after the other, each with a response (pakt_client.py, chunker.py); the *)
(* BLE server feeds them to the characteristic's BleChunker, whose         *)
(* completion callback runs the handler inline (BleServer.cpp,             *)
(* BleChunker.cpp). Coroutines of the client interleave between writes;    *)
(* the link may drop, or the client restart, at any moment.                *)
(***************************************************************************)
EXTENDS Integers, Sequences

CONSTANTS
  Slots,      \* kSlots: messages a chunker can have in progress (1)
  Timeout,    \* kDefaultTimeoutMs, in clock units (5 s)
  ClockMod,   \* the millisecond clock is a uint32_t: 2^32
  IdMod,      \* msg_id is one byte: 256
  RingDepth,  \* requests the handler can pass on before aprs_task drains them
  Writers,    \* coroutines of the client that may write at the same time
  MaxTotal,   \* bound: chunks of one message (kMaxChunks is 64)
  MaxMsgs     \* bound: messages written

ASSUME ChunkAssumption ==
  /\ Slots \in Nat \ {0}
  /\ Timeout \in Nat \ {0}
  /\ ClockMod \in Nat /\ ClockMod > Timeout
  /\ IdMod \in Nat \ {0}
  /\ RingDepth \in Nat \ {0}
  /\ MaxTotal \in Nat \ {0}
  /\ MaxMsgs \in Nat

VARIABLES
  slots,      \* BleChunker::slots_
  clock,      \* esp_timer_get_time() / 1000 as a uint32_t
  connected,  \* BleServer::connected_, and the client's view of the link
  msg_id,     \* PaktClient._msg_id
  writing,    \* what each coroutine is doing in _write_chunked()
  ring,       \* requests waiting for aprs_task
  sent,       \* history: chunk_total of each message, in the order begun
  used,       \* history: time since the id was last used on this link, capped
  delivered,  \* history: payloads handed to the handler
 turned_away, \* history: which of them the handler had no room for
  confirmed   \* history: per message, what the client knows of it

client == <<msg_id, writing, sent>>
vars == <<slots, clock, connected, client, ring, used, delivered, turned_away, confirmed>>

SlotIds == 1 .. Slots
Indices == 0 .. MaxTotal - 1
Serials == 1 .. MaxMsgs
Ids == 0 .. IdMod - 1

\* An idle coroutine; a busy one has a message, its id, and the next chunk.
\* `age' is the time since its first chunk arrived, `alone' says that no other
\* message reached the characteristic since (both history).
Idle == [serial |-> 0, id |-> 0, total |-> 0, idx |-> 0, answer |-> "none",
         age |-> 0, alone |-> TRUE]
Busy(w) == writing[w].serial # 0
Started(w) == Busy(w) /\ (writing[w].idx > 0 \/ writing[w].answer # "none")

Init ==
  /\ slots = [i \in SlotIds |->
       [active |-> FALSE, msg_id |-> 0, chunk_total |-> 0, received_mask |-> {},
        start_ms |-> 0, payloads |-> [k \in Indices |-> 0]]]
  /\ clock = 0
  /\ connected = FALSE
  /\ msg_id = 0
  /\ writing = [w \in Writers |-> Idle]
  /\ ring = 0
  /\ sent = <<>>
  /\ used = [id \in Ids |-> Timeout]
  /\ delivered = <<>>
  /\ turned_away = {}
  /\ confirmed = [s \in Serials |-> "no"]

--------------------------------------------------------------------------------
(* BleChunker.                                                             *)

\* tick(), called by feed() only: expired messages are dropped.
Age(s) == (clock - s.start_ms) % ClockMod

Closed(s) == [s EXCEPT !.active = FALSE, !.received_mask = {}]

\* Mutant: expired messages are kept.
Ticked_Keeps == slots

Ticked == [i \in SlotIds |->
  IF slots[i].active /\ Age(slots[i]) >= Timeout THEN Closed(slots[i]) ELSE slots[i]]

\* find_slot()
Finds(tab, i, id) == tab[i].active /\ tab[i].msg_id = id

\* alloc_slot(): the first inactive slot, else the oldest.
Allocates(tab, i) ==
  IF \E j \in SlotIds : ~tab[j].active
  THEN ~tab[i].active /\ \A j \in 1 .. i - 1 : tab[j].active
  ELSE \A j \in SlotIds :
         Age(tab[i]) > Age(tab[j]) \/ (Age(tab[i]) = Age(tab[j]) /\ i <= j)

\* Mutant: the start time of the message before is kept.
Opened_KeepsStart(s, c) ==
  [s EXCEPT !.msg_id = c.id, !.chunk_total = c.total, !.received_mask = {},
            !.active = TRUE]

Opened(s, c) ==
  [s EXCEPT !.msg_id = c.id, !.chunk_total = c.total, !.received_mask = {},
            !.start_ms = clock, !.active = TRUE]

Stored(s, c) ==
  [s EXCEPT !.payloads[c.idx] = c.serial, !.received_mask = @ \cup {c.idx}]

IsComplete(s) == 0 .. s.chunk_total - 1 \subseteq s.received_mask

Assembled(s) == [k \in 1 .. s.chunk_total |-> s.payloads[k - 1]]

(* The handler (on_tx_request; on_kiss_tx and on_config_write alike): a    *)
(* valid payload goes into the ring, if there is room. What it returns is  *)
(* dropped by the completion callback.                                     *)
Handle(payload) ==
  /\ delivered' = Append(delivered, payload)
  /\ \/ UNCHANGED <<ring, turned_away>>       \* the payload is not valid
     \/ ring < RingDepth /\ ring' = ring + 1 /\ UNCHANGED turned_away
     \/ /\ ring = RingDepth
        /\ turned_away' = turned_away \cup {Len(delivered')}
        /\ UNCHANGED ring

\* feed() once the slot is chosen: ignore a duplicate, or store and complete.
Accept(tab, i, s, c) ==
  LET new == Stored(s, c) IN
  IF c.idx \notin s.received_mask /\ IsComplete(new)
  THEN slots' = [tab EXCEPT ![i] = Closed(new)] /\ Handle(Assembled(new))
  ELSE /\ slots' = [tab EXCEPT ![i] = IF c.idx \in s.received_mask THEN s ELSE new]
       /\ UNCHANGED <<ring, delivered, turned_away>>

Feed(c, ok) ==
  LET tab == Ticked IN
  IF \E i \in SlotIds : Finds(tab, i, c.id)
  THEN \E i \in SlotIds :
         /\ Finds(tab, i, c.id)
         /\ ok = (tab[i].chunk_total = c.total)
         /\ IF ok THEN Accept(tab, i, tab[i], c)
            ELSE slots' = tab /\ UNCHANGED <<ring, delivered, turned_away>>
  ELSE /\ ok
       /\ \E i \in SlotIds : Allocates(tab, i) /\ Accept(tab, i, Opened(tab[i], c), c)

--------------------------------------------------------------------------------
(* The client.                                                             *)

NextId == (msg_id + 1) % IdMod

(* A coroutine enters _write_chunked(): the next id, and the chunks. No    *)
(* code keeps an id from coming round again; with 256 of them it does so   *)
(* only after the message that had it is finished and timed out.           *)
Recent(id) == used[id] < Timeout \/ \E w \in Writers : Busy(w) /\ writing[w].id = id

StartWrite(w, total) ==
  /\ connected /\ ~Busy(w) /\ Len(sent) < MaxMsgs
  /\ msg_id' = NextId
  /\ ~Recent(msg_id')
  /\ sent' = Append(sent, total)
  /\ writing' = [writing EXCEPT ![w] =
       [Idle EXCEPT !.serial = Len(sent'), !.id = msg_id', !.total = total]]
  /\ UNCHANGED <<slots, clock, connected, ring, used, delivered, turned_away, confirmed>>

\* The same counter numbers the messages of the other characteristics.
WriteElsewhere ==
  /\ connected
  /\ msg_id' = NextId
  /\ UNCHANGED <<slots, clock, connected, writing, ring, sent, used, delivered,
                 turned_away, confirmed>>

(* One write reaches the access callback, which feeds the chunk; the       *)
(* response is success exactly when feed() says so. Or the write is        *)
(* refused because the link is not encrypted.                              *)
WriteChunk(w) ==
  LET c == writing[w] IN
  /\ connected /\ Busy(w) /\ c.answer = "none"
  /\ \E ok \in BOOLEAN :
       /\ Feed(c, ok)
       /\ writing' = [v \in Writers |->
            IF v = w THEN [c EXCEPT !.answer = IF ok THEN "success" ELSE "error"]
            ELSE [writing[v] EXCEPT !.alone = @ /\ ~Started(v)]]
  /\ used' = [used EXCEPT ![c.id] = 0]
  /\ UNCHANGED <<clock, connected, msg_id, sent, confirmed>>

WriteUnencrypted(w) ==
  /\ connected /\ Busy(w) /\ writing[w].answer = "none"
  /\ writing' = [writing EXCEPT ![w].answer = "error"]
  /\ UNCHANGED <<slots, clock, connected, msg_id, ring, sent, used, delivered,
                 turned_away, confirmed>>

\* The response arrives: the next chunk, the end of the loop, or the exception.
Response(w) ==
  LET c == writing[w] IN
  /\ connected /\ Busy(w) /\ c.answer # "none"
  /\ writing' = [writing EXCEPT ![w] =
       IF c.answer = "error" \/ c.idx + 1 = c.total THEN Idle
       ELSE [c EXCEPT !.idx = @ + 1, !.answer = "none"]]
  /\ confirmed' =
       IF c.answer = "success" /\ c.idx + 1 = c.total
       THEN [confirmed EXCEPT ![c.serial] =
               IF c.alone /\ c.age < Timeout THEN "in time" ELSE "yes"]
       ELSE confirmed
  /\ UNCHANGED <<slots, clock, connected, msg_id, ring, sent, used, delivered,
                 turned_away>>

(* The transport connects: the same client again, or a new process.        *)
Connect ==
  /\ ~connected
  /\ connected' = TRUE
  /\ msg_id' \in {msg_id, 0}
  /\ UNCHANGED <<slots, clock, writing, ring, sent, used, delivered, turned_away, confirmed>>

\* Mutant: the chunkers are not reset.
Disconnect_NoReset ==
  /\ connected
  /\ connected' = FALSE
  /\ writing' = [w \in Writers |-> Idle]
  /\ used' = [id \in Ids |-> Timeout]
  /\ UNCHANGED <<slots, clock, msg_id, ring, sent, delivered, turned_away, confirmed>>

(* The link drops: the writes under way raise in the client, and the       *)
(* server's disconnect event resets the chunkers before it advertises.     *)
Disconnect ==
  /\ connected
  /\ connected' = FALSE
  /\ writing' = [w \in Writers |-> Idle]
  /\ used' = [id \in Ids |-> Timeout]
  /\ slots' = [i \in SlotIds |-> Closed(slots[i])]
  /\ UNCHANGED <<clock, msg_id, ring, sent, delivered, turned_away, confirmed>>

\* aprs_task drains the ring on its next pass.
Drain ==
  /\ ring > 0
  /\ ring' = 0
  /\ UNCHANGED <<slots, clock, connected, client, used, delivered, turned_away, confirmed>>

Older(age) == IF age < Timeout THEN age + 1 ELSE age

(* Time passes. Bound: nobody keeps a link up with a message unfinished    *)
(* for the 49 days after which its age would wrap.                         *)
TimePasses ==
  /\ \A i \in SlotIds : slots[i].active => Age(slots[i]) < ClockMod - 1
  /\ clock' = (clock + 1) % ClockMod
  /\ used' = [id \in Ids |-> Older(used[id])]
  /\ writing' = [w \in Writers |->
       IF Started(w) THEN [writing[w] EXCEPT !.age = Older(@)] ELSE writing[w]]
  /\ UNCHANGED <<slots, connected, msg_id, ring, sent, delivered, turned_away, confirmed>>

Next ==
  \/ \E w \in Writers : \/ \E total \in 1 .. MaxTotal : StartWrite(w, total)
                        \/ WriteChunk(w) \/ WriteUnencrypted(w) \/ Response(w)
  \/ WriteElsewhere \/ Connect \/ Disconnect \/ Drain \/ TimePasses

Spec == Init /\ [][Next]_vars

--------------------------------------------------------------------------------
TypeOK ==
  /\ slots \in [SlotIds ->
       [active: BOOLEAN, msg_id: Ids, chunk_total: 0 .. MaxTotal,
        received_mask: SUBSET Indices, start_ms: 0 .. ClockMod - 1,
        payloads: [Indices -> 0 .. MaxMsgs]]]
  /\ clock \in 0 .. ClockMod - 1
  /\ connected \in BOOLEAN
  /\ msg_id \in Ids
  /\ writing \in [Writers ->
       [serial: 0 .. MaxMsgs, id: Ids, total: 0 .. MaxTotal, idx: Indices,
        answer: {"none", "success", "error"}, age: 0 .. Timeout, alone: BOOLEAN]]
  /\ ring \in 0 .. RingDepth
  /\ sent \in Seq(1 .. MaxTotal)
  /\ used \in [Ids -> 0 .. Timeout]
  /\ delivered \in Seq(Seq(0 .. MaxMsgs))
  /\ turned_away \subseteq 1 .. Len(delivered)
  /\ confirmed \in [Serials -> {"no", "yes", "in time"}]

\* The whole payload of message s: all its chunks, in order.
Whole(s) == [k \in 1 .. sent[s] |-> s]

(* What the handler gets is always the whole payload of one message, never *)
(* chunks of two: not after an aborted write, a dropped link, a restarted  *)
(* client that numbers from 0 again, an id that came round, or an eviction.*)
(* And it never gets a message twice.                                      *)
OneWholeMessage ==
  /\ \A n \in 1 .. Len(delivered) : \E s \in 1 .. Len(sent) : delivered[n] = Whole(s)
  /\ \A n, m \in 1 .. Len(delivered) : delivered[n] = delivered[m] => n = m

(* A message whose writes all succeeded, within the timeout and with no    *)
(* other message in between, has been handed over: what an earlier message *)
(* left behind never stands in its way.                                    *)
SuccessMeansDelivered ==
  \A s \in Serials : confirmed[s] = "in time" =>
    \E n \in 1 .. Len(delivered) : delivered[n] = Whole(s)

(* No payload is completed Timeout or more after its first chunk.          *)
CompletedInTime ==
  [][Len(delivered') > Len(delivered) =>
       \E w \in Writers : /\ Busy(w)
                          /\ delivered'[Len(delivered')] = Whole(writing[w].serial)
                          /\ writing[w].age < Timeout]_vars

--------------------------------------------------------------------------------
(* What the documentation says, refuted by the code.                       *)

(* AprsTaskContext.h: "Returns false if the buffer is full; the BLE        *)
(* handler should reject the write." The completion callback drops the     *)
(* result, and the client is told that the write succeeded.                *)
FullMeansRejected ==
  \A s \in 1 .. Len(sent), n \in turned_away : delivered[n] = Whole(s) => confirmed[s] = "no"
================================================================================
