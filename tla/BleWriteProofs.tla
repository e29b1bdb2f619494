---------------------------- MODULE BleWriteProofs -----------------------------
(***************************************************************************)
(* What a client writes.                                                   *)
(*                                                                         *)
(* BleWrite, chunked writes: the handler gets whole messages, each once,   *)
(* and a message confirmed in time has been handed over; for any number of *)
(* slots, coroutines, chunks and messages, any timeout and any clock.      *)
(*                                                                         *)
(* DeviceConfig, the identity it writes: NVS holds what memory holds, and  *)
(* memory what was written, across resets and failing saves.               *)
(***************************************************************************)
EXTENDS BleWrite, DeviceConfig, SharedLemmas

SlotRecords ==
  [active: BOOLEAN, msg_id: Ids, chunk_total: 0 .. MaxTotal, received_mask: SUBSET Indices,
   start_ms: 0 .. ClockMod - 1, payloads: [Indices -> 0 .. MaxMsgs]]

WriteRecords ==
  [serial: 0 .. MaxMsgs, id: Ids, total: 0 .. MaxTotal, idx: Indices,
   answer: {"none", "success", "error"}, age: 0 .. Timeout, alone: BOOLEAN]

(* A chunk of w's message was accepted, how many were, and the slot that   *)
(* has w's id.                                                             *)
Fed(w) == Busy(w) /\ (writing[w].idx > 0 \/ writing[w].answer = "success")
Arrived(w) == IF writing[w].answer = "success" THEN writing[w].idx + 1 ELSE writing[w].idx
Has(i, w) == slots[i].active /\ slots[i].msg_id = writing[w].id

Capped(age) == IF age < Timeout THEN age ELSE Timeout

(* The inductive invariant. A busy coroutine writes a message of its own   *)
(* under an id of its own, and has not got past its end.                   *)
WritersInv ==
  /\ \A w \in Writers : Busy(w) =>
       /\ writing[w].serial \in 1 .. Len(sent)
       /\ writing[w].total = sent[writing[w].serial]
       /\ writing[w].idx < writing[w].total
       /\ ~Started(w) => writing[w].age = 0
  /\ \A v, w \in Writers : Busy(v) /\ Busy(w) /\ v # w =>
       writing[v].serial # writing[w].serial /\ writing[v].id # writing[w].id

(* No two slots have the same id, and a slot is not younger than the last  *)
(* use of its id.                                                          *)
SlotsInv ==
  /\ \A i, j \in SlotIds :
       slots[i].active /\ slots[j].active /\ slots[i].msg_id = slots[j].msg_id => i = j
  /\ \A i \in SlotIds : slots[i].active => used[slots[i].msg_id] <= Age(slots[i])

(* A slot with w's id holds chunks of w's message only, all of them        *)
(* written before, and its age is that of w's first chunk. Before that     *)
(* chunk, a slot with the id is one the next tick drops.                   *)
Owned(s, w) ==
  /\ s.chunk_total = writing[w].total
  /\ s.received_mask \subseteq 0 .. Arrived(w) - 1
  /\ \A k \in s.received_mask : s.payloads[k] = writing[w].serial
  /\ 0 \in s.received_mask => writing[w].age = Capped(Age(s))

OwnerInv ==
  \A w \in Writers, i \in SlotIds : Busy(w) /\ Has(i, w) =>
    /\ ~Started(w) => Age(slots[i]) >= Timeout
    /\ Fed(w) => Owned(slots[i], w)

(* While w is alone and in time its chunks are all there, or delivered.    *)
KeptInv ==
  \A w \in Writers : Fed(w) /\ writing[w].alone /\ writing[w].age < Timeout =>
    IF Arrived(w) = writing[w].total
    THEN \E n \in 1 .. Len(delivered) : delivered[n] = Whole(writing[w].serial)
    ELSE \E i \in SlotIds : Has(i, w) /\ 0 .. Arrived(w) - 1 \subseteq slots[i].received_mask

(* A message still being written is delivered with its last chunk only.    *)
DeliveredInv ==
  \A n \in 1 .. Len(delivered), w \in Writers :
    Busy(w) /\ delivered[n] = Whole(writing[w].serial) => Arrived(w) = writing[w].total

BleInv ==
  TypeOK /\ WritersInv /\ SlotsInv /\ OwnerInv /\ KeptInv /\ DeliveredInv
  /\ OneWholeMessage /\ SuccessMeansDelivered

--------------------------------------------------------------------------------
(* Ages on the wrapping clock.                                             *)

\* Differences as sums, the form ModAdd has.
LEMMA Minus ==
  ASSUME NEW x \in Int, NEW y \in Int
  PROVE  x + (-y) = x - y /\ (x + 1) + (-y) = (x - y) + 1
  OBVIOUS

\* The age of a slot is a time the clock can tell.
LEMMA Ages ==
  ASSUME NEW s \in SlotRecords, clock \in 0 .. ClockMod - 1
  PROVE  /\ Age(s) \in Nat
         /\ s.start_ms = clock => Age(s) = 0
<1> USE ChunkAssumption
<1> DEFINE d == clock - s.start_ms
<1>1. d \in Int /\ ClockMod \in Int /\ ClockMod > 0
  BY DEF SlotRecords
<1>2. d % ClockMod \in Int /\ 0 <= d % ClockMod
  BY <1>1, DivMod, Zenon
<1>3. ASSUME d = 0 PROVE d % ClockMod = 0
  BY <1>1, <1>3, ModSmall
<1>4. s.start_ms = clock => d = 0
  BY <1>1
<1> HIDE DEF d
<1>5. Age(s) = d % ClockMod
  BY Zenon DEF Age, d
<1> QED BY <1>2, <1>3, <1>4, <1>5

(* A tick of the clock adds one to an age that does not wrap.              *)
LEMMA OneOlder ==
  ASSUME NEW s \in SlotRecords, clock \in 0 .. ClockMod - 1,
         clock' = (clock + 1) % ClockMod, Age(s) < ClockMod - 1
  PROVE  clock' \in 0 .. ClockMod - 1 /\ (clock' - s.start_ms) % ClockMod = Age(s) + 1
<1> USE ChunkAssumption
<1> DEFINE d == clock - s.start_ms
<1>1. /\ d \in Int /\ ClockMod \in Int /\ ClockMod > 0 /\ 1 \in Int
      /\ clock + 1 \in Int /\ -s.start_ms \in Int
  BY DEF SlotRecords
<1>2. clock' \in 0 .. ClockMod - 1
  BY <1>1
<1>3. d = (d \div ClockMod) * ClockMod + (d % ClockMod) /\ d \div ClockMod \in Int
      /\ d % ClockMod \in Int /\ 0 <= d % ClockMod
  BY <1>1, DivMod, Zenon
<1>4. Age(s) = d % ClockMod
  BY Zenon DEF Age
<1> DEFINE q == d \div ClockMod
           r == d % ClockMod
<1>5. d + 1 \in Int /\ r + 1 \in Int /\ 0 <= r + 1 /\ r + 1 < ClockMod
  BY <1>1, <1>3, <1>4
<1>6. d + 1 = q * ClockMod + (r + 1) /\ q \in Int
  <2> HIDE DEF d, q, r
  <2>1. d = q * ClockMod + r /\ q \in Int /\ r \in Int
    BY <1>3 DEF q, r
  <2>2. q * ClockMod \in Int
    BY <2>1, <1>1
  <2> QED BY <2>1, <2>2, <1>1
<1>7. (d + 1) % ClockMod = r + 1
  BY <1>1, <1>5, <1>6, ModUnique, Zenon
<1>8. (((clock + 1) % ClockMod) + (-s.start_ms)) % ClockMod
        = ((clock + 1) + (-s.start_ms)) % ClockMod
  BY <1>1, ModAdd, Zenon
<1>9. /\ (clock + 1) + (-s.start_ms) = d + 1
      /\ clock' + (-s.start_ms) = clock' - s.start_ms
  <2>1. s.start_ms \in Int /\ clock \in Int /\ clock' \in Int
    BY <1>2 DEF SlotRecords
  <2> QED BY <2>1, Minus, Zenon
<1>10. (clock' - s.start_ms) % ClockMod = r + 1
  BY <1>7, <1>8, <1>9, Zenon
<1> HIDE DEF d, q
<1> QED BY <1>2, <1>4, <1>10

--------------------------------------------------------------------------------
(* Slots, and the payload they assemble.                                   *)

\* The fields of a slot.
LEMMA SlotFields ==
  ASSUME NEW s \in SlotRecords
  PROVE  /\ s.active \in BOOLEAN /\ s.msg_id \in Ids /\ s.chunk_total \in 0 .. MaxTotal
         /\ s.received_mask \subseteq Indices /\ s.start_ms \in 0 .. ClockMod - 1
         /\ s.payloads \in [Indices -> 0 .. MaxMsgs]
         /\ Closed(s) \in SlotRecords /\ ~Closed(s).active
  BY DEF SlotRecords, Closed

\* The fields of a message being written.
LEMMA WriteFields ==
  ASSUME NEW c \in WriteRecords
  PROVE  /\ c.serial \in 0 .. MaxMsgs /\ c.id \in Ids /\ c.total \in 0 .. MaxTotal
         /\ c.idx \in Indices /\ c.idx \in Nat /\ c.answer \in {"none", "success", "error"}
         /\ c.age \in 0 .. Timeout /\ c.alone \in BOOLEAN
  BY ChunkAssumption DEF WriteRecords, Indices

\* What opening a slot and storing a chunk in it change.
LEMMA ChunkFields ==
  ASSUME NEW s \in SlotRecords, NEW c \in WriteRecords, clock \in 0 .. ClockMod - 1
  PROVE  /\ Opened(s, c) \in SlotRecords /\ Opened(s, c).active
         /\ Opened(s, c).msg_id = c.id /\ Opened(s, c).chunk_total = c.total
         /\ Opened(s, c).received_mask = {} /\ Opened(s, c).start_ms = clock
         /\ Stored(s, c) \in SlotRecords /\ Stored(s, c).active = s.active
         /\ Stored(s, c).msg_id = s.msg_id /\ Stored(s, c).chunk_total = s.chunk_total
         /\ Stored(s, c).start_ms = s.start_ms
         /\ Stored(s, c).received_mask = s.received_mask \cup {c.idx}
         /\ Stored(s, c).payloads = [s.payloads EXCEPT ![c.idx] = c.serial]
<1>1. /\ s.active \in BOOLEAN /\ s.msg_id \in Ids /\ s.chunk_total \in 0 .. MaxTotal
      /\ s.received_mask \subseteq Indices /\ s.start_ms \in 0 .. ClockMod - 1
      /\ s.payloads \in [Indices -> 0 .. MaxMsgs]
  BY SlotFields
<1>2. c.id \in Ids /\ c.total \in 0 .. MaxTotal /\ c.idx \in Indices /\ c.serial \in 0 .. MaxMsgs
  BY WriteFields
<1>3. /\ Opened(s, c) \in SlotRecords /\ Opened(s, c).active
      /\ Opened(s, c).msg_id = c.id /\ Opened(s, c).chunk_total = c.total
      /\ Opened(s, c).received_mask = {} /\ Opened(s, c).start_ms = clock
  BY <1>2 DEF SlotRecords, Opened
<1>4. /\ Stored(s, c) \in SlotRecords /\ Stored(s, c).active = s.active
      /\ Stored(s, c).msg_id = s.msg_id /\ Stored(s, c).chunk_total = s.chunk_total
      /\ Stored(s, c).start_ms = s.start_ms
      /\ Stored(s, c).received_mask = s.received_mask \cup {c.idx}
      /\ Stored(s, c).payloads = [s.payloads EXCEPT ![c.idx] = c.serial]
  BY <1>1, <1>2 DEF SlotRecords, Stored
<1> QED BY <1>3, <1>4, Zenon

(* The name of a message can be read off its payload.                      *)
LEMMA WholeNames ==
  ASSUME NEW s, NEW t \in 1 .. Len(sent), sent \in Seq(1 .. MaxTotal), Whole(s) = Whole(t)
  PROVE  s = t
<1> USE ChunkAssumption
<1>1. sent[t] \in 1 .. MaxTotal
  OBVIOUS
<1>2. 1 \in 1 .. sent[t]
  BY <1>1
<1>3. Whole(t)[1] = t /\ DOMAIN Whole(t) = 1 .. sent[t]
  BY <1>2 DEF Whole
<1>4. DOMAIN Whole(s) = 1 .. sent[s]
  BY DEF Whole
<1>5. 1 \in 1 .. sent[s]
  BY <1>2, <1>3, <1>4
<1>6. Whole(s)[1] = s
  BY <1>5 DEF Whole
<1> QED BY <1>3, <1>6

\* The types, slot by slot and coroutine by coroutine.
LEMMA Types ==
  ASSUME TypeOK
  PROVE  /\ \A i \in SlotIds : slots[i] \in SlotRecords
         /\ \A w \in Writers : writing[w] \in WriteRecords
         /\ clock \in 0 .. ClockMod - 1 /\ Timeout \in Nat \ {0} /\ Slots \in Nat \ {0}
         /\ MaxTotal \in Nat \ {0} /\ MaxMsgs \in Nat
  BY ChunkAssumption, Zenon DEF TypeOK, SlotRecords, WriteRecords

(* What tick() leaves.                                                     *)
LEMMA Ticks ==
  ASSUME TypeOK, NEW i \in SlotIds
  PROVE  /\ Ticked[i] \in SlotRecords
         /\ Ticked[i].active =>
              Ticked[i] = slots[i] /\ slots[i].active /\ Age(slots[i]) < Timeout
         /\ slots[i].active /\ Age(slots[i]) < Timeout => Ticked[i] = slots[i]
<1>1. slots[i] \in SlotRecords /\ clock \in 0 .. ClockMod - 1 /\ Timeout \in Nat
  BY Types
<1>2. Closed(slots[i]) \in SlotRecords /\ ~Closed(slots[i]).active /\ slots[i].active \in BOOLEAN
  BY <1>1, SlotFields
<1>3. Age(slots[i]) \in Nat
  BY <1>1, Ages
<1>4. Ticked[i] = IF slots[i].active /\ Age(slots[i]) >= Timeout THEN Closed(slots[i])
                  ELSE slots[i]
  BY Zenon DEF Ticked
<1> QED BY <1>1, <1>2, <1>3, <1>4

--------------------------------------------------------------------------------
(* Feeding a chunk. The slot it goes to, once chosen: it holds the chunks  *)
(* of w's message before this one, or was opened for it just now.          *)
FedSlot(s, w) ==
  /\ s.active /\ s.msg_id = writing[w].id /\ s.chunk_total = writing[w].total
  /\ s.received_mask \subseteq 0 .. writing[w].idx - 1
  /\ \A k \in s.received_mask : s.payloads[k] = writing[w].serial
  /\ Age(s) < Timeout
  /\ 0 \in s.received_mask \/ writing[w].idx = 0 => writing[w].age = Age(s)
  /\ writing[w].alone /\ writing[w].age < Timeout =>
       0 .. writing[w].idx - 1 \subseteq s.received_mask

(* feed() never answers with an error for a chunk of a well-behaved client,*)
(* and gives the chunk to such a slot, the only one with its id.           *)
LEMMA SlotChosen ==
  ASSUME BleInv, NEW w \in Writers, Busy(w), writing[w].answer = "none",
         NEW ok \in BOOLEAN, Feed(writing[w], ok)
  PROVE  /\ ok = TRUE
         /\ \E i \in SlotIds : \E s \in SlotRecords :
              /\ FedSlot(s, w)
              /\ \A j \in SlotIds : j # i /\ Ticked[j].active => Ticked[j].msg_id # writing[w].id
              /\ Accept(Ticked, i, s, writing[w])
<1> DEFINE c == writing[w]
<1>1. /\ c \in WriteRecords /\ \A j \in SlotIds : slots[j] \in SlotRecords
      /\ clock \in 0 .. ClockMod - 1 /\ Timeout \in Nat \ {0} /\ TypeOK
  BY Types DEF BleInv
<1>2. /\ c.idx \in Nat /\ c.total \in 0 .. MaxTotal /\ c.idx < c.total
      /\ c.age \in 0 .. Timeout /\ Arrived(w) = c.idx
      /\ Fed(w) <=> c.idx > 0
      /\ ~Started(w) <=> c.idx = 0
      /\ c.idx = 0 => c.age = 0
  <2>1. c.idx \in Nat /\ c.total \in 0 .. MaxTotal /\ c.age \in 0 .. Timeout
    BY <1>1, WriteFields
  <2>2. c.idx < c.total /\ (~Started(w) => c.age = 0)
    BY Zenon DEF BleInv, WritersInv
  <2>3. Arrived(w) = c.idx /\ (Fed(w) <=> c.idx > 0) /\ (~Started(w) <=> ~(c.idx > 0))
    BY Zenon DEF Arrived, Fed, Started
  <2> QED BY <2>1, <2>2, <2>3
<1>3. ASSUME NEW i \in SlotIds, Finds(Ticked, i, c.id)
      PROVE  FedSlot(Ticked[i], w) /\ Ticked[i] \in SlotRecords
  <2>1. Ticked[i] = slots[i] /\ Has(i, w) /\ Age(slots[i]) < Timeout
    BY <1>1, <1>3, Ticks, Zenon DEF Finds, Has
  <2>2. Age(slots[i]) \in Nat
    BY <1>1, Ages
  <2>3. (c.idx > 0 => Owned(slots[i], w)) /\ c.idx > 0
    <3>1. ~Started(w) => Age(slots[i]) >= Timeout
      BY <2>1, Zenon DEF BleInv, OwnerInv
    <3>2. Fed(w) => Owned(slots[i], w)
      BY <2>1, Zenon DEF BleInv, OwnerInv
    <3> QED BY <1>1, <1>2, <2>1, <2>2, <3>1, <3>2
  <2>4. c.alone /\ c.age < Timeout => 0 .. c.idx - 1 \subseteq slots[i].received_mask
    <3> SUFFICES ASSUME c.alone, c.age < Timeout
                 PROVE  0 .. c.idx - 1 \subseteq slots[i].received_mask
      OBVIOUS
    <3>1. Fed(w) /\ Arrived(w) # c.total
      BY <1>2, <2>3
    <3>2. PICK j \in SlotIds : Has(j, w) /\ 0 .. Arrived(w) - 1 \subseteq slots[j].received_mask
      BY <3>1, Zenon DEF BleInv, KeptInv
    <3>3. j = i
      BY <2>1, <3>2, Zenon DEF BleInv, SlotsInv, Has
    <3> QED BY <3>2, <3>3, <1>2
  <2>5. /\ slots[i].chunk_total = c.total /\ slots[i].received_mask \subseteq 0 .. c.idx - 1
        /\ \A k \in slots[i].received_mask : slots[i].payloads[k] = c.serial
        /\ 0 \in slots[i].received_mask => c.age = Capped(Age(slots[i]))
    BY <1>2, <2>3 DEF Owned
  <2>6. Capped(Age(slots[i])) = Age(slots[i])
    BY <2>1, Zenon DEF Capped
  <2>7. slots[i].active /\ slots[i].msg_id = c.id
    BY <2>1 DEF Has
  <2>8. c.idx # 0
    BY <1>2, <2>3
  <2>9. FedSlot(slots[i], w)
    BY <2>1, <2>4, <2>5, <2>6, <2>7, <2>8, Zenon DEF FedSlot
  <2> QED BY <1>1, <2>1, <2>9, Zenon
<1>4. CASE \E i \in SlotIds : Finds(Ticked, i, c.id)
  <2>1. PICK i \in SlotIds :
           /\ Finds(Ticked, i, c.id)
           /\ ok = (Ticked[i].chunk_total = c.total)
           /\ ok => Accept(Ticked, i, Ticked[i], c)
    BY <1>4, Zenon DEF Feed
  <2>2. FedSlot(Ticked[i], w) /\ Ticked[i] \in SlotRecords
    BY <1>3, <2>1
  <2>3. ok = TRUE
    BY <2>1, <2>2 DEF FedSlot
  <2>4. ASSUME NEW j \in SlotIds, j # i, Ticked[j].active PROVE Ticked[j].msg_id # c.id
    <3>1. Ticked[j] = slots[j] /\ slots[j].active /\ Ticked[i] = slots[i] /\ slots[i].active
      BY <1>1, <2>1, <2>4, Ticks, Zenon DEF Finds
    <3>2. slots[j].msg_id # slots[i].msg_id
      BY <2>4, <3>1, Zenon DEF BleInv, SlotsInv
    <3> QED BY <2>1, <3>1, <3>2, Zenon DEF Finds
  <2> QED BY <2>1, <2>2, <2>3, <2>4, Zenon
<1>5. CASE ~\E i \in SlotIds : Finds(Ticked, i, c.id)
  <2>1. ok = TRUE /\ \E i \in SlotIds : Accept(Ticked, i, Opened(Ticked[i], c), c)
    BY <1>5, Zenon DEF Feed
  <2>2. PICK i \in SlotIds : Accept(Ticked, i, Opened(Ticked[i], c), c)
    BY <2>1
  <2> DEFINE s == Opened(Ticked[i], c)
  <2>3. /\ s \in SlotRecords /\ s.active /\ s.msg_id = c.id /\ s.chunk_total = c.total
        /\ s.received_mask = {} /\ s.start_ms = clock
    <3>1. Ticked[i] \in SlotRecords
      BY <1>1, Ticks, Zenon
    <3> QED BY <1>1, <3>1, ChunkFields, Zenon
  <2> HIDE DEF s
  <2>4. Age(s) = 0
    BY <1>1, <2>3, Ages
  <2>5. c.alone /\ c.age < Timeout => ~(c.idx > 0)
    <3> SUFFICES ASSUME c.alone, c.age < Timeout, c.idx > 0 PROVE FALSE
      OBVIOUS
    <3>1. Fed(w) /\ Arrived(w) # c.total
      BY <1>2
    <3>2. PICK j \in SlotIds : Has(j, w) /\ 0 .. Arrived(w) - 1 \subseteq slots[j].received_mask
      BY <3>1, Zenon DEF BleInv, KeptInv
    <3>3. Owned(slots[j], w)
      BY <3>1, <3>2, Zenon DEF BleInv, OwnerInv
    <3>4. 0 \in slots[j].received_mask
      BY <1>2, <3>2
    <3>5. c.age = Capped(Age(slots[j]))
      BY <3>3, <3>4 DEF Owned
    <3>6. Age(slots[j]) < Timeout
      BY <1>1, <3>5 DEF Capped
    <3>7. Finds(Ticked, j, c.id)
      BY <1>1, <3>2, <3>6, Ticks, Zenon DEF Has, Finds
    <3> QED BY <1>5, <3>7
  <2>6. c.alone /\ c.age < Timeout => 0 .. c.idx - 1 \subseteq s.received_mask
    BY <1>2, <2>5
  <2>7. FedSlot(s, w)
    <3>1. /\ s.received_mask \subseteq 0 .. c.idx - 1 /\ Age(s) < Timeout
          /\ 0 \in s.received_mask \/ c.idx = 0 => c.age = Age(s)
          /\ \A k \in s.received_mask : s.payloads[k] = c.serial
      BY <1>1, <1>2, <2>3, <2>4
    <3> QED BY <2>3, <2>6, <3>1, Zenon DEF FedSlot
  <2>8. \A j \in SlotIds : Ticked[j].active => Ticked[j].msg_id # c.id
    BY <1>5, Zenon DEF Finds
  <2> QED BY <2>1, <2>2, <2>3, <2>7, <2>8, Zenon DEF s
<1> QED BY <1>4, <1>5

(* The slot with the chunk in it, and what the step does: the last chunk   *)
(* of a message completes it, and any other slot that is still active is   *)
(* an unchanged one of another id.                                         *)
NewSlot(new, w) ==
  /\ new.active /\ new.msg_id = writing[w].id /\ new.chunk_total = writing[w].total
  /\ new.received_mask \subseteq 0 .. writing[w].idx
  /\ \A k \in new.received_mask : new.payloads[k] = writing[w].serial
  /\ Age(new) < Timeout
  /\ 0 \in new.received_mask => writing[w].age = Age(new)
  /\ writing[w].alone /\ writing[w].age < Timeout =>
       0 .. writing[w].idx \subseteq new.received_mask

Taken(i, new, w) ==
  /\ slots' \in [SlotIds -> SlotRecords]
  /\ \A j \in SlotIds : j # i /\ slots'[j].active =>
       /\ slots'[j] = slots[j] /\ slots[j].active /\ slots[j].msg_id # writing[w].id
       /\ Age(slots[j]) < Timeout
  /\ IF IsComplete(new)
     THEN /\ slots'[i] = Closed(new) /\ Handle(Whole(writing[w].serial))
          /\ writing[w].idx + 1 = writing[w].total /\ writing[w].age < Timeout
     ELSE slots'[i] = new /\ UNCHANGED <<ring, delivered, turned_away>>

\* A chunk that is fed is taken by one slot.
LEMMA ChunkTaken ==
  ASSUME BleInv, NEW w \in Writers, Busy(w), writing[w].answer = "none",
         NEW ok \in BOOLEAN, Feed(writing[w], ok)
  PROVE  /\ ok = TRUE
         /\ \E i \in SlotIds : \E new \in SlotRecords : NewSlot(new, w) /\ Taken(i, new, w)
<1> DEFINE c == writing[w]
<1>1. /\ c \in WriteRecords /\ clock \in 0 .. ClockMod - 1 /\ Timeout \in Nat \ {0}
      /\ TypeOK /\ MaxTotal \in Nat \ {0}
  BY Types DEF BleInv
<1>2. /\ c.idx \in Nat /\ c.idx \in Indices /\ c.total \in 0 .. MaxTotal /\ c.idx < c.total
      /\ c.total = sent[c.serial] /\ c.serial \in 0 .. MaxMsgs
  <2>1. c.idx < c.total /\ c.total = sent[c.serial]
    BY Zenon DEF BleInv, WritersInv
  <2> QED BY <1>1, <2>1, WriteFields
<1>3. PICK i \in SlotIds, s \in SlotRecords :
         /\ ok = TRUE /\ FedSlot(s, w)
         /\ \A j \in SlotIds : j # i /\ Ticked[j].active => Ticked[j].msg_id # c.id
         /\ Accept(Ticked, i, s, c)
  BY SlotChosen, Zenon
<1> DEFINE new == Stored(s, c)
<1>4. /\ new \in SlotRecords /\ new.active = s.active /\ new.msg_id = s.msg_id
      /\ new.chunk_total = s.chunk_total /\ new.start_ms = s.start_ms
      /\ new.received_mask = s.received_mask \cup {c.idx}
      /\ new.payloads = [s.payloads EXCEPT ![c.idx] = c.serial]
      /\ s.payloads \in [Indices -> 0 .. MaxMsgs] /\ s.received_mask \subseteq Indices
  <2>1. s \in SlotRecords /\ c \in WriteRecords /\ clock \in 0 .. ClockMod - 1
    BY <1>1, <1>3
  <2>2. s.payloads \in [Indices -> 0 .. MaxMsgs] /\ s.received_mask \subseteq Indices
    BY <2>1, SlotFields, Zenon
  <2> HIDE DEF c
  <2> QED BY <2>1, <2>2, ChunkFields, Zenon
<1>5. /\ s.active /\ s.msg_id = c.id /\ s.chunk_total = c.total
      /\ s.received_mask \subseteq 0 .. c.idx - 1
      /\ \A k \in s.received_mask : s.payloads[k] = c.serial
      /\ Age(s) < Timeout
      /\ 0 \in s.received_mask \/ c.idx = 0 => c.age = Age(s)
      /\ c.alone /\ c.age < Timeout => 0 .. c.idx - 1 \subseteq s.received_mask
  BY <1>3, Zenon DEF FedSlot
<1>6. Age(new) = Age(s)
  BY <1>4, Zenon DEF Age
<1>7. c.idx \notin s.received_mask
  BY <1>2, <1>5
<1>8. /\ slots' = [Ticked EXCEPT ![i] = IF IsComplete(new) THEN Closed(new) ELSE new]
      /\ IsComplete(new) => Handle(Assembled(new))
      /\ ~IsComplete(new) => UNCHANGED <<ring, delivered, turned_away>>
  BY <1>3, <1>7 DEF Accept
<1> HIDE DEF new
<1>9. \A k \in new.received_mask : new.payloads[k] = c.serial
  BY <1>2, <1>4, <1>5
<1>10. NewSlot(new, w)
  <2>1. /\ new.received_mask \subseteq 0 .. c.idx
        /\ 0 \in new.received_mask => c.age = Age(new)
        /\ c.alone /\ c.age < Timeout => 0 .. c.idx \subseteq new.received_mask
    BY <1>2, <1>4, <1>5, <1>6
  <2> QED BY <1>4, <1>5, <1>6, <1>9, <2>1, Zenon DEF NewSlot
<1>11. ASSUME IsComplete(new)
       PROVE  c.idx + 1 = c.total /\ c.age < Timeout /\ Assembled(new) = Whole(c.serial)
  <2>1. 0 .. c.total - 1 \subseteq new.received_mask
    BY <1>4, <1>5, <1>11 DEF IsComplete
  <2>2. c.total - 1 \in new.received_mask /\ 0 \in new.received_mask
    BY <1>2, <2>1
  <2>3. c.idx + 1 = c.total
    BY <1>2, <1>4, <1>5, <2>2
  <2>4. c.age < Timeout
    BY <1>10, <2>2, <1>5, <1>6 DEF NewSlot
  <2>5. ASSUME NEW k \in 1 .. c.total PROVE new.payloads[k - 1] = c.serial
    <3>1. k - 1 \in new.received_mask
      BY <1>2, <2>1
    <3> QED BY <1>9, <3>1
  <2>6. Assembled(new) = [k \in 1 .. c.total |-> new.payloads[k - 1]]
    BY <1>4, <1>5, Zenon DEF Assembled
  <2>7. Assembled(new) = [k \in 1 .. c.total |-> c.serial]
    BY <2>5, <2>6
  <2> QED BY <1>2, <2>3, <2>4, <2>7, Zenon DEF Whole
<1>12. \A j \in SlotIds :
         /\ Ticked[j] \in SlotRecords
         /\ Ticked[j].active => /\ Ticked[j] = slots[j] /\ slots[j].active
                                /\ Age(slots[j]) < Timeout
  BY <1>1, Ticks, Zenon
<1>13. DOMAIN Ticked = SlotIds
  BY Zenon DEF Ticked
<1>14. Closed(new) \in SlotRecords
  BY <1>4, SlotFields
<1>15. slots' \in [SlotIds -> SlotRecords]
  BY <1>4, <1>8, <1>12, <1>14 DEF Ticked
<1>16. /\ \A j \in SlotIds : j # i => slots'[j] = Ticked[j]
       /\ slots'[i] = IF IsComplete(new) THEN Closed(new) ELSE new
  BY <1>8, <1>13, Zenon
<1>17. Taken(i, new, w)
  <2>1. ASSUME NEW j \in SlotIds, j # i, slots'[j].active
        PROVE  /\ slots'[j] = slots[j] /\ slots[j].active /\ slots[j].msg_id # c.id
               /\ Age(slots[j]) < Timeout
    <3>1. slots'[j] = Ticked[j] /\ Ticked[j].active
      BY <1>16, <2>1
    <3>2. Ticked[j] = slots[j] /\ slots[j].active /\ Age(slots[j]) < Timeout
      BY <1>12, <3>1
    <3>3. Ticked[j].msg_id # c.id
      BY <1>3, <2>1, <3>1
    <3>4. slots'[j] = slots[j] /\ slots[j].msg_id # c.id
      BY <3>1, <3>2, <3>3
    <3> QED BY <3>2, <3>4
  <2>2. CASE IsComplete(new)
    BY <1>8, <1>11, <1>15, <1>16, <2>1, <2>2, Zenon DEF Taken
  <2>3. CASE ~IsComplete(new)
    BY <1>8, <1>15, <1>16, <2>1, <2>3, Zenon DEF Taken
  <2> QED BY <2>2, <2>3
<1> QED BY <1>3, <1>4, <1>10, <1>17

--------------------------------------------------------------------------------
(* The step that writes a chunk preserves the invariant.                   *)

\* Slots that are the same are of the same age.
LEMMA SameAge ==
  ASSUME clock' = clock, NEW s, NEW t, t = s
  PROVE  (clock' - t.start_ms) % ClockMod = Age(s)
  BY Zenon DEF Age

\* A payload handed over comes last, after the others.
LEMMA LongerDelivered ==
  ASSUME delivered \in Seq(Seq(0 .. MaxMsgs)), NEW payload \in Seq(0 .. MaxMsgs),
         delivered' = Append(delivered, payload)
  PROVE  /\ delivered' \in Seq(Seq(0 .. MaxMsgs))
         /\ Len(delivered) \in Nat /\ Len(delivered') = Len(delivered) + 1
         /\ \A n \in 1 .. Len(delivered) : delivered'[n] = delivered[n]
         /\ delivered'[Len(delivered')] = payload
  BY ChunkAssumption

\* A whole message is a sequence of message numbers.
LEMMA WholeIsSeq ==
  ASSUME TypeOK, NEW s \in 1 .. Len(sent), s \in 0 .. MaxMsgs
  PROVE  Whole(s) \in Seq(0 .. MaxMsgs)
<1> USE ChunkAssumption
<1>1. sent[s] \in Nat
  <2>1. sent \in Seq(1 .. MaxTotal)
    BY DEF TypeOK
  <2> QED BY <2>1
<1>2. \A k \in 1 .. sent[s] : s \in 0 .. MaxMsgs
  OBVIOUS
<1> DEFINE n == sent[s]
<1>3. [k \in 1 .. n |-> s] \in Seq(0 .. MaxMsgs)
  <2> HIDE DEF n
  <2>1. n \in Nat
    BY <1>1 DEF n
  <2> QED BY <2>1
<1> QED BY <1>3 DEF Whole

(* What the step does to the coroutines: only answers, and who is alone.   *)
LEMMA ChunkWriting ==
  ASSUME TypeOK, NEW w \in Writers, writing[w].answer = "none", Busy(w),
         writing' = [v \in Writers |->
            IF v = w THEN [writing[w] EXCEPT !.answer = "success"]
            ELSE [writing[v] EXCEPT !.alone = @ /\ ~Started(v)]]
  PROVE  /\ writing' \in [Writers -> WriteRecords]
         /\ \A v \in Writers :
              /\ writing'[v].serial = writing[v].serial /\ writing'[v].id = writing[v].id
              /\ writing'[v].total = writing[v].total /\ writing'[v].idx = writing[v].idx
              /\ writing'[v].age = writing[v].age
              /\ v # w => /\ writing'[v].answer = writing[v].answer
                          /\ Started(v) => ~writing'[v].alone
         /\ writing'[w].answer = "success" /\ writing'[w].alone = writing[w].alone
<1>1. \A v \in Writers : writing[v] \in WriteRecords
  BY Types
<1>2. [writing[w] EXCEPT !.answer = "success"] \in WriteRecords
  BY <1>1 DEF WriteRecords
<1>3. ASSUME NEW c \in WriteRecords, NEW b \in BOOLEAN
      PROVE  /\ [c EXCEPT !.alone = @ /\ b] \in WriteRecords
             /\ [c EXCEPT !.alone = @ /\ b].alone => b
  BY DEF WriteRecords
<1>4. \A v \in Writers : (~Started(v)) \in BOOLEAN
  BY DEF Started, Busy
<1>5. ASSUME NEW v \in Writers, v # w
      PROVE  /\ writing'[v] = [writing[v] EXCEPT !.alone = @ /\ ~Started(v)]
             /\ writing'[v] \in WriteRecords /\ (writing'[v].alone => ~Started(v))
  <2>1. writing'[v] = [writing[v] EXCEPT !.alone = @ /\ ~Started(v)]
    BY <1>5
  <2> QED BY <1>1, <1>3, <1>4, <2>1, Zenon
<1>6. writing'[w] = [writing[w] EXCEPT !.answer = "success"] /\ writing'[w] \in WriteRecords
  BY <1>2
<1>7. writing' \in [Writers -> WriteRecords]
  <2>1. \A v \in Writers : writing'[v] \in WriteRecords
    BY <1>5, <1>6
  <2> QED BY <2>1
<1>8. /\ writing'[w].serial = writing[w].serial /\ writing'[w].id = writing[w].id
      /\ writing'[w].total = writing[w].total /\ writing'[w].idx = writing[w].idx
      /\ writing'[w].age = writing[w].age /\ writing'[w].alone = writing[w].alone
      /\ writing'[w].answer = "success"
  BY <1>1, <1>6 DEF WriteRecords
<1>9. ASSUME NEW v \in Writers, v # w
      PROVE  /\ writing'[v].serial = writing[v].serial /\ writing'[v].id = writing[v].id
             /\ writing'[v].total = writing[v].total /\ writing'[v].idx = writing[v].idx
             /\ writing'[v].age = writing[v].age /\ writing'[v].answer = writing[v].answer
  <2>1. writing[v] \in WriteRecords
    BY <1>1
  <2> DEFINE c == writing[v]
             b == writing[v].alone /\ ~Started(v)
  <2>2. writing'[v] = [c EXCEPT !.alone = b]
    BY <1>5, <1>9, Zenon
  <2> HIDE DEF b
  <2>3. /\ writing'[v].serial = c.serial /\ writing'[v].id = c.id
        /\ writing'[v].total = c.total /\ writing'[v].idx = c.idx
        /\ writing'[v].age = c.age /\ writing'[v].answer = c.answer
    <3> HIDE DEF c
    <3>1. c \in WriteRecords
      BY <2>1 DEF c
    <3> QED BY <2>2, <3>1 DEF WriteRecords
  <2> QED BY <2>3
<1> QED BY <1>5, <1>7, <1>8, <1>9, Zenon

\* A chunk written, with the tick, feed() and handler it runs.
LEMMA ChunkKeeps ==
  ASSUME BleInv, NEW w \in Writers, WriteChunk(w)
  PROVE  BleInv'
<1> USE ChunkAssumption
<1> DEFINE c == writing[w]
<1>1. /\ TypeOK /\ Busy(w) /\ c.answer = "none"
      /\ used' = [used EXCEPT ![c.id] = 0]
      /\ UNCHANGED <<clock, connected, msg_id, sent, confirmed>>
  BY Zenon DEF WriteChunk, BleInv
<1>2. PICK ok \in BOOLEAN :
        /\ Feed(c, ok)
        /\ writing' = [v \in Writers |->
             IF v = w THEN [c EXCEPT !.answer = IF ok THEN "success" ELSE "error"]
             ELSE [writing[v] EXCEPT !.alone = @ /\ ~Started(v)]]
  BY Zenon DEF WriteChunk
<1>3. ok = TRUE /\ \E i \in SlotIds : \E new \in SlotRecords : NewSlot(new, w) /\ Taken(i, new, w)
  BY <1>1, <1>2, ChunkTaken, Zenon
<1>4. PICK i \in SlotIds, new \in SlotRecords : NewSlot(new, w) /\ Taken(i, new, w)
  BY <1>3
<1>5. writing' = [v \in Writers |->
        IF v = w THEN [c EXCEPT !.answer = "success"]
        ELSE [writing[v] EXCEPT !.alone = @ /\ ~Started(v)]]
  <2>1. (IF ok THEN "success" ELSE "error") = "success"
    BY <1>3
  <2> QED BY <1>2, <2>1
<1>6. /\ writing' \in [Writers -> WriteRecords]
      /\ \A v \in Writers :
           /\ writing'[v].serial = writing[v].serial /\ writing'[v].id = writing[v].id
           /\ writing'[v].total = writing[v].total /\ writing'[v].idx = writing[v].idx
           /\ writing'[v].age = writing[v].age
           /\ v # w => /\ writing'[v].answer = writing[v].answer
                       /\ Started(v) => ~writing'[v].alone
      /\ writing'[w].answer = "success" /\ writing'[w].alone = writing[w].alone
  BY <1>1, <1>5, ChunkWriting, Zenon
<1>7. /\ \A v \in Writers : Busy(v)' <=> Busy(v)
      /\ \A v \in Writers : v # w =>
           /\ Started(v)' <=> Started(v)
           /\ Fed(v)' <=> Fed(v)
           /\ Arrived(v)' = Arrived(v)
      /\ Started(w)' /\ Fed(w)' /\ Arrived(w)' = c.idx + 1
  <2>1. \A v \in Writers : Busy(v)' <=> Busy(v)
    BY <1>6, Zenon DEF Busy
  <2>2. ASSUME NEW v \in Writers, v # w
        PROVE  /\ Started(v)' <=> Started(v)
               /\ Fed(v)' <=> Fed(v)
               /\ Arrived(v)' = Arrived(v)
    BY <1>6, <2>2, <2>1, Zenon DEF Started, Fed, Arrived
  <2>3. Started(w)' /\ Fed(w)' /\ Arrived(w)' = c.idx + 1
    <3>1. Started(w)'
      BY <1>1, <1>6, <2>1 DEF Started
    <3> QED BY <1>1, <1>6, <2>1, <3>1 DEF Fed, Arrived
  <2> QED BY <2>1, <2>2, <2>3, Zenon
<1>8. /\ c \in WriteRecords /\ Timeout \in Nat \ {0}
      /\ c.idx \in Nat /\ c.total \in 0 .. MaxTotal /\ c.idx < c.total
      /\ c.serial \in 1 .. Len(sent) /\ c.serial \in 0 .. MaxMsgs
      /\ Arrived(w) = c.idx /\ c.age \in 0 .. Timeout /\ c.id \in Ids
  <2>1. c.idx < c.total /\ c.serial \in 1 .. Len(sent)
    BY <1>1, Zenon DEF BleInv, WritersInv
  <2>2. c \in WriteRecords
    BY <1>1, Types
  <2>3. Arrived(w) = c.idx
    BY <1>1 DEF Arrived
  <2> QED BY <1>1, <2>1, <2>2, <2>3, WriteFields
<1>9. /\ new.active /\ new.msg_id = c.id /\ new.chunk_total = c.total
      /\ new.received_mask \subseteq 0 .. c.idx
      /\ \A k \in new.received_mask : new.payloads[k] = c.serial
      /\ Age(new) < Timeout /\ Age(new) \in Nat
      /\ 0 \in new.received_mask => c.age = Age(new)
      /\ c.alone /\ c.age < Timeout => 0 .. c.idx \subseteq new.received_mask
  <2>1. clock \in 0 .. ClockMod - 1
    BY <1>1 DEF TypeOK
  <2>2. Age(new) \in Nat
    BY <2>1, Ages
  <2> QED BY <1>4, <2>2, Zenon DEF NewSlot
<1>10. /\ slots' \in [SlotIds -> SlotRecords]
       /\ \A j \in SlotIds : j # i /\ slots'[j].active =>
            /\ slots'[j] = slots[j] /\ slots[j].active /\ slots[j].msg_id # c.id
            /\ Age(slots[j]) < Timeout
       /\ slots'[i].active => slots'[i] = new /\ ~IsComplete(new)
  <2>1. ~Closed(new).active
    BY SlotFields
  <2> QED BY <1>4, <2>1, Zenon DEF Taken
<1>11. \/ /\ IsComplete(new) /\ Handle(Whole(c.serial)) /\ c.idx + 1 = c.total
       \/ /\ ~IsComplete(new) /\ slots'[i] = new
          /\ UNCHANGED <<ring, delivered, turned_away>>
  BY <1>4, Zenon DEF Taken
<1>12. /\ delivered' \in Seq(Seq(0 .. MaxMsgs)) /\ Len(delivered) \in Nat
       /\ \A n \in 1 .. Len(delivered) : n \in 1 .. Len(delivered') /\ delivered'[n] = delivered[n]
       /\ \A n \in 1 .. Len(delivered') :
            \/ n \in 1 .. Len(delivered)
            \/ /\ n = Len(delivered') /\ IsComplete(new)
               /\ delivered'[n] = Whole(c.serial) /\ c.idx + 1 = c.total
       /\ IsComplete(new) => \E n \in 1 .. Len(delivered') : delivered'[n] = Whole(c.serial)
  <2>1. delivered \in Seq(Seq(0 .. MaxMsgs))
    BY <1>1 DEF TypeOK
  <2>2. CASE IsComplete(new)
    <3>1. delivered' = Append(delivered, Whole(c.serial)) /\ c.idx + 1 = c.total
      BY <1>11, <2>2, Zenon DEF Handle
    <3>2. Whole(c.serial) \in Seq(0 .. MaxMsgs)
      BY <1>1, <1>8, WholeIsSeq
    <3>3. /\ delivered' \in Seq(Seq(0 .. MaxMsgs))
          /\ Len(delivered) \in Nat /\ Len(delivered') = Len(delivered) + 1
          /\ \A n \in 1 .. Len(delivered) : delivered'[n] = delivered[n]
          /\ delivered'[Len(delivered')] = Whole(c.serial)
      BY <2>1, <3>1, <3>2, LongerDelivered, Zenon
    <3>4. /\ \A n \in 1 .. Len(delivered) : n \in 1 .. Len(delivered')
          /\ \A n \in 1 .. Len(delivered') : n \in 1 .. Len(delivered) \/ n = Len(delivered')
          /\ Len(delivered') \in 1 .. Len(delivered')
      BY <3>3
    <3> QED BY <2>2, <3>1, <3>3, <3>4, Zenon
  <2>3. CASE ~IsComplete(new)
    BY <1>11, <2>1, <2>3
  <2> QED BY <2>2, <2>3
<1>13. sent' = sent /\ \A s : Whole(s)' = Whole(s)
  BY <1>1, Zenon DEF Whole
<1>14. TypeOK'
  <2>1. used' \in [Ids -> 0 .. Timeout]
    <3>1. used \in [Ids -> 0 .. Timeout]
      BY <1>1 DEF TypeOK
    <3> DEFINE id == c.id
               Ages0 == 0 .. Timeout
    <3>2. used' = [used EXCEPT ![id] = 0] /\ used \in [Ids -> Ages0] /\ 0 \in Ages0
      BY <1>1, <1>8, <3>1
    <3> HIDE DEF id, Ages0
    <3>3. used' \in [Ids -> Ages0]
      BY <3>2
    <3> QED BY <3>3 DEF Ages0
  <2>2. ring' \in 0 .. RingDepth /\ turned_away' \subseteq 1 .. Len(delivered')
    <3>1. ring \in 0 .. RingDepth /\ turned_away \subseteq 1 .. Len(delivered)
      BY <1>1 DEF TypeOK
    <3>2. CASE IsComplete(new)
      <4>1. Handle(Whole(c.serial))
        BY <1>11, <3>2
      <4>2. Len(delivered') = Len(delivered) + 1
        <5>1. delivered' = Append(delivered, Whole(c.serial))
          BY <4>1 DEF Handle
        <5>2. delivered \in Seq(Seq(0 .. MaxMsgs)) /\ Whole(c.serial) \in Seq(0 .. MaxMsgs)
          BY <1>1, <1>8, WholeIsSeq DEF TypeOK
        <5> QED BY <5>1, <5>2, LongerDelivered, Zenon
      <4>3. \/ ring' = ring /\ turned_away' = turned_away
            \/ ring < RingDepth /\ ring' = ring + 1 /\ turned_away' = turned_away
            \/ ring' = ring /\ turned_away' = turned_away \cup {Len(delivered')}
        BY <4>1, Zenon DEF Handle
      <4>4. Len(delivered) \in Nat
        BY <1>12
      <4>5. ring' \in 0 .. RingDepth
        BY <3>1, <4>3
      <4>6. turned_away' \subseteq 1 .. Len(delivered')
        <5>1. turned_away' \subseteq turned_away \cup {Len(delivered')}
          BY <4>3
        <5> HIDE <4>3
        <5> QED BY <3>1, <4>2, <4>4, <5>1
      <4> QED BY <4>5, <4>6
    <3>3. CASE ~IsComplete(new)
      BY <1>11, <3>1, <3>3
    <3> QED BY <3>2, <3>3
  <2> QED BY <1>1, <1>6, <1>10, <1>12, <2>1, <2>2, Zenon DEF TypeOK, SlotRecords, WriteRecords
<1>15. WritersInv'
  <2>1. ASSUME NEW v \in Writers, Busy(v)'
        PROVE  /\ writing'[v].serial \in 1 .. Len(sent')
               /\ writing'[v].total = sent'[writing'[v].serial]
               /\ writing'[v].idx < writing'[v].total
               /\ ~Started(v)' => writing'[v].age = 0
    BY <1>6, <1>7, <1>13, <2>1, Zenon DEF BleInv, WritersInv
  <2>2. \A u, v \in Writers : Busy(u)' /\ Busy(v)' /\ u # v =>
          writing'[u].serial # writing'[v].serial /\ writing'[u].id # writing'[v].id
    <3>1. \A u, v \in Writers : Busy(u) /\ Busy(v) /\ u # v =>
            writing[u].serial # writing[v].serial /\ writing[u].id # writing[v].id
      BY Zenon DEF BleInv, WritersInv
    <3> QED BY <1>6, <1>7, <3>1
  <2> QED BY <2>1, <2>2, Zenon DEF WritersInv
<1>16. SlotsInv'
  <2>1. ASSUME NEW j \in SlotIds, NEW k \in SlotIds, slots'[j].active, slots'[k].active,
               slots'[j].msg_id = slots'[k].msg_id
        PROVE  j = k
    <3>1. CASE j # i /\ k # i
      BY <1>10, <2>1, <3>1 DEF BleInv, SlotsInv
    <3>2. CASE j = i /\ k # i
      BY <1>9, <1>10, <2>1, <3>2
    <3>3. CASE j # i /\ k = i
      BY <1>9, <1>10, <2>1, <3>3
    <3> QED BY <3>1, <3>2, <3>3
  <2>2. ASSUME NEW j \in SlotIds, slots'[j].active
        PROVE  used'[slots'[j].msg_id] <= Age(slots[j])'
    <3>1. CASE j = i
      <4>1. (clock' - slots'[j].start_ms) % ClockMod = Age(new)
        BY <1>1, <1>10, <2>2, <3>1, SameAge
      <4>2. used'[slots'[j].msg_id] = 0
        <5>1. used \in [Ids -> 0 .. Timeout]
          BY <1>1 DEF TypeOK
        <5>2. slots'[j].msg_id = c.id /\ c.id \in Ids
          BY <1>8, <1>9, <1>10, <2>2, <3>1
        <5> QED BY <1>1, <5>1, <5>2
      <4>3. used'[slots'[j].msg_id] <= (clock' - slots'[j].start_ms) % ClockMod
        BY <1>9, <4>1, <4>2
      <4> QED BY <4>3, Zenon DEF Age
    <3>2. CASE j # i
      <4>1. slots'[j] = slots[j] /\ slots[j].active /\ slots[j].msg_id # c.id
        BY <1>10, <2>2, <3>2
      <4>2. (clock' - slots'[j].start_ms) % ClockMod = Age(slots[j])
        BY <1>1, <4>1, SameAge
      <4>3. used'[slots'[j].msg_id] = used[slots[j].msg_id]
        <5>1. slots[j].msg_id \in Ids
          BY <1>1, Types, SlotFields
        <5>2. used \in [Ids -> 0 .. Timeout]
          BY <1>1 DEF TypeOK
        <5> QED BY <1>1, <4>1, <5>1, <5>2
      <4>4. used[slots[j].msg_id] <= Age(slots[j])
        BY <4>1 DEF BleInv, SlotsInv
      <4>5. used'[slots'[j].msg_id] <= (clock' - slots'[j].start_ms) % ClockMod
        BY <4>2, <4>3, <4>4, Zenon
      <4> QED BY <4>5, Zenon DEF Age
    <3> QED BY <3>1, <3>2
  <2> QED BY <2>1, <2>2, Zenon DEF SlotsInv
<1>17. \A v \in Writers : v # w /\ Busy(v) => writing[v].id # c.id /\ writing[v].serial # c.serial
  BY <1>1, Zenon DEF BleInv, WritersInv
<1>18. OwnerInv'
  <2> SUFFICES ASSUME NEW v \in Writers, NEW j \in SlotIds, Busy(v)', Has(j, v)'
               PROVE  /\ ~Started(v)' => Age(slots[j])' >= Timeout
                      /\ Fed(v)' => Owned(slots[j], v)'
    BY Zenon DEF OwnerInv
  <2>1. slots'[j].active /\ slots'[j].msg_id = writing[v].id /\ Busy(v)
    BY <1>6, <1>7, Zenon DEF Has
  <2>2. CASE v = w
    <3>1. j = i /\ slots'[j] = new
      BY <1>10, <2>1, <2>2
    <3>2. (clock' - slots'[j].start_ms) % ClockMod = Age(new)
      BY <1>1, <3>1, SameAge
    <3>3. Age(slots[j])' = Age(new)
      BY <3>2, Zenon DEF Age
    <3>4. /\ slots'[j].chunk_total = writing'[v].total
          /\ slots'[j].received_mask \subseteq 0 .. Arrived(v)' - 1
          /\ \A k \in slots'[j].received_mask : slots'[j].payloads[k] = writing'[v].serial
      BY <1>6, <1>7, <1>8, <1>9, <2>2, <3>1
    <3>5. 0 \in slots'[j].received_mask => writing'[v].age = Capped(Age(slots[j]))'
      <4>1. Capped(Age(slots[j]))' = Age(new)
        BY <1>9, <3>3, Zenon DEF Capped
      <4> QED BY <1>6, <1>9, <2>2, <3>1, <4>1
    <3>6. Owned(slots[j], v)'
      BY <3>4, <3>5, Zenon DEF Owned
    <3> QED BY <1>7, <2>2, <3>6
  <2>3. CASE v # w
    <3>1. slots'[j] = slots[j] /\ Has(j, v)
      BY <1>9, <1>10, <1>17, <2>1, <2>3 DEF Has
    <3>2. (clock' - slots'[j].start_ms) % ClockMod = Age(slots[j])
      BY <1>1, <3>1, SameAge
    <3>3. Age(slots[j])' = Age(slots[j])
      BY <3>2, Zenon DEF Age
    <3>4. /\ ~Started(v) => Age(slots[j]) >= Timeout
          /\ Fed(v) => Owned(slots[j], v)
      BY <2>1, <3>1, Zenon DEF BleInv, OwnerInv
    <3>5. ASSUME Owned(slots[j], v) PROVE Owned(slots[j], v)'
      <4>1. /\ slots'[j].chunk_total = writing'[v].total
            /\ slots'[j].received_mask \subseteq 0 .. Arrived(v)' - 1
            /\ \A k \in slots'[j].received_mask : slots'[j].payloads[k] = writing'[v].serial
        BY <1>6, <1>7, <2>3, <3>1, <3>5, Zenon DEF Owned
      <4>2. Capped(Age(slots[j]))' = Capped(Age(slots[j]))
        BY <3>3, Zenon DEF Capped
      <4>3. 0 \in slots'[j].received_mask => writing'[v].age = Capped(Age(slots[j]))'
        BY <1>6, <3>1, <3>5, <4>2, Zenon DEF Owned
      <4> QED BY <4>1, <4>3, Zenon DEF Owned
    <3>6. ~Started(v)' => Age(slots[j])' >= Timeout
      BY <1>7, <2>3, <3>3, <3>4, Zenon
    <3> QED BY <1>7, <2>3, <3>4, <3>5, <3>6, Zenon
  <2> QED BY <2>2, <2>3
<1>19. KeptInv'
  <2> SUFFICES ASSUME NEW v \in Writers, Fed(v)', writing'[v].alone, writing'[v].age < Timeout
               PROVE  IF Arrived(v)' = writing'[v].total
                      THEN \E n \in 1 .. Len(delivered') :
                             delivered'[n] = Whole(writing[v].serial)'
                      ELSE \E j \in SlotIds :
                             Has(j, v)' /\ 0 .. Arrived(v)' - 1 \subseteq slots'[j].received_mask
    BY Zenon DEF KeptInv
  <2>1. v = w
    <3>1. ASSUME v # w PROVE FALSE
      <4>1. Fed(v)
        BY <1>7, <3>1, Zenon
      <4>2. Started(v)
        BY <4>1 DEF Fed, Started
      <4> QED BY <1>6, <3>1, <4>2, Zenon
    <3> QED BY <3>1
  <2>2. 0 .. c.idx \subseteq new.received_mask
    BY <1>6, <1>9, <2>1
  <2>3. CASE c.idx + 1 = c.total
    <3>1. IsComplete(new)
      BY <1>8, <1>9, <2>2, <2>3 DEF IsComplete
    <3>2. \E n \in 1 .. Len(delivered') : delivered'[n] = Whole(c.serial)
      BY <1>12, <3>1
    <3>3. Whole(writing[v].serial)' = Whole(c.serial)
      BY <1>6, <1>13, <2>1, Zenon DEF Whole
    <3> QED BY <1>6, <1>7, <2>1, <2>3, <3>2, <3>3
  <2>4. CASE c.idx + 1 # c.total
    <3>1. slots'[i] = new
      BY <1>11, <2>4
    <3>2. Has(i, v)'
      BY <1>6, <1>9, <2>1, <3>1 DEF Has
    <3>3. 0 .. Arrived(v)' - 1 \subseteq slots'[i].received_mask
      BY <1>7, <1>8, <2>1, <2>2, <3>1
    <3> QED BY <1>6, <1>7, <2>1, <2>4, <3>2, <3>3
  <2> QED BY <2>3, <2>4
<1>20. \A n \in 1 .. Len(delivered) : delivered[n] # Whole(c.serial)
  <2>1. Arrived(w) # c.total
    BY <1>8
  <2> QED BY <1>1, <2>1, Zenon DEF BleInv, DeliveredInv
<1>21. DeliveredInv'
  <2> SUFFICES ASSUME NEW n \in 1 .. Len(delivered'), NEW v \in Writers, Busy(v)',
                      delivered'[n] = Whole(writing[v].serial)'
               PROVE  Arrived(v)' = writing'[v].total
    BY Zenon DEF DeliveredInv
  <2>1. Whole(writing[v].serial)' = Whole(writing[v].serial)
    BY <1>6, <1>13, Zenon DEF Whole
  <2>2. CASE n \in 1 .. Len(delivered)
    <3>1. delivered[n] = Whole(writing[v].serial)
      BY <1>12, <2>1, <2>2
    <3>2. v # w
      BY <1>20, <2>2, <3>1
    <3>3. Arrived(v) = writing[v].total
      BY <1>7, <2>2, <3>1, Zenon DEF BleInv, DeliveredInv
    <3> QED BY <1>6, <1>7, <3>2, <3>3, Zenon
  <2>3. CASE n \notin 1 .. Len(delivered)
    <3>1. Whole(writing[v].serial) = Whole(c.serial) /\ c.idx + 1 = c.total
      BY <1>12, <2>1, <2>3
    <3>2. writing[v].serial = c.serial
      BY <1>1, <1>8, <3>1, WholeNames DEF TypeOK
    <3>3. v = w
      BY <1>7, <1>17, <3>2
    <3> QED BY <1>6, <1>7, <3>1, <3>3
  <2> QED BY <2>2, <2>3
<1>22. OneWholeMessage'
  <2>1. ASSUME NEW n \in 1 .. Len(delivered')
        PROVE  \E s \in 1 .. Len(sent') : delivered'[n] = Whole(s)'
    <3>1. CASE n \in 1 .. Len(delivered)
      <4>1. \E s \in 1 .. Len(sent) : delivered[n] = Whole(s)
        BY <3>1 DEF BleInv, OneWholeMessage
      <4> QED BY <1>12, <1>13, <3>1, <4>1, Zenon
    <3>2. CASE n \notin 1 .. Len(delivered)
      BY <1>8, <1>12, <1>13, <3>2, Zenon
    <3> QED BY <3>1, <3>2
  <2>2. ASSUME NEW n \in 1 .. Len(delivered'), NEW m \in 1 .. Len(delivered'),
               delivered'[n] = delivered'[m]
        PROVE  n = m
    <3>1. CASE n \in 1 .. Len(delivered) /\ m \in 1 .. Len(delivered)
      <4>1. delivered[n] = delivered[m]
        BY <1>12, <2>2, <3>1
      <4> QED BY <3>1, <4>1, Zenon DEF BleInv, OneWholeMessage
    <3>2. CASE n \notin 1 .. Len(delivered) /\ m \notin 1 .. Len(delivered)
      BY <1>12, <3>2
    <3>3. CASE n \in 1 .. Len(delivered) /\ m \notin 1 .. Len(delivered)
      BY <1>12, <1>20, <2>2, <3>3, Zenon
    <3>4. CASE n \notin 1 .. Len(delivered) /\ m \in 1 .. Len(delivered)
      BY <1>12, <1>20, <2>2, <3>4, Zenon
    <3> QED BY <3>1, <3>2, <3>3, <3>4
  <2> QED BY <2>1, <2>2, Zenon DEF OneWholeMessage
<1>23. SuccessMeansDelivered'
  <2> SUFFICES ASSUME NEW s \in Serials, confirmed'[s] = "in time"
               PROVE  \E n \in 1 .. Len(delivered') : delivered'[n] = Whole(s)'
    BY Zenon DEF SuccessMeansDelivered
  <2>1. PICK n \in 1 .. Len(delivered) : delivered[n] = Whole(s)
    BY <1>1, Zenon DEF BleInv, SuccessMeansDelivered
  <2> QED BY <1>12, <1>13, <2>1, Zenon
<1> QED BY <1>14, <1>15, <1>16, <1>18, <1>19, <1>21, <1>22, <1>23, Zenon DEF BleInv

--------------------------------------------------------------------------------
(* The steps that change only what the coroutines are doing: whoever is    *)
(* still busy has what had arrived before.                                 *)
LEMMA WritingMoves ==
  ASSUME BleInv, UNCHANGED <<slots, clock, sent, used, delivered>>,
         \A v \in Writers : Busy(v)' =>
           /\ Busy(v) /\ Arrived(v)' = Arrived(v) /\ (Fed(v)' => Fed(v))
           /\ Started(v) => Started(v)'
           /\ writing'[v].serial = writing[v].serial /\ writing'[v].id = writing[v].id
           /\ writing'[v].total = writing[v].total /\ writing'[v].idx < writing[v].total
           /\ writing'[v].age = writing[v].age /\ writing'[v].alone = writing[v].alone
  PROVE  /\ WritersInv' /\ SlotsInv' /\ OwnerInv' /\ KeptInv' /\ DeliveredInv'
         /\ OneWholeMessage'
<1>1. \A s : Whole(s)' = Whole(s) /\ Age(s)' = Age(s)
  <2> SUFFICES ASSUME NEW s PROVE Whole(s)' = Whole(s) /\ Age(s)' = Age(s)
    OBVIOUS
  <2>1. Whole(s)' = Whole(s)
    BY Zenon DEF Whole
  <2>2. Age(s)' = Age(s)
    BY Zenon DEF Age
  <2> QED BY <2>1, <2>2
<1>2. WritersInv'
  <2>1. ASSUME NEW v \in Writers, Busy(v)'
        PROVE  /\ writing'[v].serial \in 1 .. Len(sent')
               /\ writing'[v].total = sent'[writing'[v].serial]
               /\ writing'[v].idx < writing'[v].total
               /\ ~Started(v)' => writing'[v].age = 0
    BY <2>1, Zenon DEF BleInv, WritersInv
  <2>2. ASSUME NEW u \in Writers, NEW v \in Writers, Busy(u)', Busy(v)', u # v
        PROVE  writing'[u].serial # writing'[v].serial /\ writing'[u].id # writing'[v].id
    <3>1. writing[u].serial # writing[v].serial /\ writing[u].id # writing[v].id
      BY <2>2, Zenon DEF BleInv, WritersInv
    <3> QED BY <2>2, <3>1
  <2> QED BY <2>1, <2>2, Zenon DEF WritersInv
<1>3. \A i \in SlotIds : Age(slots[i])' = Age(slots[i])
  BY Zenon DEF Age
<1>4. SlotsInv'
  BY <1>3, Zenon DEF BleInv, SlotsInv
<1>5. OwnerInv'
  <2> SUFFICES ASSUME NEW v \in Writers, NEW j \in SlotIds, Busy(v)', Has(j, v)'
               PROVE  /\ ~Started(v)' => Age(slots[j])' >= Timeout
                      /\ Fed(v)' => Owned(slots[j], v)'
    BY Zenon DEF OwnerInv
  <2>1. Busy(v) /\ Has(j, v)
    BY Zenon DEF Has
  <2>2. (~Started(v) => Age(slots[j]) >= Timeout) /\ (Fed(v) => Owned(slots[j], v))
    BY <2>1, Zenon DEF BleInv, OwnerInv
  <2>3. Owned(slots[j], v) => Owned(slots[j], v)'
    <3>1. Capped(Age(slots[j]))' = Capped(Age(slots[j]))
      BY <1>3, Zenon DEF Capped
    <3> QED BY <3>1, Zenon DEF Owned
  <2> QED BY <1>3, <2>2, <2>3, Zenon
<1>6. KeptInv'
  <2> SUFFICES ASSUME NEW v \in Writers, Fed(v)', writing'[v].alone, writing'[v].age < Timeout
               PROVE  IF Arrived(v)' = writing'[v].total
                      THEN \E n \in 1 .. Len(delivered') :
                             delivered'[n] = Whole(writing[v].serial)'
                      ELSE \E j \in SlotIds :
                             Has(j, v)' /\ 0 .. Arrived(v)' - 1 \subseteq slots'[j].received_mask
    BY Zenon DEF KeptInv
  <2>1. Busy(v)'
    BY Zenon DEF Fed
  <2>2. Fed(v) /\ writing[v].alone /\ writing[v].age < Timeout
    BY <2>1, Zenon
  <2>3. Whole(writing[v].serial)' = Whole(writing[v].serial)
    BY <2>1, Zenon DEF Whole
  <2>4. \A j \in SlotIds : Has(j, v) => Has(j, v)'
    BY <2>1, Zenon DEF Has
  <2>5. CASE Arrived(v) = writing[v].total
    <3>1. \E n \in 1 .. Len(delivered) : delivered[n] = Whole(writing[v].serial)
      BY <2>2, <2>5, Zenon DEF BleInv, KeptInv
    <3> QED BY <2>1, <2>3, <2>5, <3>1, Zenon
  <2>6. CASE Arrived(v) # writing[v].total
    <3>1. \E j \in SlotIds : Has(j, v) /\ 0 .. Arrived(v) - 1 \subseteq slots[j].received_mask
      BY <2>2, <2>6, Zenon DEF BleInv, KeptInv
    <3> QED BY <2>1, <2>4, <2>6, <3>1, Zenon
  <2> QED BY <2>5, <2>6
<1>7. DeliveredInv'
  <2> SUFFICES ASSUME NEW n \in 1 .. Len(delivered'), NEW v \in Writers, Busy(v)',
                      delivered'[n] = Whole(writing[v].serial)'
               PROVE  Arrived(v)' = writing'[v].total
    BY Zenon DEF DeliveredInv
  <2>1. Whole(writing[v].serial)' = Whole(writing[v].serial)
    BY Zenon DEF Whole
  <2> QED BY <2>1, Zenon DEF BleInv, DeliveredInv
<1>8. OneWholeMessage'
  BY <1>1, Zenon DEF BleInv, OneWholeMessage
<1> QED BY <1>2, <1>4, <1>5, <1>6, <1>7, <1>8

\* No new confirmation needs a delivery.
LEMMA NothingConfirmed ==
  ASSUME BleInv, UNCHANGED <<sent, delivered, confirmed>>
  PROVE  SuccessMeansDelivered'
<1>1. \A s : Whole(s)' = Whole(s)
  BY Zenon DEF Whole
<1> QED BY <1>1, Zenon DEF BleInv, SuccessMeansDelivered

\* A chunk refused for lack of encryption changes no slot.
LEMMA UnencryptedKeeps ==
  ASSUME BleInv, NEW w \in Writers, WriteUnencrypted(w)
  PROVE  BleInv'
<1> DEFINE c == writing[w]
<1>1. /\ TypeOK /\ c.answer = "none" /\ writing' = [writing EXCEPT ![w].answer = "error"]
      /\ UNCHANGED <<slots, clock, connected, msg_id, ring, sent, used, delivered,
                     turned_away, confirmed>>
  BY Zenon DEF WriteUnencrypted, BleInv
<1>2. writing \in [Writers -> WriteRecords]
  BY <1>1, Zenon DEF TypeOK, WriteRecords
<1>3. /\ writing' \in [Writers -> WriteRecords] /\ writing'[w].answer = "error"
      /\ \A v \in Writers : v # w => writing'[v] = writing[v]
      /\ writing'[w].serial = c.serial /\ writing'[w].id = c.id
      /\ writing'[w].total = c.total /\ writing'[w].idx = c.idx
      /\ writing'[w].age = c.age /\ writing'[w].alone = c.alone
  BY <1>1, <1>2 DEF WriteRecords
<1>4. ASSUME NEW v \in Writers, Busy(v)'
      PROVE  /\ Busy(v) /\ Arrived(v)' = Arrived(v) /\ (Fed(v)' => Fed(v))
             /\ Started(v) => Started(v)'
             /\ writing'[v].serial = writing[v].serial /\ writing'[v].id = writing[v].id
             /\ writing'[v].total = writing[v].total /\ writing'[v].idx < writing[v].total
             /\ writing'[v].age = writing[v].age /\ writing'[v].alone = writing[v].alone
  <2>1. CASE v = w
    <3>1. Busy(v)
      BY <1>3, <1>4, <2>1 DEF Busy
    <3>2. c.idx < c.total
      BY <2>1, <3>1, Zenon DEF BleInv, WritersInv
    <3>3. Arrived(v)' = Arrived(v) /\ (Fed(v)' => Fed(v)) /\ Started(v)'
      BY <1>1, <1>3, <1>4, <2>1, <3>1 DEF Arrived, Fed, Started
    <3> QED BY <1>3, <2>1, <3>1, <3>2, <3>3
  <2>2. CASE v # w
    <3>1. writing'[v] = writing[v]
      BY <1>3, <2>2
    <3>2. Busy(v)
      BY <1>4, <3>1, Zenon DEF Busy
    <3>3. writing[v].idx < writing[v].total
      BY <3>2, Zenon DEF BleInv, WritersInv
    <3> QED BY <3>1, <3>2, <3>3, Zenon DEF Arrived, Fed, Started, Busy
  <2> QED BY <2>1, <2>2
<1>5. /\ WritersInv' /\ SlotsInv' /\ OwnerInv' /\ KeptInv' /\ DeliveredInv' /\ OneWholeMessage'
  BY <1>1, <1>4, WritingMoves, Zenon
<1>6. TypeOK'
  BY <1>1, <1>3, Zenon DEF TypeOK, WriteRecords
<1> QED BY <1>1, <1>5, <1>6, NothingConfirmed, Zenon DEF BleInv

\* Other writes, a connection and aprs_task draining the ring.
LEMMA OtherKeeps ==
  ASSUME BleInv, WriteElsewhere \/ Connect \/ Drain
  PROVE  BleInv'
<1>1. /\ TypeOK
      /\ UNCHANGED <<slots, clock, writing, sent, used, delivered, turned_away, confirmed>>
      /\ msg_id' \in {msg_id, 0, NextId} /\ ring' \in {ring, 0} /\ connected' \in {connected, TRUE}
  BY DEF WriteElsewhere, Connect, Drain, client, BleInv
<1>2. ASSUME NEW v \in Writers, Busy(v)'
      PROVE  /\ Busy(v) /\ Arrived(v)' = Arrived(v) /\ (Fed(v)' => Fed(v))
             /\ Started(v) => Started(v)'
             /\ writing'[v].serial = writing[v].serial /\ writing'[v].id = writing[v].id
             /\ writing'[v].total = writing[v].total /\ writing'[v].idx < writing[v].total
             /\ writing'[v].age = writing[v].age /\ writing'[v].alone = writing[v].alone
  <2>1. Busy(v)
    BY <1>1, <1>2, Zenon DEF Busy
  <2>2. writing[v].idx < writing[v].total
    BY <2>1, Zenon DEF BleInv, WritersInv
  <2> QED BY <1>1, <2>1, <2>2, Zenon DEF Arrived, Fed, Started, Busy
<1>3. /\ WritersInv' /\ SlotsInv' /\ OwnerInv' /\ KeptInv' /\ DeliveredInv' /\ OneWholeMessage'
  BY <1>1, <1>2, WritingMoves, Zenon
<1>4. NextId \in Ids /\ 0 \in Ids /\ 0 \in 0 .. RingDepth
  <2>1. msg_id + 1 \in Int /\ IdMod \in Int /\ IdMod > 0
    <3>1. msg_id \in Ids
      BY <1>1 DEF TypeOK
    <3> QED BY <3>1, ChunkAssumption DEF Ids
  <2>2. (msg_id + 1) % IdMod \in Int /\ 0 <= (msg_id + 1) % IdMod /\ (msg_id + 1) % IdMod < IdMod
    BY <2>1, DivMod, Zenon
  <2> QED BY <2>1, <2>2, ChunkAssumption DEF NextId, Ids
<1>5. msg_id' \in Ids /\ ring' \in 0 .. RingDepth /\ connected' \in BOOLEAN
  <2>1. msg_id \in Ids /\ ring \in 0 .. RingDepth /\ connected \in BOOLEAN
    BY <1>1 DEF TypeOK
  <2> QED BY <1>1, <1>4, <2>1
<1>6. TypeOK'
  BY <1>1, <1>5, Zenon DEF TypeOK
<1> QED BY <1>1, <1>3, <1>6, NothingConfirmed, Zenon DEF BleInv

\* The response: the next chunk is at hand, or the message is done.
LEMMA ResponseKeeps ==
  ASSUME BleInv, NEW w \in Writers, Response(w)
  PROVE  BleInv'
<1> USE ChunkAssumption
<1> DEFINE c == writing[w]
           done == c.answer = "error" \/ c.idx + 1 = c.total
           next == [c EXCEPT !.idx = @ + 1, !.answer = "none"]
<1>1. /\ TypeOK /\ Busy(w) /\ c.answer # "none"
      /\ writing' = [writing EXCEPT ![w] = IF done THEN Idle ELSE next]
      /\ confirmed' =
           IF c.answer = "success" /\ c.idx + 1 = c.total
           THEN [confirmed EXCEPT ![c.serial] =
                   IF c.alone /\ c.age < Timeout THEN "in time" ELSE "yes"]
           ELSE confirmed
      /\ UNCHANGED <<slots, clock, connected, msg_id, ring, sent, used, delivered, turned_away>>
  BY Zenon DEF Response, BleInv
<1>2. writing \in [Writers -> WriteRecords]
  BY <1>1, Zenon DEF TypeOK, WriteRecords
<1>3. /\ c \in WriteRecords /\ c.idx \in Nat /\ c.total \in 0 .. MaxTotal /\ c.idx < c.total
      /\ c.answer \in {"success", "error"} /\ c.serial \in 1 .. Len(sent)
      /\ c.serial \in 0 .. MaxMsgs /\ c.alone \in BOOLEAN
  <2>1. c.idx < c.total /\ c.serial \in 1 .. Len(sent)
    BY <1>1, Zenon DEF BleInv, WritersInv
  <2>2. c \in WriteRecords
    BY <1>2
  <2> QED BY <1>1, <2>1, <2>2, WriteFields
<1>4. Idle \in WriteRecords /\ Idle.serial = 0
  BY DEF Idle, WriteRecords, Indices, Ids
<1>5. ASSUME ~done
      PROVE  /\ next \in WriteRecords /\ next.answer = "none" /\ next.idx = c.idx + 1
             /\ next.serial = c.serial /\ next.id = c.id /\ next.total = c.total
             /\ next.age = c.age /\ next.alone = c.alone /\ next.idx < c.total
             /\ c.answer = "success"
  <2>1. c.idx + 1 \in Indices /\ c.idx + 1 < c.total /\ c.answer = "success"
    BY <1>3, <1>5 DEF Indices
  <2> QED BY <1>3, <2>1 DEF WriteRecords
<1>6. /\ writing' \in [Writers -> WriteRecords]
      /\ \A v \in Writers : v # w => writing'[v] = writing[v]
      /\ writing'[w] = IF done THEN Idle ELSE next
  <2> HIDE DEF done, next
  <2> QED BY <1>1, <1>2, <1>4, <1>5
<1>7. ASSUME NEW v \in Writers, Busy(v)'
      PROVE  /\ Busy(v) /\ Arrived(v)' = Arrived(v) /\ (Fed(v)' => Fed(v))
             /\ Started(v) => Started(v)'
             /\ writing'[v].serial = writing[v].serial /\ writing'[v].id = writing[v].id
             /\ writing'[v].total = writing[v].total /\ writing'[v].idx < writing[v].total
             /\ writing'[v].age = writing[v].age /\ writing'[v].alone = writing[v].alone
  <2>1. CASE v = w
    <3>1. ~done
      BY <1>4, <1>6, <1>7, <2>1 DEF Busy
    <3>2. writing'[w] = next
      BY <1>6, <3>1
    <3>3. /\ next.answer = "none" /\ next.idx = c.idx + 1
          /\ next.serial = c.serial /\ next.id = c.id /\ next.total = c.total
          /\ next.age = c.age /\ next.alone = c.alone /\ next.idx < c.total
          /\ c.answer = "success"
      BY <1>5, <3>1
    <3> HIDE DEF next
    <3>4. Arrived(v)' = Arrived(v)
      BY <2>1, <3>2, <3>3 DEF Arrived
    <3>5. Fed(v)
      BY <1>1, <2>1, <3>3 DEF Fed
    <3>6. Started(v)'
      BY <1>3, <1>7, <2>1, <3>2, <3>3 DEF Started
    <3> QED BY <1>1, <2>1, <3>2, <3>3, <3>4, <3>5, <3>6, Zenon
  <2>2. CASE v # w
    <3>1. writing'[v] = writing[v]
      BY <1>6, <2>2
    <3>2. Busy(v)
      BY <1>7, <3>1, Zenon DEF Busy
    <3>3. writing[v].idx < writing[v].total
      BY <3>2, Zenon DEF BleInv, WritersInv
    <3> QED BY <3>1, <3>2, <3>3, Zenon DEF Arrived, Fed, Started, Busy
  <2> QED BY <2>1, <2>2
<1>8. /\ WritersInv' /\ SlotsInv' /\ OwnerInv' /\ KeptInv' /\ DeliveredInv' /\ OneWholeMessage'
  BY <1>1, <1>7, WritingMoves, Zenon
<1>9. confirmed' \in [Serials -> {"no", "yes", "in time"}]
  <2>1. confirmed \in [Serials -> {"no", "yes", "in time"}]
    BY <1>1 DEF TypeOK
  <2> DEFINE word == IF c.alone /\ c.age < Timeout THEN "in time" ELSE "yes"
             s == c.serial
  <2>2. confirmed' = confirmed \/ confirmed' = [confirmed EXCEPT ![s] = word]
    BY <1>1
  <2>3. word \in {"no", "yes", "in time"}
    OBVIOUS
  <2> HIDE DEF word, s
  <2> QED BY <2>1, <2>2, <2>3
<1>10. TypeOK'
  BY <1>1, <1>6, <1>9, Zenon DEF TypeOK, WriteRecords
<1>11. SuccessMeansDelivered'
  <2> SUFFICES ASSUME NEW s \in Serials, confirmed'[s] = "in time"
               PROVE  \E n \in 1 .. Len(delivered) : delivered[n] = Whole(s)
    <3>1. \A s : Whole(s)' = Whole(s)
      BY <1>1, Zenon DEF Whole
    <3> QED BY <1>1, <3>1, Zenon DEF SuccessMeansDelivered
  <2>1. confirmed \in [Serials -> {"no", "yes", "in time"}]
    BY <1>1 DEF TypeOK
  <2>2. CASE confirmed[s] = "in time"
    BY <2>2, Zenon DEF BleInv, SuccessMeansDelivered
  <2>3. CASE confirmed[s] # "in time"
    <3>1. /\ c.answer = "success" /\ c.idx + 1 = c.total /\ s = c.serial
          /\ c.alone /\ c.age < Timeout
      BY <1>1, <2>1, <2>3
    <3>2. Fed(w) /\ Arrived(w) = c.total
      BY <1>1, <3>1 DEF Fed, Arrived
    <3> QED BY <3>1, <3>2, Zenon DEF BleInv, KeptInv
  <2> QED BY <2>2, <2>3
<1> QED BY <1>8, <1>10, <1>11, Zenon DEF BleInv

\* The link goes: every slot is reset and every write is over.
LEMMA DisconnectKeeps ==
  ASSUME BleInv, Disconnect
  PROVE  BleInv'
<1> USE ChunkAssumption
<1>1. /\ TypeOK /\ connected' = FALSE
      /\ writing' = [w \in Writers |-> Idle]
      /\ used' = [id \in Ids |-> Timeout]
      /\ slots' = [i \in SlotIds |-> Closed(slots[i])]
      /\ UNCHANGED <<clock, msg_id, ring, sent, delivered, turned_away, confirmed>>
  BY Zenon DEF Disconnect, BleInv
<1>2. Idle \in WriteRecords /\ Idle.serial = 0
  BY DEF Idle, WriteRecords, Indices, Ids
<1>3. \A v \in Writers : ~Busy(v)' /\ ~Fed(v)'
  BY <1>1, <1>2 DEF Busy, Fed
<1>4. \A i \in SlotIds : slots'[i] \in SlotRecords /\ ~slots'[i].active
  <2>1. \A i \in SlotIds : slots[i] \in SlotRecords
    BY <1>1, Types
  <2>2. \A i \in SlotIds : slots'[i] = Closed(slots[i])
    BY <1>1, Zenon
  <2> QED BY <2>1, <2>2, SlotFields
<1>5. TypeOK'
  <2>1. writing' \in [Writers -> WriteRecords] /\ used' \in [Ids -> 0 .. Timeout]
    BY <1>1, <1>2
  <2>2. slots' \in [SlotIds -> SlotRecords]
    BY <1>1, <1>4, Zenon
  <2>3. connected' \in BOOLEAN
    BY <1>1
  <2> QED BY <1>1, <2>1, <2>2, <2>3, Zenon DEF TypeOK, SlotRecords, WriteRecords
<1>6. WritersInv' /\ KeptInv' /\ DeliveredInv'
  BY <1>3, Zenon DEF WritersInv, KeptInv, DeliveredInv
<1>7. SlotsInv' /\ OwnerInv'
  BY <1>3, <1>4, Zenon DEF SlotsInv, OwnerInv
<1>8. OneWholeMessage'
  <2>1. \A s : Whole(s)' = Whole(s)
    BY <1>1, Zenon DEF Whole
  <2> QED BY <1>1, <2>1, Zenon DEF BleInv, OneWholeMessage
<1> QED BY <1>1, <1>5, <1>6, <1>7, <1>8, NothingConfirmed, Zenon DEF BleInv

--------------------------------------------------------------------------------
(* A coroutine begins a message: its id is one no slot under the timeout   *)
(* has, and nothing is delivered under its number yet.                     *)
Begun(serial, id, total) == [Idle EXCEPT !.serial = serial, !.id = id, !.total = total]

\* The fields of a message about to be written.
LEMMA BegunFields ==
  ASSUME NEW serial \in 0 .. MaxMsgs, NEW id \in Ids, NEW total \in 0 .. MaxTotal
  PROVE  /\ Begun(serial, id, total) \in WriteRecords
         /\ Begun(serial, id, total).serial = serial /\ Begun(serial, id, total).id = id
         /\ Begun(serial, id, total).total = total /\ Begun(serial, id, total).idx = 0
         /\ Begun(serial, id, total).answer = "none" /\ Begun(serial, id, total).age = 0
<1> USE ChunkAssumption
<1>1. Idle \in WriteRecords /\ Idle.idx = 0 /\ Idle.answer = "none" /\ Idle.age = 0
  BY DEF Idle, WriteRecords, Ids, Indices
<1> QED BY <1>1 DEF Begun, WriteRecords

\* A new message, under an id no slot in use still has in time.
LEMMA StartKeeps ==
  ASSUME BleInv, NEW w \in Writers, NEW total \in 1 .. MaxTotal, StartWrite(w, total)
  PROVE  BleInv'
<1> USE ChunkAssumption
<1> DEFINE m == Len(sent) + 1
           r == Begun(m, msg_id', total)
<1>1. /\ TypeOK /\ ~Busy(w) /\ Len(sent) < MaxMsgs /\ msg_id' = NextId
      /\ ~(used[msg_id'] < Timeout)
      /\ ~\E v \in Writers : Busy(v) /\ writing[v].id = msg_id'
      /\ sent' = Append(sent, total)
      /\ writing' = [writing EXCEPT ![w] =
           [Idle EXCEPT !.serial = Len(sent'), !.id = msg_id', !.total = total]]
      /\ UNCHANGED <<slots, clock, connected, ring, used, delivered, turned_away, confirmed>>
  BY Zenon DEF StartWrite, BleInv, Recent
<1>2. sent \in Seq(1 .. MaxTotal) /\ writing \in [Writers -> WriteRecords]
  BY <1>1, Zenon DEF TypeOK, WriteRecords
<1>3. /\ Len(sent) \in Nat /\ sent' \in Seq(1 .. MaxTotal) /\ Len(sent') = m
      /\ m \in 1 .. MaxMsgs /\ \A s \in 1 .. Len(sent) : sent'[s] = sent[s] /\ s \in 1 .. m /\ s # m
      /\ sent'[m] = total /\ \A s \in 1 .. Len(sent) : sent[s] \in 1 .. MaxTotal
  BY <1>1, <1>2
<1>4. msg_id' \in Ids
  <2>1. msg_id \in Ids
    BY <1>1 DEF TypeOK
  <2>2. msg_id + 1 \in Int /\ IdMod \in Int /\ IdMod > 0
    BY <2>1 DEF Ids
  <2>3. (msg_id + 1) % IdMod \in Int /\ 0 <= (msg_id + 1) % IdMod /\ (msg_id + 1) % IdMod < IdMod
    BY <2>2, DivMod, Zenon
  <2> QED BY <1>1, <2>2, <2>3 DEF NextId, Ids
<1>5. /\ r \in WriteRecords /\ r.serial = m /\ r.id = msg_id' /\ r.total = total
      /\ r.idx = 0 /\ r.answer = "none" /\ r.age = 0
  <2>1. m \in 0 .. MaxMsgs /\ total \in 0 .. MaxTotal
    BY <1>3
  <2> HIDE DEF m
  <2> QED BY <1>4, <2>1, BegunFields
<1>6. /\ writing' \in [Writers -> WriteRecords] /\ writing'[w] = r
      /\ \A v \in Writers : v # w => writing'[v] = writing[v]
  <2>1. writing' = [writing EXCEPT ![w] = r]
    BY <1>1, <1>3, Zenon DEF Begun
  <2> HIDE DEF r
  <2> QED BY <1>2, <1>5, <2>1
<1> HIDE DEF r
<1>7. /\ Busy(w)' /\ ~Started(w)' /\ ~Fed(w)' /\ Arrived(w)' = 0 /\ m # 0
      /\ \A v \in Writers : v # w =>
           /\ Busy(v)' <=> Busy(v)
           /\ Started(v)' <=> Started(v)
           /\ Fed(v)' <=> Fed(v)
           /\ Arrived(v)' = Arrived(v)
  <2>1. Busy(w)' /\ ~Started(w)' /\ ~Fed(w)' /\ Arrived(w)' = 0 /\ m # 0
    BY <1>3, <1>5, <1>6 DEF Busy, Started, Fed, Arrived
  <2>2. ASSUME NEW v \in Writers, v # w
        PROVE  /\ Busy(v)' <=> Busy(v)
               /\ Started(v)' <=> Started(v)
               /\ Fed(v)' <=> Fed(v)
               /\ Arrived(v)' = Arrived(v)
    BY <1>6, <2>2, Zenon DEF Busy, Started, Fed, Arrived
  <2> QED BY <2>1, <2>2, Zenon
<1>8. \A s \in 1 .. Len(sent) : Whole(s)' = Whole(s)
  BY <1>3 DEF Whole
<1>9. \A n \in 1 .. Len(delivered) : delivered[n] # [k \in 1 .. total |-> m]
  <2> SUFFICES ASSUME NEW n \in 1 .. Len(delivered), delivered[n] = [k \in 1 .. total |-> m]
               PROVE  FALSE
    OBVIOUS
  <2>1. PICK s \in 1 .. Len(sent) : delivered[n] = Whole(s)
    BY Zenon DEF BleInv, OneWholeMessage
  <2>2. [k \in 1 .. sent[s] |-> s] = [k \in 1 .. total |-> m]
    BY <1>3, <2>1 DEF Whole
  <2>3. 1 \in 1 .. sent[s] /\ 1 \in 1 .. total
    BY <1>3
  <2>4. [k \in 1 .. sent[s] |-> s][1] = s /\ [k \in 1 .. total |-> m][1] = m
    BY <2>3, Zenon
  <2> QED BY <1>3, <2>2, <2>4
<1>10. TypeOK'
  BY <1>1, <1>3, <1>4, <1>6, Zenon DEF TypeOK, WriteRecords
<1>11. \A v \in Writers : Busy(v) =>
         /\ writing[v].serial \in 1 .. Len(sent)
         /\ writing[v].total = sent[writing[v].serial]
         /\ writing[v].idx < writing[v].total
         /\ ~Started(v) => writing[v].age = 0
  BY Zenon DEF BleInv, WritersInv
<1>12. WritersInv'
  <2>1. ASSUME NEW v \in Writers, Busy(v)'
        PROVE  /\ writing'[v].serial \in 1 .. Len(sent')
               /\ writing'[v].total = sent'[writing'[v].serial]
               /\ writing'[v].idx < writing'[v].total
               /\ ~Started(v)' => writing'[v].age = 0
    <3>1. CASE v = w
      BY <1>3, <1>5, <1>6, <3>1
    <3>2. CASE v # w
      BY <1>3, <1>6, <1>7, <1>11, <2>1, <3>2
    <3> QED BY <3>1, <3>2
  <2>2. ASSUME NEW u \in Writers, NEW v \in Writers, Busy(u)', Busy(v)', u # v
        PROVE  writing'[u].serial # writing'[v].serial /\ writing'[u].id # writing'[v].id
    <3>1. ASSUME NEW x \in Writers, x # w, Busy(x)'
          PROVE  Busy(x) /\ writing'[x] = writing[x] /\ writing[x].serial # m
                 /\ writing[x].id # msg_id'
      BY <1>1, <1>3, <1>6, <1>7, <1>11, <3>1
    <3>2. CASE u # w /\ v # w
      <4>1. writing[u].serial # writing[v].serial /\ writing[u].id # writing[v].id
        BY <2>2, <3>1, <3>2, Zenon DEF BleInv, WritersInv
      <4> QED BY <2>2, <3>1, <3>2, <4>1
    <3>3. CASE u = w /\ v # w
      BY <1>5, <1>6, <2>2, <3>1, <3>3
    <3>4. CASE u # w /\ v = w
      BY <1>5, <1>6, <2>2, <3>1, <3>4
    <3> QED BY <2>2, <3>2, <3>3, <3>4
  <2> QED BY <2>1, <2>2, Zenon DEF WritersInv
<1>13. \A i \in SlotIds : Age(slots[i])' = Age(slots[i])
  BY <1>1, Zenon DEF Age
<1>14. SlotsInv'
  BY <1>1, <1>13, Zenon DEF BleInv, SlotsInv
<1>15. OwnerInv'
  <2> SUFFICES ASSUME NEW v \in Writers, NEW j \in SlotIds, Busy(v)', Has(j, v)'
               PROVE  /\ ~Started(v)' => Age(slots[j])' >= Timeout
                      /\ Fed(v)' => Owned(slots[j], v)'
    BY Zenon DEF OwnerInv
  <2>1. CASE v = w
    <3>1. slots[j].active /\ slots[j].msg_id = msg_id'
      BY <1>1, <1>5, <1>6, <2>1, Zenon DEF Has
    <3>2. used[msg_id'] <= Age(slots[j])
      BY <3>1, Zenon DEF BleInv, SlotsInv
    <3>3. Age(slots[j]) \in Nat /\ used[msg_id'] \in 0 .. Timeout
      <4>1. used \in [Ids -> 0 .. Timeout] /\ clock \in 0 .. ClockMod - 1
        BY <1>1 DEF TypeOK
      <4> QED BY <1>1, <1>4, <4>1, Types, Ages
    <3>4. Age(slots[j]) >= Timeout
      BY <1>1, <3>2, <3>3
    <3> QED BY <1>7, <1>13, <2>1, <3>4, Zenon
  <2>2. CASE v # w
    <3>1. Busy(v) /\ Has(j, v)
      BY <1>1, <1>6, <1>7, <2>2, Zenon DEF Has
    <3>2. (~Started(v) => Age(slots[j]) >= Timeout) /\ (Fed(v) => Owned(slots[j], v))
      BY <3>1, Zenon DEF BleInv, OwnerInv
    <3>3. Owned(slots[j], v) => Owned(slots[j], v)'
      <4>1. Capped(Age(slots[j]))' = Capped(Age(slots[j]))
        BY <1>13, Zenon DEF Capped
      <4> QED BY <1>1, <1>6, <1>7, <2>2, <4>1, Zenon DEF Owned
    <3> QED BY <1>7, <1>13, <2>2, <3>2, <3>3, Zenon
  <2> QED BY <2>1, <2>2
<1>16. KeptInv'
  <2> SUFFICES ASSUME NEW v \in Writers, Fed(v)', writing'[v].alone, writing'[v].age < Timeout
               PROVE  IF Arrived(v)' = writing'[v].total
                      THEN \E n \in 1 .. Len(delivered') :
                             delivered'[n] = Whole(writing[v].serial)'
                      ELSE \E j \in SlotIds :
                             Has(j, v)' /\ 0 .. Arrived(v)' - 1 \subseteq slots'[j].received_mask
    BY Zenon DEF KeptInv
  <2>1. /\ v # w /\ writing'[v] = writing[v] /\ Arrived(v)' = Arrived(v)
        /\ Fed(v) /\ writing[v].alone /\ writing[v].age < Timeout
    BY <1>6, <1>7, Zenon
  <2>2. Whole(writing[v].serial)' = Whole(writing[v].serial)
    <3>1. writing[v].serial \in 1 .. Len(sent)
      BY <1>11, <2>1, Zenon DEF Fed
    <3>2. Whole(writing[v].serial)' = [k \in 1 .. sent'[writing[v].serial] |-> writing[v].serial]
      BY <2>1, Zenon DEF Whole
    <3> QED BY <1>3, <3>1, <3>2, Zenon DEF Whole
  <2>3. \A j \in SlotIds : Has(j, v) => Has(j, v)'
    BY <1>1, <2>1, Zenon DEF Has
  <2>4. CASE Arrived(v) = writing[v].total
    <3>1. \E n \in 1 .. Len(delivered) : delivered[n] = Whole(writing[v].serial)
      BY <2>1, <2>4, Zenon DEF BleInv, KeptInv
    <3> QED BY <1>1, <2>1, <2>2, <2>4, <3>1, Zenon
  <2>5. CASE Arrived(v) # writing[v].total
    <3>1. \E j \in SlotIds : Has(j, v) /\ 0 .. Arrived(v) - 1 \subseteq slots[j].received_mask
      BY <2>1, <2>5, Zenon DEF BleInv, KeptInv
    <3> QED BY <1>1, <2>1, <2>3, <2>5, <3>1, Zenon
  <2> QED BY <2>4, <2>5
<1>17. DeliveredInv'
  <2> SUFFICES ASSUME NEW n \in 1 .. Len(delivered), NEW v \in Writers, Busy(v)',
                      delivered[n] = Whole(writing[v].serial)'
               PROVE  Arrived(v)' = writing'[v].total
    BY <1>1, Zenon DEF DeliveredInv
  <2>1. CASE v = w
    <3>1. Whole(writing[v].serial)' = [k \in 1 .. total |-> m]
      <4>1. writing'[v].serial = m
        BY <1>5, <1>6, <2>1
      <4>2. Whole(writing[v].serial)' = [k \in 1 .. sent'[writing'[v].serial] |-> writing'[v].serial]
        BY Zenon DEF Whole
      <4> QED BY <1>3, <4>1, <4>2, Zenon
    <3> QED BY <1>9, <3>1
  <2>2. CASE v # w
    <3>1. writing[v].serial \in 1 .. Len(sent) /\ Busy(v) /\ writing'[v] = writing[v]
      BY <1>6, <1>7, <1>11, <2>2, Zenon
    <3>2. Whole(writing[v].serial)' = [k \in 1 .. sent'[writing[v].serial] |-> writing[v].serial]
      BY <3>1, Zenon DEF Whole
    <3>3. Whole(writing[v].serial)' = Whole(writing[v].serial)
      BY <1>3, <3>1, <3>2, Zenon DEF Whole
    <3>4. Arrived(v) = writing[v].total
      BY <3>1, <3>3, Zenon DEF BleInv, DeliveredInv
    <3> QED BY <1>7, <2>2, <3>1, <3>4, Zenon
  <2> QED BY <2>1, <2>2
<1>18. OneWholeMessage'
  <2>1. ASSUME NEW n \in 1 .. Len(delivered)
        PROVE  \E s \in 1 .. Len(sent') : delivered[n] = Whole(s)'
    <3>1. PICK s \in 1 .. Len(sent) : delivered[n] = Whole(s)
      BY Zenon DEF BleInv, OneWholeMessage
    <3> QED BY <1>3, <1>8, <3>1
  <2>2. \A n, k \in 1 .. Len(delivered) : delivered[n] = delivered[k] => n = k
    BY Zenon DEF BleInv, OneWholeMessage
  <2> QED BY <1>1, <2>1, <2>2, Zenon DEF OneWholeMessage
<1>19. SuccessMeansDelivered'
  <2> SUFFICES ASSUME NEW s \in Serials, confirmed[s] = "in time"
               PROVE  \E n \in 1 .. Len(delivered) : delivered[n] = Whole(s)'
    BY <1>1, Zenon DEF SuccessMeansDelivered
  <2>1. PICK n \in 1 .. Len(delivered) : delivered[n] = Whole(s)
    BY Zenon DEF BleInv, SuccessMeansDelivered
  <2>2. PICK t \in 1 .. Len(sent) : delivered[n] = Whole(t)
    BY Zenon DEF BleInv, OneWholeMessage
  <2>3. s = t
    BY <1>2, <2>1, <2>2, WholeNames
  <2> QED BY <1>8, <2>1, <2>3
<1> QED BY <1>10, <1>12, <1>14, <1>15, <1>16, <1>17, <1>18, <1>19, Zenon DEF BleInv

--------------------------------------------------------------------------------
(* Time passes: slots, ids and first chunks get older together.            *)
LEMMA TimeKeeps ==
  ASSUME BleInv, TimePasses
  PROVE  BleInv'
<1> USE ChunkAssumption
<1>1. /\ TypeOK /\ clock' = (clock + 1) % ClockMod
      /\ \A i \in SlotIds : slots[i].active => Age(slots[i]) < ClockMod - 1
      /\ used' = [id \in Ids |-> Older(used[id])]
      /\ writing' = [w \in Writers |->
           IF Started(w) THEN [writing[w] EXCEPT !.age = Older(@)] ELSE writing[w]]
      /\ UNCHANGED <<slots, connected, msg_id, ring, sent, delivered, turned_away, confirmed>>
  BY Zenon DEF TimePasses, BleInv
<1>2. /\ \A w \in Writers : writing[w] \in WriteRecords
      /\ \A i \in SlotIds : slots[i] \in SlotRecords
      /\ clock \in 0 .. ClockMod - 1 /\ used \in [Ids -> 0 .. Timeout]
  BY <1>1, Types DEF TypeOK
<1>3. clock' \in 0 .. ClockMod - 1
  BY <1>1, <1>2
<1>4. \A a \in 0 .. Timeout : Older(a) \in 0 .. Timeout /\ a <= Older(a) /\ Older(a) <= a + 1
  BY DEF Older
<1>5. ASSUME NEW c \in WriteRecords, NEW a \in 0 .. Timeout, NEW d, d = [c EXCEPT !.age = a]
      PROVE  /\ d \in WriteRecords /\ d.serial = c.serial /\ d.id = c.id /\ d.total = c.total
             /\ d.idx = c.idx /\ d.answer = c.answer /\ d.alone = c.alone /\ d.age = a
  BY <1>5 DEF WriteRecords
<1>6. ASSUME NEW w \in Writers
      PROVE  /\ writing'[w] \in WriteRecords
             /\ writing'[w].serial = writing[w].serial /\ writing'[w].id = writing[w].id
             /\ writing'[w].total = writing[w].total /\ writing'[w].idx = writing[w].idx
             /\ writing'[w].answer = writing[w].answer /\ writing'[w].alone = writing[w].alone
             /\ writing'[w].age = IF Started(w) THEN Older(writing[w].age) ELSE writing[w].age
  <2>1. writing[w] \in WriteRecords /\ Older(writing[w].age) \in 0 .. Timeout
    BY <1>2, <1>4, WriteFields
  <2>2. writing'[w] = IF Started(w) THEN [writing[w] EXCEPT !.age = Older(writing[w].age)]
                      ELSE writing[w]
    BY <1>1, Zenon
  <2>3. CASE Started(w)
    <3>1. writing'[w] = [writing[w] EXCEPT !.age = Older(writing[w].age)]
      BY <2>2, <2>3
    <3> QED BY <1>5, <2>1, <2>3, <3>1
  <2>4. CASE ~Started(w)
    BY <2>1, <2>2, <2>4
  <2> QED BY <2>3, <2>4
<1>7. \A w \in Writers :
        /\ Busy(w)' <=> Busy(w)
        /\ Started(w)' <=> Started(w)
        /\ Fed(w)' <=> Fed(w)
        /\ Arrived(w)' = Arrived(w)
  <2> SUFFICES ASSUME NEW w \in Writers
               PROVE  /\ Busy(w)' <=> Busy(w)
                      /\ Started(w)' <=> Started(w)
                      /\ Fed(w)' <=> Fed(w)
                      /\ Arrived(w)' = Arrived(w)
    OBVIOUS
  <2> QED BY <1>6, Zenon DEF Busy, Started, Fed, Arrived
<1>8. ASSUME NEW i \in SlotIds, slots[i].active
      PROVE  Age(slots[i]) \in Nat /\ Age(slots[i])' = Age(slots[i]) + 1
  <2>1. slots[i] \in SlotRecords /\ Age(slots[i]) < ClockMod - 1
    BY <1>1, <1>2, <1>8
  <2>2. (clock' - slots[i].start_ms) % ClockMod = Age(slots[i]) + 1
    BY <1>1, <1>2, <2>1, OneOlder
  <2>3. Age(slots[i])' = (clock' - slots[i].start_ms) % ClockMod
    BY <1>1, Zenon DEF Age
  <2> QED BY <1>2, <2>1, <2>2, <2>3, Ages
<1>9. TypeOK'
  <2>1. writing' \in [Writers -> WriteRecords]
    <3>1. \A w \in Writers : writing'[w] \in WriteRecords
      BY <1>6
    <3> QED BY <1>1, <3>1, Zenon
  <2>2. used' \in [Ids -> 0 .. Timeout]
    <3>1. \A id \in Ids : Older(used[id]) \in 0 .. Timeout
      BY <1>2, <1>4
    <3> QED BY <1>1, <3>1
  <2> QED BY <1>1, <1>3, <2>1, <2>2, Zenon DEF TypeOK, WriteRecords
<1>10. sent' = sent /\ \A s : Whole(s)' = Whole(s)
  BY <1>1, Zenon DEF Whole
<1>11. WritersInv'
  <2>1. ASSUME NEW v \in Writers, Busy(v)'
        PROVE  /\ writing'[v].serial \in 1 .. Len(sent')
               /\ writing'[v].total = sent'[writing'[v].serial]
               /\ writing'[v].idx < writing'[v].total
               /\ ~Started(v)' => writing'[v].age = 0
    <3>1. Busy(v) /\ (Started(v)' <=> Started(v))
      BY <1>7, <2>1, Zenon
    <3>2. /\ writing[v].serial \in 1 .. Len(sent)
          /\ writing[v].total = sent[writing[v].serial]
          /\ writing[v].idx < writing[v].total
          /\ ~Started(v) => writing[v].age = 0
      BY <3>1, Zenon DEF BleInv, WritersInv
    <3>3. /\ writing'[v].serial = writing[v].serial /\ writing'[v].total = writing[v].total
          /\ writing'[v].idx = writing[v].idx
          /\ ~Started(v) => writing'[v].age = writing[v].age
      BY <1>6, Zenon
    <3> QED BY <1>10, <3>1, <3>2, <3>3, Zenon
  <2>2. ASSUME NEW u \in Writers, NEW v \in Writers, Busy(u)', Busy(v)', u # v
        PROVE  writing'[u].serial # writing'[v].serial /\ writing'[u].id # writing'[v].id
    <3>1. Busy(u) /\ Busy(v)
      BY <1>7, <2>2
    <3>2. writing[u].serial # writing[v].serial /\ writing[u].id # writing[v].id
      BY <2>2, <3>1, Zenon DEF BleInv, WritersInv
    <3> QED BY <1>6, <3>2
  <2> QED BY <2>1, <2>2, Zenon DEF WritersInv
<1>12. SlotsInv'
  <2>1. \A i, j \in SlotIds :
          slots'[i].active /\ slots'[j].active /\ slots'[i].msg_id = slots'[j].msg_id => i = j
    BY <1>1, Zenon DEF BleInv, SlotsInv
  <2>2. ASSUME NEW i \in SlotIds, slots'[i].active
        PROVE  used'[slots'[i].msg_id] <= Age(slots[i])'
    <3>1. slots'[i] = slots[i] /\ slots[i].active /\ slots[i].msg_id \in Ids
      BY <1>1, <1>2, <2>2, SlotFields
    <3>2. used[slots[i].msg_id] <= Age(slots[i]) /\ used[slots[i].msg_id] \in 0 .. Timeout
      BY <1>2, <3>1 DEF BleInv, SlotsInv
    <3>3. used'[slots'[i].msg_id] = Older(used[slots[i].msg_id])
      BY <1>1, <3>1
    <3> QED BY <1>4, <1>8, <3>1, <3>2, <3>3
  <2> QED BY <2>1, <2>2, Zenon DEF SlotsInv
<1>13. OwnerInv'
  <2> SUFFICES ASSUME NEW v \in Writers, NEW j \in SlotIds, Busy(v)', Has(j, v)'
               PROVE  /\ ~Started(v)' => Age(slots[j])' >= Timeout
                      /\ Fed(v)' => Owned(slots[j], v)'
    BY Zenon DEF OwnerInv
  <2>1. Busy(v) /\ Has(j, v) /\ slots[j].active
    BY <1>1, <1>6, <1>7, Zenon DEF Has
  <2>2. (~Started(v) => Age(slots[j]) >= Timeout) /\ (Fed(v) => Owned(slots[j], v))
    BY <2>1, Zenon DEF BleInv, OwnerInv
  <2>3. Age(slots[j]) \in Nat /\ Age(slots[j])' = Age(slots[j]) + 1
    BY <1>8, <2>1
  <2>4. ~Started(v)' => Age(slots[j])' >= Timeout
    <3>1. ASSUME ~Started(v)' PROVE Age(slots[j]) >= Timeout
      BY <1>7, <2>2, <3>1, Zenon
    <3> QED BY <2>3, <3>1
  <2>5. ASSUME Fed(v)' PROVE Owned(slots[j], v)'
    <3>1. Fed(v) /\ Started(v) /\ Owned(slots[j], v)
      <4>1. Fed(v)
        BY <1>7, <2>5, Zenon
      <4>2. Started(v)
        BY <4>1 DEF Fed, Started
      <4> QED BY <2>2, <4>1, <4>2
    <3>2. /\ slots'[j].chunk_total = writing'[v].total
          /\ slots'[j].received_mask \subseteq 0 .. Arrived(v)' - 1
          /\ \A k \in slots'[j].received_mask : slots'[j].payloads[k] = writing'[v].serial
      BY <1>1, <1>6, <1>7, <3>1, Zenon DEF Owned
    <3>3. Capped(Age(slots[j]))' = Older(Capped(Age(slots[j])))
      <4>1. Capped(Age(slots[j]))' = IF Age(slots[j])' < Timeout THEN Age(slots[j])' ELSE Timeout
        BY Zenon DEF Capped
      <4> QED BY <2>3, <4>1 DEF Capped, Older
    <3>4. writing'[v].age = Older(writing[v].age)
      BY <1>6, <3>1
    <3>5. 0 \in slots'[j].received_mask => writing'[v].age = Capped(Age(slots[j]))'
      BY <1>1, <3>1, <3>3, <3>4, Zenon DEF Owned
    <3> QED BY <3>2, <3>5, Zenon DEF Owned
  <2> QED BY <2>4, <2>5
<1>14. KeptInv'
  <2> SUFFICES ASSUME NEW v \in Writers, Fed(v)', writing'[v].alone, writing'[v].age < Timeout
               PROVE  IF Arrived(v)' = writing'[v].total
                      THEN \E n \in 1 .. Len(delivered') :
                             delivered'[n] = Whole(writing[v].serial)'
                      ELSE \E j \in SlotIds :
                             Has(j, v)' /\ 0 .. Arrived(v)' - 1 \subseteq slots'[j].received_mask
    BY Zenon DEF KeptInv
  <2>1. Fed(v) /\ writing[v].alone /\ writing[v].age < Timeout
    <3>1. writing[v].age \in 0 .. Timeout
      BY <1>2, WriteFields
    <3>2. writing[v].age <= writing'[v].age
      BY <1>4, <1>6, <3>1
    <3>3. Fed(v) /\ writing[v].alone
      BY <1>6, <1>7, Zenon
    <3>4. writing'[v].age \in 0 .. Timeout
      BY <1>6, WriteFields
    <3>5. writing[v].age < Timeout
      BY <3>1, <3>2, <3>4
    <3> QED BY <3>3, <3>5
  <2>2. Whole(writing[v].serial)' = Whole(writing[v].serial)
    BY <1>1, <1>6, Zenon DEF Whole
  <2>3. \A j \in SlotIds : Has(j, v) => Has(j, v)'
    BY <1>1, <1>6, Zenon DEF Has
  <2>4. CASE Arrived(v) = writing[v].total
    <3>1. \E n \in 1 .. Len(delivered) : delivered[n] = Whole(writing[v].serial)
      BY <2>1, <2>4, Zenon DEF BleInv, KeptInv
    <3> QED BY <1>1, <1>6, <1>7, <2>2, <2>4, <3>1, Zenon
  <2>5. CASE Arrived(v) # writing[v].total
    <3>1. \E j \in SlotIds : Has(j, v) /\ 0 .. Arrived(v) - 1 \subseteq slots[j].received_mask
      BY <2>1, <2>5, Zenon DEF BleInv, KeptInv
    <3> QED BY <1>1, <1>6, <1>7, <2>3, <2>5, <3>1, Zenon
  <2> QED BY <2>4, <2>5
<1>15. DeliveredInv'
  <2> SUFFICES ASSUME NEW n \in 1 .. Len(delivered), NEW v \in Writers, Busy(v)',
                      delivered[n] = Whole(writing[v].serial)'
               PROVE  Arrived(v)' = writing'[v].total
    BY <1>1, Zenon DEF DeliveredInv
  <2>1. Whole(writing[v].serial)' = Whole(writing[v].serial) /\ Busy(v)
    <3>1. writing'[v].serial = writing[v].serial /\ Busy(v)
      BY <1>6, <1>7, Zenon
    <3> QED BY <1>10, <3>1, Zenon DEF Whole
  <2>2. Arrived(v) = writing[v].total
    BY <2>1, Zenon DEF BleInv, DeliveredInv
  <2> QED BY <1>6, <1>7, <2>2, Zenon
<1>16. OneWholeMessage'
  BY <1>1, <1>10, Zenon DEF BleInv, OneWholeMessage
<1> QED BY <1>1, <1>9, <1>11, <1>12, <1>13, <1>14, <1>15, <1>16, NothingConfirmed, Zenon DEF BleInv

\* The invariant holds at the start,
LEMMA BleInit == Init => BleInv
<1> SUFFICES ASSUME Init PROVE BleInv
  OBVIOUS
<1> USE ChunkAssumption
<1>1. Idle \in WriteRecords /\ Idle.serial = 0
  BY DEF Idle, WriteRecords, Indices, Ids
<1>2. /\ writing = [w \in Writers |-> Idle] /\ sent = <<>> /\ delivered = <<>>
      /\ used = [id \in Ids |-> Timeout] /\ confirmed = [s \in Serials |-> "no"]
      /\ ring = 0 /\ turned_away = {} /\ clock = 0 /\ connected = FALSE /\ msg_id = 0
  BY Zenon DEF Init
<1> DEFINE empty == [active |-> FALSE, msg_id |-> 0, chunk_total |-> 0, received_mask |-> {},
                     start_ms |-> 0, payloads |-> [k \in Indices |-> 0]]
<1>3. empty \in SlotRecords /\ ~empty.active
  <2>1. [k \in Indices |-> 0] \in [Indices -> 0 .. MaxMsgs]
    OBVIOUS
  <2> QED BY <2>1 DEF SlotRecords, Ids
<1>4. slots = [i \in SlotIds |-> empty]
  BY Zenon DEF Init
<1> HIDE DEF empty
<1>5. \A i \in SlotIds : slots[i] \in SlotRecords /\ ~slots[i].active
  BY <1>3, <1>4
<1>6. TypeOK
  <2>1. slots \in [SlotIds -> SlotRecords] /\ writing \in [Writers -> WriteRecords]
    BY <1>1, <1>2, <1>3, <1>4
  <2>2. /\ sent \in Seq(1 .. MaxTotal) /\ delivered \in Seq(Seq(0 .. MaxMsgs))
        /\ turned_away \subseteq 1 .. Len(delivered)
    BY <1>2
  <2>3. /\ used \in [Ids -> 0 .. Timeout] /\ confirmed \in [Serials -> {"no", "yes", "in time"}]
        /\ ring \in 0 .. RingDepth /\ clock \in 0 .. ClockMod - 1 /\ connected \in BOOLEAN
        /\ msg_id \in Ids
    BY <1>2 DEF Ids
  <2> QED BY <2>1, <2>2, <2>3, Zenon DEF TypeOK, SlotRecords, WriteRecords
<1>7. \A w \in Writers : ~Busy(w) /\ ~Fed(w)
  BY <1>1, <1>2 DEF Busy, Fed
<1>8. WritersInv /\ KeptInv /\ DeliveredInv /\ SlotsInv /\ OwnerInv
  BY <1>5, <1>7, Zenon DEF WritersInv, KeptInv, DeliveredInv, SlotsInv, OwnerInv
<1>9. OneWholeMessage
  BY <1>2 DEF OneWholeMessage
<1>10. SuccessMeansDelivered
  BY <1>2 DEF SuccessMeansDelivered
<1> QED BY <1>6, <1>8, <1>9, <1>10, Zenon DEF BleInv

\* and every step preserves it.
LEMMA BleStep == BleInv /\ [Next]_vars => BleInv'
<1> SUFFICES ASSUME BleInv, [Next]_vars PROVE BleInv'
  OBVIOUS
<1>1. CASE \E w \in Writers : \E total \in 1 .. MaxTotal : StartWrite(w, total)
  BY <1>1, StartKeeps
<1>2. CASE \E w \in Writers : WriteChunk(w)
  BY <1>2, ChunkKeeps
<1>3. CASE \E w \in Writers : WriteUnencrypted(w)
  BY <1>3, UnencryptedKeeps
<1>4. CASE \E w \in Writers : Response(w)
  BY <1>4, ResponseKeeps
<1>5. CASE WriteElsewhere \/ Connect \/ Drain
  BY <1>5, OtherKeeps
<1>6. CASE Disconnect
  BY <1>6, DisconnectKeeps
<1>7. CASE TimePasses
  BY <1>7, TimeKeeps
<1>8. CASE UNCHANGED vars
  <2>1. /\ UNCHANGED <<slots, clock, connected, msg_id, writing, sent, ring, used, delivered>>
        /\ UNCHANGED <<turned_away, confirmed>>
    BY <1>8 DEF vars, client
  <2>2. ASSUME NEW v \in Writers, Busy(v)'
        PROVE  /\ Busy(v) /\ Arrived(v)' = Arrived(v) /\ (Fed(v)' => Fed(v))
               /\ Started(v) => Started(v)'
               /\ writing'[v].serial = writing[v].serial /\ writing'[v].id = writing[v].id
               /\ writing'[v].total = writing[v].total /\ writing'[v].idx < writing[v].total
               /\ writing'[v].age = writing[v].age /\ writing'[v].alone = writing[v].alone
    <3>1. Busy(v)
      BY <2>1, <2>2, Zenon DEF Busy
    <3>2. writing[v].idx < writing[v].total
      BY <3>1, Zenon DEF BleInv, WritersInv
    <3> QED BY <2>1, <3>1, <3>2, Zenon DEF Arrived, Fed, Started, Busy
  <2>3. /\ WritersInv' /\ SlotsInv' /\ OwnerInv' /\ KeptInv' /\ DeliveredInv'
        /\ OneWholeMessage'
    BY <2>1, <2>2, WritingMoves, Zenon
  <2>4. TypeOK'
    BY <2>1, Zenon DEF BleInv, TypeOK
  <2> QED BY <2>1, <2>3, <2>4, NothingConfirmed, Zenon DEF BleInv
<1> QED BY <1>1, <1>2, <1>3, <1>4, <1>5, <1>6, <1>7, <1>8, Zenon DEF Next

(* Every reachable state satisfies the inductive invariant.                *)
THEOREM ChunksInvariant == Spec => []BleInv
  BY BleInit, BleStep, PTL DEF Spec

(* Whatever the interleaving of writes, drops, restarts and evictions, the *)
(* handler gets only whole messages, none of them twice.                   *)
THEOREM MessagesAreWhole == Spec => []OneWholeMessage
<1>1. BleInv => OneWholeMessage
  BY Zenon DEF BleInv
<1> QED BY <1>1, ChunksInvariant, PTL

(* A message whose writes all succeeded in time and undisturbed was handed *)
(* over.                                                                   *)
THEOREM SuccessIsDelivery == Spec => []SuccessMeansDelivered
<1>1. BleInv => SuccessMeansDelivered
  BY Zenon DEF BleInv
<1> QED BY <1>1, ChunksInvariant, PTL

(* Every variable keeps its type.                                          *)
THEOREM ChunksTyped == Spec => []TypeOK
<1>1. BleInv => TypeOK
  BY Zenon DEF BleInv
<1> QED BY <1>1, ChunksInvariant, PTL

(* A step that completes a payload is the write of its last chunk, and the *)
(* age of its slot is that of its own first chunk.                         *)
LEMMA CompletedStep ==
  ASSUME BleInv, [Next]_vars, Len(delivered') > Len(delivered)
  PROVE  \E w \in Writers : /\ Busy(w)
                            /\ delivered'[Len(delivered')] = Whole(writing[w].serial)
                            /\ writing[w].age < Timeout
<1>1. delivered \in Seq(Seq(0 .. MaxMsgs)) /\ Len(delivered) \in Nat /\ TypeOK
  <2>1. TypeOK /\ delivered \in Seq(Seq(0 .. MaxMsgs))
    BY DEF BleInv, TypeOK
  <2>2. Len(delivered) \in Nat
    <3>1. delivered \in Seq(Seq(0 .. MaxMsgs))
      BY <2>1
    <3> QED BY <3>1
  <2> QED BY <2>1, <2>2
<1>2. delivered' # delivered
  BY <1>1
<1>3. PICK w \in Writers : WriteChunk(w)
  BY <1>2, Zenon DEF Next, vars, client, StartWrite, WriteUnencrypted, Response, WriteElsewhere,
     Connect, Disconnect, Drain, TimePasses
<1>4. Busy(w) /\ writing[w].answer = "none" /\ \E ok \in BOOLEAN : Feed(writing[w], ok)
  BY <1>3, Zenon DEF WriteChunk
<1>5. PICK i \in SlotIds, new \in SlotRecords : NewSlot(new, w) /\ Taken(i, new, w)
  BY <1>4, ChunkTaken, Zenon
<1>6. Handle(Whole(writing[w].serial)) /\ writing[w].age < Timeout
  BY <1>2, <1>5, Zenon DEF Taken
<1>7. delivered' = Append(delivered, Whole(writing[w].serial))
  BY <1>6 DEF Handle
<1>8. writing[w].serial \in 1 .. Len(sent) /\ writing[w].serial \in 0 .. MaxMsgs
  <2>1. writing[w].serial \in 1 .. Len(sent)
    BY <1>4, Zenon DEF BleInv, WritersInv
  <2> QED BY <1>1, <2>1, Types, WriteFields
<1>9. Whole(writing[w].serial) \in Seq(0 .. MaxMsgs)
  BY <1>1, <1>8, WholeIsSeq
<1>10. delivered'[Len(delivered')] = Whole(writing[w].serial)
  BY <1>1, <1>7, <1>9, LongerDelivered, Zenon
<1> QED BY <1>4, <1>6, <1>10

(* No payload is completed Timeout or more after its first chunk.          *)
THEOREM CompletionInTime == Spec => CompletedInTime
<1>1. BleInv /\ [Next]_vars =>
        [Len(delivered') > Len(delivered) =>
           \E w \in Writers : /\ Busy(w)
                              /\ delivered'[Len(delivered')] = Whole(writing[w].serial)
                              /\ writing[w].age < Timeout]_vars
  BY CompletedStep, Zenon
<1> QED BY <1>1, ChunksInvariant, PTL DEF Spec, CompletedInTime

--------------------------------------------------------------------------------
(* The configuration a client writes (DeviceConfig): what memory and NVS   *)
(* hold is an identity, never the mark of an empty NVS, and while a write  *)
(* is on its way memory has the fields it has come to.                     *)

IsIdentity(i) == i = Id(i.callsign, i.ssid) /\ Range(i.callsign) \subseteq Letters

StoredInv ==
  /\ hpc \in {"idle", "callsign", "ssid", "save"}
  /\ IsIdentity(Id(callsign, ssid))
  /\ nvs = None \/ IsIdentity(nvs)
  /\ hpc # "idle" => IsIdentity(fields)
  /\ hpc \in {"ssid", "save"} => callsign = fields.callsign
  /\ hpc = "save" => ssid = fields.ssid
  /\ save_failed \in BOOLEAN /\ storage \in BOOLEAN

ConfigInv == StoredInv /\ StoredIsCurrent

(* No legal callsign reads like the mark.                                  *)
LEMMA IdentityIsNotNone ==
  ASSUME NEW i, IsIdentity(i)
  PROVE  i # None
<1> SUFFICES ASSUME i = None PROVE FALSE
  OBVIOUS
<1>1. i.callsign = <<"none">>
  BY DEF None, Id
<1>2. "none" \in Range(<<"none">>)
  BY DEF Range
<1>3. "none" \in Letters
  BY <1>1, <1>2 DEF IsIdentity
<1> QED BY <1>3, ConfigAssumption

(* The identity of a new device, and every one the validator lets through. *)
LEMMA DefaultIsIdentity == IsIdentity(Default)
<1>1. Default.callsign = <<>> /\ Default = Id(Default.callsign, Default.ssid)
  BY DEF Default, Id
<1>2. Range(<<>>) = {}
  BY DEF Range
<1> QED BY <1>1, <1>2 DEF IsIdentity

(* What the validator lets through is an identity.                         *)
LEMMA ValidatedIsIdentity ==
  ASSUME NEW w \in Writes, w.fields # None
  PROVE  IsIdentity(w.fields)
<1>1. PICK obj \in Objects : w.fields = Validate(Text(obj))
  <2>1. PICK obj \in Objects :
          w = [fields |-> Validate(Text(obj)), meant |-> Meaning(obj),
               clear |-> IsClear(obj, {"callsign", "ssid"})]
    BY Zenon DEF Writes
  <2> QED BY <2>1
<1> DEFINE t == Text(obj)
           c == CallsignOf(t, "callsign")
           n == SsidOf(t)
<1>2. ValidAs(t, "callsign") /\ w.fields = Id(c, n)
  BY <1>1, Zenon DEF Validate
<1>3. Range(c) \subseteq Letters
  BY <1>2, Zenon DEF ValidAs, IsValidCallsign
<1> HIDE DEF t, c, n
<1>4. w.fields.callsign = c /\ w.fields.ssid = n
  BY <1>2 DEF Id
<1> QED BY <1>2, <1>3, <1>4 DEF IsIdentity

(* After start-up memory holds what NVS holds, or the default.             *)
LEMMA ConfigInitInv == ConfigInit => ConfigInv
<1> SUFFICES ASSUME ConfigInit PROVE ConfigInv
  OBVIOUS
<1> DEFINE saved == Id(<<"ssid">>, 3)
<1>1. IsIdentity(saved)
  <2>1. saved.callsign = <<"ssid">> /\ saved = Id(saved.callsign, saved.ssid)
    BY DEF Id
  <2>2. Range(<<"ssid">>) \subseteq Letters
    BY ConfigAssumption DEF Range
  <2> QED BY <2>1, <2>2 DEF IsIdentity
<1>2. saved # None
  BY <1>1, IdentityIsNotNone
<1> HIDE DEF saved
<1>3. nvs \in {None, saved} /\ hpc = "idle" /\ save_failed = FALSE /\ storage = TRUE
  BY DEF ConfigInit, saved
<1>4. Id(callsign, ssid) = IF nvs = None THEN Default ELSE nvs
  <2>1. CASE nvs = None
    BY <2>1, DefaultIsIdentity DEF ConfigInit, IsIdentity, Id
  <2>2. CASE nvs # None
    BY <1>1, <1>3, <2>2 DEF ConfigInit, IsIdentity, Id
  <2> QED BY <2>1, <2>2
<1>5. IsIdentity(Id(callsign, ssid))
  BY <1>1, <1>3, <1>4, DefaultIsIdentity
<1> QED BY <1>1, <1>3, <1>4, <1>5 DEF ConfigInv, StoredInv, StoredIsCurrent

(* Every step keeps it: a write that is stored and saved, a save that      *)
(* fails, and a reset in the middle of either.                             *)
LEMMA ConfigStep == ConfigInv /\ [ConfigNext]_configVars => ConfigInv'
<1> SUFFICES ASSUME ConfigInv, [ConfigNext]_configVars PROVE ConfigInv'
  OBVIOUS
<1> USE DEF ConfigInv
<1>1. ASSUME NEW w \in Writes, Write(w) PROVE ConfigInv'
  <2>1. w.fields # None => IsIdentity(w.fields)
    BY ValidatedIsIdentity
  <2>2. /\ fields' = w.fields /\ hpc' = (IF w.fields = None THEN "idle" ELSE "callsign")
        /\ UNCHANGED <<callsign, ssid, storage, nvs, save_failed>> /\ hpc = "idle"
    BY <1>1 DEF Write, config
  <2>3. StoredInv'
    BY <2>1, <2>2 DEF StoredInv
  <2>4. StoredIsCurrent'
    BY <2>2 DEF StoredIsCurrent
  <2> QED BY <2>3, <2>4
<1>2. ASSUME NEW w \in TxWrites, TxRequest(w) PROVE ConfigInv'
  <2>1. UNCHANGED <<callsign, ssid, storage, nvs, hpc, fields, save_failed>>
    BY <1>2 DEF TxRequest, config, handler
  <2> QED BY <2>1 DEF StoredInv, StoredIsCurrent
<1>3. CASE StoreCallsign
  <2>1. /\ hpc = "callsign" /\ hpc' = "ssid" /\ callsign' = fields.callsign
        /\ UNCHANGED <<ssid, storage, nvs, fields, save_failed>>
    BY <1>3 DEF StoreCallsign
  <2>2. IsIdentity(Id(fields.callsign, ssid))
    BY <2>1 DEF StoredInv, IsIdentity, Id
  <2> QED BY <2>1, <2>2 DEF StoredInv, StoredIsCurrent
<1>4. CASE StoreSsid
  <2>1. /\ hpc = "ssid" /\ hpc' = "save" /\ ssid' = fields.ssid
        /\ UNCHANGED <<callsign, storage, nvs, fields, save_failed>>
    BY <1>4 DEF StoreSsid
  <2>2. IsIdentity(Id(callsign, fields.ssid))
    BY <2>1 DEF StoredInv, IsIdentity, Id
  <2> QED BY <2>1, <2>2 DEF StoredInv, StoredIsCurrent
<1>5. ASSUME NEW ok \in BOOLEAN, Save(ok) PROVE ConfigInv'
  <2>1. /\ hpc = "save" /\ hpc' = "idle"
        /\ nvs' = (IF ok THEN Id(callsign, ssid) ELSE nvs) /\ save_failed' = ~ok
        /\ UNCHANGED <<callsign, ssid, storage>>
    BY <1>5 DEF Save, Blob, config
  <2>2. IsIdentity(Id(callsign, ssid)) /\ Id(callsign, ssid) # None
    BY IdentityIsNotNone DEF StoredInv
  <2> QED BY <2>1, <2>2 DEF StoredInv, StoredIsCurrent
<1>6. ASSUME NEW init \in {"ok", "erased", "failed"}, Reset(init) PROVE ConfigInv'
  <2> DEFINE loaded == IF storage' /\ nvs' # None THEN nvs' ELSE Default
  <2>1. /\ hpc' = "idle" /\ nvs' \in {nvs, None} /\ storage' \in BOOLEAN
        /\ save_failed' = ~storage'
        /\ callsign' = loaded.callsign /\ ssid' = loaded.ssid
    BY <1>6 DEF Reset
  <2>2. IsIdentity(loaded)
    BY <2>1, DefaultIsIdentity DEF StoredInv
  <2>3. Id(callsign', ssid') = loaded
    BY <2>1, <2>2 DEF IsIdentity
  <2>4. StoredInv'
    BY <2>1, <2>2, <2>3 DEF StoredInv
  <2>5. StoredIsCurrent'
    BY <2>1, <2>3 DEF StoredIsCurrent
  <2> QED BY <2>4, <2>5
<1>7. CASE UNCHANGED configVars
  BY <1>7 DEF configVars, config, handler, StoredInv, StoredIsCurrent
<1> QED BY <1>1, <1>2, <1>3, <1>4, <1>5, <1>6, <1>7 DEF ConfigNext

(* Once a write is done a reset brings back the identity of now, unless    *)
(* the save has failed.                                                    *)
THEOREM ResetBringsItBack == ConfigSpec => []StoredIsCurrent
<1>1. ConfigInv => StoredIsCurrent
  BY DEF ConfigInv
<1> QED BY <1>1, ConfigInitInv, ConfigStep, PTL DEF ConfigSpec

(* The tokens of a text.                                                   *)
Tokens == {"q", "colon", "late", "break", "comma"}
            \cup Keys \cup Letters \cup BadLetters \cup Escapes \cup Bare

(* NextQuote() finds the first quotation mark after i, or none.            *)
LEMMA QuoteAfter ==
  ASSUME NEW t \in Seq(Tokens), NEW i \in Nat
  PROVE  LET q == NextQuote(t, i) IN
         /\ q \in Nat
         /\ q # 0 => q \in DOMAIN t /\ q > i /\ t[q] = "q"
                       /\ \A j \in DOMAIN t : j > i /\ t[j] = "q" => q <= j
         /\ q = 0 => \A j \in DOMAIN t : j > i => t[j] # "q"
<1> DEFINE after == {j \in DOMAIN t : j > i /\ t[j] = "q"}
           q == NextQuote(t, i)
<1>1. q = IF after = {} THEN 0 ELSE CHOOSE j \in after : \A k \in after : j <= k
  BY Zenon DEF NextQuote
<1>2. DOMAIN t \subseteq Nat \ {0}
  OBVIOUS
<1>3. CASE after = {}
  BY <1>1, <1>2, <1>3
<1>4. CASE after # {}
  <2>1. after \in SUBSET Nat
    BY <1>2
  <2>2. \E j \in after : \A k \in after : j <= k
    <3> HIDE DEF after
    <3> QED BY <1>4, <2>1, LeastNat
  <2>3. q \in after /\ \A k \in after : q <= k
    <3> HIDE DEF after, q
    <3> QED BY <1>1, <1>4, <2>2
  <2> HIDE DEF q
  <2>4. q \in DOMAIN t /\ q > i /\ t[q] = "q"
    BY <2>3
  <2>5. \A j \in DOMAIN t : j > i /\ t[j] = "q" => q <= j
    BY <2>3
  <2> QED BY <1>2, <2>4, <2>5 DEF q
<1> QED BY <1>3, <1>4

(* A quotation mark with none before it is the one found.                  *)
LEMMA QuoteIs ==
  ASSUME NEW t \in Seq(Tokens), NEW i \in Nat, NEW q \in DOMAIN t, i < q, t[q] = "q",
         \A j \in DOMAIN t : i < j /\ j < q => t[j] # "q"
  PROVE  NextQuote(t, i) = q
<1> DEFINE r == NextQuote(t, i)
<1>1. /\ r \in Nat
      /\ r # 0 => r \in DOMAIN t /\ r > i /\ t[r] = "q"
                    /\ \A j \in DOMAIN t : j > i /\ t[j] = "q" => r <= j
      /\ r = 0 => \A j \in DOMAIN t : j > i => t[j] # "q"
  BY QuoteAfter
<1> HIDE DEF r
<1>2. r # 0
  BY <1>1
<1>3. r <= q /\ ~(r < q)
  BY <1>1, <1>2
<1>4. q \in Nat
  OBVIOUS
<1> QED BY <1>1, <1>3, <1>4 DEF r

(* One step of the search of find_value(), with g for what it finds from   *)
(* a later place on.                                                       *)
QuoteFrom(t, i) == IF At(t, i) = "q" THEN i ELSE NextQuote(t, i)
SearchAt(t, key, g, i, q) ==
  IF i = 0 \/ q = 0 THEN 0
  ELSE IF At(t, q + 1) = key /\ At(t, q + 2) = "q"
       THEN IF At(t, q + 3) = "colon" THEN q + 4 ELSE g[q + 3]
       ELSE IF NextQuote(t, q) = 0 THEN 0 ELSE g[NextQuote(t, q) + 1]
Search(t, key, g, i) == SearchAt(t, key, g, i, QuoteFrom(t, i))

(* The quotation mark the search looks at: at its place or the next.       *)
LEMMA QuoteFromTyped ==
  ASSUME NEW t \in Seq(Tokens), NEW i \in Nat
  PROVE  LET q == QuoteFrom(t, i) IN
         q \in Nat /\ (q # 0 => q \in DOMAIN t /\ q >= i /\ t[q] = "q")
<1>1. CASE At(t, i) = "q"
  BY <1>1 DEF QuoteFrom, At
<1>2. CASE At(t, i) # "q"
  <2> DEFINE q == NextQuote(t, i)
  <2>1. q \in Nat /\ (q # 0 => q \in DOMAIN t /\ q > i /\ t[q] = "q")
    BY QuoteAfter
  <2>2. QuoteFrom(t, i) = q
    BY <1>2 DEF QuoteFrom
  <2> HIDE DEF q
  <2> QED BY <2>1, <2>2
<1> QED BY <1>1, <1>2

(* The search ends there, or goes on at a later place of the text.         *)
LEMMA SearchGoesOn ==
  ASSUME NEW t \in Seq(Tokens), NEW key \in Keys, NEW i \in 0..(Len(t) + 1)
  PROVE  \/ \E r \in Nat : \A g : Search(t, key, g, i) = r
         \/ \E j \in (i + 1)..(Len(t) + 1) : \A g : Search(t, key, g, i) = g[j]
<1> DEFINE q == QuoteFrom(t, i)
           close == NextQuote(t, q)
<1>1. q \in Nat /\ (q # 0 => q \in DOMAIN t /\ q >= i /\ t[q] = "q")
  BY QuoteFromTyped
<1>d. \A g : Search(t, key, g, i) =
         IF i = 0 \/ q = 0 THEN 0
         ELSE IF At(t, q + 1) = key /\ At(t, q + 2) = "q"
              THEN IF At(t, q + 3) = "colon" THEN q + 4 ELSE g[q + 3]
              ELSE IF close = 0 THEN 0 ELSE g[close + 1]
  BY Zenon DEF Search, SearchAt
<1> HIDE DEF q
<1>2. close \in Nat /\ (close # 0 => close \in DOMAIN t /\ close > q)
  BY <1>1, QuoteAfter
<1> HIDE DEF close
<1>3. CASE i = 0 \/ q = 0
  <2>1. \A g : Search(t, key, g, i) = 0
    BY <1>3, <1>d
  <2> QED BY <2>1
<1>4. CASE ~(i = 0 \/ q = 0)
  <2>1. CASE At(t, q + 1) = key /\ At(t, q + 2) = "q"
    <3>1. q + 2 \in DOMAIN t
      BY <2>1 DEF At
    <3>2. q + 3 \in (i + 1)..(Len(t) + 1)
      BY <1>1, <1>4, <3>1
    <3>3. CASE At(t, q + 3) = "colon"
      <4>1. \A g : Search(t, key, g, i) = q + 4
        BY <1>4, <1>d, <2>1, <3>3
      <4> QED BY <1>1, <4>1
    <3>4. CASE At(t, q + 3) # "colon"
      <4>1. \A g : Search(t, key, g, i) = g[q + 3]
        BY <1>4, <1>d, <2>1, <3>4
      <4> QED BY <3>2, <4>1
    <3> QED BY <3>3, <3>4
  <2>2. CASE ~(At(t, q + 1) = key /\ At(t, q + 2) = "q")
    <3>1. CASE close = 0
      <4>1. \A g : Search(t, key, g, i) = 0
        BY <1>4, <1>d, <2>2, <3>1
      <4> QED BY <4>1
    <3>2. CASE close # 0
      <4>1. \A g : Search(t, key, g, i) = g[close + 1]
        BY <1>4, <1>d, <2>2, <3>2
      <4>2. close + 1 \in (i + 1)..(Len(t) + 1)
        BY <1>1, <1>2, <1>4, <3>2
      <4> QED BY <4>1, <4>2
    <3> QED BY <3>1, <3>2
  <2> QED BY <2>1, <2>2
<1> QED BY <1>3, <1>4

(* find_value() as the search it is: from[i] is what it finds from i on.   *)
Searches(from, t, key) ==
  /\ FindValue(t, key) = from[1]
  /\ \A i \in 0..(Len(t) + 1) : from[i] = Search(t, key, from, i)

(* There is such a search: the places of a text are finitely many, and     *)
(* each looks at later ones only.                                          *)
LEMMA Searching ==
  ASSUME NEW t \in Seq(Tokens), NEW key \in Keys
  PROVE  \E from : Searches(from, t, key)
<1> DEFINE end == Len(t) + 1
           Places == 0..end
           V == [Places -> Nat]
           Better(g) == [i \in Places |-> Search(t, key, g, i)]
           first == [i \in Places |-> 0]
           step == [k \in 1..(end + 1) |-> [g \in V |-> Better(g)]]
           Equation(g) == g = [i \in Places |-> Search(t, key, g, i)]
           from == CHOOSE g : Equation(g)
<1>1. end \in Nat /\ end + 1 \in Nat /\ first \in V
  OBVIOUS
<1>2. \A i \in Places : \/ \E r \in Nat : \A g : Search(t, key, g, i) = r
                        \/ \E j \in (i + 1)..end : \A g : Search(t, key, g, i) = g[j]
  BY SearchGoesOn
<1>3. FindValue(t, key) = from[1]
  BY Zenon DEF FindValue, Search, SearchAt, QuoteFrom
<1>4. ASSUME NEW g \in V PROVE Better(g) \in V
  <2>1. ASSUME NEW i \in Places PROVE Search(t, key, g, i) \in Nat
    <3>1. CASE \E r \in Nat : \A h : Search(t, key, h, i) = r
      BY <3>1
    <3>2. CASE \E j \in (i + 1)..end : \A h : Search(t, key, h, i) = h[j]
      <4>1. PICK j \in (i + 1)..end : \A h : Search(t, key, h, i) = h[j]
        BY <3>2
      <4>2. j \in Places /\ Search(t, key, g, i) = g[j]
        BY <1>1, <4>1
      <4> QED BY <4>2
    <3> QED BY <1>2, <3>1, <3>2
  <2> QED BY <2>1
<1>5. step \in [1..(end + 1) -> [V -> V]]
  BY <1>4
<1>6. \A k \in 1..(end + 1), g \in V : step[k][g] = Better(g)
  OBVIOUS
<1>7. PICK F : Iterates(F, V, first, end + 1, step)
  <2> HIDE DEF V, first, step, end
  <2> QED BY <1>1, <1>5, Iteration
<1>8. F \in [0..(end + 1) -> V] /\ \A k \in 1..(end + 1) : F[k] = step[k][F[k - 1]]
  <2> HIDE DEF V, first, step, end
  <2> QED BY <1>7 DEF Iterates
<1> HIDE DEF step
<1>9. \A k \in 0..(end + 1) : F[k] \in V
  BY <1>8
<1> HIDE DEF V
<1>10. ASSUME NEW k \in 0..end PROVE F[k + 1] = Better(F[k])
  <2>1. k + 1 \in 1..(end + 1) /\ k + 1 - 1 = k /\ k \in 0..(end + 1)
    BY <1>1
  <2> HIDE DEF Better, end
  <2>2. F[k + 1] = step[k + 1][F[k]]
    BY <1>8, <2>1
  <2> QED BY <1>6, <1>9, <2>1, <2>2
<1>11. ASSUME NEW k \in 0..end, NEW i \in Places
       PROVE  F[k + 1][i] = Search(t, key, F[k], i)
  BY <1>10
<1> DEFINE Settled(k) == \A i \in Places : i > end - k => F[k][i] = Search(t, key, F[k], i)
           P == {k \in 0..(end + 1) : Settled(k)}
<1> HIDE DEF Better
<1>12. 0 \in P
  BY <1>1
<1>13. ASSUME NEW k \in 0..(end + 1), k \in P, k < end + 1 PROVE k + 1 \in P
  <2>1. k \in 0..end /\ k + 1 \in 0..(end + 1)
    BY <1>1, <1>13
  <2>2. ASSUME NEW i \in Places, i > end - (k + 1)
        PROVE  F[k + 1][i] = Search(t, key, F[k + 1], i)
    <3>1. F[k + 1][i] = Search(t, key, F[k], i)
      BY <1>11, <2>1
    <3>2. CASE \E r \in Nat : \A h : Search(t, key, h, i) = r
      BY <3>1, <3>2
    <3>3. CASE \E j \in (i + 1)..end : \A h : Search(t, key, h, i) = h[j]
      <4>1. PICK j \in (i + 1)..end : \A h : Search(t, key, h, i) = h[j]
        BY <3>3
      <4>2. j \in Places /\ j > end - k
        BY <1>1, <2>1, <2>2
      <4>3. F[k][j] = Search(t, key, F[k], j)
        BY <1>13, <4>2
      <4>4. F[k + 1][j] = Search(t, key, F[k], j)
        BY <1>11, <2>1, <4>2
      <4> QED BY <3>1, <4>1, <4>3, <4>4
    <3> QED BY <1>2, <3>2, <3>3
  <2> QED BY <2>1, <2>2
<1>14. Settled(end + 1)
  <2> HIDE DEF P, end
  <2>1. \A k \in 0..(end + 1) : k \in P
    BY <1>1, <1>12, <1>13, Induction
  <2>2. end + 1 \in 0..(end + 1)
    BY <1>1
  <2>3. end + 1 \in P
    BY <2>1, <2>2
  <2> QED BY <2>3 DEF P
<1> DEFINE h == F[end + 1]
<1>15. h \in [Places -> Nat] /\ \A i \in Places : h[i] = Search(t, key, h, i)
  <2>1. end + 1 \in 0..(end + 1) /\ \A i \in Places : i > end - (end + 1)
    BY <1>1
  <2>2. h \in [Places -> Nat]
    BY <1>9, <2>1 DEF V
  <2> QED BY <1>14, <2>1, <2>2
<1> HIDE DEF h
<1>16. Equation(h)
  BY <1>15
<1>17. Equation(from)
  BY <1>16, Zenon
<1> HIDE DEF from
<1>18. \A i \in Places : from[i] = Search(t, key, from, i)
  BY <1>17
<1>19. Searches(from, t, key)
  BY <1>3, <1>18 DEF Searches
<1> QED BY <1>19

(* One token is a sequence of tokens.                                      *)
LEMMA OneToken ==
  ASSUME NEW x \in Tokens
  PROVE  <<x>> \in Seq(Tokens) /\ Len(<<x>>) = 1 /\ <<x>>[1] = x
OBVIOUS

(* The marks are tokens.                                                   *)
LEMMA Marks == {"q", "colon", "late", "break", "comma"} \subseteq Tokens
BY DEF Tokens

(* Only quotation marks are quotation marks.                               *)
LEMMA NotQuoted ==
  \A x \in Keys \cup Letters \cup BadLetters \cup Escapes \cup Bare : x # "q"
<1>1. \A x \in Letters \cup BadLetters \cup Escapes \cup Bare : x # "q"
  BY ConfigAssumption
<1>2. \A x \in Keys : x # "q"
  BY DEF Keys
<1> QED BY <1>1, <1>2

(* A string of letters, between quotation marks or not.                    *)
LEMMA QuotedBytes ==
  ASSUME NEW s \in Seq(Tokens)
  PROVE  /\ Quoted(s) \in Seq(Tokens) /\ Len(Quoted(s)) = Len(s) + 2
         /\ Quoted(s)[1] = "q" /\ Quoted(s)[Len(s) + 2] = "q"
         /\ \A k \in 1..Len(s) : Quoted(s)[k + 1] = s[k]
<1> DEFINE quote == <<"q">>
           front == quote \o s
<1>1. quote \in Seq(Tokens) /\ Len(quote) = 1 /\ quote[1] = "q"
  BY Marks, OneToken
<1>2. Quoted(s) = front \o quote
  BY DEF Quoted
<1> HIDE DEF quote
<1>3. front \in Seq(Tokens) /\ Len(front) = Len(quote) + Len(s)
      /\ (\A i \in 1..Len(quote) : front[i] = quote[i])
      /\ \A i \in 1..(Len(quote) + Len(s)) : i > Len(quote) => front[i] = s[i - Len(quote)]
  BY <1>1, ConcatFields
<1> HIDE DEF front
<1>4. front \o quote \in Seq(Tokens) /\ Len(front \o quote) = Len(front) + Len(quote)
      /\ (\A i \in 1..Len(front) : (front \o quote)[i] = front[i])
      /\ \A i \in 1..(Len(front) + Len(quote)) : i > Len(front) => (front \o quote)[i] = quote[i - Len(front)]
  <2>1. front \in Seq(Tokens) /\ quote \in Seq(Tokens)
    BY <1>1, <1>3
  <2> QED BY <2>1, ConcatFields
<1> DEFINE w == front \o quote
<1>5. Len(s) \in Nat /\ Len(front) = Len(s) + 1 /\ Len(w) = Len(s) + 2
  BY <1>1, <1>3, <1>4
<1> HIDE DEF w
<1>6. w[1] = front[1] /\ front[1] = "q"
  <2>1. 1 \in 1..Len(front) /\ 1 \in 1..Len(quote)
    BY <1>1, <1>5
  <2> QED BY <1>1, <1>3, <1>4, <2>1 DEF w
<1>7. w[Len(s) + 2] = "q"
  <2>1. Len(s) + 2 \in 1..(Len(front) + Len(quote)) /\ Len(s) + 2 > Len(front)
        /\ Len(s) + 2 - Len(front) = 1
    BY <1>1, <1>5
  <2> QED BY <1>1, <1>4, <2>1 DEF w
<1>8. ASSUME NEW k \in 1..Len(s) PROVE w[k + 1] = s[k]
  <2>1. k + 1 \in 1..Len(front) /\ k + 1 \in 1..(Len(quote) + Len(s)) /\ k + 1 > Len(quote)
        /\ k + 1 - Len(quote) = k
    BY <1>1, <1>5
  <2>2. w[k + 1] = front[k + 1]
    BY <1>4, <2>1 DEF w
  <2>3. front[k + 1] = s[k]
    BY <1>3, <2>1
  <2> QED BY <2>2, <2>3
<1> QED BY <1>2, <1>4, <1>5, <1>6, <1>7, <1>8 DEF w

(* What strings are made of.                                               *)
Glyphs == Letters \cup BadLetters \cup Escapes

(* A member's value is a string or stands for itself.                      *)
LEMMA ValueTyped ==
  ASSUME NEW p \in Members
  PROVE  /\ p.key \in Keys /\ p.layout \in {"plain", "before", "after"}
         /\ p.type \in {"string", "bare"}
         /\ p.type = "string" => p.val \in Seq(Glyphs) /\ p.val \in Seq(Tokens)
         /\ p.type = "bare" => p.val \in Bare /\ p.val \in Tokens
         /\ Separator(p) \in {"colon", "late"}
<1> USE DEF MembersOf
<1>1. CASE p \in MembersOf("string", Seq(Glyphs))
  <2>1. p.key \in Keys /\ p.type = "string" /\ p.val \in Seq(Glyphs)
        /\ p.layout \in {"plain", "before", "after"}
    BY <1>1
  <2>2. Glyphs \subseteq Tokens
    BY DEF Tokens, Glyphs
  <2>3. p.val \in Seq(Tokens)
    BY <2>1, <2>2
  <2> QED BY <2>1, <2>3 DEF Separator
<1>2. CASE p \in MembersOf("bare", Bare)
  <2>1. p.key \in Keys /\ p.type = "bare" /\ p.val \in Bare
        /\ p.layout \in {"plain", "before", "after"}
    BY <1>2
  <2> QED BY <2>1 DEF Separator, Tokens
<1> QED BY <1>1, <1>2 DEF Members, Glyphs

(* The value after its line break, if there is one.                        *)
Offset(p) == IF p.layout = "after" THEN 1 ELSE 0
Content(p) == IF p.type = "string" THEN Quoted(p.val) ELSE <<p.val>>

(* A value, token by token.                                                *)
LEMMA ValueBytes ==
  ASSUME NEW p \in Members
  PROVE  /\ ValueOf(p) \in Seq(Tokens) /\ Content(p) \in Seq(Tokens)
         /\ Len(ValueOf(p)) = Offset(p) + Len(Content(p)) /\ Len(Content(p)) \in Nat
         /\ Offset(p) = 1 => ValueOf(p)[1] = "break"
         /\ \A k \in 1..Len(Content(p)) : ValueOf(p)[Offset(p) + k] = Content(p)[k]
<1> DEFINE c == Content(p)
           front == IF p.layout = "after" THEN <<"break">> ELSE <<>>
           w == front \o c
<1>1. ValueOf(p) = w
  BY Zenon DEF ValueOf, Content
<1>2. c \in Seq(Tokens)
  <2>1. CASE p.type = "string"
    <3>1. p.val \in Seq(Tokens)
      BY <2>1, ValueTyped
    <3>2. Quoted(p.val) \in Seq(Tokens)
      BY <3>1, QuotedBytes
    <3> QED BY <2>1, <3>2 DEF Content
  <2>2. CASE p.type # "string"
    <3>1. p.val \in Tokens
      BY <2>2, ValueTyped
    <3> QED BY <2>2, <3>1, OneToken DEF Content
  <2> QED BY <2>1, <2>2
<1>3. front \in Seq(Tokens) /\ Len(front) = Offset(p) /\ (Offset(p) = 1 => front[1] = "break")
  BY Marks, OneToken, EmptySeq DEF Offset
<1> HIDE DEF front, c
<1>4. w \in Seq(Tokens) /\ Len(w) = Len(front) + Len(c)
      /\ (\A i \in 1..Len(front) : w[i] = front[i])
      /\ \A i \in 1..(Len(front) + Len(c)) : i > Len(front) => w[i] = c[i - Len(front)]
  BY <1>2, <1>3, ConcatFields
<1> HIDE DEF w
<1>5. Len(c) \in Nat /\ Offset(p) \in {0, 1}
  BY <1>2 DEF Offset
<1>6. ASSUME NEW k \in 1..Len(c) PROVE w[Offset(p) + k] = c[k]
  <2> DEFINE o == Offset(p)
             i == o + k
  <2>1. Len(front) = o /\ o \in {0, 1} /\ Len(c) \in Nat /\ k \in 1..Len(c)
    BY <1>3, <1>5
  <2> HIDE DEF o
  <2>2. i \in 1..(Len(front) + Len(c)) /\ i > Len(front) /\ i - Len(front) = k
    BY <2>1
  <2> HIDE DEF i
  <2>3. w[i] = c[i - Len(front)]
    BY <1>4, <2>2
  <2>4. w[i] = c[k]
    BY <2>2, <2>3
  <2> QED BY <2>4 DEF i, o
<1>7. Offset(p) = 1 => w[1] = "break"
  BY <1>3, <1>4
<1> QED BY <1>1, <1>2, <1>3, <1>4, <1>5, <1>6, <1>7 DEF c

(* The text of a member, token by token.                                   *)
LEMMA TextOfBytes ==
  ASSUME NEW p \in Members
  PROVE  LET w == TextOf(p) IN
         /\ w \in Seq(Tokens) /\ Len(w) = Len(ValueOf(p)) + 5
         /\ w[1] = "q" /\ w[2] = p.key /\ w[3] = "q" /\ w[4] = Separator(p)
         /\ \A k \in 1..Len(ValueOf(p)) : w[k + 4] = ValueOf(p)[k]
         /\ w[Len(ValueOf(p)) + 5] = "comma"
<1> DEFINE key == <<p.key>>
           colon == <<Separator(p)>>
           comma == <<"comma">>
           v == ValueOf(p)
           name == Quoted(key)
           front == name \o colon
           most == front \o v
           w == most \o comma
<1>1. TextOf(p) = w
  BY Zenon DEF TextOf
<1>2. key \in Seq(Tokens) /\ Len(key) = 1 /\ key[1] = p.key
      /\ colon \in Seq(Tokens) /\ Len(colon) = 1 /\ colon[1] = Separator(p)
      /\ comma \in Seq(Tokens) /\ Len(comma) = 1 /\ comma[1] = "comma"
      /\ v \in Seq(Tokens)
  <2>1. p.key \in Tokens
    BY ValueTyped DEF Tokens
  <2>2. key \in Seq(Tokens) /\ Len(key) = 1 /\ key[1] = p.key
    BY <2>1, OneToken
  <2>3. colon \in Seq(Tokens) /\ Len(colon) = 1 /\ colon[1] = Separator(p)
    <3>1. Separator(p) \in Tokens
      BY ValueTyped, Marks
    <3> QED BY <3>1, OneToken
  <2>4. comma \in Seq(Tokens) /\ Len(comma) = 1 /\ comma[1] = "comma"
    BY Marks, OneToken
  <2>5. v \in Seq(Tokens)
    BY ValueBytes
  <2> QED BY <2>2, <2>3, <2>4, <2>5
<1> HIDE DEF key, colon, comma, v
<1>3. name \in Seq(Tokens) /\ Len(name) = Len(key) + 2
      /\ name[1] = "q" /\ name[Len(key) + 2] = "q"
      /\ \A k \in 1..Len(key) : name[k + 1] = key[k]
  BY <1>2, QuotedBytes
<1>4. Len(name) = 3 /\ name[1] = "q" /\ name[2] = p.key /\ name[3] = "q"
  <2>1. Len(key) + 2 = 3 /\ 1 \in 1..Len(key) /\ 1 + 1 = 2
    BY <1>2
  <2>2. name[1 + 1] = key[1]
    BY <1>3, <2>1
  <2> HIDE DEF name
  <2> QED BY <1>2, <1>3, <2>1, <2>2
<1> HIDE DEF name
<1>5. front \in Seq(Tokens) /\ Len(front) = Len(name) + Len(colon)
      /\ (\A i \in 1..Len(name) : front[i] = name[i])
      /\ \A i \in 1..(Len(name) + Len(colon)) : i > Len(name) => front[i] = colon[i - Len(name)]
  <2>1. name \in Seq(Tokens) /\ colon \in Seq(Tokens)
    BY <1>2, <1>3
  <2> QED BY <2>1, ConcatFields
<1>6. Len(front) = 4 /\ front[1] = "q" /\ front[2] = p.key /\ front[3] = "q" /\ front[4] = Separator(p)
  <2>1. Len(name) + Len(colon) = 4 /\ 1 \in 1..Len(name) /\ 2 \in 1..Len(name) /\ 3 \in 1..Len(name)
        /\ 4 \in 1..(Len(name) + Len(colon)) /\ 4 > Len(name) /\ 4 - Len(name) = 1
    BY <1>2, <1>4
  <2> HIDE DEF front
  <2> QED BY <1>2, <1>4, <1>5, <2>1
<1> HIDE DEF front
<1>7. most \in Seq(Tokens) /\ Len(most) = Len(front) + Len(v)
      /\ (\A i \in 1..Len(front) : most[i] = front[i])
      /\ \A i \in 1..(Len(front) + Len(v)) : i > Len(front) => most[i] = v[i - Len(front)]
  <2>1. front \in Seq(Tokens) /\ v \in Seq(Tokens)
    BY <1>2, <1>5
  <2> QED BY <2>1, ConcatFields
<1> HIDE DEF most
<1>8. w \in Seq(Tokens) /\ Len(w) = Len(most) + Len(comma)
      /\ (\A i \in 1..Len(most) : w[i] = most[i])
      /\ \A i \in 1..(Len(most) + Len(comma)) : i > Len(most) => w[i] = comma[i - Len(most)]
  <2>1. most \in Seq(Tokens) /\ comma \in Seq(Tokens)
    BY <1>2, <1>7
  <2> QED BY <2>1, ConcatFields
<1> HIDE DEF w
<1>9. Len(v) \in Nat /\ Len(most) = Len(v) + 4 /\ Len(w) = Len(v) + 5
  BY <1>2, <1>6, <1>7, <1>8
<1>10. ASSUME NEW i \in 1..4 PROVE w[i] = front[i]
  <2>1. i \in 1..Len(front) /\ i \in 1..Len(most)
    BY <1>6, <1>9
  <2> QED BY <1>7, <1>8, <2>1
<1>11. ASSUME NEW k \in 1..Len(v) PROVE w[k + 4] = v[k]
  <2>1. k + 4 \in 1..Len(most) /\ k + 4 \in 1..(Len(front) + Len(v)) /\ k + 4 > Len(front)
        /\ k + 4 - Len(front) = k
    BY <1>6, <1>9
  <2>2. w[k + 4] = most[k + 4]
    BY <1>8, <2>1
  <2>3. most[k + 4] = v[k]
    BY <1>7, <2>1
  <2> QED BY <2>2, <2>3
<1>12. w[Len(v) + 5] = "comma"
  <2>1. Len(v) + 5 \in 1..(Len(most) + Len(comma)) /\ Len(v) + 5 > Len(most) /\ Len(v) + 5 - Len(most) = 1
    BY <1>2, <1>9
  <2> QED BY <1>2, <1>8, <2>1
<1>13. w[1] = "q" /\ w[2] = p.key /\ w[3] = "q" /\ w[4] = Separator(p)
  <2>1. 1 \in 1..4 /\ 2 \in 1..4 /\ 3 \in 1..4 /\ 4 \in 1..4
    OBVIOUS
  <2> QED BY <1>6, <1>10, <2>1
<1> QED BY <1>1, <1>8, <1>9, <1>11, <1>12, <1>13 DEF v

(* Where that text stands in a text.                                       *)
Placed(t, a, p) ==
  /\ a \in Nat /\ a + Len(ValueOf(p)) + 5 <= Len(t)
  /\ \A k \in 1..(Len(ValueOf(p)) + 5) : t[a + k] = TextOf(p)[k]

(* The text of a member, token by token where it stands.                   *)
LEMMA PlacedBytes ==
  ASSUME NEW t \in Seq(Tokens), NEW p \in Members, NEW a, Placed(t, a, p)
  PROVE  /\ a \in Nat /\ Len(ValueOf(p)) \in Nat /\ a + Len(ValueOf(p)) + 5 <= Len(t)
         /\ t[a + 1] = "q" /\ t[a + 2] = p.key /\ t[a + 3] = "q" /\ t[a + 4] = Separator(p)
         /\ \A k \in 1..Len(ValueOf(p)) : t[a + 4 + k] = ValueOf(p)[k]
         /\ t[a + 5 + Len(ValueOf(p))] = "comma"
<1> DEFINE n == Len(ValueOf(p))
           w == TextOf(p)
<1>1. n \in Nat /\ w[1] = "q" /\ w[2] = p.key /\ w[3] = "q" /\ w[4] = Separator(p)
      /\ (\A k \in 1..n : w[k + 4] = ValueOf(p)[k]) /\ w[n + 5] = "comma"
  BY TextOfBytes, ValueBytes, LenProperties
<1>2. a \in Nat /\ a + n + 5 <= Len(t) /\ \A k \in 1..(n + 5) : t[a + k] = w[k]
  BY DEF Placed
<1> HIDE DEF n, w
<1>3. 1 \in 1..(n + 5) /\ 2 \in 1..(n + 5) /\ 3 \in 1..(n + 5) /\ 4 \in 1..(n + 5) /\ n + 5 \in 1..(n + 5)
      /\ a + (n + 5) = a + 5 + n
  BY <1>1, <1>2
<1>4. ASSUME NEW k \in 1..n PROVE t[a + 4 + k] = ValueOf(p)[k]
  <2>1. k + 4 \in 1..(n + 5) /\ a + (k + 4) = a + 4 + k
    BY <1>1, <1>2
  <2>2. t[a + (k + 4)] = w[k + 4]
    BY <1>2, <2>1
  <2> QED BY <1>1, <2>1, <2>2
<1>5. t[a + (n + 5)] = w[n + 5]
  BY <1>2, <1>3
<1>6. t[a + 1] = "q" /\ t[a + 2] = p.key /\ t[a + 3] = "q" /\ t[a + 4] = Separator(p)
  BY <1>1, <1>2, <1>3
<1>7. t[a + 5 + n] = "comma"
  BY <1>1, <1>3, <1>5
<1> QED BY <1>1, <1>2, <1>4, <1>6, <1>7 DEF n

(* What is no quotation mark is passed over.                               *)
LEMMA SkipOne ==
  ASSUME NEW t \in Seq(Tokens), NEW key \in Keys, NEW from, Searches(from, t, key),
         NEW i \in 1..Len(t), t[i] # "q"
  PROVE  from[i] = from[i + 1]
<1> DEFINE q == QuoteFrom(t, i + 1)
<1>1. i \in 0..(Len(t) + 1) /\ i + 1 \in 0..(Len(t) + 1) /\ i # 0 /\ i + 1 # 0 /\ i + 1 \in Nat /\ i \in Nat
  OBVIOUS
<1>2. QuoteFrom(t, i) = NextQuote(t, i)
  BY DEF QuoteFrom, At
<1>3. NextQuote(t, i) = q
  <2>1. CASE i + 1 \in DOMAIN t /\ t[i + 1] = "q"
    <3>1. q = i + 1
      BY <2>1 DEF QuoteFrom, At
    <3>2. \A j \in DOMAIN t : i < j /\ j < i + 1 => t[j] # "q"
      OBVIOUS
    <3>3. NextQuote(t, i) = i + 1
      <4>1. i < i + 1 /\ i \in Nat
        OBVIOUS
      <4> QED BY <2>1, <3>2, <4>1, QuoteIs
    <3> QED BY <3>1, <3>3
  <2>2. CASE ~(i + 1 \in DOMAIN t /\ t[i + 1] = "q")
    <3>1. q = NextQuote(t, i + 1)
      <4>1. At(t, i + 1) # "q"
        BY <2>2 DEF At
      <4> QED BY <4>1 DEF QuoteFrom
    <3> DEFINE later == {j \in DOMAIN t : j > i + 1 /\ t[j] = "q"}
               after == {j \in DOMAIN t : j > i /\ t[j] = "q"}
    <3>2. later = after
      BY <2>2
    <3>3. NextQuote(t, i + 1) = NextQuote(t, i)
      <4>1. NextQuote(t, i + 1) = IF later = {} THEN 0 ELSE CHOOSE j \in later : \A k \in later : j <= k
        BY Zenon DEF NextQuote
      <4>2. NextQuote(t, i) = IF after = {} THEN 0 ELSE CHOOSE j \in after : \A k \in after : j <= k
        BY Zenon DEF NextQuote
      <4> HIDE DEF later, after
      <4> QED BY <3>2, <4>1, <4>2
    <3> QED BY <3>1, <3>3
  <2> QED BY <2>1, <2>2
<1>4. from[i] = SearchAt(t, key, from, i, q) /\ from[i + 1] = SearchAt(t, key, from, i + 1, q)
  BY <1>1, <1>2, <1>3, Zenon DEF Searches, Search
<1> HIDE DEF q
<1>5. SearchAt(t, key, from, i, q) = SearchAt(t, key, from, i + 1, q)
  BY <1>1, Zenon DEF SearchAt
<1> QED BY <1>4, <1>5

(* A string that is the key with a colon after it ends the search; behind  *)
(* any other it goes on.                                                   *)
LEMMA AtString ==
  ASSUME NEW t \in Seq(Tokens), NEW key \in Keys, NEW from, Searches(from, t, key),
         NEW i \in DOMAIN t, NEW j \in DOMAIN t, i < j, t[i] = "q", t[j] = "q",
         \A k \in DOMAIN t : i < k /\ k < j => t[k] # "q"
  PROVE  IF j = i + 2 /\ t[i + 1] = key
         THEN from[i] = IF At(t, j + 1) = "colon" THEN i + 4 ELSE from[j + 1]
         ELSE from[i] = from[j + 1]
<1>1. i \in 0..(Len(t) + 1) /\ i # 0 /\ i \in Nat /\ j # 0 /\ j \in Nat /\ DOMAIN t = 1..Len(t)
  OBVIOUS
<1>2. QuoteFrom(t, i) = i
  BY DEF QuoteFrom, At
<1>3. NextQuote(t, i) = j
  BY <1>1, QuoteIs
<1>4. from[i] = SearchAt(t, key, from, i, i)
  BY <1>1, <1>2, Zenon DEF Searches, Search
<1>5. from[i] = IF At(t, i + 1) = key /\ At(t, i + 2) = "q"
                THEN IF At(t, i + 3) = "colon" THEN i + 4 ELSE from[i + 3]
                ELSE from[j + 1]
  BY <1>1, <1>3, <1>4, Zenon DEF SearchAt
<1>6. CASE j = i + 2 /\ t[i + 1] = key
  <2>1. i + 1 \in DOMAIN t /\ i + 2 \in DOMAIN t /\ i + 3 = j + 1
    BY <1>1, <1>6
  <2>2. At(t, i + 1) = key /\ At(t, i + 2) = "q"
    BY <1>6, <2>1 DEF At
  <2> QED BY <1>5, <1>6, <2>1, <2>2
<1>7. CASE ~(j = i + 2 /\ t[i + 1] = key)
  <2>1. ~(At(t, i + 1) = key /\ At(t, i + 2) = "q")
    <3> SUFFICES ASSUME At(t, i + 1) = key, At(t, i + 2) = "q" PROVE FALSE
      OBVIOUS
    <3>1. i + 2 \in DOMAIN t /\ t[i + 2] = "q"
      BY DEF At
    <3>2. i + 1 \in DOMAIN t
      BY <1>1, <3>1
    <3>3. t[i + 1] = key
      BY <3>2 DEF At
    <3>4. key # "q"
      BY NotQuoted
    <3>5. j # i + 1
      BY <3>3, <3>4
    <3>6. j >= i + 2
      BY <1>1, <3>5
    <3>7. ~(i + 2 < j)
      BY <1>1, <3>1
    <3> QED BY <1>1, <1>7, <3>3, <3>6, <3>7
  <2> QED BY <1>5, <1>7, <2>1
<1> QED BY <1>6, <1>7

(* The value of a member, where it stands.                                 *)
ValueAt(t, v, p) ==
  IF p.type = "string"
  THEN /\ v \in DOMAIN t /\ t[v] = "q" /\ v + Len(p.val) + 1 \in DOMAIN t
       /\ t[v + Len(p.val) + 1] = "q"
       /\ \A k \in 1..Len(p.val) : t[v + k] = p.val[k]
  ELSE v \in DOMAIN t /\ t[v] = p.val

(* The value of a member stands five tokens after where the member begins, *)
(* or after the line break there.                                          *)
LEMMA ValuePlaced ==
  ASSUME NEW t \in Seq(Tokens), NEW p \in Members, NEW a, Placed(t, a, p)
  PROVE  /\ ValueAt(t, a + 5 + Offset(p), p) /\ Offset(p) \in {0, 1}
         /\ p.type = "string" =>
              Len(ValueOf(p)) = Offset(p) + Len(p.val) + 2 /\ Len(p.val) \in Nat
         /\ p.type = "bare" => Len(ValueOf(p)) = Offset(p) + 1
         /\ Offset(p) = 1 => t[a + 5] = "break"
<1> DEFINE n == Len(Content(p))
           o == Offset(p)
           v == a + 5 + o
<1>1. /\ a \in Nat /\ a + Len(ValueOf(p)) + 5 <= Len(t)
      /\ \A k \in 1..Len(ValueOf(p)) : t[a + 4 + k] = ValueOf(p)[k]
  BY PlacedBytes
<1>2. /\ Len(ValueOf(p)) = o + n /\ n \in Nat
      /\ o = 1 => ValueOf(p)[1] = "break"
      /\ \A k \in 1..n : ValueOf(p)[o + k] = Content(p)[k]
  BY ValueBytes
<1>3. o \in {0, 1} /\ DOMAIN t = 1..Len(t) /\ Len(t) \in Nat
  BY DEF Offset
<1> HIDE DEF n, o
<1>4. ASSUME NEW k \in 1..n PROVE t[v + (k - 1)] = Content(p)[k] /\ v + (k - 1) \in DOMAIN t
  <2>1. o + k \in 1..Len(ValueOf(p)) /\ a + 4 + (o + k) = v + (k - 1)
        /\ a + 4 + (o + k) \in 1..Len(t)
    BY <1>1, <1>2, <1>3
  <2>2. t[a + 4 + (o + k)] = ValueOf(p)[o + k]
    BY <1>1, <2>1
  <2> QED BY <1>2, <1>3, <2>1, <2>2
<1>5. ASSUME o = 1, n >= 1 PROVE t[a + 5] = "break"
  <2>1. 1 \in 1..Len(ValueOf(p)) /\ a + 4 + 1 = a + 5
    BY <1>1, <1>2, <1>5
  <2> QED BY <1>1, <1>2, <1>5, <2>1
<1>6. v \in Nat
  BY <1>1, <1>3
<1> HIDE DEF v
<1>7. CASE p.type = "string"
  <2> DEFINE s == p.val
  <2>1. s \in Seq(Tokens) /\ Content(p) = Quoted(s)
    BY <1>7, ValueTyped DEF Content
  <2>2. n = Len(s) + 2 /\ Content(p)[1] = "q" /\ Content(p)[Len(s) + 2] = "q"
        /\ \A k \in 1..Len(s) : Content(p)[k + 1] = s[k]
    BY <2>1, QuotedBytes DEF n
  <2>3. Len(s) \in Nat
    BY <2>1
  <2> HIDE DEF s
  <2>4. 1 \in 1..n /\ Len(s) + 2 \in 1..n /\ v + (1 - 1) = v
        /\ v + (Len(s) + 2 - 1) = v + Len(s) + 1
    BY <1>6, <2>2, <2>3
  <2>5. v \in DOMAIN t /\ t[v] = "q" /\ v + Len(s) + 1 \in DOMAIN t /\ t[v + Len(s) + 1] = "q"
    BY <1>4, <2>2, <2>4
  <2>6. ASSUME NEW k \in 1..Len(s) PROVE t[v + k] = s[k]
    <3>1. k + 1 \in 1..n /\ v + (k + 1 - 1) = v + k
      BY <1>6, <2>2, <2>3
    <3>2. t[v + (k + 1 - 1)] = Content(p)[k + 1]
      BY <1>4, <3>1
    <3> QED BY <2>2, <3>1, <3>2
  <2>7. ValueAt(t, v, p)
    BY <1>7, <2>5, <2>6 DEF ValueAt, s
  <2>8. o + n = o + Len(s) + 2 /\ n >= 1
    BY <1>3, <2>2, <2>3
  <2> QED BY <1>2, <1>3, <1>5, <1>7, <2>3, <2>7, <2>8 DEF o, v, s
<1>8. CASE p.type = "bare"
  <2>1. Content(p) = <<p.val>>
    BY <1>8 DEF Content
  <2>2. n = 1 /\ Content(p)[1] = p.val
    BY <2>1 DEF n
  <2>3. 1 \in 1..n /\ v + (1 - 1) = v
    BY <1>6, <2>2
  <2>4. v \in DOMAIN t /\ t[v] = p.val
    BY <1>4, <2>2, <2>3
  <2>5. ValueAt(t, v, p)
    BY <1>8, <2>4 DEF ValueAt
  <2> QED BY <1>2, <1>3, <1>5, <1>8, <2>2, <2>5 DEF o, v
<1> QED BY <1>7, <1>8, ValueTyped

(* A member with the name ends the search; another is passed over, however *)
(* it is laid out.                                                         *)
LEMMA MemberStep ==
  ASSUME NEW t \in Seq(Tokens), NEW key \in Keys, NEW from, Searches(from, t, key),
         NEW p \in Members, NEW a, Placed(t, a, p), p.key = key => p.layout = "plain"
  PROVE  IF p.key = key THEN from[a + 1] = a + 5
         ELSE from[a + 1] = from[a + Len(ValueOf(p)) + 5 + 1]
<1> DEFINE n == Len(ValueOf(p))
           v == a + 5 + Offset(p)
<1>1. /\ a \in Nat /\ n \in Nat /\ a + n + 5 <= Len(t)
      /\ t[a + 1] = "q" /\ t[a + 2] = p.key /\ t[a + 3] = "q" /\ t[a + 4] = Separator(p)
      /\ t[a + 5 + n] = "comma"
  BY PlacedBytes
<1>2. /\ ValueAt(t, v, p) /\ Offset(p) \in {0, 1} /\ (Offset(p) = 1 => t[a + 5] = "break")
      /\ p.type = "string" => n = Offset(p) + Len(p.val) + 2 /\ Len(p.val) \in Nat
      /\ p.type = "bare" => n = Offset(p) + 1
  BY ValuePlaced
<1>3. p.key \in Keys /\ p.key # "q" /\ key # "q" /\ p.type \in {"string", "bare"}
      /\ Separator(p) \in {"colon", "late"} /\ (p.layout = "plain" => Separator(p) = "colon")
  BY ValueTyped, NotQuoted DEF Separator
<1>v. v \in Nat /\ v = a + 5 + Offset(p) /\ (v = a + 5 \/ (Offset(p) = 1 /\ v = a + 6))
  <2> DEFINE o == Offset(p)
  <2>1. a \in Nat /\ o \in {0, 1}
    BY <1>1, <1>2
  <2> HIDE DEF o
  <2>2. a + 5 + o \in Nat /\ (a + 5 + o = a + 5 \/ (o = 1 /\ a + 5 + o = a + 6))
    BY <2>1
  <2> QED BY <2>2 DEF o
<1> HIDE DEF n
<1>4. Len(t) \in Nat /\ DOMAIN t = 1..Len(t)
  OBVIOUS
<1>5. a + 1 \in DOMAIN t /\ a + 2 \in DOMAIN t /\ a + 3 \in DOMAIN t /\ a + 4 \in DOMAIN t
      /\ a + 5 + n \in DOMAIN t /\ a + 1 + 1 = a + 2 /\ a + 1 + 2 = a + 3 /\ a + 3 + 1 = a + 4
      /\ a + 1 + 4 = a + 5 /\ a + 4 + 1 = a + 5 /\ a + 1 < a + 3 /\ a + 5 \in DOMAIN t
      /\ (\A k \in DOMAIN t : a + 1 < k /\ k < a + 3 => k = a + 2)
  BY <1>1, <1>4
<1>6. IF p.key = key THEN from[a + 1] = a + 5 ELSE from[a + 1] = from[a + 4]
  <2>1. \A k \in DOMAIN t : a + 1 < k /\ k < a + 3 => t[k] # "q"
    BY <1>1, <1>3, <1>5
  <2>2. p.key = key => At(t, a + 3 + 1) = "colon"
    BY <1>1, <1>3, <1>5 DEF At
  <2> DEFINE i == a + 1
             j == a + 3
  <2>3. i \in DOMAIN t /\ j \in DOMAIN t /\ i < j /\ t[i] = "q" /\ t[j] = "q" /\ i + 1 = a + 2
        /\ i + 2 = j /\ i + 4 = a + 5 /\ j + 1 = a + 4
    BY <1>1, <1>5
  <2>4. (p.key = key => At(t, j + 1) = "colon") /\ \A k \in DOMAIN t : i < k /\ k < j => t[k] # "q"
    BY <2>1, <2>2
  <2> HIDE DEF i, j
  <2>5. IF j = i + 2 /\ t[i + 1] = key
        THEN from[i] = IF At(t, j + 1) = "colon" THEN i + 4 ELSE from[j + 1]
        ELSE from[i] = from[j + 1]
    BY <2>3, <2>4, AtString
  <2>6. t[i + 1] = p.key
    BY <1>1, <2>3
  <2>7. IF p.key = key THEN from[i] = a + 5 ELSE from[i] = from[a + 4]
    BY <2>3, <2>4, <2>5, <2>6
  <2> QED BY <2>7 DEF i
<1>7. from[a + 4] = from[a + 5]
  <2>1. a + 4 \in 1..Len(t) /\ t[a + 4] # "q"
    BY <1>1, <1>3, <1>4, <1>5
  <2>2. from[a + 4] = from[a + 4 + 1]
    BY <2>1, SkipOne
  <2> QED BY <1>5, <2>2
<1>b. from[a + 5] = from[v]
  <2>1. CASE v = a + 5
    BY <2>1
  <2>2. CASE Offset(p) = 1 /\ v = a + 6
    <3>1. a + 5 \in 1..Len(t) /\ t[a + 5] # "q" /\ a + 5 + 1 = a + 6
      BY <1>1, <1>2, <1>4, <1>5, <2>2
    <3>2. from[a + 5] = from[a + 5 + 1]
      BY <3>1, SkipOne
    <3> QED BY <2>2, <3>1, <3>2
  <2> HIDE DEF v
  <2> QED BY <1>v, <2>1, <2>2
<1>8. from[a + 5 + n] = from[a + 5 + n + 1]
  <2>1. a + 5 + n \in 1..Len(t) /\ t[a + 5 + n] # "q"
    BY <1>1, <1>4, <1>5
  <2> QED BY <2>1, SkipOne
<1>9. from[v] = from[a + 5 + n]
  <2>1. CASE p.type = "string"
    <3> DEFINE s == p.val
               j == v + Len(s) + 1
    <3>1. s \in Seq(Glyphs) /\ \A k \in 1..Len(s) : s[k] # "q"
      <4>1. s \in Seq(Glyphs)
        BY <2>1, ValueTyped
      <4>2. \A k \in 1..Len(s) : s[k] \in Glyphs
        BY <4>1
      <4> HIDE DEF s
      <4> QED BY <4>1, <4>2, NotQuoted DEF Glyphs
    <3>2. /\ v \in DOMAIN t /\ j \in DOMAIN t /\ t[v] = "q" /\ t[j] = "q"
          /\ \A k \in 1..Len(s) : t[v + k] = s[k]
      BY <1>2, <2>1 DEF ValueAt
    <3>3. Len(s) \in Nat /\ n = Offset(p) + Len(s) + 2
      BY <1>2, <2>1
    <3> HIDE DEF s, v
    <3>4. v < j /\ j + 1 = a + 5 + n
      <4> DEFINE o == Offset(p)
      <4>1. a \in Nat /\ o \in {0, 1} /\ v = a + 5 + o /\ n = o + Len(s) + 2
        BY <1>1, <1>2, <1>v, <3>3
      <4> HIDE DEF o
      <4> QED BY <3>3, <4>1
    <3>5. ASSUME NEW k \in DOMAIN t, v < k, k < j PROVE t[k] # "q"
      <4>1. k - v \in 1..Len(s) /\ v + (k - v) = k
        BY <1>4, <1>v, <3>3, <3>5
      <4> HIDE DEF j
      <4>2. t[v + (k - v)] = s[k - v]
        BY <3>2, <4>1
      <4> QED BY <3>1, <4>1, <4>2
    <3> HIDE DEF j
    <3>6. IF j = v + 2 /\ t[v + 1] = key
          THEN from[v] = IF At(t, j + 1) = "colon" THEN v + 4 ELSE from[j + 1]
          ELSE from[v] = from[j + 1]
      BY <3>2, <3>4, <3>5, AtString
    <3>7. At(t, j + 1) # "colon"
      <4>1. j + 1 \in DOMAIN t /\ t[j + 1] = "comma"
        BY <1>1, <1>5, <3>4
      <4> QED BY <4>1 DEF At
    <3>8. from[v] = from[j + 1]
      BY <3>6, <3>7
    <3> QED BY <3>4, <3>8
  <2>2. CASE p.type = "bare"
    <3>1. a + 5 + n = v + 1
      BY <1>1, <1>2, <2>2
    <3> HIDE DEF v
    <3>2. v \in DOMAIN t /\ t[v] = p.val
      BY <1>2, <2>2 DEF ValueAt
    <3>3. p.val \in Bare
      BY <2>2, ValueTyped
    <3>4. t[v] # "q"
      BY <3>2, <3>3, NotQuoted
    <3>5. from[v] = from[v + 1]
      BY <1>4, <3>2, <3>4, SkipOne
    <3> QED BY <3>1, <3>5
  <2> HIDE DEF v
  <2> QED BY <1>3, <2>1, <2>2
<1>10. a + n + 5 + 1 = a + 5 + n + 1
  BY <1>1
<1> HIDE DEF v
<1>11. from[a + 4] = from[a + n + 5 + 1]
  BY <1>7, <1>b, <1>8, <1>9, <1>10
<1> QED BY <1>6, <1>11 DEF n

(* Where the members stand in the text of an object: b[i] tokens are those *)
(* of the first i.                                                         *)
Stands(b, obj) ==
  /\ b \in [0..Len(obj) -> Nat] /\ b[0] = 0 /\ b[Len(obj)] = Len(Text(obj))
  /\ \A i \in 1..Len(obj) :
       Placed(Text(obj), b[i - 1], obj[i]) /\ b[i] = b[i - 1] + Len(ValueOf(obj[i])) + 5

(* Every object's text is the texts of its members, one after the other.   *)
LEMMA TextPlaces ==
  ASSUME NEW obj \in Seq(Members)
  PROVE  Text(obj) \in Seq(Tokens) /\ \E b : Stands(b, obj)
<1> DEFINE n == Len(obj)
           parts == [i \in DOMAIN obj |-> TextOf(obj[i])]
           t == Text(obj)
<1>1. n \in Nat /\ DOMAIN obj = 1..n /\ \A i \in 1..n : obj[i] \in Members
  OBVIOUS
<1>2. \A i \in 1..n : TextOf(obj[i]) \in Seq(Tokens) /\ Len(TextOf(obj[i])) = Len(ValueOf(obj[i])) + 5
                        /\ Len(ValueOf(obj[i])) \in Nat
  <2> SUFFICES ASSUME NEW i \in 1..n
               PROVE  TextOf(obj[i]) \in Seq(Tokens) /\ Len(TextOf(obj[i])) = Len(ValueOf(obj[i])) + 5
                        /\ Len(ValueOf(obj[i])) \in Nat
    OBVIOUS
  <2>1. obj[i] \in Members
    BY <1>1
  <2>2. TextOf(obj[i]) \in Seq(Tokens) /\ Len(TextOf(obj[i])) = Len(ValueOf(obj[i])) + 5
    BY <2>1, TextOfBytes
  <2>3. ValueOf(obj[i]) \in Seq(Tokens)
    BY <2>1, ValueBytes
  <2> QED BY <2>2, <2>3, LenProperties
<1>3. t = FlattenSeq(parts)
  BY DEF Text
<1>4. parts \in Seq(Seq(Tokens)) /\ Len(parts) = n /\ \A i \in 1..n : parts[i] = TextOf(obj[i])
  <2>1. parts \in [1..n -> Seq(Tokens)] /\ \A i \in 1..n : parts[i] = TextOf(obj[i])
    BY <1>1, <1>2
  <2> HIDE DEF parts, n
  <2>2. parts \in Seq(Seq(Tokens)) /\ Len(parts) = n
    BY <1>1, <2>1, SeqOfFunction
  <2> QED BY <2>1, <2>2
<1> HIDE DEF parts
<1>5. PICK f : Flattens(f, Tokens, parts)
  BY <1>4, Flattening
<1> HIDE DEF n, t
<1>6. /\ f \in [0..n -> Seq(Tokens)] /\ f[0] = <<>>
      /\ \A i \in 1..n : f[i] = f[i - 1] \o parts[i]
      /\ t = f[n]
  BY <1>3, <1>4, <1>5 DEF Flattens
<1>7. ASSUME NEW i \in 0..n PROVE Begins(f[i], t)
  <2>1. parts \in [1..n -> Seq(Tokens)]
    BY <1>4
  <2> QED BY <1>1, <1>6, <2>1, PartsBegin
<1> DEFINE b == [i \in 0..n |-> Len(f[i])]
<1>8. b \in [0..n -> Nat] /\ \A i \in 0..n : b[i] = Len(f[i])
  BY <1>6
<1>9. b[0] = 0 /\ b[n] = Len(t) /\ t \in Seq(Tokens)
  <2>1. 0 \in 0..n /\ n \in 0..n
    BY <1>1
  <2>2. Len(f[0]) = 0
    BY <1>6, EmptySeq
  <2> HIDE DEF b
  <2> QED BY <1>6, <1>8, <2>1, <2>2
<1> HIDE DEF b
<1>10. ASSUME NEW i \in 1..n
       PROVE  Placed(t, b[i - 1], obj[i]) /\ b[i] = b[i - 1] + Len(ValueOf(obj[i])) + 5
  <2> DEFINE w == TextOf(obj[i])
             m == Len(ValueOf(obj[i])) + 5
             g == f[i]
             h == f[i - 1]
             a == b[i - 1]
  <2>1. i - 1 \in 0..n /\ i \in 0..n
    BY <1>1
  <2>2. g \in Seq(Tokens) /\ h \in Seq(Tokens) /\ w \in Seq(Tokens) /\ g = h \o w /\ Len(w) = m /\ m \in Nat
    <3>1. g = h \o w
      <4>1. f[i] = f[i - 1] \o parts[i] /\ parts[i] = TextOf(obj[i])
        BY <1>4, <1>6
      <4> QED BY <4>1, Zenon
    <3>2. g \in Seq(Tokens) /\ h \in Seq(Tokens)
      BY <1>6, <2>1
    <3>3. w \in Seq(Tokens) /\ Len(w) = m /\ m \in Nat
      BY <1>2
    <3> HIDE DEF g, h, w, m
    <3> QED BY <3>1, <3>2, <3>3
  <2>3. a = Len(h) /\ b[i] = Len(g) /\ a \in Nat
    BY <1>8, <2>1
  <2>4. Begins(g, t)
    BY <1>7, <2>1
  <2> HIDE DEF w, m, g, h, a
  <2>5. Len(g) = Len(h) + Len(w) /\ \A k \in 1..Len(w) : g[Len(h) + k] = w[k]
    BY <2>2
  <2>6. Len(g) <= Len(t) /\ \A k \in 1..Len(g) : t[k] = g[k]
    BY <2>4 DEF Begins
  <2>7. ASSUME NEW k \in 1..m PROVE t[a + k] = w[k]
    <3>1. a + k \in 1..Len(g) /\ k \in 1..Len(w) /\ a + k = Len(h) + k
      BY <2>2, <2>3, <2>5
    <3>2. t[a + k] = g[a + k]
      BY <2>6, <3>1
    <3>3. g[Len(h) + k] = w[k]
      BY <2>5, <3>1
    <3> QED BY <3>1, <3>2, <3>3
  <2>8. b[i] = a + m /\ a + m <= Len(t)
    BY <2>2, <2>3, <2>5, <2>6
  <2>9. Len(ValueOf(obj[i])) \in Nat /\ a + Len(ValueOf(obj[i])) + 5 = a + m
    BY <1>2, <2>3 DEF m
  <2>10. Placed(t, a, obj[i])
    BY <2>3, <2>7, <2>8, <2>9 DEF Placed, w, m
  <2> QED BY <2>8, <2>9, <2>10 DEF a
<1>11. Stands(b, obj)
  BY <1>8, <1>9, <1>10 DEF Stands, n, t
<1> QED BY <1>9, <1>11 DEF t

(* find_value() finds the value of the member with the name if there is    *)
(* one, plainly written; it is not misled by any value, nor by the form of *)
(* other members.                                                          *)
LEMMA FindsMember ==
  ASSUME NEW obj \in Seq(Members), NEW key \in Keys, IsClear(obj, {key})
  PROVE  IF Member(obj, key) = {} THEN FindValue(Text(obj), key) = 0
         ELSE /\ LastOf(obj, key) \in Members /\ Plain(LastOf(obj, key))
              /\ FindValue(Text(obj), key) \in Nat \ {0}
              /\ ValueAt(Text(obj), FindValue(Text(obj), key), LastOf(obj, key))
<1> DEFINE n == Len(obj)
           t == Text(obj)
<1>1. n \in Nat /\ DOMAIN obj = 1..n /\ \A i \in 1..n : obj[i] \in Members
  OBVIOUS
<1>2. t \in Seq(Tokens)
  BY TextPlaces
<1>3. PICK b : Stands(b, obj)
  BY TextPlaces
<1>4. PICK from : Searches(from, t, key)
  BY <1>2, Searching
<1>5. /\ b \in [0..n -> Nat] /\ b[0] = 0 /\ b[n] = Len(t)
      /\ \A i \in 1..n : Placed(t, b[i - 1], obj[i]) /\ b[i] = b[i - 1] + Len(ValueOf(obj[i])) + 5
  BY <1>3 DEF Stands
<1>p. \A i, j \in Member(obj, key) : i = j /\ Plain(obj[i])
  BY DEF IsClear
<1> DEFINE Is(i) == obj[i].key = key
           Lacks(i) == from[b[i] + 1] = 0 /\ \A j \in (i + 1)..n : ~Is(j)
           Found(i) == \E j \in (i + 1)..n : /\ Is(j) /\ from[b[i] + 1] = b[j - 1] + 5
                                             /\ \A l \in (i + 1)..n : l < j => ~Is(l)
           P == {k \in 0..n : Lacks(n - k) \/ Found(n - k)}
<1> HIDE DEF n, t
<1>6. 0 \in P
  <2>1. from[Len(t) + 1] = 0
    <3>1. Len(t) \in Nat /\ Len(t) + 1 \in 0..(Len(t) + 1) /\ Len(t) + 1 \in Nat
      BY <1>2
    <3>2. QuoteFrom(t, Len(t) + 1) = 0
      <4> DEFINE i == Len(t) + 1
                 q == NextQuote(t, i)
      <4>1. q \in Nat /\ (q # 0 => q \in DOMAIN t /\ q > i)
        BY <1>2, <3>1, QuoteAfter
      <4>2. At(t, i) # "q"
        BY <1>2, <3>1 DEF At
      <4> HIDE DEF q
      <4>3. q = 0
        BY <1>2, <3>1, <4>1
      <4> QED BY <4>2, <4>3 DEF QuoteFrom, q
    <3> DEFINE i == Len(t) + 1
    <3>3. from[i] = SearchAt(t, key, from, i, 0)
      BY <1>4, <3>1, <3>2, Zenon DEF Searches, Search
    <3> HIDE DEF i
    <3>4. SearchAt(t, key, from, i, 0) = 0
      BY Zenon DEF SearchAt
    <3>5. from[i] = 0
      BY <3>3, <3>4
    <3> QED BY <3>5 DEF i
  <2>2. 0 \in 0..n /\ n - 0 = n /\ (n + 1)..n = {}
    BY <1>1
  <2>3. Lacks(n)
    BY <1>5, <2>1, <2>2
  <2> QED BY <2>2, <2>3
<1>7. ASSUME NEW k \in 0..n, k \in P, k < n PROVE k + 1 \in P
  <2> DEFINE i == n - k
  <2>1. i \in 1..n /\ n - (k + 1) = i - 1 /\ k + 1 \in 0..n /\ i - 1 \in 0..n /\ i \in 0..n /\ i - 1 + 1 = i
    BY <1>1, <1>7
  <2>i. Lacks(i) \/ Found(i)
    BY <1>7
  <2> HIDE DEF i
  <2>2. Placed(t, b[i - 1], obj[i]) /\ b[i] = b[i - 1] + Len(ValueOf(obj[i])) + 5 /\ obj[i] \in Members
    BY <1>1, <1>5, <2>1
  <2>3. IF Is(i) THEN from[b[i - 1] + 1] = b[i - 1] + 5 ELSE from[b[i - 1] + 1] = from[b[i] + 1]
    <3>1. obj[i].key = key => obj[i].layout = "plain"
      <4>1. i \in DOMAIN obj
        BY <1>1, <2>1
      <4> QED BY <1>p, <4>1 DEF Member, Plain
    <3> QED BY <1>2, <1>4, <2>2, <3>1, MemberStep
  <2>4. i..n = {i} \cup ((i + 1)..n) /\ i \notin (i + 1)..n
    BY <1>1, <2>1
  <2> HIDE DEF Is
  <2>5. CASE Is(i)
    <3>1. \A l \in i..n : l < i => ~Is(l)
      BY <1>1, <2>1
    <3>2. i \in i..n /\ from[b[i - 1] + 1] = b[i - 1] + 5
      BY <2>3, <2>4, <2>5
    <3>3. Found(i - 1)
      BY <2>1, <2>5, <3>1, <3>2
    <3> HIDE DEF Found, Lacks
    <3> QED BY <2>1, <3>3
  <2>6. CASE ~Is(i) /\ Lacks(i)
    <3>1. Lacks(i - 1)
      BY <2>1, <2>3, <2>4, <2>6
    <3> HIDE DEF Found, Lacks
    <3> QED BY <2>1, <3>1
  <2>7. CASE ~Is(i) /\ Found(i)
    <3>1. PICK j \in (i + 1)..n : /\ Is(j) /\ from[b[i] + 1] = b[j - 1] + 5
                                  /\ \A l \in (i + 1)..n : l < j => ~Is(l)
      BY <2>7
    <3>2. j \in i..n /\ from[b[i - 1] + 1] = b[j - 1] + 5 /\ \A l \in i..n : l < j => ~Is(l)
      BY <2>3, <2>4, <2>7, <3>1
    <3>3. Found(i - 1)
      BY <2>1, <3>1, <3>2
    <3> HIDE DEF Found, Lacks
    <3> QED BY <2>1, <3>3
  <2> QED BY <2>i, <2>5, <2>6, <2>7
<1> HIDE DEF P
<1>8. Lacks(0) \/ Found(0)
  <2>1. \A k \in 0..n : k \in P
    BY <1>1, <1>6, <1>7, Induction
  <2>2. n \in 0..n /\ n - n = 0
    BY <1>1
  <2>3. n \in P
    BY <2>1, <2>2
  <2> HIDE DEF Lacks, Found
  <2> QED BY <2>2, <2>3 DEF P
<1>9. FindValue(t, key) = from[1] /\ b[0] + 1 = 1
  BY <1>4, <1>5 DEF Searches
<1>10. Member(obj, key) = {j \in 1..n : Is(j)}
  BY <1>1 DEF Member
<1> HIDE DEF Is
<1>11. CASE Lacks(0)
  <2>1. \A j \in 1..n : ~Is(j)
    BY <1>11
  <2>2. Member(obj, key) = {}
    BY <1>10, <2>1
  <2>3. FindValue(t, key) = 0
    BY <1>9, <1>11
  <2> QED BY <2>2, <2>3 DEF t
<1>12. CASE Found(0)
  <2>1. PICK j \in 1..n : /\ Is(j) /\ from[b[0] + 1] = b[j - 1] + 5
                          /\ \A l \in 1..n : l < j => ~Is(l)
    BY <1>12
  <2>2. j \in Member(obj, key) /\ Member(obj, key) # {} /\ Member(obj, key) \subseteq 1..n
    BY <1>10, <2>1
  <2>3. Member(obj, key) = {j} /\ Plain(obj[j])
    BY <1>p, <2>2
  <2>4. (CHOOSE i \in Member(obj, key) : \A l \in Member(obj, key) : l <= i) = j
    <3>1. j <= j
      BY <1>1
    <3> QED BY <2>3, <3>1
  <2>5. LastOf(obj, key) = obj[j]
    BY <2>4, Zenon DEF LastOf
  <2>6. FindValue(t, key) = b[j - 1] + 5
    BY <1>9, <2>1
  <2>7. Placed(t, b[j - 1], obj[j]) /\ obj[j] \in Members /\ b[j - 1] \in Nat
    <3>1. j - 1 \in 0..n
      BY <1>1
    <3> QED BY <1>1, <1>5, <3>1
  <2>8. ValueAt(t, b[j - 1] + 5, obj[j])
    <3>1. Offset(obj[j]) = 0
      BY <2>3 DEF Plain, Offset
    <3>2. ValueAt(t, b[j - 1] + 5 + Offset(obj[j]), obj[j])
      BY <1>2, <2>7, ValuePlaced
    <3>3. b[j - 1] + 5 + 0 = b[j - 1] + 5
      BY <2>7
    <3> QED BY <3>1, <3>2, <3>3
  <2>9. b[j - 1] + 5 \in Nat \ {0}
    BY <2>7
  <2>10. LastOf(obj, key) \in Members /\ Plain(LastOf(obj, key)) /\ FindValue(t, key) \in Nat \ {0}
         /\ ValueAt(t, FindValue(t, key), LastOf(obj, key))
    BY <2>3, <2>5, <2>6, <2>7, <2>8, <2>9
  <2> QED BY <2>2, <2>10 DEF t
<1> QED BY <1>8, <1>11, <1>12

(* What an escape is read as is a string of letters and quotation marks,   *)
(* and so is what it means.                                                *)
LEMMA ReadingTyped ==
  ASSUME NEW s \in Seq(Glyphs), NEW how \in {Kept, Meant}
  PROVE  Reading(s, how) \in Seq(Letters \cup BadLetters \cup {"q"})
<1> DEFINE G == Letters \cup BadLetters \cup {"q"}
           n == Len(s)
           parts == [k \in DOMAIN s |-> IF s[k] \in Escapes THEN how[s[k]] ELSE <<s[k]>>]
<1>1. n \in Nat /\ DOMAIN s = 1..n /\ \A k \in 1..n : s[k] \in Glyphs
  OBVIOUS
<1>2. how \in [Escapes -> Seq(G)]
  BY ConfigAssumption
<1> HIDE DEF n
<1>3. ASSUME NEW k \in 1..n PROVE (IF s[k] \in Escapes THEN how[s[k]] ELSE <<s[k]>>) \in Seq(G)
  <2>1. CASE s[k] \in Escapes
    BY <1>2, <2>1
  <2>2. CASE s[k] \notin Escapes
    <3>1. s[k] \in G
      BY <1>1, <2>2 DEF Glyphs
    <3> HIDE DEF G
    <3> QED BY <2>2, <3>1
  <2> QED BY <2>1, <2>2
<1>4. parts \in Seq(Seq(G)) /\ Len(parts) = n
  <2>1. parts \in [1..n -> Seq(G)]
    BY <1>1, <1>3
  <2> HIDE DEF parts, G
  <2> QED BY <1>1, <2>1, SeqOfFunction
<1>5. Reading(s, how) = FlattenSeq(parts)
  BY Zenon DEF Reading
<1> HIDE DEF parts, G
<1>6. PICK f : Flattens(f, G, parts)
  BY <1>4, Flattening
<1>7. FlattenSeq(parts) \in Seq(G)
  <2>1. n \in 0..n
    BY <1>1
  <2> QED BY <1>4, <1>6, <2>1 DEF Flattens
<1> QED BY <1>5, <1>7 DEF G

(* Of a plain string the code makes what it means.                         *)
LEMMA ReadingPlain ==
  ASSUME NEW s \in Seq(Glyphs), \A e \in Range(s) \cap Escapes : Kept[e] = Meant[e]
  PROVE  Reading(s, Kept) = Reading(s, Meant)
<1> DEFINE parts(how) == [k \in DOMAIN s |-> IF s[k] \in Escapes THEN how[s[k]] ELSE <<s[k]>>]
<1>1. \A k \in DOMAIN s : s[k] \in Range(s)
  BY DEF Range
<1>2. parts(Kept) = parts(Meant)
  BY <1>1
<1> QED BY <1>2, Zenon DEF Reading

(* extract_string() returns a plain string that is not too long as it is   *)
(* meant, and of another one piece more than is legal.                     *)
LEMMA StringRead ==
  ASSUME NEW t \in Seq(Tokens), NEW p \in Members, p.type = "string", Plain(p),
         NEW v \in Nat \ {0}, ValueAt(t, v, p), NEW max \in Nat \ {0}
  PROVE  LET r == Reading(p.val, Meant) IN
         /\ At(t, v) = "q" /\ NextQuote(t, v) # 0 /\ Len(t) > 0 /\ Len(r) \in Nat
         /\ Len(r) <= max => ExtractString(t, v, max) = r
         /\ Len(r) > max => Len(ExtractString(t, v, max)) = max + 1
<1> DEFINE s == p.val
           m == Len(s)
           w == v + m + 1
<1>1. s \in Seq(Glyphs)
  BY ValueTyped
<1>2. m \in Nat /\ \A k \in 1..m : s[k] # "q"
  <2>1. \A k \in 1..m : s[k] \in Glyphs
    BY <1>1
  <2> HIDE DEF s
  <2> QED BY <1>1, <2>1, NotQuoted DEF Glyphs
<1>3. /\ v \in DOMAIN t /\ t[v] = "q" /\ w \in DOMAIN t /\ t[w] = "q"
      /\ \A k \in 1..m : t[v + k] = s[k]
  BY DEF ValueAt
<1>4. DOMAIN t = 1..Len(t) /\ Len(t) \in Nat
  OBVIOUS
<1> HIDE DEF s
<1>5. \A j \in DOMAIN t : v < j /\ j < w => t[j] # "q"
  <2> SUFFICES ASSUME NEW j \in DOMAIN t, v < j, j < w PROVE t[j] # "q"
    OBVIOUS
  <2>1. j - v \in 1..m /\ v + (j - v) = j
    BY <1>2
  <2> HIDE DEF m, w
  <2>2. t[v + (j - v)] = s[j - v]
    BY <1>3, <2>1
  <2> QED BY <1>2, <2>1, <2>2
<1>6. NextQuote(t, v) = w
  <2>1. v \in Nat /\ v < w
    BY <1>2
  <2> HIDE DEF w, m
  <2> QED BY <1>3, <1>5, <2>1, QuoteIs
<1>7. w - 1 = v + m /\ w # 0 /\ v + m <= Len(t)
  BY <1>2, <1>3, <1>4
<1> HIDE DEF m
<1>8. SubSeq(t, v + 1, w - 1) = s
  <2> DEFINE u == SubSeq(t, v + 1, v + m)
  <2>1. Len(u) = m /\ (\A k \in 1..m : u[k] = t[v + k]) /\ u \in Seq(Tokens)
    <3>1. v + 1 \in 1..(Len(t) + 1) /\ v + m \in (v + 1 - 1)..Len(t) /\ v + m - (v + 1) + 1 = m
      BY <1>2, <1>4, <1>7
    <3>2. /\ u \in Seq(Tokens) /\ Len(u) = m
          /\ \A k \in 1..m : u[k] = t[v + 1 + k - 1]
      <4> DEFINE lo == v + 1
                 hi == v + m
      <4>1. lo \in Int /\ hi \in Int /\ hi - lo + 1 = m /\ \A i \in lo..hi : t[i] \in Tokens
        BY <1>2, <1>4, <1>7
      <4>2. (IF lo <= hi THEN hi - lo + 1 ELSE 0) = m
        BY <1>2
      <4> HIDE DEF lo, hi
      <4>3. /\ SubSeq(t, lo, hi) \in Seq(Tokens)
            /\ Len(SubSeq(t, lo, hi)) = IF lo <= hi THEN hi - lo + 1 ELSE 0
            /\ \A k \in 1..(hi - lo + 1) : SubSeq(t, lo, hi)[k] = t[lo + k - 1]
        BY <4>1, SubSeqProperties
      <4>4. u = SubSeq(t, lo, hi)
        BY DEF lo, hi
      <4> HIDE DEF u
      <4>5. /\ u \in Seq(Tokens) /\ Len(u) = m
            /\ \A k \in 1..m : u[k] = t[lo + k - 1]
        BY <4>1, <4>2, <4>3, <4>4
      <4> QED BY <4>5 DEF lo
    <3>3. \A k \in 1..m : v + 1 + k - 1 = v + k
      BY <1>2
    <3> HIDE DEF u
    <3> QED BY <1>2, <3>1, <3>2, <3>3
  <2> HIDE DEF u
  <2>2. u = s
    <3>1. Len(s) = m
      BY DEF m
    <3>2. \A k \in 1..m : u[k] = s[k]
      BY <1>3, <2>1
    <3> QED BY <1>1, <2>1, <3>1, <3>2
  <2> QED BY <1>7, <2>2 DEF u
<1> DEFINE r == Reading(s, Meant)
           l == Len(r)
<1>r. Reading(s, Kept) = r /\ r \in Seq(Letters \cup BadLetters \cup {"q"}) /\ l \in Nat
  <2>1. Reading(s, Kept) = r
    <3>1. \A e \in Range(s) \cap Escapes : Kept[e] = Meant[e]
      BY DEF Plain, s
    <3> QED BY <1>1, <3>1, ReadingPlain
  <2>2. r \in Seq(Letters \cup BadLetters \cup {"q"})
    BY <1>1, ReadingTyped
  <2> HIDE DEF r
  <2> QED BY <2>1, <2>2
<1>9. ExtractString(t, v, max) = SubSeq(r, 1, IF l > max + 1 THEN max + 1 ELSE l)
  <2>1. Reading(SubSeq(t, v + 1, NextQuote(t, v) - 1), Kept) = r
    BY <1>6, <1>8, <1>r
  <2> HIDE DEF r
  <2> QED BY <2>1, Zenon DEF ExtractString, l
<1> HIDE DEF r
<1>10. ASSUME l <= max PROVE ExtractString(t, v, max) = r
  <2>1. ~(l > max + 1)
    BY <1>r, <1>10
  <2>2. SubSeq(r, 1, l) = r
    BY <1>r DEF l
  <2> QED BY <1>9, <2>1, <2>2
<1>11. ASSUME l > max PROVE Len(ExtractString(t, v, max)) = max + 1
  <2>1. (IF l > max + 1 THEN max + 1 ELSE l) = max + 1 /\ max + 1 <= l
    BY <1>r, <1>11
  <2>2. ExtractString(t, v, max) = SubSeq(r, 1, max + 1)
    BY <1>9, <2>1
  <2>3. Len(SubSeq(r, 1, max + 1)) = max + 1
    BY <1>r, <2>1 DEF l
  <2> QED BY <2>2, <2>3
<1>12. At(t, v) = "q" /\ Len(t) > 0
  BY <1>3, <1>4 DEF At
<1> QED BY <1>6, <1>7, <1>r, <1>10, <1>11, <1>12 DEF r, s

(* Any other value is its token, which no string starts with.              *)
LEMMA BareRead ==
  ASSUME NEW t \in Seq(Tokens), NEW p \in Members, p.type = "bare",
         NEW v \in Nat \ {0}, ValueAt(t, v, p)
  PROVE  At(t, v) = p.val /\ p.val \in Bare /\ At(t, v) # "q"
<1>1. p.type # "string"
  OBVIOUS
<1>2. At(t, v) = p.val
  BY <1>1 DEF ValueAt, At
<1>3. p.val \in Bare
  BY ValueTyped
<1> QED BY <1>2, <1>3, NotQuoted

(* The validator takes a string under the name for legal by its length     *)
(* exactly when it is, and reads it as it is meant.                        *)
LEMMA MemberRead ==
  ASSUME NEW obj \in Seq(Members), NEW key \in Keys, NEW max \in Nat \ {0},
         IsClear(obj, {key})
  PROVE  LET t == Text(obj)
             v == FindValue(t, key)
             s == ExtractString(t, v, max)
             taken == v # 0 /\ At(t, v) = "q" /\ NextQuote(t, v) # 0 /\ Len(s) \in 1..max
         IN
         /\ taken <=> HasString(obj, key, max)
         /\ taken => s = StringIn(obj, key) /\ Len(t) > 0
<1> DEFINE t == Text(obj)
           v == FindValue(t, key)
           s == ExtractString(t, v, max)
           p == LastOf(obj, key)
           r == StringIn(obj, key)
           taken == v # 0 /\ At(t, v) = "q" /\ NextQuote(t, v) # 0 /\ Len(s) \in 1..max
           meant == HasString(obj, key, max)
<1>1. t \in Seq(Tokens)
  BY TextPlaces
<1>2. IF Member(obj, key) = {} THEN v = 0
      ELSE p \in Members /\ Plain(p) /\ v \in Nat \ {0} /\ ValueAt(t, v, p)
  BY FindsMember
<1>3. Member(obj, key) # {} => p.type \in {"string", "bare"}
  BY <1>2, ValueTyped
<1>m. meant <=> Member(obj, key) # {} /\ p.type = "string" /\ Len(r) \in 1..max
  BY Zenon DEF HasString
<1>r. r = Reading(p.val, Meant)
  BY Zenon DEF StringIn
<1> HIDE DEF t, v, p, r, meant
<1>4. CASE Member(obj, key) = {}
  <2> HIDE DEF s
  <2> QED BY <1>2, <1>4, <1>m DEF t, v, s, r, meant
<1>5. CASE Member(obj, key) # {} /\ p.type = "string"
  <2>1. /\ At(t, v) = "q" /\ NextQuote(t, v) # 0 /\ Len(t) > 0 /\ Len(r) \in Nat
        /\ Len(r) <= max => s = r
        /\ Len(r) > max => Len(s) = max + 1
    BY <1>1, <1>2, <1>5, <1>r, StringRead
  <2> HIDE DEF s
  <2>2. CASE Len(r) <= max
    <3>1. s = r
      BY <2>1, <2>2
    <3>2. taken <=> Len(r) \in 1..max
      BY <1>2, <1>5, <2>1, <3>1
    <3> QED BY <1>5, <1>m, <2>1, <3>1, <3>2 DEF t, v, s, r, meant
  <2>3. CASE Len(r) > max
    <3>1. Len(s) = max + 1 /\ ~(Len(s) \in 1..max) /\ ~(Len(r) \in 1..max)
      BY <2>1, <2>3
    <3> QED BY <1>m, <3>1 DEF t, v, s, r, meant
  <2>4. Len(r) <= max \/ Len(r) > max
    BY <2>1
  <2> QED BY <2>2, <2>3, <2>4
<1>6. CASE Member(obj, key) # {} /\ p.type = "bare"
  <2>1. At(t, v) # "q"
    BY <1>1, <1>2, <1>6, BareRead
  <2>2. p.type # "string"
    BY <1>6
  <2> HIDE DEF s
  <2> QED BY <1>m, <2>1, <2>2 DEF t, v, s, r, meant
<1> QED BY <1>3, <1>4, <1>5, <1>6

(* So it does the ssid.                                                    *)
LEMMA SsidRead ==
  ASSUME NEW obj \in Seq(Members), IsClear(obj, {"ssid"})
  PROVE  /\ SsidOf(Text(obj)) \in 0..15
              <=> (Member(obj, "ssid") # {} => LegalSsid(LastOf(obj, "ssid")))
         /\ SsidOf(Text(obj)) \in 0..15 => SsidOf(Text(obj)) = SsidIn(obj)
<1> DEFINE t == Text(obj)
           key == "ssid"
           v == FindValue(t, key)
           p == LastOf(obj, key)
<1>1. t \in Seq(Tokens) /\ key \in Keys /\ IsClear(obj, {key})
  BY TextPlaces DEF Keys
<1> HIDE DEF key
<1>2. IF Member(obj, key) = {} THEN v = 0
      ELSE p \in Members /\ Plain(p) /\ v \in Nat \ {0} /\ ValueAt(t, v, p)
  BY <1>1, FindsMember
<1>3. Member(obj, key) # {} => p.type \in {"string", "bare"}
  BY <1>2, ValueTyped
<1>4. SsidOf(t) = IF v = 0 THEN 0 ELSE ExtractInt(At(t, v))
  BY Zenon DEF SsidOf, key
<1>5. SsidIn(obj) = IF Member(obj, key) = {} THEN 0 ELSE Leading[p.val]
  BY Zenon DEF SsidIn, key
<1>6. LegalSsid(p) <=> p.type = "bare" /\ p.val \in Integral /\ Leading[p.val] \in 0..15
  BY Zenon DEF LegalSsid
<1> HIDE DEF t, v, p
<1>7. /\ SsidOf(t) \in 0..15 <=> (Member(obj, key) # {} => LegalSsid(p))
      /\ SsidOf(t) \in 0..15 => SsidOf(t) = SsidIn(obj)
  <2>1. CASE Member(obj, key) = {}
    <3>1. SsidOf(t) = 0 /\ SsidIn(obj) = 0 /\ 0 \in 0..15
      BY <1>2, <1>4, <1>5, <2>1
    <3> QED BY <2>1, <3>1
  <2>n. ~(0 - 1 \in 0..15)
    OBVIOUS
  <2>2. CASE Member(obj, key) # {} /\ p.type = "string"
    <3>1. At(t, v) = "q"
      <4>1. 1 \in Nat \ {0}
        OBVIOUS
      <4> QED BY <1>1, <1>2, <2>2, <4>1, StringRead
    <3>2. "q" \notin DOMAIN Leading
      BY ConfigAssumption
    <3>3. SsidOf(t) = 0 - 1
      BY <1>2, <1>4, <2>2, <3>1, <3>2 DEF ExtractInt
    <3>4. ~(SsidOf(t) \in 0..15)
      BY <2>n, <3>3
    <3>5. ~LegalSsid(p)
      BY <1>6, <2>2
    <3> QED BY <2>2, <3>4, <3>5
  <2>3. CASE Member(obj, key) # {} /\ p.type = "bare"
    <3>1. At(t, v) = p.val /\ p.val \in Bare
      BY <1>1, <1>2, <2>3, BareRead
    <3>2. SsidOf(t) = ExtractInt(p.val) /\ SsidIn(obj) = Leading[p.val]
      BY <1>2, <1>4, <1>5, <2>3, <3>1
    <3>3. CASE p.val \in DOMAIN Leading
      <4>1. p.val \in Integral /\ Wrapped(Leading[p.val]) = Leading[p.val]
        BY <1>2, <2>3, <3>3 DEF Plain
      <4>2. SsidOf(t) = Leading[p.val]
        BY <3>2, <3>3, <4>1 DEF ExtractInt
      <4> QED BY <1>6, <2>3, <3>2, <4>1, <4>2
    <3>4. CASE p.val \notin DOMAIN Leading
      <4>1. SsidOf(t) = 0 - 1
        BY <3>2, <3>4 DEF ExtractInt
      <4>2. p.val \notin Integral
        BY <3>4, ConfigAssumption
      <4> QED BY <1>6, <2>n, <2>3, <4>1, <4>2
    <3> QED BY <3>3, <3>4
  <2> QED BY <1>3, <2>1, <2>2, <2>3
<1> QED BY <1>7 DEF t, p, key

(* What is clear for several names is so for each of them.                 *)
LEMMA ClearForEach ==
  ASSUME NEW obj, NEW names, IsClear(obj, names), NEW name \in names
  PROVE  IsClear(obj, {name})
BY DEF IsClear

(* What both kinds of payload need is read as it is meant.                 *)
LEMMA ValidIsLegal ==
  ASSUME NEW obj \in Seq(Members), NEW name \in Keys, IsClear(obj, {name}), IsClear(obj, {"ssid"})
  PROVE  /\ ValidAs(Text(obj), name) <=> LegalAs(obj, name)
         /\ LegalAs(obj, name) => /\ CallsignOf(Text(obj), name) = StringIn(obj, name)
                                  /\ SsidOf(Text(obj)) = SsidIn(obj)
<1> DEFINE t == Text(obj)
           v == FindValue(t, name)
           s == CallsignOf(t, name)
           r == StringIn(obj, name)
           taken == v # 0 /\ At(t, v) = "q" /\ NextQuote(t, v) # 0 /\ Len(s) \in 1..kMaxCallsign
           sized == HasString(obj, name, kMaxCallsign)
           number == SsidOf(t) \in 0..15
           short == Len(t) < kMaxJsonLen
<1>1. (taken <=> sized) /\ (taken => s = r /\ Len(t) > 0)
  <2>1. kMaxCallsign \in Nat \ {0}
    BY ConfigAssumption
  <2> QED BY <2>1, MemberRead, Zenon DEF CallsignOf
<1>2. /\ number <=> (Member(obj, "ssid") # {} => LegalSsid(LastOf(obj, "ssid")))
      /\ number => SsidOf(t) = SsidIn(obj)
  BY SsidRead
<1>3. ValidAs(t, name) <=> taken /\ Len(t) > 0 /\ short /\ Range(s) \subseteq Letters /\ number
  BY Zenon DEF ValidAs, IsValidCallsign
<1>4. LegalAs(obj, name) <=> /\ short /\ sized /\ Range(r) \subseteq Letters
                             /\ Member(obj, "ssid") # {} => LegalSsid(LastOf(obj, "ssid"))
  BY Zenon DEF LegalAs
<1> HIDE DEF taken, sized, number, short, s, r, t
<1>5. ValidAs(t, name) <=> LegalAs(obj, name)
  BY <1>1, <1>2, <1>3, <1>4
<1>6. LegalAs(obj, name) => s = r /\ SsidOf(t) = SsidIn(obj)
  BY <1>1, <1>2, <1>4
<1> QED BY <1>5, <1>6 DEF s, r, t

(* validate_config_payload() reads every clear object as it is meant.      *)
LEMMA ConfigRead ==
  ASSUME NEW obj \in Objects, IsClear(obj, {"callsign", "ssid"})
  PROVE  Validate(Text(obj)) = Meaning(obj)
<1> DEFINE key == "callsign"
<1>1. obj \in Seq(Members) /\ key \in Keys /\ IsClear(obj, {key}) /\ IsClear(obj, {"ssid"})
  BY ConfigAssumption, ClearForEach DEF Keys
<1> HIDE DEF key
<1>2. /\ ValidAs(Text(obj), key) <=> LegalAs(obj, key)
      /\ LegalAs(obj, key) => /\ CallsignOf(Text(obj), key) = StringIn(obj, key)
                              /\ SsidOf(Text(obj)) = SsidIn(obj)
  BY <1>1, ValidIsLegal
<1>3. Validate(Text(obj)) =
        IF ValidAs(Text(obj), key) THEN Id(CallsignOf(Text(obj), key), SsidOf(Text(obj))) ELSE None
  BY Zenon DEF Validate, key
<1>4. Meaning(obj) = IF LegalAs(obj, key) THEN Id(StringIn(obj, key), SsidIn(obj)) ELSE None
  BY Zenon DEF Meaning, key
<1> QED BY <1>2, <1>3, <1>4

(* And so does validate_tx_request_payload().                              *)
LEMMA RequestRead ==
  ASSUME NEW obj \in TxObjects, IsClear(obj, {"dest", "text", "ssid"})
  PROVE  ValidateTx(Text(obj)) = TxMeaning(obj)
<1> DEFINE dest == "dest"
           key == "text"
           t == Text(obj)
           v == FindValue(t, key)
           text == ExtractString(t, v, kMaxText)
           r == StringIn(obj, key)
           taken == v # 0 /\ At(t, v) = "q" /\ NextQuote(t, v) # 0 /\ Len(text) \in 1..kMaxText
           sized == HasString(obj, key, kMaxText)
<1>1. obj \in Seq(Members) /\ dest \in Keys /\ key \in Keys
      /\ IsClear(obj, {dest}) /\ IsClear(obj, {key}) /\ IsClear(obj, {"ssid"})
  BY ConfigAssumption, ClearForEach DEF Keys
<1> HIDE DEF dest, key
<1>2. /\ ValidAs(t, dest) <=> LegalAs(obj, dest)
      /\ LegalAs(obj, dest) => CallsignOf(t, dest) = StringIn(obj, dest) /\ SsidOf(t) = SsidIn(obj)
  BY <1>1, ValidIsLegal
<1>3. (taken <=> sized) /\ (taken => text = r)
  <2>1. kMaxText \in Nat \ {0}
    BY ConfigAssumption
  <2> QED BY <1>1, <2>1, MemberRead, Zenon
<1>4. ValidateTx(t) = IF ValidAs(t, dest) /\ taken
                      THEN [dest |-> CallsignOf(t, dest), ssid |-> SsidOf(t), text |-> text]
                      ELSE NoRequest
  BY Zenon DEF ValidateTx, dest, key
<1>5. TxMeaning(obj) = IF LegalAs(obj, dest) /\ sized
                       THEN [dest |-> StringIn(obj, dest), ssid |-> SsidIn(obj), text |-> r]
                       ELSE NoRequest
  BY Zenon DEF TxMeaning, dest, key
<1> HIDE DEF taken, sized, text, r, t
<1>6. ValidateTx(t) = TxMeaning(obj)
  BY <1>2, <1>3, <1>4, <1>5
<1> QED BY <1>6 DEF t

(* So every clear write comes out as it is meant.                          *)
LEMMA WritesAsMeant ==
  /\ \A w \in Writes : w.clear => w.fields = w.meant
  /\ \A w \in TxWrites : w.clear => w.request = w.meant
<1>1. ASSUME NEW w \in Writes, w.clear PROVE w.fields = w.meant
  <2>1. PICK obj \in Objects :
          w = [fields |-> Validate(Text(obj)), meant |-> Meaning(obj),
               clear |-> IsClear(obj, {"callsign", "ssid"})]
    BY Zenon DEF Writes
  <2>2. IsClear(obj, {"callsign", "ssid"})
    BY <1>1, <2>1
  <2>3. Validate(Text(obj)) = Meaning(obj)
    BY <2>2, ConfigRead
  <2> QED BY <2>1, <2>3
<1>2. ASSUME NEW w \in TxWrites, w.clear PROVE w.request = w.meant
  <2>1. PICK obj \in TxObjects :
          w = [request |-> ValidateTx(Text(obj)), meant |-> TxMeaning(obj),
               clear |-> IsClear(obj, {"dest", "text", "ssid"})]
    BY Zenon DEF TxWrites
  <2>2. IsClear(obj, {"dest", "text", "ssid"})
    BY <1>2, <2>1
  <2>3. ValidateTx(Text(obj)) = TxMeaning(obj)
    BY <2>2, RequestRead
  <2> QED BY <2>1, <2>3
<1> QED BY <1>1, <1>2

(* The write that is on its way is the last legal one, unless that is in   *)
(* doubt.                                                                  *)
PendingInv ==
  /\ ConfigInv /\ IdentityIsLastWritten
  /\ hpc # "idle" /\ expected # None => expected = fields

(* Nothing is pending at the start.                                        *)
LEMMA PendingInit == ConfigInit => PendingInv
<1> SUFFICES ASSUME ConfigInit PROVE PendingInv
  OBVIOUS
<1>1. ConfigInv
  BY ConfigInitInv
<1>2. expected = Id(callsign, ssid) /\ hpc = "idle"
  BY <1>1 DEF ConfigInit, ConfigInv, StoredIsCurrent
<1> QED BY <1>1, <1>2 DEF PendingInv, IdentityIsLastWritten

(* Every step preserves it.                                                *)
LEMMA PendingStep ==
  ASSUME PendingInv, [ConfigNext]_configVars
  PROVE  PendingInv'
<1> USE DEF PendingInv, IdentityIsLastWritten
<1>1. ConfigInv'
  BY ConfigStep
<1>2. ASSUME NEW w \in Writes, Write(w) PROVE PendingInv'
  <2>1. /\ hpc = "idle" /\ fields' = w.fields /\ UNCHANGED <<callsign, ssid>>
        /\ hpc' = (IF w.fields = None THEN "idle" ELSE "callsign")
        /\ expected' = IF w.meant = None /\ (w.clear \/ w.fields = None) THEN expected
                        ELSE IF w.clear THEN w.meant ELSE None
    BY <1>2 DEF Write, config
  <2>2. w.clear => w.fields = w.meant
    BY WritesAsMeant
  <2>3. CASE w.fields = None /\ w.meant = None
    BY <1>1, <2>1, <2>3
  <2>4. CASE ~(w.fields = None /\ w.meant = None) /\ w.clear
    BY <1>1, <2>1, <2>2, <2>4
  <2>5. CASE ~(w.fields = None /\ w.meant = None) /\ ~w.clear
    BY <1>1, <2>1, <2>5
  <2> QED BY <2>3, <2>4, <2>5
<1>3. ASSUME NEW w \in TxWrites, TxRequest(w) PROVE PendingInv'
  BY <1>1, <1>3 DEF TxRequest, config, handler
<1>4. CASE StoreCallsign
  BY <1>1, <1>4 DEF StoreCallsign
<1>5. CASE StoreSsid
  BY <1>1, <1>5 DEF StoreSsid
<1>6. ASSUME NEW ok \in BOOLEAN, Save(ok) PROVE PendingInv'
  <2>1. Id(callsign, ssid) = fields
    BY <1>6 DEF Save, ConfigInv, StoredInv, IsIdentity
  <2> QED BY <1>1, <1>6, <2>1 DEF Save, config
<1>7. ASSUME NEW init \in {"ok", "erased", "failed"}, Reset(init) PROVE PendingInv'
  <2> DEFINE loaded == IF storage' /\ nvs' # None THEN nvs' ELSE Default
             owed == hpc = "idle" /\ ~save_failed /\ init = "ok"
  <2>1. /\ hpc' = "idle" /\ nvs' \in {nvs, None} /\ expected' = (IF owed THEN expected ELSE loaded)
        /\ callsign' = loaded.callsign /\ ssid' = loaded.ssid
    BY <1>7 DEF Reset
  <2>2. IsIdentity(loaded)
    BY <2>1, DefaultIsIdentity DEF ConfigInv, StoredInv
  <2>3. Id(callsign', ssid') = loaded
    BY <2>1, <2>2 DEF IsIdentity
  <2>4. owed => loaded = Id(callsign, ssid)
    <3>1. owed => storage' /\ nvs' = nvs
      BY <1>7 DEF Reset
    <3> QED BY <3>1 DEF ConfigInv, StoredIsCurrent
  <2>5. expected' = None \/ expected' = loaded
    BY <2>1, <2>4
  <2> HIDE DEF loaded
  <2> QED BY <1>1, <2>1, <2>3, <2>5
<1>8. CASE UNCHANGED configVars
  BY <1>1, <1>8 DEF configVars, config, handler
<1> QED BY <1>2, <1>3, <1>4, <1>5, <1>6, <1>7, <1>8 DEF ConfigNext

(* IdentityIsLastWritten: whatever the order of the members of a           *)
(* configuration, whatever their values and whatever stands beside them,   *)
(* and whatever resets and failing saves do in between, the identity is    *)
(* that of the last legal write, or one loaded since if it was not saved   *)
(* or NVS lost it. It is so from any clear write to the next that is not.  *)
THEOREM IdentityTakesEffect == ConfigSpec => []IdentityIsLastWritten
<1>1. PendingInv /\ [ConfigNext]_configVars => PendingInv'
  BY PendingStep
<1>2. PendingInv => IdentityIsLastWritten
  BY DEF PendingInv
<1> QED BY <1>1, <1>2, PendingInit, PTL DEF ConfigSpec

(* Each operation leaves a clear request as it was asked for, or none.     *)
LEMMA RequestStep ==
  RequestIsWhatWasAsked /\ [ConfigNext]_configVars => RequestIsWhatWasAsked'
<1> SUFFICES ASSUME RequestIsWhatWasAsked, [ConfigNext]_configVars
             PROVE  RequestIsWhatWasAsked'
  OBVIOUS
<1> USE DEF RequestIsWhatWasAsked
<1>1. ASSUME NEW w \in Writes, Write(w) PROVE RequestIsWhatWasAsked'
  BY <1>1 DEF Write
<1>2. ASSUME NEW w \in TxWrites, TxRequest(w) PROVE RequestIsWhatWasAsked'
  BY <1>2, WritesAsMeant DEF TxRequest
<1>3. CASE UNCHANGED messages
  BY <1>3 DEF messages
<1>4. ASSUME NEW init \in {"ok", "erased", "failed"}, Reset(init) PROVE RequestIsWhatWasAsked'
  BY <1>4 DEF Reset
<1>5. StoreCallsign \/ StoreSsid \/ (\E written \in BOOLEAN : Save(written))
        => UNCHANGED messages
  BY DEF StoreCallsign, StoreSsid, Save
<1>6. UNCHANGED configVars => UNCHANGED messages
  BY DEF configVars
<1> QED BY <1>1, <1>2, <1>3, <1>4, <1>5, <1>6 DEF ConfigNext

(* RequestIsWhatWasAsked: a legal request reaches aprs_task as it was      *)
(* meant, and no other does, for every flat object of any length in which  *)
(* the three members that are read are written once and plainly.           *)
THEOREM RequestsReadRight == ConfigSpec => []RequestIsWhatWasAsked
<1>1. ConfigInit => RequestIsWhatWasAsked
  BY DEF ConfigInit, RequestIsWhatWasAsked
<1> QED BY <1>1, RequestStep, PTL DEF ConfigSpec
================================================================================
