------------------------------- MODULE KissLink --------------------------------
(***************************************************************************)
(* KISS over BLE. Received AX.25 frames: aprs_task wraps each as a KISS    *)
(* frame (KissFramer) and BleServer::notify_kiss_rx() sends it in chunks,  *)
(* any of which may fail, while the NimBLE host task connects and          *)
(* disconnects; the desktop's KissBridge reassembles them. Frames to send: *)
(* the bridge writes a KISS frame (its transport is BleWrite) and          *)
(* on_kiss_tx() unwraps it. A byte is one of the four KISS codes, the      *)
(* command byte "0", or any other.                                         *)
(***************************************************************************)
EXTENDS Integers, Sequences, FiniteSets, SequencesExt

CONSTANTS
  Contents,      \* AX.25 frames that are received, as bytes
  Written,       \* KISS frames that clients write besides those of Contents
  kKissMaxFrame, \* longest body of a KISS frame (330)
  kChunkPayload, \* bytes of a chunk (17)
  IdMod,         \* msg_id is one byte: 256
  MaxPending,    \* messages KissBridge reassembles at the same time (4)
  MaxFrames,     \* bound: frames received
  MaxAir         \* bound: notifications on their way

Bytes == {"FEND", "FESC", "TFEND", "TFESC", "0", "x"}

ASSUME KissAssumption ==
  /\ Contents \subseteq Seq(Bytes) \ {<<>>} /\ Written \subseteq Seq(Bytes)
  /\ {kKissMaxFrame, kChunkPayload, IdMod, MaxPending, MaxAir} \subseteq Nat \ {0}
  /\ MaxFrames \in Nat

VARIABLES
  kiss_rx_msg_id,  \* BleServer
  connected,       \* connected_ and conn_handle_
  sending,         \* notify_kiss_rx: the chunks to go, and all_sent
  air,             \* notifications on their way
  subscribed,      \* the client has called start_notify
  rx_pending,      \* KissBridge: incomplete messages, the oldest first
  queued,          \* the frame on_kiss_tx() has put into aprs_task's ring
  written,         \* history: the frame on_kiss_tx() was given last
  received,        \* history: the frames received so far
  boots,           \* history: resets of the device
  unbroken,        \* history: since the frame began, link and subscription held
  last             \* history: the last frame that reached the client

device == <<kiss_rx_msg_id, connected, sending>>
bridge == <<subscribed, rx_pending>>
tx == <<queued, written>>
kissVars == <<device, air, bridge, tx, received, boots, unbroken, last>>

Malformed == <<"malformed">>    \* -1 in the code
None == <<"none">>
Idle == [chunks |-> <<>>, all_sent |-> TRUE, clean |-> FALSE]

--------------------------------------------------------------------------------
\* KissFramer.cpp; KissPacketizer of the bridge does the same.

\* Mutant: FESC goes out as it is.
Escaped_Fend(b) == IF b = "FEND" THEN <<"FESC", "TFEND">> ELSE <<b>>

Escaped(b) == CASE b = "FEND" -> <<"FESC", "TFEND">>
                [] b = "FESC" -> <<"FESC", "TFESC">>
                [] OTHER -> <<b>>
Escape(data) == FlattenSeq([i \in DOMAIN data |-> Escaped(data[i])])
Encode(data) == <<"FEND", "0">> \o Escape(data) \o <<"FEND">>
Encoded == [c \in Contents |-> Encode(c)]
TooLong == {c \in Contents : Len(Escape(c)) > kKissMaxFrame}

(* unescape(): st.esc says that the last byte was FESC.                    *)
UnescapeByte(st, b) ==
  IF st.out = Malformed THEN st
  ELSE CASE st.esc /\ b = "TFEND" -> [out |-> Append(st.out, "FEND"), esc |-> FALSE]
         [] st.esc /\ b = "TFESC" -> [out |-> Append(st.out, "FESC"), esc |-> FALSE]
         [] ~st.esc /\ b = "FESC" -> [st EXCEPT !.esc = TRUE]
         [] ~st.esc /\ b \notin {"FEND", "FESC"} -> [st EXCEPT !.out = Append(@, b)]
         [] OTHER -> [st EXCEPT !.out = Malformed]

Unescape(body) ==
  LET st[i \in 0..Len(body)] ==
        IF i = 0 THEN [out |-> <<>>, esc |-> FALSE] ELSE UnescapeByte(st[i - 1], body[i])
      end == st[Len(body)] IN
    IF end.esc THEN Malformed ELSE end.out

Strip(f) ==
  LET inner == {i \in DOMAIN f : f[i] # "FEND"} IN
    IF inner = {} THEN <<>>
    ELSE SubSeq(f, CHOOSE i \in inner : \A j \in inner : i <= j,
                   CHOOSE i \in inner : \A j \in inner : j <= i)

\* Mutant: a body of the greatest length is refused.
Decode_Shorter(f) ==
  LET s == Strip(f) IN
    CASE s = <<>> -> Malformed
      [] s # <<>> /\ s[1] # "0" -> <<>>
      [] s # <<>> /\ s[1] = "0" /\ Len(s) - 1 >= kKissMaxFrame -> Malformed
      [] OTHER -> Unescape(Tail(s))

\* decode(): commands other than data carry nothing.
Decode(f) ==
  LET s == Strip(f) IN
    CASE s = <<>> -> Malformed
      [] s # <<>> /\ s[1] # "0" -> <<>>
      [] s # <<>> /\ s[1] = "0" /\ Len(s) - 1 > kKissMaxFrame -> Malformed
      [] OTHER -> Unescape(Tail(s))

--------------------------------------------------------------------------------
KissInit ==
  /\ kiss_rx_msg_id = 0 /\ connected = FALSE /\ sending = Idle
  /\ air = <<>>
  /\ subscribed = FALSE /\ rx_pending = <<>>
  /\ queued = None /\ written = None
  /\ received = <<>> /\ boots = 0 /\ unbroken = FALSE /\ last = [from |-> {}, frame |-> None]

\* One chunk: [msg_id, idx, total] and its part of the frame. `of' is history.
Chunk(id, idx, frame, serial) ==
  LET first == idx * kChunkPayload + 1
      end == (idx + 1) * kChunkPayload IN
    [id |-> id, idx |-> idx,
     total |-> (Len(frame) + kChunkPayload - 1) \div kChunkPayload,
     part |-> SubSeq(frame, first, IF end < Len(frame) THEN end ELSE Len(frame)),
     of |-> serial]
Chunks(id, frame, serial) ==
  LET total == (Len(frame) + kChunkPayload - 1) \div kChunkPayload IN
    [i \in 1..total |-> Chunk(id, i - 1, frame, serial)]

\* Mutant: the id is only used up by a frame that went out whole.
NextId_AfterSuccess ==
  IF sending.all_sent THEN (kiss_rx_msg_id + 1) % IdMod ELSE kiss_rx_msg_id

NextId == (kiss_rx_msg_id + 1) % IdMod

\* History: the ids of messages the client has a part of, or is about to get.
IdsUnfinished == {p.id : p \in Range(rx_pending)} \cup {c.id : c \in Range(air)}

(* aprs_task takes a frame out of the receive queue and calls              *)
(* notify_kiss_rx(), which checks the connection once.                     *)
RxFrame(content) ==
  /\ sending.chunks = <<>> /\ Len(received) < MaxFrames
  /\ received' = Append(received, content)
  /\ IF connected
     THEN /\ kiss_rx_msg_id' = NextId
          /\ sending' = [chunks |-> Chunks(NextId, Encoded[content], Len(received')),
                         all_sent |-> TRUE,
                         clean |-> NextId \notin IdsUnfinished]
          /\ unbroken' = subscribed
     ELSE UNCHANGED <<kiss_rx_msg_id, sending, unbroken>>
  /\ UNCHANGED <<connected, air, bridge, tx, boots, last>>

\* Mutant: a chunk that failed is forgotten.
SendChunk_Forgets(ok) ==
  /\ sending.chunks # <<>>
  /\ ok => connected /\ Len(air) < MaxAir
  /\ sending' = [sending EXCEPT !.chunks = Tail(@)]
  /\ air' = IF ok THEN Append(air, Head(sending.chunks)) ELSE air
  /\ UNCHANGED <<kiss_rx_msg_id, connected, bridge, tx, received, boots, unbroken, last>>

(* Each chunk goes to the connection there is now. Without one, without a  *)
(* buffer or on an error of the stack it is skipped; the rest still goes.  *)
SendChunk(ok) ==
  /\ sending.chunks # <<>>
  /\ ok => connected /\ Len(air) < MaxAir
  /\ sending' = [sending EXCEPT !.chunks = Tail(@), !.all_sent = @ /\ ok]
  /\ air' = IF ok THEN Append(air, Head(sending.chunks)) ELSE air
  /\ UNCHANGED <<kiss_rx_msg_id, connected, bridge, tx, received, boots, unbroken, last>>

--------------------------------------------------------------------------------
\* gap_event_cb: CONNECT (advertising is on whenever there is no connection).
Connect ==
  /\ ~connected
  /\ connected' = TRUE
  /\ UNCHANGED <<kiss_rx_msg_id, sending, air, bridge, tx, received, boots, unbroken, last>>

\* connect() of the bridge goes on: start_notify().
Subscribe ==
  /\ connected /\ ~subscribed
  /\ subscribed' = TRUE
  /\ UNCHANGED <<device, air, rx_pending, tx, received, boots, unbroken, last>>

(* DISCONNECT: what is in the air is lost. Only the bridge's own           *)
(* disconnect() forgets the incomplete messages.                           *)
Disconnect(own) ==
  /\ connected
  /\ connected' = FALSE
  /\ air' = <<>>
  /\ subscribed' = FALSE /\ unbroken' = FALSE
  /\ rx_pending' = IF own THEN <<>> ELSE rx_pending
  /\ UNCHANGED <<kiss_rx_msg_id, sending, tx, received, boots, last>>

\* The device restarts: the ids begin again, the client's table stays.
Reset ==
  /\ boots = 0
  /\ boots' = 1
  /\ kiss_rx_msg_id' = 0 /\ connected' = FALSE /\ sending' = Idle
  /\ air' = <<>> /\ queued' = None /\ written' = None
  /\ subscribed' = FALSE /\ unbroken' = FALSE
  /\ UNCHANGED <<rx_pending, received, last>>

--------------------------------------------------------------------------------
\* KissBridge: _on_kiss_rx_notify().

Without(table, id) ==
  RemoveAt(table, CHOOSE i \in DOMAIN table : table[i].id = id)

\* _reassemble_kiss_frame(): as many as the first one says, without a gap.
Reassembled(chunks) ==
  LET at(i) == {c \in Range(chunks) : c.idx = i} IN
    IF chunks[1].total # Len(chunks) \/ \E i \in 0..(Len(chunks) - 1) : at(i) = {}
    THEN Malformed
    ELSE FlattenSeq([i \in DOMAIN chunks |-> (CHOOSE c \in at(i - 1) : TRUE).part])

Deliver(chunks) ==
  /\ last' = IF Reassembled(chunks) = Malformed THEN last
             ELSE [from |-> {c.of : c \in Range(chunks)},
                   frame |-> Decode(Reassembled(chunks))]

IsDuplicate(c, chunks) == \E d \in Range(chunks) : d.idx = c.idx

(* The oldest message is evicted when a new one finds the table full.      *)
Room(table, id) ==
  IF \E p \in Range(table) : p.id = id THEN table
  ELSE Append(IF Len(table) >= MaxPending THEN Tail(table) ELSE table,
              [id |-> id, chunks |-> <<>>])

Notified ==
  /\ air # <<>>
  /\ air' = Tail(air)
  /\ LET c == Head(air)
         table == Room(rx_pending, c.id)
         entry == CHOOSE p \in Range(table) : p.id = c.id
         chunks == Append(entry.chunks, c) IN
       \/ /\ ~subscribed
          /\ UNCHANGED <<rx_pending, last>>
       \/ /\ subscribed /\ c.total = 1 /\ c.idx = 0
          /\ Deliver(<<c>>)
          /\ UNCHANGED rx_pending
       \/ /\ subscribed /\ c.total > 1 /\ IsDuplicate(c, entry.chunks)
          /\ rx_pending' = table
          /\ UNCHANGED last
       \/ /\ subscribed /\ c.total > 1 /\ ~IsDuplicate(c, entry.chunks)
          /\ IF Len(chunks) = c.total
             THEN Deliver(chunks) /\ rx_pending' = Without(table, c.id)
             ELSE /\ rx_pending' = [i \in DOMAIN table |->
                       IF table[i].id = c.id THEN [table[i] EXCEPT !.chunks = chunks]
                       ELSE table[i]]
                  /\ UNCHANGED last
  /\ UNCHANGED <<device, subscribed, tx, received, boots, unbroken>>

--------------------------------------------------------------------------------
(* write_kiss_frame() and on_kiss_tx(): the frame is unwrapped and, when   *)
(* the ring has room, pushed. A malformed frame and a command other than   *)
(* data push nothing.                                                      *)
WriteKiss(frame) ==
  /\ subscribed /\ queued = None
  /\ queued' = IF Decode(frame) \in {Malformed, <<>>} THEN None ELSE Decode(frame)
  /\ written' = frame
  /\ UNCHANGED <<device, air, bridge, received, boots, unbroken, last>>

\* aprs_task sends it (AprsTask).
TakeKiss ==
  /\ queued # None
  /\ queued' = None /\ written' = None
  /\ UNCHANGED <<device, air, bridge, received, boots, unbroken, last>>

KissNext ==
  \/ \E content \in Contents : RxFrame(content)
  \/ \E ok \in BOOLEAN : SendChunk(ok)
  \/ Connect \/ Subscribe \/ Reset
  \/ \E own \in BOOLEAN : Disconnect(own)
  \/ Notified
  \/ \E frame \in Written \cup Range(Encoded) : WriteKiss(frame)
  \/ TakeKiss

KissSpec == KissInit /\ [][KissNext]_kissVars

--------------------------------------------------------------------------------
\* Every variable has its type.
KissTypeOK ==
  /\ kiss_rx_msg_id \in 0..(IdMod - 1)
  /\ {connected, subscribed, unbroken} \subseteq BOOLEAN
  /\ Len(rx_pending) <= MaxPending
  /\ \A p \in Range(rx_pending) : p.chunks # <<>> /\ p.id \in 0..(IdMod - 1)
  /\ IsInjective([i \in DOMAIN rx_pending |-> rx_pending[i].id])
  /\ \A c \in Range(air) \cup Range(sending.chunks) : c.idx < c.total
  /\ Len(received) <= MaxFrames /\ boots \in 0..1

(* A frame that reaches the client from the chunks of one received frame   *)
(* is that frame, byte for byte, through escaping, chunking, reassembly    *)
(* and unescaping.                                                         *)
FrameExact ==
  \A s \in DOMAIN received :
    last.from = {s} =>
      last.frame = IF received[s] \in TooLong THEN Malformed ELSE received[s]

(* A frame put together from chunks of two received frames has its parts   *)
(* from before and after the ids came round, or a reset: a skipped chunk   *)
(* leaves the message in the bridge's table, where nothing times out.      *)
MixedOnlyAfterWrap ==
  boots = 0 => \A s, t \in last.from : s = t \/ s - t >= IdMod \/ t - s >= IdMod

(* When notify_kiss_rx() returns TRUE the client gets the frame: with the  *)
(* link and the subscription held, and no leftover with its id in the      *)
(* table, the whole frame has arrived as soon as nothing is in the air.    *)
SuccessMeansReceived ==
  /\ sending.chunks = <<>> /\ sending.all_sent /\ sending.clean
  /\ unbroken /\ air = <<>> /\ connected
  => last.from = {Len(received)}

(* What on_kiss_tx() passes on for a KISS frame made by the bridge is the  *)
(* AX.25 frame, whatever bytes it has, unless the escaped body is too      *)
(* long.                                                                   *)
KissTxExact ==
  \A c \in Contents : written = Encoded[c] => queued = IF c \in TooLong THEN None ELSE c
================================================================================
