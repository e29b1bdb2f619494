-------------------------------- MODULE Station --------------------------------
(***************************************************************************)
(* The station on the air: aprs_task (main.cpp) makes frames of messages   *)
(* under the configured callsign and SSID and takes the acknowledgments    *)
(* addressed to them out of what it hears, while the BLE host task stores  *)
(* a new identity field by field (DeviceConfigStore::apply) or sends a     *)
(* beacon. Nothing locks the configuration.                                *)
(***************************************************************************)
EXTENDS Ax25

CONSTANTS
  Callsigns, Ssids,   \* what may be configured: no more is checked of a callsign
                      \* than its length and that it has letters, digits and dashes
  Dests, Texts, Ids,  \* messages: the addressee (callsign, SSID), text, id
  Heard               \* frames other stations send, see HeardFrames

\* Callsigns and SSIDs as the validator lets them through; a message fits
\* into a frame, and its id is one that may be acknowledged.
ASSUME StationAssumption ==
  /\ {"r", "e", "j", "h", "i"} \subseteq Characters
  /\ \A c \in Callsigns : IsWord(c, kAddrCallsignMaxLen)
  /\ Ssids \subseteq 0..15
  /\ \A d \in Dests : IsWord(d.callsign, kAddrCallsignMaxLen) /\ d.ssid \in 0..15
  /\ Texts \subseteq Seq(Characters)
  /\ \A i \in Ids : i \in Seq(Characters) /\ Len(i) \in 1..kMaxAckIdLen
  /\ \A t \in Texts, i \in Ids : kAddresseeLen + 3 + Len(t) + Len(i) <= kMaxInfoLen

VARIABLES
  callsign, ssid,     \* g_device_config
  hpc, fields,        \* on_config_write: where it is, the fields it validated
  building,           \* aprs_task makes a frame: the message and the SSID it has read
  on_air,             \* the frame this step gives to afsk_tx_frame()
  acked,              \* the id this step gives to notify_ack()
  heard,              \* history: what the frame says that it hears, and to whom
  identity,           \* history: the identity that was last configured
  torn                \* history: it changed while the frame was being made

config == <<callsign, ssid>>
handler == <<hpc, fields>>
stationVars == <<config, handler, building, on_air, acked, heard, identity, torn>>

Id(c, s) == [callsign |-> c, ssid |-> s]
NoId == Id(<<"none">>, 0)
Identities == [callsign : Callsigns, ssid : Ssids]
Requests == [dest : Dests, text : Texts, id : Ids]
Quiet == [says |-> "nothing", to |-> <<>>, id |-> <<>>, by |-> NoId]
Nothing == [msg |-> <<>>]
NoFrame == [wire |-> Refused, msg |-> <<>>, by |-> NoId]

StationInit ==
  /\ identity \in Identities
  /\ callsign = identity.callsign /\ ssid = identity.ssid
  /\ hpc = "idle" /\ fields = NoId
  /\ building = Nothing /\ on_air = NoFrame
  /\ acked = <<>> /\ heard = Quiet
  /\ torn = FALSE

\* Nothing is sent in this step, nothing heard.
NotOnAir == on_air' = NoFrame
NotHeard == acked' = <<>> /\ heard' = Quiet

--------------------------------------------------------------------------------
\* The BLE host task.

\* on_config_write() has validated the fields (DeviceConfig).
Write(id) ==
  /\ hpc = "idle"
  /\ hpc' = "callsign" /\ fields' = id
  /\ NotOnAir /\ NotHeard
  /\ UNCHANGED <<config, building, identity, torn>>

StoreCallsign ==
  /\ hpc = "callsign"
  /\ hpc' = "ssid"
  /\ callsign' = fields.callsign
  /\ torn' = (building # Nothing)
  /\ NotOnAir /\ NotHeard
  /\ UNCHANGED <<ssid, fields, building, identity>>

StoreSsid ==
  /\ hpc = "ssid"
  /\ hpc' = "idle" /\ fields' = NoId
  /\ ssid' = fields.ssid
  /\ identity' = fields
  /\ torn' = (building # Nothing)
  /\ NotOnAir /\ NotHeard
  /\ UNCHANGED <<callsign, building>>

\* beacon_now: the writes come from the same task, the identity is whole.
Beacon ==
  /\ hpc = "idle"
  /\ on_air' = [wire |-> encode([make_ui_frame(callsign, ssid)
                                   EXCEPT !.info = encode_position]),
                msg |-> <<>>, by |-> identity]
  /\ NotHeard
  /\ UNCHANGED <<config, handler, building, identity, torn>>

--------------------------------------------------------------------------------
\* aprs_task.

(* RadioTxFn: make_ui_frame() is given the SSID and a pointer to the       *)
(* callsign.                                                               *)
FrameStart(m) ==
  /\ building = Nothing
  /\ building' = [msg |-> m, ssid |-> ssid]
  /\ torn' = (hpc = "ssid")
  /\ NotOnAir /\ NotHeard
  /\ UNCHANGED <<config, handler, identity>>

FrameEncode ==
  /\ building # Nothing
  /\ LET m == building.msg
         info == encode_message(m.dest.callsign, m.dest.ssid, m.text, m.id) IN
       on_air' = [wire |-> encode([make_ui_frame(callsign, building.ssid)
                                     EXCEPT !.info = info]),
                  msg |-> <<m>>,
                  by |-> IF torn THEN NoId ELSE identity]
  /\ building' = Nothing /\ torn' = FALSE
  /\ NotHeard
  /\ UNCHANGED <<config, handler, identity>>

(* A frame from the receive queue (its checksum was right), while no frame *)
(* is being made.                                                          *)
Hear(h) ==
  /\ building = Nothing
  /\ heard' = [says |-> h.says, to |-> h.to, id |-> h.id,
               by |-> IF hpc = "ssid" THEN NoId ELSE identity]
  /\ acked' = AckedId(decode(h.wire), StationId(callsign, ssid))
  /\ NotOnAir
  /\ UNCHANGED <<config, handler, building, identity, torn>>

StationNext ==
  \/ \E id \in Identities : Write(id)
  \/ StoreCallsign \/ StoreSsid
  \/ Beacon
  \/ \E m \in Requests : FrameStart(m)
  \/ FrameEncode
  \/ \E h \in Heard : Hear(h)

StationSpec == StationInit /\ [][StationNext]_stationVars

--------------------------------------------------------------------------------
(* What other stations send: an acknowledgment, a rejection or a message,  *)
(* to some addressee, through no digipeater, one, or more than there may   *)
(* be; with an addressee of too few characters, the id missing or too      *)
(* long, or one address only. says is what the frame amounts to for who    *)
(* reads it by the book: "ack" only when nothing of this is wrong.         *)
Peer == Address(<<"B">>, 7, FALSE)
Digipeater == Address(<<"B", "A">>, 1, TRUE)
Sent(to, part, id) == <<":">> \o Padded(to, kAddresseeLen) \o <<":">> \o part \o id
Narrow(to) == <<":">> \o Padded(to, kAddresseeLen - 1)
Wire(info, via) ==
  encode([addr |-> <<Tocall, Peer>> \o [i \in 1..via |-> Digipeater], info |-> info])
OneAddress(w) == [w EXCEPT !.addr = <<encode_address(Peer, TRUE, TRUE)>>]
TooMany(w) == [w EXCEPT !.addr = [i \in 1..(kMaxAddresses + 1) |->
                 encode_address(Digipeater, i = 1, i = kMaxAddresses + 1)]]
Ack == <<"a", "c", "k">>
Overlong(id) == id \o [i \in 1..kMaxAckIdLen |-> "0"]
Frame(says, to, id, wire) == [says |-> says, to |-> to, id |-> id, wire |-> wire]
Acks(to) ==
  {Frame("ack", to, id, Wire(Sent(to, Ack, id), via)) : id \in Ids, via \in 0..1}
NoAcks(to, id) ==
  {Frame("message", to, id, Wire(Sent(to, <<"r", "e", "j">>, id), 0)),
   Frame("message", to, id, Wire(Sent(to, <<"h", "i", "{">>, id), 0)),
   Frame("damaged", to, id, Wire(Narrow(to) \o <<":">> \o Ack \o id, 0)),
   Frame("damaged", to, id, Wire(Sent(to, Ack, <<>>), 0)),
   Frame("damaged", to, id, Wire(Sent(to, Ack, Overlong(id)), 0)),
   Frame("damaged", to, id, OneAddress(Wire(Sent(to, Ack, id), 0))),
   Frame("damaged", to, id, TooMany(Wire(Sent(to, Ack, id), 0)))}
HeardFrames(to) == Acks(to) \cup UNION {NoAcks(to, id) : id \in Ids}

ASSUME HeardAssumption ==
  \A h \in Heard : IsWord(h.to, kAddresseeLen) /\ h \in HeardFrames(h.to)

--------------------------------------------------------------------------------
\* Every variable has its type.
StationTypeOK ==
  /\ Id(callsign, ssid) \in Identities /\ identity \in Identities
  /\ hpc \in {"idle", "callsign", "ssid"} /\ fields \in Identities \cup {NoId}
  /\ building # Nothing => building.msg \in Requests /\ building.ssid \in Ssids
  /\ on_air.by \in Identities \cup {NoId}
  /\ torn \in BOOLEAN

(* Who decodes a frame of this station finds in it the message that was    *)
(* asked for, its addressee read as this station reads it, and the station *)
(* as configured, in capitals; a position in a beacon. Not so the sender   *)
(* when the configuration changes while the frame is made: then callsign   *)
(* and SSID may be of two identities.                                      *)
OnAirIsWhatWasAsked ==
  LET frame == decode(on_air.wire)
      source == frame.addr[2] IN
    on_air # NoFrame =>
      /\ frame # Refused
      /\ on_air.by # NoId =>
           /\ source.callsign = InUpper(on_air.by.callsign)
           /\ source.ssid = on_air.by.ssid
      /\ \A m \in Range(on_air.msg) :
           /\ Addressee(frame.info) = StationId(m.dest.callsign, m.dest.ssid)
           /\ SubSeq(frame.info, kAddresseeLen + 2, Len(frame.info))
                = <<":">> \o m.text \o <<"{">> \o m.id
      /\ on_air.msg = <<>> => frame.info = encode_position

\* A station as others see it on the air.
OnAirName(id) == StationId(InUpper(id.callsign), id.ssid)

(* An acknowledgment settles a message exactly when it is addressed to     *)
(* this station as the air knows it: not to one whose name begins like     *)
(* ours, not a message or rejection, nothing damaged; unless the identity  *)
(* is half changed when the frame is looked at. It needs a callsign in     *)
(* capitals, see AckOfOursTaken.                                           *)
AckTakenIffOurs ==
  heard.by # NoId /\ heard.by.callsign = InUpper(heard.by.callsign) =>
    acked = IF heard.says = "ack" /\ heard.to = OnAirName(heard.by)
            THEN heard.id ELSE <<>>

--------------------------------------------------------------------------------
(* What the documentation says, refuted by the code.                       *)

(* gate_pass_matrix.md:35: the "RX drain loop parses incoming APRS message *)
(* acks addressed to this station and calls ctx.notify_ack()". A callsign  *)
(* in small letters is accepted (PayloadValidator.cpp:124), encode_address *)
(* sends it in capitals, and the acks to these are compared with the small *)
(* letters: none is taken, every message is sent five times and times out. *)
AckOfOursTaken ==
  heard.by # NoId /\ heard.says = "ack" /\ heard.to = OnAirName(heard.by) =>
    acked = heard.id
================================================================================
