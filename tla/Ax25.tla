---------------------------------- MODULE Ax25 ----------------------------------
(***************************************************************************)
(* Frames and messages: the AX.25 codec (Ax25.cpp), the APRS messages in   *)
(* it (Aprs.cpp) and what aprs_task (main.cpp) takes for an acknowledgment *)
(* among the frames it hears.                                              *)
(*                                                                         *)
(* A text is a sequence of characters. A character of a callsign takes a   *)
(* byte of its own, shifted, so it stands for that byte. Control and PID   *)
(* are constant and nobody looks at them; the frame check sequence is that *)
(* of Hdlc.                                                                *)
(***************************************************************************)
EXTENDS Integers, Sequences, SequencesExt

CONSTANTS
  Characters,           \* what texts consist of
  kAddrCallsignMaxLen,  \* 6
  kMaxAddresses,        \* 10
  kMaxInfoLen,          \* 256
  kAddresseeLen,        \* 9: a callsign, a dash and two digits
  kMaxAckIdLen          \* 5

ASSUME Ax25Assumption ==
  /\ {kAddrCallsignMaxLen, kMaxInfoLen, kMaxAckIdLen} \subseteq Nat \ {0}
  /\ kMaxAddresses \in Nat /\ kMaxAddresses >= 3
  /\ kAddresseeLen = kAddrCallsignMaxLen + 3
  /\ kMaxInfoLen >= kAddresseeLen + 5 + kMaxAckIdLen
  /\ {" ", "-", ":", "{", "!", "position", "A", "B", "P", "K", "T", "a", "c", "k",
      "0", "1", "2", "3", "4", "5", "6", "7", "8", "9"} \subseteq Characters

--------------------------------------------------------------------------------
Blank == " "

\* A text of up to n characters, none of them a blank.
IsWord(s, n) == s \in Seq(Characters) /\ Len(s) <= n /\ Blank \notin Range(s)

Upper(c) == CASE c = "a" -> "A" [] c = "b" -> "B" [] OTHER -> c
InUpper(s) == [i \in DOMAIN s |-> Upper(s[i])]

Cut(s, n) == SubSeq(s, 1, IF Len(s) < n THEN Len(s) ELSE n)
Padded(s, n) == [i \in 1..n |-> IF i \in DOMAIN s THEN s[i] ELSE Blank]
Trimmed(s) ==
  LET kept == {i \in DOMAIN s : s[i] # Blank} IN
    IF kept = {} THEN <<>> ELSE Cut(s, CHOOSE i \in kept : \A j \in kept : j <= i)

Digit == <<"1", "2", "3", "4", "5", "6", "7", "8", "9">>
Digits(n) ==
  CASE n = 0 -> <<"0">>
    [] n \in 1..9 -> <<Digit[n]>>
    [] n = 10 -> <<"1", "0">>
    [] n \in 11..15 -> <<"1", Digit[n - 10]>>

\* A station as it is written in messages: CALLSIGN, or CALLSIGN-N.
StationId(callsign, ssid) ==
  callsign \o (IF ssid = 0 THEN <<>> ELSE <<"-">> \o Digits(ssid))

--------------------------------------------------------------------------------
\* Ax25.cpp.

Address(callsign, ssid, repeated) ==
  [callsign |-> callsign, ssid |-> ssid, has_been_repeated |-> repeated]
Refused == [addr |-> <<>>, info |-> <<>>]

\* Mutant: three bits of SSID.
encode_address_Mask(a, is_destination, is_last) ==
  [call |-> Padded(InUpper(a.callsign), kAddrCallsignMaxLen),
   ssid_byte |-> (IF is_destination \/ a.has_been_repeated THEN 128 ELSE 0)
                   + 96 + 2 * (a.ssid % 8) + (IF is_last THEN 1 ELSE 0)]

(* Seven bytes: the callsign, and C/H, two reserved bits that are 1, four  *)
(* bits of SSID and the extension bit.                                     *)
encode_address(a, is_destination, is_last) ==
  [call |-> Padded(InUpper(a.callsign), kAddrCallsignMaxLen),
   ssid_byte |-> (IF is_destination \/ a.has_been_repeated THEN 128 ELSE 0)
                   + 96 + 2 * (a.ssid % 16) + (IF is_last THEN 1 ELSE 0)]

decode_address(f) ==
  Address(Trimmed(f.call), (f.ssid_byte \div 2) % 16, f.ssid_byte >= 128)
IsLast(f) == f.ssid_byte % 2 = 1

encode(frame) ==
  LET n == Len(frame.addr) IN
    IF n \in 2..kMaxAddresses /\ Len(frame.info) <= kMaxInfoLen
    THEN [addr |-> [i \in 1..n |-> encode_address(frame.addr[i], i = 1, i = n)],
          info |-> frame.info]
    ELSE Refused

(* The first address with the extension bit ends the address field: more   *)
(* than kMaxAddresses before it, or only one, and the frame is refused. In *)
(* the frames of this model it is the last address that has the bit, or    *)
(* the first.                                                              *)
decode(wire) ==
  IF /\ Len(wire.addr) \in 2..kMaxAddresses /\ ~IsLast(wire.addr[1])
     /\ Len(wire.info) <= kMaxInfoLen
  THEN [addr |-> [i \in DOMAIN wire.addr |-> decode_address(wire.addr[i])],
        info |-> wire.info]
  ELSE Refused

--------------------------------------------------------------------------------
\* Aprs.cpp.

Tocall == Address(<<"P", "K", "T">>, 0, FALSE)

make_ui_frame(callsign, ssid) ==
  [addr |-> <<Tocall, Address(Cut(callsign, kAddrCallsignMaxLen), ssid, FALSE)>>,
   info |-> <<>>]

encode_message(to, to_ssid, text, id) ==
  <<":">> \o Padded(StationId(to, to_ssid), kAddresseeLen) \o <<":">>
    \o text \o <<"{">> \o id

\* The position itself is one piece, the symbol and the comment are left out.
encode_position == <<"!", "position">>

--------------------------------------------------------------------------------
(* aprs_task: the id that a frame acknowledges to the station our_id, or   *)
(* <<>>. The place of every part is fixed by the nine characters.          *)

Addressee(info) == Trimmed(SubSeq(info, 2, kAddresseeLen + 1))

\* Mutant: as many characters are compared as our_id has.
IsFor_Prefix(info, our_id) == IsPrefix(our_id, Addressee(info))

IsFor(info, our_id) == Addressee(info) = our_id

AckedId(frame, our_id) ==
  LET info == frame.info
      id == SubSeq(info, kAddresseeLen + 6, Len(info)) IN
    IF /\ frame # Refused
       /\ Len(info) >= kAddresseeLen + 5 /\ info[1] = ":"
       /\ IsFor(info, our_id)
       /\ SubSeq(info, kAddresseeLen + 2, kAddresseeLen + 5) = <<":", "a", "c", "k">>
       /\ Len(id) \in 1..kMaxAckIdLen
    THEN id ELSE <<>>
================================================================================
