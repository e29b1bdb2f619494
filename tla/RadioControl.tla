----------------------------- MODULE RadioControl ------------------------------
(***************************************************************************)
(* Setting the radio up: radio_task connects to the SA818 and sets the     *)
(* first frequency; then radio_set commands arrive on the BLE host task    *)
(* (main.cpp). Both go through Sa818Radio, which keeps what it believes    *)
(* the module is set to, and a UART with a read timeout and no flush: the  *)
(* module answers in time, late, or never. aprs_task transmits meanwhile,  *)
(* on whatever the module is really set to.                                *)
(*                                                                         *)
(* rx and tx frequency are one value: set_freq() takes and caches both.    *)
(***************************************************************************)
EXTENDS Integers, Sequences

CONSTANTS
  Freqs, Squelches, Widths, Volumes,      \* what a client asks for
  BootFreq, kDefaultSquelch, DefaultWidth, DefaultVolume,
  MaxLate     \* bound: unanswered commands the module may still obey; the oldest are lost

None == "none"      \* a field the request does not have
NoFreq == "0"

ASSUME RadioAssumption ==
  /\ None \notin Freqs \cup Squelches \cup Widths \cup Volumes
  /\ NoFreq \notin Freqs    \* radio_set refuses 0 Hz
  /\ BootFreq \in Freqs /\ kDefaultSquelch \in Squelches
  /\ DefaultWidth \in Widths /\ DefaultVolume \in Volumes
  /\ MaxLate \in Nat

VARIABLES
  driver,      \* Sa818Radio: rx_hz_ and tx_hz_, squelch_, wide_band_, volume_
  error,       \* error_
  g_radio,     \* "starting", "ready" once the pointer is published, "failed"
  radio_state, \* g_runtime_radio_state
  published,   \* g_radio_rx_freq_hz ... g_radio_wide_band
  sa818,       \* external: what the module is set to
  commands,    \* written, not handled by the module yet
  line,        \* answers in the UART's buffer
  req, todo, waiting,   \* the request, its fields still to apply, in read()
  sending, keyed,       \* aprs_task is in afsk_tx_frame(); the PTT line
  result,      \* of the last request
  sent, late   \* history: it sent a group command; a read gave up on an answer

uart == <<sa818, commands, line>>
handler == <<req, todo, waiting>>
vars == <<driver, error, g_radio, radio_state, published, uart, handler, sending,
          keyed, result, sent, late>>

Scrap == "scrap"    \* the last byte of an answer, left by a read
Requests == [freq : Freqs \cup {None}, squelch : Squelches \cup {None},
             wide : Widths \cup {None}, volume : Volumes \cup {None}]

Steps == {"connect", "freq", "squelch", "wide", "volume", "publish"}
FieldsOf(r) ==    \* in the order they are applied
  LET If(field) == IF r[field] # None THEN <<field>> ELSE <<>> IN
    If("freq") \o If("squelch") \o If("wide") \o If("volume")
Settings == [freq : Freqs \cup {NoFreq}, squelch : Squelches, wide : Widths,
             volume : Volumes]
Group(s) == [s EXCEPT !.volume = None]    \* what AT+DMOSETGROUP carries
Commands == [kind : {"connect"}, set : {None}] \cup [kind : {"volume"}, set : Volumes]
              \cup [kind : {"group"}, set : {Group(s) : s \in Settings}]

\* radio_task runs init() and then set_freq().
Boot == [freq |-> BootFreq, squelch |-> None, wide |-> None, volume |-> None]
Idle == todo = <<>> /\ ~waiting

Init ==
  /\ driver = [freq |-> NoFreq, squelch |-> kDefaultSquelch, wide |-> DefaultWidth,
               volume |-> DefaultVolume]
  /\ error = FALSE
  /\ g_radio = "starting" /\ radio_state = "Idle"
  /\ published = [driver EXCEPT !.freq = BootFreq]
  /\ sa818 \in [freq : Freqs \cup {NoFreq}, squelch : Squelches, wide : Widths,
                volume : {DefaultVolume}]    \* a reset of the ESP32 leaves it as it was
  /\ commands = <<>> /\ line = <<>>
  /\ req = Boot /\ todo = <<"connect", "freq">> /\ waiting = FALSE
  /\ sending = FALSE /\ keyed = FALSE
  /\ result = None /\ sent = FALSE /\ late = FALSE

--------------------------------------------------------------------------------
(* The module (external) takes a command from the line: obeys and answers, *)
(* refuses, obeys but the answer is lost, or never hears it.               *)
Sa818(heard, obeys, answers) ==
  /\ commands # <<>>
  /\ LET c == Head(commands) IN
       /\ sa818' = CASE heard /\ obeys /\ c.kind = "group" ->
                            [c.set EXCEPT !.volume = sa818.volume]
                     [] heard /\ obeys /\ c.kind = "volume" ->
                            [sa818 EXCEPT !.volume = c.set]
                     [] OTHER -> sa818
       /\ line' = IF heard /\ answers THEN Append(line, [kind |-> c.kind, ok |-> obeys])
                  ELSE line
  /\ commands' = Tail(commands)
  /\ UNCHANGED <<driver, error, g_radio, radio_state, published, handler, sending,
                 keyed, result, sent, late>>

--------------------------------------------------------------------------------
(* on_command() with radio_set: parsed, every field in range, at least one. *)
RadioSet(r) ==
  /\ g_radio = "ready" /\ Idle
  /\ FieldsOf(r) # <<>>
  /\ req' = r /\ todo' = FieldsOf(r)
  /\ result' = None /\ sent' = FALSE
  /\ UNCHANGED <<driver, error, g_radio, radio_state, published, uart, waiting,
                 sending, keyed, late>>

\* The handler, or radio_task, goes on after the step that is at hand is done.
Finished(rest) ==
  /\ todo' = rest
  /\ waiting' = FALSE
  /\ req' = IF rest = <<>> THEN Boot ELSE req    \* the locals are gone

\* set_freq() failing is the only error shown; radio_task ignores it.
Failed(step) ==
  /\ Finished(IF g_radio = "ready" \/ step = "connect" THEN <<>> ELSE <<"publish">>)
  /\ result' = "failed"
  /\ g_radio' = IF step = "connect" THEN "failed" ELSE g_radio
  /\ error' = (error \/ step \in {"connect", "freq"})
  /\ radio_state' = IF step \in {"connect", "freq"} /\ g_radio' # "starting"
                    THEN "Error" ELSE radio_state

Succeeded ==
  /\ Finished(IF Len(todo) = 1 THEN <<"publish">> ELSE Tail(todo))
  /\ UNCHANGED <<error, g_radio, radio_state, result>>

(* set_squelch() and set_bandwidth() store the new value before they send  *)
(* it; set_freq() and set_volume() when it is confirmed.                   *)
Cached(step) ==
  IF step \in {"squelch", "wide"} THEN [driver EXCEPT ![step] = req[step]] ELSE driver

\* Refused in the error state; nothing to send; or a command is written.
Refused(step) == error /\ step \in {"freq", "volume"}
NothingToSend(step) ==
  \/ step = "freq" /\ driver.freq = req.freq
  \/ step \in {"squelch", "wide"} /\ driver.freq = NoFreq
Command(step) ==
  CASE step = "connect" -> [kind |-> "connect", set |-> None]
    [] step = "volume" -> [kind |-> "volume", set |-> req.volume]
    [] OTHER -> [kind |-> "group", set |-> Group([driver EXCEPT ![step] = req[step]])]

\* force_ptt_off() when write() sends too little or read() returns nothing.
Apply(written) ==
  /\ todo \notin {<<>>, <<"publish">>} /\ ~waiting
  /\ LET step == Head(todo) IN
       /\ driver' = Cached(step)
       /\ \/ /\ Refused(step) /\ Failed(step)
             /\ UNCHANGED <<commands, keyed, sent>>
          \/ /\ ~Refused(step) /\ NothingToSend(step) /\ Succeeded
             /\ UNCHANGED <<commands, keyed, sent>>
          \/ /\ ~Refused(step) /\ ~NothingToSend(step) /\ written
             /\ commands' = Append(commands, Command(step))
             /\ waiting' = TRUE
             /\ sent' = (sent \/ Command(step).kind = "group")
             /\ UNCHANGED <<error, g_radio, radio_state, req, todo, keyed, result>>
          \/ /\ ~Refused(step) /\ ~NothingToSend(step) /\ ~written
             /\ Failed(step)
             /\ keyed' = FALSE
             /\ UNCHANGED <<commands, sent>>
  /\ UNCHANGED <<published, sa818, line, sending, late>>

(* Sa818ResponseParser: the text begins with the prefix of the command and *)
(* a 0. set_volume() looks for the first colon instead, of any answer.     *)
Answers == IF line # <<>> /\ line[1].kind = Scrap THEN Tail(line) ELSE line

\* Mutant: any answer will do.
Confirmed_Any(step) == line # <<>>

Confirmed(step) ==
  IF step = "volume" THEN Answers # <<>> /\ Answers[1].ok
  ELSE /\ line # <<>>
       /\ line[1] = [kind |-> Command(step).kind, ok |-> TRUE]

\* Mutant: read() without a timeout waits for an answer.
GivesUp_Never == line # <<>>

\* read() returns when its 500 ms are over, whatever has come.
GivesUp == TRUE

(* exchange() reads at most 31 bytes: of two answers all but the last byte. *)
ReadAnswer ==
  /\ waiting /\ GivesUp
  /\ LET step == Head(todo)
         ok == Confirmed(step) IN
       /\ driver' = IF ok /\ step \in {"freq", "volume"}
                    THEN [driver EXCEPT ![step] = req[step]] ELSE driver
       /\ IF ok THEN Succeeded ELSE Failed(step)
       /\ keyed' = (keyed /\ line # <<>> /\ (ok \/ step # "freq"))
  /\ line' = IF Len(Answers) > 1 THEN <<[kind |-> Scrap, ok |-> FALSE]>> \o SubSeq(Answers, 3, Len(Answers))
             ELSE <<>>
  /\ commands' = IF Len(commands) > MaxLate THEN Tail(commands) ELSE commands
  /\ late' = (late \/ commands' # <<>>)
  /\ UNCHANGED <<published, sa818, sending, sent>>

(* The end of radio_set: what the driver holds becomes visible. The end of *)
(* radio_task's start, after a set_freq() that may have failed: the radio  *)
(* becomes available.                                                      *)
Publish ==
  /\ todo = <<"publish">> /\ ~waiting
  /\ published' = driver
  /\ Finished(<<>>)
  /\ result' = IF g_radio = "ready" THEN "ok" ELSE None
  /\ g_radio' = "ready"
  /\ radio_state' = IF g_radio = "starting" THEN "Idle" ELSE radio_state
  /\ UNCHANGED <<driver, error, uart, sending, keyed, sent, late>>

--------------------------------------------------------------------------------
\* Mutant: ptt(true) without the check of error_.
MayKey_Always == g_radio = "ready"

MayKey == g_radio = "ready" /\ ~error

\* afsk_tx_frame() on aprs_task keys the module, at any moment of the above.
TxKey ==
  /\ ~sending /\ MayKey
  /\ sending' = TRUE /\ keyed' = TRUE /\ radio_state' = "Tx"
  /\ UNCHANGED <<driver, error, g_radio, published, uart, handler, result, sent, late>>

(* It ends, PTT still on or forced off in between: Idle is stored over the *)
(* Error of a set_freq() that failed meanwhile.                            *)
TxEnd ==
  /\ sending
  /\ sending' = FALSE /\ keyed' = FALSE /\ radio_state' = "Idle"
  /\ UNCHANGED <<driver, error, g_radio, published, uart, handler, result, sent, late>>

\* radio_task waits for ever when connect failed.
RadioFailed == g_radio = "failed" /\ UNCHANGED vars

Handler == (\E written \in BOOLEAN : Apply(written)) \/ ReadAnswer \/ Publish

Next ==
  \/ \E heard, obeys, answers \in BOOLEAN : Sa818(heard, obeys, answers)
  \/ \E r \in Requests : RadioSet(r)
  \/ Handler
  \/ TxKey \/ TxEnd
  \/ RadioFailed

\* The BLE host task keeps running. Nothing is assumed of the module.
Spec == Init /\ [][Next]_vars /\ WF_vars(Handler)

--------------------------------------------------------------------------------
\* Every variable has its type.
TypeOK ==
  /\ {driver, sa818, published} \subseteq Settings
  /\ {error, waiting, sending, keyed, sent, late} \subseteq BOOLEAN
  /\ g_radio \in {"starting", "ready", "failed"}
  /\ radio_state \in {"Idle", "Tx", "Error"}
  /\ req \in Requests
  /\ todo \in Seq(Steps)
  /\ waiting => todo # <<>>
  /\ commands \in Seq(Commands) /\ Len(commands) <= MaxLate + 1
  /\ line \in Seq([kind : {"connect", "group", "volume", Scrap}, ok : BOOLEAN])
  /\ result \in {None, "ok", "failed"}

(* The transmitter is only ever on the frequency the driver holds: while a *)
(* frame is on the air and no request is being applied, the module is set  *)
(* to rx_hz_/tx_hz_, whatever commands failed or were not answered before. *)
(* It holds as long as no answer came after its read had given up.         *)
KeyedOnDriverFreq == keyed /\ Idle /\ ~late => sa818.freq = driver.freq

(* When radio_set has answered with success and had to send the group,     *)
(* frequency, squelch and bandwidth in force are the published ones. Not   *)
(* so without it: a squelch that failed before stays cached, and the next  *)
(* success publishes it.                                                   *)
SuccessMeansInForce ==
  result = "ok" /\ Idle /\ sent /\ ~late => Group(sa818) = Group(published)

(* A client always gets its answer: a request is applied or given up, even *)
(* with a module that has fallen silent.                                   *)
EveryCommandReturns == todo # <<>> ~> Idle
================================================================================
