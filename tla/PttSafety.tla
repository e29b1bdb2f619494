------------------------------- MODULE PttSafety -------------------------------
(***************************************************************************)
(* Who keys the transmitter, and who makes sure it is released: the AFSK   *)
(* transmit function (main.cpp, afsk_tx_frame) called by aprs_task for     *)
(* queued frames and by the BLE host task for beacon_now; the SA818        *)
(* driver's PTT call; radio_set failing in the middle; and the PTT         *)
(* watchdog (safety_watchdog) that watches the heartbeat of aprs_task. The *)
(* ESP32-S3 has two cores and no lock guards any of this: the tasks        *)
(* interleave between any two accesses of shared state.                    *)
(***************************************************************************)
EXTENDS Integers

CONSTANTS
  Timeout,    \* kDefaultTimeoutMs, in clock units (10 s)
  ClockMod,   \* the millisecond clock is a uint32_t: 2^32
  MaxTick,    \* bound: clock units one pass of aprs_task may take
  MaxFrames,  \* bound: frames one pass may send (8 messages and 4 KISS frames)
  WdMax       \* bound: clock units from one watchdog tick to the end of the next

ASSUME PttAssumption ==
  /\ Timeout \in Nat \ {0} /\ WdMax \in Nat \ {0}
  /\ MaxTick \in Nat /\ MaxFrames \in Nat
  /\ ClockMod \in Nat /\ ClockMod > Timeout + 2 * WdMax + MaxTick

VARIABLES
  clock,
  g_radio,            \* radio_task: "starting", "ready" (published), "failed"
  error,              \* Sa818Radio::error_
  pin,                \* the PTT line: TRUE = the transmitter is on
  radio_state,        \* g_runtime_radio_state
  tx,                 \* where each sender is in afsk_tx_frame
  apc, now_ms, frames, hung,      \* aprs_task: loop, its now_ms, frames to send
  last_heartbeat_ms, armed, triggered,   \* PttWatchdog's atomics
  wpc, wnow, idle,    \* watchdog_task, its now_ms, time since its last tick
  age                 \* history: time since the last store of heartbeat(), capped

radio == <<g_radio, error, pin, radio_state>>
aprs == <<apc, now_ms, frames, hung>>
watchdog == <<last_heartbeat_ms, armed, triggered>>
supervisor == <<wpc, wnow, idle>>
vars == <<clock, radio, tx, aprs, watchdog, supervisor, age>>

Senders == {"aprs", "ble"}
Keyed == {"keyed", "unkeying"}
MaxAge == Timeout + 2 * WdMax

\* Mutant: a clock that does not wrap.
After_NoWrap(t) == t + 1

After(t) == (t + 1) % ClockMod

(* app_main() has created the tasks; aprs_task has published the watchdog  *)
(* and is about to enter its loop; radio_task is still initialising.       *)
Init ==
  /\ clock = 0
  /\ g_radio = "starting" /\ error = FALSE
  /\ pin = FALSE
  /\ radio_state = "Idle"
  /\ tx = [t \in Senders |-> "idle"]
  /\ apc = "sleep" /\ now_ms = 0 /\ frames = 0 /\ hung = FALSE
  /\ last_heartbeat_ms = 0 /\ armed = FALSE /\ triggered = FALSE
  /\ wpc = "sleep" /\ wnow = 0 /\ idle = 0
  /\ age = 0

--------------------------------------------------------------------------------
(* radio_task: init(), then set_freq() whose result is ignored, then the   *)
(* driver's safe-off is registered and the radio published.                *)
RadioStart(init_ok, freq_ok) ==
  /\ g_radio = "starting"
  /\ g_radio' = IF init_ok THEN "ready" ELSE "failed"
  /\ error' = ~(init_ok /\ freq_ok)
  /\ radio_state' = IF init_ok THEN "Idle" ELSE "Error"
  /\ pin' = FALSE
  /\ UNCHANGED <<clock, tx, aprs, watchdog, supervisor, age>>

--------------------------------------------------------------------------------
(* afsk_tx_frame(), called by task t. It has no lock; the comment above it *)
(* says that only aprs_task calls it.                                      *)

\* A hung aprs_task takes no further step.
Runs(t) == t = "aprs" => ~hung

\* aprs_task sends the frames of this pass; the BLE host task a beacon.
MayCall(t) == t = "aprs" => apc = "tick" /\ frames > 0

Returned(t) == frames' = IF t = "aprs" THEN frames - 1 ELSE frames

(* The radio is not there or in its error state, or the frame does not fit *)
(* the sample buffer: the frame is given up before the radio is keyed.     *)
TxRefuse(t) ==
  /\ Runs(t) /\ MayCall(t) /\ tx[t] = "idle"
  /\ Returned(t)
  /\ UNCHANGED <<clock, radio, tx, apc, now_ms, hung, watchdog, supervisor, age>>

(* Modulate, then ptt(true): refused in the error state, else it sets the  *)
(* line a moment later. (transmitting_, which it also sets, nobody reads.) *)
TxPtt(t) ==
  /\ Runs(t) /\ MayCall(t) /\ tx[t] = "idle"
  /\ g_radio = "ready" /\ ~error
  /\ tx' = [tx EXCEPT ![t] = "keying"]
  /\ UNCHANGED <<clock, radio, aprs, watchdog, supervisor, age>>

TxKey(t) ==
  /\ Runs(t) /\ tx[t] = "keying"
  /\ tx' = [tx EXCEPT ![t] = "keyed"]
  /\ pin' = TRUE
  /\ radio_state' = "Tx"
  /\ UNCHANGED <<clock, g_radio, error, aprs, watchdog, supervisor, age>>

\* Mutant: a failed write of samples returns at once.
TxEnd_EarlyReturn(t) ==
  /\ Runs(t) /\ tx[t] = "keyed"
  /\ \/ tx' = [tx EXCEPT ![t] = "unkeying"] /\ UNCHANGED frames
     \/ tx' = [tx EXCEPT ![t] = "idle"] /\ Returned(t)
  /\ UNCHANGED <<clock, radio, apc, now_ms, hung, watchdog, supervisor, age>>

(* All samples were written and drained, or a write failed: ptt(false)     *)
(* follows in either case.                                                 *)
TxEnd(t) ==
  /\ Runs(t) /\ tx[t] = "keyed"
  /\ tx' = [tx EXCEPT ![t] = "unkeying"]
  /\ UNCHANGED <<clock, radio, aprs, watchdog, supervisor, age>>

TxUnkey(t) ==
  /\ Runs(t) /\ tx[t] = "unkeying"
  /\ tx' = [tx EXCEPT ![t] = "idle"]
  /\ pin' = FALSE
  /\ radio_state' = "Idle"
  /\ Returned(t)
  /\ UNCHANGED <<clock, g_radio, error, apc, now_ms, hung, watchdog, supervisor, age>>

(* radio_set on the BLE host task: a command the SA818 does not answer     *)
(* forces PTT off. set_freq() then enters the error state; in that state   *)
(* it is refused.                                                          *)
RadioSetForceOff(in_set_freq) ==
  /\ tx["ble"] = "idle" /\ g_radio = "ready"
  /\ in_set_freq => ~error
  /\ tx' = [tx EXCEPT !["ble"] = IF in_set_freq THEN "forced" ELSE "idle"]
  /\ pin' = FALSE
  /\ UNCHANGED <<clock, g_radio, error, radio_state, aprs, watchdog, supervisor, age>>

RadioSetError ==
  /\ \/ tx["ble"] = "forced"
     \/ tx["ble"] = "idle" /\ g_radio = "ready" /\ error
  /\ tx' = [tx EXCEPT !["ble"] = "idle"]
  /\ error' = TRUE
  /\ radio_state' = "Error"
  /\ UNCHANGED <<clock, g_radio, pin, aprs, watchdog, supervisor, age>>

--------------------------------------------------------------------------------
(* aprs_task: read the clock, tick() (which sends n frames), heartbeat()   *)
(* with that same reading, then sleep.                                     *)
LoopStart(n) ==
  /\ ~hung /\ apc = "sleep"
  /\ apc' = "tick" /\ now_ms' = clock /\ frames' = n
  /\ UNCHANGED <<clock, radio, tx, hung, watchdog, supervisor, age>>

Heartbeat ==
  /\ ~hung /\ apc = "tick" /\ frames = 0
  /\ apc' = "arm"
  /\ last_heartbeat_ms' = now_ms
  /\ age' = 0
  /\ UNCHANGED <<clock, radio, tx, now_ms, frames, hung, armed, triggered, supervisor>>

HeartbeatArm ==
  /\ ~hung /\ apc = "arm"
  /\ apc' = "clear"
  /\ armed' = TRUE
  /\ age' = 0
  /\ UNCHANGED <<clock, radio, tx, now_ms, frames, hung, last_heartbeat_ms,
                 triggered, supervisor>>

HeartbeatClear ==
  /\ ~hung /\ apc = "clear"
  /\ apc' = "sleep" /\ now_ms' = 0
  /\ triggered' = FALSE
  /\ age' = 0
  /\ UNCHANGED <<clock, radio, tx, frames, hung, last_heartbeat_ms, armed,
                 supervisor>>

\* What the watchdog is for: aprs_task stops, wherever it is.
Hang ==
  /\ ~hung
  /\ hung' = TRUE
  /\ UNCHANGED <<clock, radio, tx, apc, now_ms, frames, watchdog, supervisor, age>>

--------------------------------------------------------------------------------
(* watchdog_task: sleep, read the clock, PttWatchdog::tick(), which loads  *)
(* the atomics one after the other.                                        *)
Rest == wpc' = "sleep" /\ wnow' = 0 /\ idle' = 0
Proceed(pc) == wpc' = pc /\ UNCHANGED <<wnow, idle>>

WdWake ==
  /\ wpc = "sleep" /\ idle > 0
  /\ wpc' = "load" /\ wnow' = clock /\ UNCHANGED idle
  /\ UNCHANGED <<clock, radio, tx, aprs, watchdog, age>>

WdLoad ==
  /\ wpc = "load"
  /\ IF armed /\ ~triggered THEN Proceed("compare") ELSE Rest
  /\ UNCHANGED <<clock, radio, tx, aprs, watchdog, age>>

\* Mutant: the deadline compared as a number.
Stale_Deadline == wnow >= last_heartbeat_ms + Timeout

Stale == (wnow - last_heartbeat_ms) % ClockMod >= Timeout

WdCompare ==
  /\ wpc = "compare"
  /\ IF Stale THEN Proceed("fire") ELSE Rest
  /\ UNCHANGED <<clock, radio, tx, aprs, watchdog, age>>

\* Mutant: triggered, but the safe-off function is not called.
WdFire_NoCall ==
  /\ wpc = "fire"
  /\ Rest
  /\ triggered' = TRUE
  /\ UNCHANGED <<clock, radio, tx, aprs, last_heartbeat_ms, armed, age>>

WdFire ==
  /\ wpc = "fire"
  /\ IF triggered THEN Rest ELSE Proceed("safe_off")
  /\ triggered' = TRUE
  /\ UNCHANGED <<clock, radio, tx, aprs, last_heartbeat_ms, armed, age>>

(* ptt_safe_off(): the bare GPIO until the radio is up, then ptt(false).   *)
WdSafeOff ==
  /\ wpc = "safe_off"
  /\ Rest
  /\ pin' = FALSE
  /\ UNCHANGED <<clock, g_radio, error, radio_state, tx, aprs, watchdog, age>>

--------------------------------------------------------------------------------
(* Time passes. The watchdog task has a high priority: it completes a tick *)
(* every WdMax units. A pass of aprs_task that is not hung ends in MaxTick *)
(* units (with 12 frames of some seconds, long after Timeout).             *)
TimePasses ==
  /\ idle < WdMax
  /\ ~hung /\ apc # "sleep" => (clock - now_ms) % ClockMod < MaxTick
  /\ clock' = After(clock)
  /\ idle' = idle + 1
  /\ age' = IF age < MaxAge THEN age + 1 ELSE age
  /\ UNCHANGED <<radio, tx, aprs, watchdog, wpc, wnow>>

RadioTask == \E init_ok, freq_ok \in BOOLEAN : RadioStart(init_ok, freq_ok)

Transmit(t) == TxRefuse(t) \/ TxPtt(t) \/ TxKey(t) \/ TxEnd(t) \/ TxUnkey(t)

RadioSet == RadioSetError \/ \E in_set_freq \in BOOLEAN : RadioSetForceOff(in_set_freq)

AprsLoop ==
  \/ \E n \in 0 .. MaxFrames : LoopStart(n)
  \/ Heartbeat \/ HeartbeatArm \/ HeartbeatClear

Watchdog == WdWake \/ WdLoad \/ WdCompare \/ WdFire \/ WdSafeOff

Next ==
  \/ RadioTask \/ RadioSet \/ AprsLoop \/ Hang \/ Watchdog \/ TimePasses
  \/ \E t \in Senders : Transmit(t)

Spec == Init /\ [][Next]_vars

(* Tasks that do not hang run, a frame under way is finished, and time     *)
(* goes on. Nothing forces new frames or beacons.                          *)
Fairness ==
  /\ WF_vars(TimePasses)
  /\ WF_vars(Watchdog)
  /\ WF_vars(AprsLoop)
  /\ \A t \in Senders : WF_vars(TxKey(t) \/ TxEnd(t) \/ TxUnkey(t))

FairSpec == Spec /\ Fairness

--------------------------------------------------------------------------------
TypeOK ==
  /\ clock \in 0 .. ClockMod - 1
  /\ g_radio \in {"starting", "ready", "failed"}
  /\ error \in BOOLEAN /\ pin \in BOOLEAN
  /\ radio_state \in {"Idle", "Tx", "Error"}
  /\ tx \in [Senders -> {"idle", "keying", "forced"} \cup Keyed]
  /\ apc \in {"sleep", "tick", "arm", "clear"}
  /\ now_ms \in 0 .. ClockMod - 1 /\ frames \in 0 .. MaxFrames /\ hung \in BOOLEAN
  /\ last_heartbeat_ms \in 0 .. ClockMod - 1
  /\ armed \in BOOLEAN /\ triggered \in BOOLEAN
  /\ wpc \in {"sleep", "load", "compare", "fire", "safe_off"}
  /\ wnow \in 0 .. ClockMod - 1 /\ idle \in 0 .. WdMax
  /\ age \in 0 .. MaxAge

(* PTT is asserted, and the status says Tx, only while some task is inside *)
(* the keyed part of afsk_tx_frame: however senders, radio_set, the        *)
(* watchdog and a hang interleave, nobody leaves the transmitter on.       *)
PttOnlyDuringTx ==
  (\A t \in Senders : tx[t] \notin Keyed) => ~pin /\ radio_state # "Tx"

(* Once armed the watchdog triggers in time: Timeout and two of its        *)
(* periods after the last heartbeat it has triggered. The comparison       *)
(* survives the wrap of the clock and an old reading in heartbeat().       *)
FiresInTime == armed /\ age = MaxAge => triggered

(* If aprs_task hangs while the watchdog is armed and has not triggered,   *)
(* PTT is released in the end.                                             *)
HungReleases == (hung /\ armed /\ ~triggered) ~> ~pin

--------------------------------------------------------------------------------
(* What the documentation says, refuted by the code.                       *)

(* PttWatchdog.h: "Forces PTT off when the APRS/radio heartbeat goes       *)
(* stale." The watchdog triggers once and is then blind until the next     *)
(* heartbeat: a frame keyed later in the same long pass is not covered.    *)
StalePttReleased == (hung /\ armed /\ age = MaxAge) ~> ~pin

(* main.cpp: afsk_tx_frame is "Called only from aprs_task context (single  *)
(* consumer, no mutex needed)". beacon_now calls it on the BLE host task:  *)
(* two frames share the sample buffer and the I2S channel, and the end of  *)
(* the first drops the line under the second.                              *)
OneTransmitter == ~(\A t \in Senders : tx[t] \in Keyed)
================================================================================
