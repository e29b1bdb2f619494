# PAKT: a TLA+ development

PAKT is a pocket APRS station: firmware for an ESP32-S3 that modulates and
demodulates packets and drives an SA818 radio module (`firmware/`), a desktop
client and KISS bridge in Python (`app/desktop_test/`) and an iOS client
(`app/ios/`), which talk to it over BLE. This directory holds TLA+ modules that
model the parts of it whose behaviour depends on order, time and failure, the
TLC configurations that check them on small instances, and proofs, checked by
TLAPS, that hold for every value of the constants.

    tlc -workers 2 -config MCTxScheduler.cfg TxScheduler     # one run
    tlapm TxSchedulerProofs.tla                              # one proof

`PROJECT.json` lists components, runs, mutants, the map from definitions to
source lines, findings, hazards and theorems.

## Inventory

| Part | State it keeps | Operations | Hard because | Correct when |
|---|---|---|---|---|
| TxScheduler (`aprs_fsm/TxScheduler.cpp`) | table of 8 message records, id counter | enqueue, tick, on_ack_received, cancel | tick blocks in the radio for seconds; acks late, repeated; clock and ids wrap | each message is reported once, in the end; retries spaced and bounded; acks settle the right message |
| AprsTaskContext (`aprs_fsm/AprsTaskContext.cpp`) and Ax25RxQueue (`main.cpp`) | three lock-free rings | push (BLE host task, audio_task), drain (aprs_task) | two tasks on two cores, no lock, counters wrap, ring full | a bounded FIFO queue |
| aprs_task (`main.cpp`) | loop | tick, heartbeat, status, drain received frames, ack detection, notifications | long passes, two notifications within 100 ms | results reach the client |
| PTT watchdog (`safety_watchdog/`) | last heartbeat, armed, triggered (atomics) | heartbeat, tick, force_safe (no caller), safe-off hook | races with a task that keys the radio; clock wraps; long passes | PTT off when aprs_task hangs |
| afsk_tx_frame (`main.cpp`) | PCM buffer, radio state | called by aprs_task and by beacon_now on the BLE host task | no lock, failing I2S writes | PTT only during a frame, one frame at a time |
| Sa818Radio (`radio_sa818/`) | error flag, cached settings, PTT | init, set_*, ptt | UART failures, partial changes, cache against module | settings published are settings applied; PTT off on failure |
| BleServer (`ble_services/BleServer.cpp`) | connection, rate limits, KISS id | GAP events, read/write callbacks, notify_* | disconnects at any time, dropped notifications, results of handlers ignored | a write answered with success took effect |
| BleChunker (`ble_services/BleChunker.cpp`) | one slot per characteristic | split, feed, tick, reset | aborted and interleaved messages, id reuse, timeouts, restarts | whole messages, once |
| BLE handlers (`ble_task` in `main.cpp`) | - | config, command, tx_request, kiss_tx | run on the BLE host task against state of other tasks | see the parts they call |
| DeviceConfigStore, NVS, PayloadValidator | configuration in memory and in flash | load, apply, validation of JSON | crash between memory and flash, failing saves, readers without lock, a scanner instead of a parser | the identity of the last legal write, in memory and after a reset |
| GPS (`gps/`, gps_task) | fix, validity, date of the last RMC, transport | feed, mark_stale, polling of I2C or UART | lost pieces of sentences, failing buses, a clock that wraps, two copies of the validity flag | no stale position is called valid, no time is ahead |
| KissFramer, AX.25, APRS (`kiss/`, `ax25/`, `aprs/`) | - | encode, decode, ack detection | escapes, padding and limits | decode inverts encode; an ack settles a message exactly when it is ours |
| HDLC and AFSK modem (`modem/`) | shift register, buffer, count of ones | modulate_frame, process_samples | noise, wrong bits, slipped clock, false flags, cut frames | a clean frame is delivered once, a damaged one not at all |
| Desktop PaktClient, transport | message ids, connection state | write, connect, reconnect | coroutines interleave at awaits | one connection, ids not reused too early |
| Desktop MessageTracker | messages by id | on_sent, on_tx_result, cancel | results dropped or attributed to the wrong message | states shown are those of the messages |
| Desktop KissBridge | packetizer, partial frames | feed, reassemble, write | lost chunks, no timeout | frames as sent |
| audio_task, display, power, telemetry, iOS, UI | - | - | signal processing, I/O, formatting | - |

How they interact: the client writes chunks to a characteristic; BleServer
(NimBLE host task) feeds the BleChunker, whose completion callback runs a
handler inline; a TX request goes through a ring to aprs_task, which moves it to
the TxScheduler; tick() calls afsk_tx_frame, which keys the SA818 and writes
samples to I2S; audio_task pushes demodulated frames through Ax25RxQueue back to
aprs_task, which recognises acks and notifies the client. watchdog_task observes
the heartbeat of aprs_task. Tasks run preemptively on two cores; nothing but
atomics and one display mutex synchronises them.

## Modules

**TxScheduler** models `TxScheduler.cpp` with the part of aprs_task that calls
it. `queue`, `occupied` and `msg_id_counter` are the members. `Enqueue`,
`OnAckReceived` and `Cancel` are the public calls. `tick()` is not atomic: it
blocks in the transmit function, so `TickStart` fixes its argument `now_ms`
(the clock as aprs_task read it) and `TickSkip` / `TickTransmit` visit one entry
each while `clock` runs on. All other calls come from the same task and find
`cursor = 0`. A transmission is `sent`, `refused` before the radio is keyed, or
`aborted` after; only the first is counted. `accepted`, `results`, `keyed`,
`since` and `heard` are history: they change nothing the code does. An ack names
an id some peer has heard, of this boot or (`EarlierIds`) of one before the last
reset, at any later time and any number of times. A reset is `Init`: nothing is
persistent.

**BoundedFifo** says what a ring promises; **SpscRing** models the three rings
of the firmware at the granularity of single loads, stores and copies, with
`head` and `tail` as wrapping counters. An entry being copied reads as `Torn`,
and a value that changes while the consumer uses it is handed over as `Torn`.
`tick()` drains up to a snapshot of `head`, `Ax25RxQueue::pop` takes one entry:
after `DrainRelease` the consumer goes on or stops. The memory orders of the
atomics (release on publication, acquire on observation) justify modelling the
accesses as sequentially consistent.

**PttSafety** models everybody who touches the PTT line: `afsk_tx_frame` for
both of its callers (`TxRefuse`, `TxPtt`, `TxKey`, `TxEnd`, `TxUnkey`), the
failures of `radio_set` (`RadioSetForceOff`, `RadioSetError`), radio start-up,
the loop of aprs_task with the three stores of `heartbeat()`, `Hang` at any of
its steps, and the watchdog load by load. `ptt(true)` is a check of the error
flag and a store; another task may run in between.

**TxLifecycle** says what the scheduler promises without its table, clock and
ids: up to `Capacity` messages live, each sent at most `MaxRetries` times and
settled once. TxScheduler implements it (`ImplementsLifecycle`, with `Life` and
`Attempts` as the mapping).

**AprsTask** composes: the BLE handlers push into two rings (FIFO queues, as
SpscRing shows), the loop of aprs_task drains them (`LoopStart`, `Drain`), lets
the scheduler, an instance of TxLifecycle, visit its messages (`TickStart`,
`TickSkip`, `TickAttempt`, `TickTransmit`), sends KISS frames (`KissStart`,
`KissSend`, `KissRelease`: an entry stays in its ring while the radio has it),
takes acks from received frames (`RxAck`) and sleeps. `todo` is the number of
entries the head load showed. `Notify` is `send_notify_()`: dropped without a
link, within 100 ms of the last one, or when NimBLE fails; `quiet` is set by what
takes longer than that, a transmitted frame and the sleep. The link goes down
and up, and requests and frames are pushed, between any two steps. `result`,
`told`, `request`, `kiss_air` and `frames` are history. A client that is
connected is taken to be subscribed.

**BleWrite** models a chunked write end to end: coroutines of the desktop client
in `_write_chunked`, the access callback with its encryption check, `feed()` as
one step (it runs on the host task alone), the completion callback, and the
ring behind the handler; `Disconnect` with the resets it triggers, and `Connect`
by the same client or by a new process that numbers from 0. A payload is the
tuple of the messages its chunks came from. **MCBleWrite** adds symmetry.

**Gps** models gps_task with NmeaParser under it. A pass is `Wake` (clock,
stale check), one of `PollUart`, `PollI2c`, `PollI2cFails`, `SkipI2c`, then pieces
of sentences (`FeedStart`, `FeedBody`, `FeedEnd`) and `EndPass`. Every piece may be
missing or belong to another sentence. Of a sentence there is its kind and the
GPS time it was made at; `valid` and `fix` are the parser's, `g_gps_fix_valid` and
`g_gps_timestamp` what the other tasks see.

**RadioControl** models radio_task's start and `radio_set` down to single
exchanges with the SA818 over its UART: `Apply` (validation, caching, the write),
`ReadAnswer` (what a read of at most 31 bytes and 500 ms makes of the answers in
the buffer), `Publish`. The module is external (`Sa818`): it obeys, refuses,
answers late or never. `TxKey` and `TxEnd` are afsk_tx_frame on aprs_task at any
moment.

**DeviceConfig** models `app_main`, `on_config_write` and `on_tx_request` with the
JSON scanner of PayloadValidator. `Writes` and `TxWrites` put beside each other
what the scanner makes of each object (`Validate`, `ValidateTx`) and what the object
means in JSON as the clients read it (`Meaning`, `TxMeaning`: definitions of their
own, not the code; of two members with one name the last counts, as in the
client's `json.loads`, `pakt_client.py:198`). The scanner is modelled with what it
gets wrong: an escape loses its backslash and nothing else (`Kept` against
`Meant`), the first of two equal names counts, a number is its leading digits and
wraps (`ExtractInt`), a line break around a colon is not skipped (`layout`). So the two
agree only where `IsClear` holds, for members written once and plainly (`Plain`),
and the properties say so; the other members of an object may have any form. Texts
are counted in pieces, a key word or what an escape leaves being one or more of
them; names of members are written without escapes, objects are flat. `Save` may
fail, `Reset` comes at any moment, and what was saved is owed after it
(`expected`). **MCDeviceConfig** lists the objects.

**Ax25** holds the codecs (`encode`, `decode`, `encode_message`, `AckedId`) as operators;
**Station** lets aprs_task build frames of messages (`FrameStart` reads the SSID,
`FrameEncode` the callsign, in the order of the code) and look at frames heard
(`Hear`), and the BLE host task store an identity field by field. **MCStation**
chooses callsigns that begin alike or read alike.

**KissLink** models received frames from `KissFramer::encode` through the chunks
of `notify_kiss_rx` to the reassembly in the desktop's KissBridge, and KISS frames
written by the client up to the ring. Each chunk may fail, the link may change
between two of them, the device may restart while the bridge keeps its table.
**MCKissLink** chooses the frames.

**Hdlc** models the modulator of one station and the demodulator of another, a
symbol per step, with the real CRC. The signal processing is what it can do to
the symbols: `Noise` before a transmission, `Flip`, `Lose` and `Double` in it.
`Critical` is the part of a signal that must arrive whole for the frame to be
delivered, `Delivery` the symbol that delivers it.

The theorems are in modules of their own: **TxSchedulerProofs**, **GpsProofs** and
**RadioControlProofs** on the module they are named after, **SpscRingProofs** on
SpscRing and KissLink (the ring, and what fills and drains one), **BleWriteProofs**
on BleWrite and DeviceConfig (a write, and what its handler stores),
**AprsTaskProofs** on AprsTask and Station (the task, and the frames it makes),
**PttSafetyProofs** on PttSafety and Hdlc (the transmitter, and its signal). So
that two modules can be extended together, DeviceConfig, Station, KissLink and
Hdlc name their specifications `ConfigSpec`, `StationSpec`, `KissSpec`, `HdlcSpec`.
**SharedLemmas** has what several proofs rest on: remainders, induction,
recursive functions and sequences.

## Runs

| Run | Shows | Instance and why it is enough |
|---|---|---|
| scheduler | `OneResult`, `AttemptsMatchState`, `AckedWasOnAir`, `RetrySpacing`, `AllSettled`, `ImplementsLifecycle` | 2 entries and 3 messages: the third reclaims a terminal record; 2 retries: first and last; 3 ids with one known from an earlier boot; a clock of 6 units against an interval of 3 wraps between any two retries; a frame takes 0 or 1 units |
| ring | `NoSharedEntry`, `RefusedOnlyWhenFull`, `IsBoundedFifo`, `AllDelivered` | depth 2, counters modulo 6, 8 pushes: the counters wrap while the ring is empty, partly filled and full |
| ptt | `PttOnlyDuringTx`, `FiresInTime`, `HungReleases` | two frames per pass plus beacons; a pass may last as long as the timeout, so the watchdog fires on a live task too; the clock wraps within a few passes |
| ptt_one | violation: two tasks transmit at once | timeout of 1 unit, one frame |
| ble_write | `OneWholeMessage`, `SuccessMeansDelivered`, `CompletedInTime` | one slot as in the firmware, two coroutines, two messages of up to three chunks, two ids so that an id comes round at once, timeout of 2 units on a clock of 3 |
| aprs | `FramesPerPass`, `RequestsInOrder`, `KissInOrder`, `ResultIsLast`, `AllDrained` | 3 requests into a ring and a scheduler of 2 each: a request is dropped at either; 2 KISS frames into a ring of 1: pushed while the first is on the air; 2 retries: first and last |
| gps | `ValidIsFresh`, `NeverAhead` | stale after 3 units, passes of up to 2, a clock of 6: it wraps with a fix in hand; days of 2 time units: midnight between RMC and GGA |
| radio | `KeyedOnDriverFreq`, `SuccessMeansInForce`, `EveryCommandReturns` | two frequencies and two squelches, one of each in force: every partial success; an answer comes one read late |
| config | `IdentityIsLastWritten`, `RequestIsWhatWasAsked`, `StoredIsCurrent`: of objects that give each field once and plainly, the last also of all others | all objects of two members with strings of up to two pieces, some that read like a field's name or hold a quoted quotation mark or a colon, beside and among members with a line feed or a letter as escapes, a slash, 3.7, a number that wraps to 3, null, line breaks on either side of the colon, duplicate names; a third member in requests; limits of one and two pieces and of 23 tokens, so that all are exceeded |
| station | `OnAirIsWhatWasAsked`, `AckTakenIffOurs` | 5 callsigns by 3 SSIDs, any pair of which may change into each other; acks to 7 addressees, of which 5 are names of this station under some identity, by one digipeater or none, and 7 kinds of other frames |
| kiss | `FrameExact`, `MixedOnlyAfterWrap`, `SuccessMeansReceived`, `KissTxExact` | frames of one, two and three chunks, as long as allowed and too long; three frames over two ids: an id comes round; a table of one, so that messages are evicted |
| hdlc | `CleanFrameDelivered`, `OnlyWhatWasSent` | five payloads of two to four bytes with stuffed bits at every place, one exactly as long as the buffer and one longer, one fault anywhere, 7 symbols of noise (enough for a false start flag's last seven bits) |

Bounds (`MaxMsgs`, `MaxKiss`, `MaxPush`, `MaxTotal`, `TxTime`, `MaxDelay`, `MaxTick`,
`MaxFrames`, `WdMax`, `MaxTime`, `MaxStep`, `MaxLate`, `MaxAir`, `MaxNoise`,
`MaxFaults`) are constants named as bounds in their modules and appear in guards.
`BleWrite` assumes that one of 256 ids does not come round on one link while the
message that had it is being written or younger than the timeout (`Recent`),
and that no message stays unfinished for 49 days. `AckedWasOnAir` speaks of one turn
of the id counter (`MaxMsgs <= MaxId`); with 99999 ids and eight records a
second turn while a message of the first is live does not happen in practice.

Every property of a passing run has a mutant: an operator `X_Bug` beside `X` in
the module, a plausible error in that code, with which the property fails.

## Fairness

*TxScheduler*: aprs_task keeps looping (weak fairness of `TickStart`,
`TickSkip`, `TickTransmit`), and an entry that is tried again and again is sent
in the end (strong fairness of a successful `TickTransmit`); without a working
radio the code retries for ever, by design. *SpscRing*: the consumer polls (weak
fairness of `Consume`); producers owe nothing. *PttSafety*: time, the watchdog,
the loop and a frame under way make progress; nothing forces a new frame, a
hang, or progress of a hung task. *AprsTask*: the
loop runs (weak fairness of `Loop`); no ack, connection or working radio is
assumed. *BleWrite* has no liveness property.
*RadioControl*: the BLE host task (or radio_task) goes on with the request it has
(weak fairness of `Handler`); the read has a timeout, so nothing is assumed of
the module. *Gps*, *DeviceConfig*, *Station*, *KissLink* and *Hdlc* have safety
properties only: nothing in them waits for anything else.

## Proofs

*TxSchedulerProofs*. `TypeCorrect`: `TypeOK /\ AttemptsMatchState` is inductive.
`EachMessageReportedOnce`: `OneResult` with the fact that live records carry
distinct serial numbers of accepted messages. `AckOnlyAfterTransmission`:
`AckedWasOnAir` needs the strengthening that, while `MaxMsgs <= MaxId`, the id
of a record is the serial of its message and every heard id is an earlier one or was keyed.
`SchedulerImplementsLifecycle`: every step of the table maps
to a step of TxLifecycle or a stutter. The invariant above makes the mapping a
function of the table (`TableShows`); a free entry means room (`RoomLeft`)
because live messages inject into the entries that are not free.
`RetriesAreSpaced` (`RetrySpacing`) rests on `SpacingInv`: the reading of the
clock in a pending record is e units old, on the wrapped clock exactly, and e
exceeds the time since its transmission by at most the frames that can have gone
before it in that pass of the table; a tick under way lags its own reading by at
most the frames sent so far. A wrap can make the code wait longer, never less.

*SpscRingProofs*, SpscRing. The inductive invariant ties the counters to the histories:
`head` is `Len(pushed)` and `tail` the number of values released, both modulo
the counter width; the local copies of the two tasks lag by what their program
counters say; the entries between `tail` and `head` hold the values pushed.
`SharedLemmas` supplies the lemmas on `%`, which is where the assumption
`IndexMod % Depth = 0` is used: a depth of 6 would break the ring after 2^32
pushes. From it follow `RingTypeCorrect`, `RingNoSharedEntry`, `RingRefusal`
and, with a step-by-step simulation, `RingImplementsFifo`.

*PttSafetyProofs*, PttSafety. `PttTypeCorrect` and `NeverLeftOn` (`PttOnlyDuringTx`), for any
timeout, clock and number of frames; the first needs that aprs_task transmits only
in a pass with a frame left. `WatchdogFiresInTime` (`FiresInTime`) needs
`WatchdogInv`: the readings of the wrapped clock that aprs_task stores and the
watchdog compares are recent enough for their wrapped difference to be the true
time between them (`ReadingsRecent`), and an armed watchdog that has not triggered
saw a fresh heartbeat at its last tick (`LastTickFresh`). The argument uses that
the clock is wider than the timeout, two watchdog periods and one pass together,
the module's assumption; in the code those are 10 s, 1 s and a pass of at most a
minute or so against 49 days.

*AprsTaskProofs*, AprsTask. `AprsTypeCorrect`, `PassIsBounded` (`FramesPerPass`),
`RequestsKeepOrder`, `KissKeepsOrder` and `ResultIsFinal` (`ResultIsLast`). The
inductive invariant budgets a pass (`FramesLeft`: frames given to the radio and
those still to come stay within the bound; it needs that no more messages are
live than the capacity, that a ring's snapshot is no longer than the ring, and that what tick() has yet to visit is
live), keeps messages with a result out of the scheduler (`LiveInv`), and orders
what left a ring before what waits in it (`RingsOrdered`).

*BleWriteProofs*, BleWrite. `MessagesAreWhole` (`OneWholeMessage`), `SuccessIsDelivery`
(`SuccessMeansDelivered`), `CompletionInTime` (`CompletedInTime`) and `ChunksTyped`,
for any number of slots, coroutines, chunks and messages. Neither property is
inductive: both depend on what sits in the slots. `BleInv` says that two
coroutines under way differ in message and id (`WritersInv`); that no two active
slots share an id, and that a slot is at least as old as the last use of its id
(`SlotsInv`); that the slot with a coroutine's id holds chunks of its message
only, is as old as its first chunk, and before that chunk is one the next tick
drops (`OwnerInv`); that a message written alone and in time still has all its
chunks, in a slot or delivered (`KeptInv`); and that a message is delivered with
its last chunk only (`DeliveredInv`). The assumption on ids that come round
(`Recent`, see Runs) enters in the second half of `SlotsInv`: a left-over slot
under a new message's id is too old to live.

*GpsProofs*. `FreshFix` (`ValidIsFresh`), `TimestampNotAhead` (`NeverAhead`) and
`GpsTyped`. `FreshInv`: while a fix is valid, the difference on the wrapped clock
is its true age, as a pass adds at most `MaxStep` to an age below `kStaleMs` and
the clock is wider than both together. `DateInv`: the date kept is never later
than that of the dated sentence in the buffer, because the buffer was started
after the RMC the date came from; so a GGA's time with an older date is never
ahead, and across midnight it is a day late.

*RadioControlProofs*. `OnDriversFrequency` (`KeyedOnDriverFreq`), `SuccessInForce`
(`SuccessMeansInForce`) and `RadioTyped`, for any settings and any number of late
commands. `WireInv`: until an answer is late, the wire is empty between two
exchanges and in one it holds just the command or its answer, and an answer OK
means that the module obeyed. `KeyInv`: a set_freq() that failed is remembered in
`error_`, which keeps the transmitter off; without it the module is on the
driver's frequency, since group commands for squelch and width carry it too.
`GroupInv`: within a request the module follows the driver from the first group
command that was confirmed, as set_squelch() and set_bandwidth() store what they
are about to send and a failure ends the request. `RadioAssumption` asks that 0 Hz
is no frequency: with it set_freq() would find nothing to send at boot.

The four modules below compute as much as they step: what an encoder, a scanner
or a demodulator makes of every input is an induction over that input. The
library's induction theorems take an operator as a parameter, which no prover
here can instantiate. `SharedLemmas` replaces them: `LeastNat` (a set of naturals that is
not empty has a least member) from the library's theorem that inclusion on the
subsets of a finite set is well-founded, `Induction` with a *set* of naturals in place
of a predicate, `Iteration` and `Flattening` for functions defined step by step.
The modules write such computations as recursive functions, and a proof first
shows that the function exists.

*SpscRingProofs*, KissLink. `TransmitsWhatWasWritten` (`KissTxExact`): unescaping
undoes escaping, by induction over the frame, and no FEND is left inside.
`DeliversTheFrame` (`FrameExact`) from `LinkInv`: an entry of the bridge's table has
chunks of its own id with different numbers, and every chunk in existence is
`Genuine`, the part of a received frame that its number says; then all chunks of
one frame, sorted, are that frame. `NoMixtureBeforeWrap` (`MixedOnlyAfterWrap`) from
`AgeInv`: a chunk under an id is at least as many frames old as the id is behind
the counter, so two of one id are of one frame or a whole turn apart.
`SuccessIsReception` (`SuccessMeansReceived`) from `SuccessInv`: on a connection that was
not interrupted the chunks of the current frame are, in order and none missing,
waiting, in the air behind those of older frames, or in one entry of the table
(`Progress`). KissAssumption excludes the empty frame: the demodulator delivers none.

*BleWriteProofs*, DeviceConfig. `ResetBringsItBack` (`StoredIsCurrent`) from
`ConfigInv`: what the validator lets through is an identity, never the mark of an
empty NVS, and the blob is written after both fields. `IdentityTakesEffect`
(`IdentityIsLastWritten`) and `RequestsReadRight` (`RequestIsWhatWasAsked`): for an object
with any number of members, strings of any length and any escapes the scanner finds
the value that the object means, or both refuse it, if the fields it is asked for
are written once and plainly (`IsClear`). The other members may be of any form: the
proof passes over their escapes, line breaks and duplicates as the code does. The
search for a key terminates and is the function it is taken for (`Searches`); it
passes over a string value that is called like the key because no colon follows it;
it stops at the member with the key; the value read there is the member's
(`ValueAt`, `Placed`); and of it the code keeps what is meant (`ReadingPlain`).
`PendingInv`: a reset keeps the identity that the last clear write asked for once it
was saved. Without `IsClear` both theorems are false, see the findings.

*AprsTaskProofs*, Station. `StationCorrect`: `StationInv` is inductive.
`FrameIsWhatWasAsked` (`OnAirIsWhatWasAsked`) and `AckSettlesOurs` (`AckTakenIffOurs`) rest on
the codec: decoding inverts encoding for every callsign, SSID and path, trimming
inverts padding for what has no blank inside, and a text reads as an ack of an id
just when it is "ack" and that id. StationAssumption and HeardAssumption say
that the callsigns, texts and frames are within the sizes of the protocol.

*PttSafetyProofs*, Hdlc. `WholeFrameIsDelivered` (`CleanFrameDelivered`) and
`DemodulatorTyped`, for any payloads, preambles, noise and number of faults. `HdlcInv`
adds to the types that a receiver whose critical part has arrived whole so far is
on course (`OnCourse`), whatever it was in before. From the last preamble symbol
on its tone is the sender's. After j bits of a flag its shift register lies
between two bounds (`FlagLow`, `FlagHigh`), which leave one value after eight, so
that one flag puts any receiver right. In the data (`InData`) it holds the bits
carried so far and counts ones as the modulator does, except that it may be
waiting for a stuffed zero; the register stays below `OnesLimit`, so stuffing lets
no false flag arise. In the tail flag (`InTail`) it has at most seven bits too many,
which make no byte, and the frame ends in its own check sequence (`Checked`), so
the flag's last bit delivers it; what is heard is never taken back.

Assumptions are the named `ASSUME`s of the modules, nothing else. To look for a
mistake in an inductive invariant before proving it, give it to TLC with the
constants of the run (`INVARIANT RadioInv` with RadioControlProofs, `GpsInv`,
`BleInv`, and so on); `SpacingInv`, `Course` and `SuccessInv` quantify over infinite
sets and cannot be given to it.

Only model-checked, and why:

- `OnlyWhatWasSent` (Hdlc): not true for every value of the constants. Which frames
  one fault can turn into another with a right check sequence depends on the
  payload and on what the CRC does with it; a proof would first need the set of
  payloads for which none exists.
- `AllSettled`, `AllDelivered`, `HungReleases`, `AllDrained`, `EveryCommandReturns`:
  liveness, which TLAPS cannot prove without ENABLED.

## Findings and known divergences

With a run that shows it (`findings` in `PROJECT.json`):

1. `main.cpp:1748`: `afsk_tx_frame` is not called from aprs_task only;
   `beacon_now` calls it on the BLE host task, without a lock (`OneTransmitter`).

Stated in a module, refuted when TLC is given the property:

2. `TxScheduler.h:9` promises at most five transmissions; a frame that fails
   after PTT was keyed is not counted and is keyed again every second
   (`KeyedAtMostMaxRetries`).
3. `PttWatchdog.h:4`: after one firing the watchdog is blind until the next
   heartbeat. A pass with several frames outlasts 10 s, so it fires on a live
   task, which then keys again unobserved (`StalePttReleased`).
4. `AprsTaskContext.h:51`: the BLE write is not rejected when the ring is full;
   the completion callback drops the handler's result (`FullMeansRejected`).
5. `13_quickstart_guide.md:132` promises a notification for each attempt and a
   final result; `send_notify_` drops what comes within 100 ms of the last one,
   and nothing repeats a result that was dropped (`EveryResultTold`).
6. `gate_pass_matrix.md:35`: acks addressed to this station are recognised. A
   callsign in small letters is accepted and sent in capitals, but the acks are
   compared with the small letters: none is taken (`AckOfOursTaken`).
7. `PayloadValidator.h:40` returns true for "valid JSON with a legal callsign
   field", and `payload_contracts.md:31` lists the legal ones. The scanner is no
   JSON parser (`PayloadValidator.cpp:47`, `71`, `100`, `104`): `"A\nB"` is accepted
   as the callsign AnB, `"\u0041B"` stored as u0041B, and a text with such an escape
   goes on the air altered (Python's `json.dumps` writes every letter beyond ASCII
   so); of two members with one name it takes the first where the client's
   `json.loads` takes the last; the SSIDs 3.7 and 4294967299 are 3 (the overflow is
   undefined in C++); an SSID behind a line break and a colon is silently 0, one
   behind a colon and a line break is refused (`EveryWriteIsRead`,
   `EveryRequestIsRead`).

Behaviours of the models, with no property of their own:

- GPS: `ValidIsFresh` speaks of the parser's flag, not of the one that is shown:
  `g_gps_fix_valid` stays true when a sentence without a fix arrives
  (`payload_contracts.md:191` calls the field the fix), because the stale check
  looks at the parser's flag, which that sentence has cleared. The time up to
  which I2C is left alone is compared without regard to the wrap (`main.cpp:2899`).
- Radio: `Sa818Radio.h:16` says that a UART timeout sets the error flag; that is
  so for init and set_freq only. A late answer is read as the next command's. A
  radio_set that fails after its frequency was applied leaves the old one
  published. The end of a frame stores Idle over Error. At boot a failed
  set_freq is ignored.
- KISS: a lost chunk leaves a partial frame in the bridge for ever; a whole turn
  of the ids later, or after a reset of the device, it mixes with another. A
  received frame of more than 330 bytes when escaped is sent and refused by the
  client. `BleServer.cpp:726` says that id 0 is skipped on wrap; the code uses it,
  and so does KissLink. On a disconnect the bridge clears its table before it awaits
  the end of the link (`kiss_bridge.py:363`); KissLink does both in one step, and
  what chunks in between can leave in the table is what its other case leaves, a
  link lost with the table as it was.
- A frame that a client writes through KISS goes to afsk_tx_frame as it is
  (`main.cpp:1922`), with no check sequence unless the client sent one; Hdlc models
  the frames of `ax25::encode`, which carry it.
- Configuration: a write is answered with success though NVS could not save it, and
  a reset then brings back the identity of before;
  an object without an "ssid" sets it to 0; a frame made while the two fields are
  being stored may be of two identities; beacon_now does not look at the validity
  of the position.
- The watchdog is not armed before the first heartbeat (`PttWatchdog.h:9`).

## Not modelled

Tone generation, filters and the symbol clock (Hdlc has what they do to the
symbols), codec registers, I2S and the raw recording of audio_task, the bench
profiles, display, power, telemetry and status documents: signal processing, I/O
and formatting without a decision that depends on order, time or failure. The
read handlers of BleServer, its UUID tables and pairing: data of NimBLE.
`force_safe()`, `set_power()`, `erase()`, `packet_type()` and `NmeaParser::reset()`
have no caller. The desktop's message tracker and reconnect state machine are
the two parts with hard behaviour that are left; the iOS client uses the same
protocol.

## Plan

What is left, in order of importance.

1. The desktop **MessageTracker** with its placeholders, fed by the results that
   get through, and **Transport**, the reconnect state machine at its awaits.
2. A bound for `OnlyWhatWasSent`: the frame lengths up to which the CRC refuses
   every frame with one fault.
