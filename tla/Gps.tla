---------------------------------- MODULE Gps ----------------------------------
(***************************************************************************)
(* The GPS receiver: gps_task (main.cpp) polls the module over I2C or UART *)
(* and feeds NmeaParser byte by byte; the parser keeps a fix, its validity *)
(* and the date of the last RMC; the task publishes the fix to the other   *)
(* tasks in g_gps_* and clears the validity when nothing arrives.          *)
(*                                                                         *)
(* A sentence is three pieces: "start" ('$' and what follows), "body", and *)
(* "end" (CR or LF). Any piece can be lost on the way: the pieces arrive   *)
(* in any order and number. A sentence is what its fields say: a kind and  *)
(* the GPS time it was computed at. The checksum is taken to find every    *)
(* damage: it accepts the start and the body of one sentence only.         *)
(***************************************************************************)
EXTENDS Integers

CONSTANTS
  kStaleMs,   \* 5000 ms, in clock units
  kBackoff,   \* 2000 ms of silence on the bus after a failed I2C read
  ClockMod,   \* the millisecond clock is a uint32_t: 2^32
  MaxStep,    \* bound: clock units from one pass to the next (100 ms and the pass)
  DayLen,     \* GPS time units in a day
  MaxTime     \* bound on the GPS time

ASSUME GpsAssumption ==
  /\ {kStaleMs, kBackoff, MaxStep, DayLen} \subseteq Nat \ {0}
  /\ MaxTime \in Nat
  /\ ClockMod \in Nat /\ ClockMod > kStaleMs + MaxStep

VARIABLES
  gpsTime,                     \* the module's time
  buf, valid, fix, rmcDate,    \* NmeaParser: buf_, valid_, fix_, rmc_day_ ...
  now, pc, use_i2c, i2c_backoff_until, last_valid,    \* gps_task
  g_gps_fix_valid, g_gps_timestamp,                   \* for the other tasks
  age           \* history: time since the last accepted sentence, capped

parser == <<buf, valid, fix, rmcDate>>
task == <<now, pc, use_i2c, i2c_backoff_until, last_valid>>
published == <<g_gps_fix_valid, g_gps_timestamp>>
vars == <<gpsTime, parser, task, published, age>>

(* V: RMC or GGA without a fix. Notime: the time field is empty or not a   *)
(* number. A sentence of another type does what a damaged one does.        *)
Kinds == {"RMC", "RMC_Notime", "GGA", "GGA_Notime", "V"}
Dated == {"RMC", "RMC_Notime", "GGA"}    \* the others' time is not looked at
Sentence(kind, t) == [kind |-> kind, time |-> IF kind \in Dated THEN t ELSE 0]

\* buf_: not in_sentence_, or the start of a sentence and what came after it.
Empty == [body |-> "out"]
Started == [body : {"none", "own", "other"}, of : [kind : Kinds, time : 0..MaxTime]]

(* make_timestamp(): the day of the last RMC and the time of day in this   *)
(* sentence. Dates count from 1; 0 is rmc_year_ = 0, no date yet.          *)
DateOf(t) == t \div DayLen + 1
Timestamp(date, t) == (date - 1) * DayLen + (t % DayLen)
\* A time that does not parse leaves GGA with 00:00:00.
TimeOfDay(s) == IF s.kind = "GGA_Notime" THEN 0 ELSE s.time

Init ==
  /\ gpsTime = 0
  /\ buf = Empty /\ valid = FALSE /\ fix = 0 /\ rmcDate = 0
  /\ now = 0 /\ pc = "sleep"
  /\ use_i2c \in BOOLEAN    \* the probe at start-up
  /\ i2c_backoff_until = 0 /\ last_valid = 0
  /\ g_gps_fix_valid = FALSE /\ g_gps_timestamp = 0
  /\ age = kStaleMs

--------------------------------------------------------------------------------
\* The module (external): its time goes on.
GpsTick ==
  /\ gpsTime < MaxTime
  /\ gpsTime' = gpsTime + 1
  /\ UNCHANGED <<parser, task, published, age>>

--------------------------------------------------------------------------------
\* Mutant: the age of the fix computed on a clock that does not wrap.
IsStale_NoWrap(n) == n - last_valid >= kStaleMs

IsStale(n) == (n - last_valid) % ClockMod >= kStaleMs

(* vTaskDelay(kTickMs) is over: the clock is read, then the stale check.   *)
Wake(d) ==
  /\ pc = "sleep"
  /\ pc' = "poll"
  /\ now' = (now + d) % ClockMod
  /\ age' = IF age + d > kStaleMs THEN kStaleMs ELSE age + d
  /\ LET stale == valid /\ IsStale(now') IN
       /\ valid' = (valid /\ ~stale)
       /\ g_gps_fix_valid' = (g_gps_fix_valid /\ ~stale)
  /\ UNCHANGED <<gpsTime, buf, fix, rmcDate, use_i2c, i2c_backoff_until,
                 last_valid, g_gps_timestamp>>

\* The transport of this pass is read; the clock was read before.
ReadBy(i2c) ==
  /\ pc = "poll"
  /\ use_i2c' = i2c
  /\ UNCHANGED <<gpsTime, parser, now, last_valid, published, age>>

(* On the UART every pass tries try_switch_to_i2c() first: switched says   *)
(* that the probe and add_device went well.                                *)
PollUart ==
  /\ ~use_i2c
  /\ pc' = "drain"
  /\ UNCHANGED i2c_backoff_until
  /\ ReadBy(FALSE)

\* The comparison is the code's: it does not wrap with the clock.
BackedOff == now < i2c_backoff_until

PollI2c(switched) ==
  /\ use_i2c = ~switched /\ ~BackedOff
  /\ pc' = "drain"
  /\ UNCHANGED i2c_backoff_until
  /\ ReadBy(TRUE)

Deadline == (now + kBackoff) % ClockMod

\* gps_ddc_read_available() or gps_ddc_read_stream() fails.
PollI2cFails(switched) ==
  /\ use_i2c = ~switched /\ ~BackedOff
  /\ pc' = "sleep"
  /\ i2c_backoff_until' = Deadline
  /\ ReadBy(TRUE)

SkipI2c(switched) ==
  /\ use_i2c = ~switched /\ BackedOff
  /\ pc' = "sleep"
  /\ UNCHANGED i2c_backoff_until
  /\ ReadBy(TRUE)

--------------------------------------------------------------------------------
\* feed() returned false: nothing is published.
NotAccepted == UNCHANGED <<fix, last_valid, published, age>>

\* feed() returned true: handle_gps_byte() stores the fix for the other tasks.
Accepted(date, t) ==
  /\ fix' = IF date = 0 THEN fix ELSE Timestamp(date, t)
  /\ valid' = TRUE
  /\ last_valid' = now /\ age' = 0
  /\ g_gps_fix_valid' = TRUE /\ g_gps_timestamp' = fix'

\* parse_rmc(): the date is kept even if the time then fails to parse.
ParseRmc(s) ==
  \/ /\ s.kind = "V"
     /\ valid' = FALSE
     /\ UNCHANGED rmcDate /\ NotAccepted
  \/ /\ s.kind = "RMC_Notime"
     /\ rmcDate' = DateOf(s.time)
     /\ UNCHANGED valid /\ NotAccepted
  \/ /\ s.kind = "RMC"
     /\ rmcDate' = DateOf(s.time)
     /\ Accepted(DateOf(s.time), s.time)

\* Mutant: GGA rolls the date over when the time of day goes back.
GgaDate_Roll(s) ==
  IF rmcDate > 0 /\ TimeOfDay(s) % DayLen < fix % DayLen THEN rmcDate + 1 ELSE rmcDate

GgaDate(s) == rmcDate

\* parse_gga(): the time of day of this sentence, the date of the last RMC.
ParseGga(s) ==
  /\ UNCHANGED rmcDate
  /\ \/ /\ s.kind = "V"
        /\ valid' = FALSE
        /\ NotAccepted
     \/ /\ s.kind \in {"GGA", "GGA_Notime"}
        /\ Accepted(GgaDate(s), TimeOfDay(s))

\* verify_checksum(), split_fields() and the field counts.
Intact(b) == b.body = "own"

(* NmeaParser::feed() by handle_gps_byte(). A '$' starts a sentence even   *)
(* in the middle of another.                                               *)
Feeding ==
  /\ pc = "drain"
  /\ UNCHANGED <<gpsTime, now, pc, use_i2c, i2c_backoff_until>>

FeedStart(kind) ==
  /\ Feeding
  /\ buf' = [body |-> "none", of |-> Sentence(kind, gpsTime)]
  /\ UNCHANGED <<valid, rmcDate>> /\ NotAccepted

(* The body of the sentence in the buffer, or of another one whose start   *)
(* was lost. A second body runs over kMaxSentenceLen: all is discarded.    *)
FeedBody(whose) ==
  /\ Feeding
  /\ buf' = CASE buf = Empty -> Empty
              [] buf.body = "none" -> [buf EXCEPT !.body = whose]
              [] OTHER -> Empty
  /\ UNCHANGED <<valid, rmcDate>> /\ NotAccepted

\* process() of the buffer: dropped when too short or damaged.
FeedEnd ==
  /\ Feeding
  /\ buf' = Empty
  /\ \/ /\ Intact(buf)
        /\ ParseRmc(buf.of) \/ ParseGga(buf.of)
     \/ /\ ~Intact(buf)
        /\ UNCHANGED <<valid, rmcDate>> /\ NotAccepted

(* Nothing more to read: the UART is empty, or the I2C burst of at most 64 *)
(* bytes is over, in the middle of a sentence too. Every kDiagMs the task  *)
(* probes the I2C bus once more; its diagnostics and the telemetry at 1 Hz *)
(* change nothing here.                                                    *)
EndPass ==
  /\ pc = "drain"
  /\ pc' = "sleep"
  /\ use_i2c' \in {use_i2c, TRUE}
  /\ UNCHANGED <<gpsTime, parser, now, i2c_backoff_until, last_valid,
                 published, age>>

Next ==
  \/ GpsTick
  \/ \E d \in 1..MaxStep : Wake(d)
  \/ PollUart
  \/ \E switched \in BOOLEAN :
       PollI2c(switched) \/ PollI2cFails(switched) \/ SkipI2c(switched)
  \/ \E kind \in Kinds : FeedStart(kind)
  \/ \E whose \in {"own", "other"} : FeedBody(whose)
  \/ FeedEnd
  \/ EndPass

Spec == Init /\ [][Next]_vars

--------------------------------------------------------------------------------
\* Every variable has its type.
TypeOK ==
  /\ gpsTime \in 0..MaxTime
  /\ buf \in Started \cup {Empty}
  /\ valid \in BOOLEAN /\ fix \in Nat /\ rmcDate \in Nat
  /\ {now, i2c_backoff_until, last_valid} \subseteq 0..(ClockMod - 1)
  /\ pc \in {"sleep", "poll", "drain"}
  /\ use_i2c \in BOOLEAN
  /\ g_gps_fix_valid \in BOOLEAN /\ g_gps_timestamp \in Nat
  /\ age \in 0..kStaleMs

(* A fix the parser holds as valid was, at the last pass, less than        *)
(* kStaleMs old, across the wrap of the clock, and the other tasks see it  *)
(* as valid too, whatever pieces were lost and however long a pass took.   *)
ValidIsFresh == valid => age < kStaleMs /\ g_gps_fix_valid

(* The published time is never later than what the module has sent, though *)
(* GGA combines its time of day with the date of an older RMC.             *)
NeverAhead == g_gps_timestamp <= gpsTime
================================================================================
