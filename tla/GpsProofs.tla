------------------------------- MODULE GpsProofs -------------------------------
(***************************************************************************)
(* The GPS receiver: a valid fix is fresh across the wrap of the clock,    *)
(* and the published time is never ahead of the module's; for any stale    *)
(* time, clock, length of a day and time on the air.                       *)
(***************************************************************************)
EXTENDS Gps, SharedLemmas

(* What is valid has an age the wrapped clock still tells.                 *)
FreshInv ==
  valid => /\ age < kStaleMs /\ g_gps_fix_valid
           /\ (now - last_valid) % ClockMod = age

(* The sentence in the buffer was computed at a time that has been, and    *)
(* the date kept is not later than its own: a GGA on the way cannot be     *)
(* older than the RMC its date is taken from.                              *)
DateInv ==
  /\ rmcDate <= DateOf(gpsTime)
  /\ buf # Empty => /\ buf.of.time <= gpsTime
                    /\ buf.of.kind \in Dated => rmcDate <= DateOf(buf.of.time)
  /\ fix <= gpsTime /\ g_gps_timestamp <= gpsTime

GpsInv == TypeOK /\ FreshInv /\ DateInv

--------------------------------------------------------------------------------
(* The clock and the calendar.                                             *)

\* The assumption, constant by constant.
LEMMA GpsConstants ==
  /\ kStaleMs \in Nat \ {0} /\ MaxStep \in Nat \ {0} /\ kBackoff \in Nat \ {0}
  /\ DayLen \in Nat \ {0} /\ MaxTime \in Nat
  /\ ClockMod \in Nat /\ ClockMod > kStaleMs + MaxStep
  BY GpsAssumption

(* While the age stays below the wrap, a step of the clock adds to it.     *)
LEMMA AgeAdds ==
  \A n, b \in Int : \A a, d \in Nat :
    a = (n - b) % ClockMod /\ a + d < ClockMod =>
      (((n + d) % ClockMod) - b) % ClockMod = a + d
<1> TAKE n, b \in Int
<1> TAKE a, d \in Nat
<1> HAVE a = (n - b) % ClockMod /\ a + d < ClockMod
<1> DEFINE m == ClockMod
<1>0. m \in Int /\ m > 0 /\ a = (n - b) % m /\ a + d < m
  BY GpsConstants
<1> SUFFICES (((n + d) % m) - b) % m = a + d
  OBVIOUS
<1> HIDE DEF m
<1> DEFINE x == n - b
           q == x \div m
<1>1. x \in Int /\ n + d \in Int /\ -b \in Int /\ a + d \in Int /\ 0 <= a + d
  BY <1>0
<1>2. x = q * m + (x % m) /\ q \in Int
  BY <1>1, <1>0, DivMod, Zenon
<1> HIDE DEF q
<1>3. q * m \in Int /\ x = q * m + a
  <2>1. a = x % m
    BY <1>0, Zenon
  <2> HIDE DEF x
  <2> QED BY <1>0, <1>1, <1>2, <2>1
<1>4. (n + d) + (-b) = x + d
  BY <1>1
<1> HIDE DEF x
<1>5. x + d = q * m + (a + d)
  BY <1>1, <1>3, <1>0
<1>6. x + d \in Int
  BY <1>1
<1>7. (x + d) % m = a + d
  BY <1>1, <1>2, <1>5, <1>6, <1>0, ModUnique, Zenon
<1>8. (((n + d) % m) + (-b)) % m = ((n + d) + (-b)) % m
  BY <1>1, <1>0, ModAdd, Zenon
<1>9. ((n + d) % m) + (-b) = ((n + d) % m) - b
  <2>1. (n + d) % m \in Int
    BY <1>1, <1>0
  <2> DEFINE y == (n + d) % m
  <2> HIDE DEF y
  <2>2. y \in Int
    BY <2>1 DEF y
  <2>3. y + (-b) = y - b
    BY <2>2
  <2> QED BY <2>3 DEF y
<1> QED BY <1>4, <1>7, <1>8, <1>9, Zenon

(* Days follow each other, and a date no later than a time's own gives a   *)
(* timestamp no later than that time.                                      *)
LEMMA Calendar ==
  ASSUME NEW t \in Nat, NEW u \in Nat, t <= u
  PROVE  /\ DateOf(t) \in Nat \ {0} /\ DateOf(t) <= DateOf(u)
         /\ \A date \in Nat : date > 0 /\ date <= DateOf(t) =>
              /\ Timestamp(date, t) \in Nat /\ Timestamp(date, t) <= t
              /\ Timestamp(date, 0) \in Nat /\ Timestamp(date, 0) <= t
<1> USE GpsConstants
<1> DEFINE q == t \div DayLen
           r == t % DayLen
           p == u \div DayLen
           s == u % DayLen
<1>1. t = q * DayLen + r /\ q \in Int /\ r \in Int /\ 0 <= r /\ r < DayLen
  BY DivMod
<1>2. u = p * DayLen + s /\ p \in Int /\ s \in Int /\ 0 <= s /\ s < DayLen
  BY DivMod
<1>3. 0 % DayLen = 0
  BY ModSmall
<1>4. DateOf(t) = q + 1 /\ DateOf(u) = p + 1
  BY DEF DateOf
<1>5. \A date : Timestamp(date, t) = (date - 1) * DayLen + r
  BY Zenon DEF Timestamp
<1>6. \A date : Timestamp(date, 0) = (date - 1) * DayLen + 0
  BY <1>3, Zenon DEF Timestamp
<1> HIDE DEF q, r, p, s
<1>7. q >= 0
  <2> SUFFICES ASSUME q <= -1 PROVE FALSE
    BY <1>1
  <2>1. q * DayLen <= -DayLen
    BY <1>1
  <2> QED BY <1>1, <2>1
<1>8. q <= p
  <2> SUFFICES ASSUME p + 1 <= q PROVE FALSE
    BY <1>1, <1>2
  <2>1. (p + 1) * DayLen <= q * DayLen
    BY <1>1, <1>2
  <2>2. (p + 1) * DayLen = p * DayLen + DayLen
    BY <1>2
  <2>3. p * DayLen \in Int /\ q * DayLen \in Int
    BY <1>1, <1>2
  <2> QED BY <1>1, <1>2, <2>1, <2>2, <2>3
<1>9. ASSUME NEW date \in Nat, date > 0, date <= q + 1
      PROVE  /\ (date - 1) * DayLen \in Nat
             /\ (date - 1) * DayLen <= q * DayLen
  BY <1>1, <1>7, <1>9
<1>10. q * DayLen \in Int
  BY <1>1
<1>11. ASSUME NEW date \in Nat, date > 0, date <= DateOf(t)
       PROVE  /\ Timestamp(date, t) \in Nat /\ Timestamp(date, t) <= t
              /\ Timestamp(date, 0) \in Nat /\ Timestamp(date, 0) <= t
  <2> DEFINE k == (date - 1) * DayLen
  <2>1. k \in Nat /\ k <= q * DayLen
    BY <1>4, <1>9, <1>11
  <2>2. Timestamp(date, t) = k + r /\ Timestamp(date, 0) = k + 0
    BY <1>5, <1>6, Zenon
  <2> HIDE DEF k
  <2> QED BY <1>1, <1>10, <2>1, <2>2
<1> QED BY <1>4, <1>7, <1>8, <1>1, <1>2, <1>11

--------------------------------------------------------------------------------
(* The invariant holds at the start, and every step preserves it.          *)

\* The invariant holds at the start.
LEMMA GpsInit == Init => GpsInv
<1> SUFFICES ASSUME Init PROVE GpsInv
  OBVIOUS
<1> USE GpsConstants
<1>1. DateOf(0) \in Nat \ {0}
  BY Calendar
<1>2. TypeOK
  <2>1. {now, i2c_backoff_until, last_valid} \subseteq 0 .. ClockMod - 1
    BY DEF Init
  <2>2. buf \in Started \cup {Empty}
    BY DEF Init
  <2>3. gpsTime \in 0 .. MaxTime /\ age \in 0 .. kStaleMs
    BY DEF Init
  <2> QED BY <2>1, <2>2, <2>3 DEF Init, TypeOK
<1>3. FreshInv /\ DateInv
  BY <1>1 DEF Init, FreshInv, DateInv
<1> QED BY <1>2, <1>3 DEF GpsInv

\* The types, variable by variable.
LEMMA Typed ==
  ASSUME GpsInv
  PROVE  /\ gpsTime \in Nat /\ gpsTime <= MaxTime /\ buf \in Started \cup {Empty}
         /\ valid \in BOOLEAN /\ fix \in Nat /\ rmcDate \in Nat
         /\ now \in 0 .. ClockMod - 1 /\ last_valid \in 0 .. ClockMod - 1
         /\ i2c_backoff_until \in 0 .. ClockMod - 1
         /\ g_gps_fix_valid \in BOOLEAN /\ g_gps_timestamp \in Nat /\ age \in 0 .. kStaleMs
         /\ DateOf(gpsTime) \in Nat \ {0}
<1>1. /\ gpsTime \in Nat /\ gpsTime <= MaxTime /\ buf \in Started \cup {Empty}
      /\ valid \in BOOLEAN /\ fix \in Nat /\ rmcDate \in Nat
      /\ now \in 0 .. ClockMod - 1 /\ last_valid \in 0 .. ClockMod - 1
      /\ i2c_backoff_until \in 0 .. ClockMod - 1
      /\ g_gps_fix_valid \in BOOLEAN /\ g_gps_timestamp \in Nat /\ age \in 0 .. kStaleMs
  BY GpsConstants DEF GpsInv, TypeOK
<1> QED BY <1>1, Calendar

\* The module's time goes on.
LEMMA TickKeeps ==
  ASSUME GpsInv, GpsTick
  PROVE  GpsInv'
<1> USE GpsConstants
<1>1. /\ gpsTime < MaxTime /\ gpsTime' = gpsTime + 1
      /\ UNCHANGED <<buf, valid, fix, rmcDate, now, pc, use_i2c, i2c_backoff_until,
                     last_valid, g_gps_fix_valid, g_gps_timestamp, age>>
  BY DEF GpsTick, parser, task, published
<1>2. gpsTime' \in 0 .. MaxTime /\ gpsTime <= gpsTime' /\ gpsTime \in Nat /\ gpsTime' \in Nat
  BY <1>1, Typed
<1>3. /\ DateOf(gpsTime) <= DateOf(gpsTime') /\ DateOf(gpsTime) \in Nat
      /\ DateOf(gpsTime') \in Nat
  BY <1>2, Calendar
<1>4. TypeOK'
  BY <1>1, <1>2, Zenon DEF GpsInv, TypeOK
<1>5. FreshInv'
  BY <1>1, Zenon DEF GpsInv, FreshInv
<1>6. buf # Empty => buf.of.time \in Nat
  BY Typed DEF Started
<1>7. DateInv'
  <2>1. rmcDate' <= DateOf(gpsTime')
    BY <1>1, <1>3, Typed DEF GpsInv, DateInv
  <2>2. fix' <= gpsTime' /\ g_gps_timestamp' <= gpsTime'
    BY <1>1, <1>2, Typed DEF GpsInv, DateInv
  <2>3. ASSUME buf # Empty
        PROVE  buf.of.time <= gpsTime' /\ (buf.of.kind \in Dated => rmcDate <= DateOf(buf.of.time))
    BY <1>2, <1>6, <2>3 DEF GpsInv, DateInv
  <2>4. Empty' = Empty /\ DateOf(gpsTime)' = DateOf(gpsTime')
    BY Zenon DEF Empty, DateOf
  <2> QED BY <1>1, <2>1, <2>2, <2>3, <2>4, Zenon DEF DateInv
<1> QED BY <1>4, <1>5, <1>7, Zenon DEF GpsInv

(* The age of a valid fix is the distance from the time of the last one.   *)
LEMMA AgeGrows ==
  ASSUME NEW d \in Nat, now \in Int, last_valid \in Int, age \in Nat,
         (now - last_valid) % ClockMod = age, age + d < ClockMod
  PROVE  (((now + d) % ClockMod) - last_valid) % ClockMod = age + d
<1>1. age = (now - last_valid) % ClockMod
  OBVIOUS
<1> QED BY <1>1, AgeAdds, Zenon

(* The stale check of a pass compares the true age, as it cannot have      *)
(* wrapped since the last pass.                                            *)
LEMMA WakeKeeps ==
  ASSUME GpsInv, NEW d \in 1 .. MaxStep, Wake(d)
  PROVE  GpsInv'
<1> USE GpsConstants
<1> DEFINE n == (now + d) % ClockMod
           stale == valid /\ IsStale(n)
<1>1. /\ pc' = "poll" /\ now' = n
      /\ age' = IF age + d > kStaleMs THEN kStaleMs ELSE age + d
      /\ valid' = (valid /\ ~stale) /\ g_gps_fix_valid' = (g_gps_fix_valid /\ ~stale)
      /\ UNCHANGED <<gpsTime, buf, fix, rmcDate, use_i2c, i2c_backoff_until,
                     last_valid, g_gps_timestamp>>
  BY Zenon DEF Wake
<1>2. /\ now \in Int /\ last_valid \in Int /\ age \in Nat /\ d \in Nat /\ d <= MaxStep
      /\ ClockMod \in Int /\ ClockMod > 0 /\ ClockMod > kStaleMs + d
  BY Typed
<1>3. n \in 0 .. ClockMod - 1
  BY <1>2
<1>4. ASSUME valid
      PROVE  /\ age < kStaleMs /\ g_gps_fix_valid /\ (n - last_valid) % ClockMod = age + d
             /\ stale <=> age + d >= kStaleMs
  <2>1. age < kStaleMs /\ g_gps_fix_valid /\ (now - last_valid) % ClockMod = age
    BY <1>4 DEF GpsInv, FreshInv
  <2>2. age + d < ClockMod
    <3> HIDE DEF n
    <3>1. age < kStaleMs
      BY <2>1
    <3> QED BY <1>2, <3>1
  <2>3. (n - last_valid) % ClockMod = age + d
    BY <1>2, <2>1, <2>2, AgeGrows
  <2>4. IsStale(n) <=> age + d >= kStaleMs
    <3>1. IsStale(n) <=> (n - last_valid) % ClockMod >= kStaleMs
      BY Zenon DEF IsStale
    <3> QED BY <2>3, <3>1, Zenon
  <2> QED BY <1>4, <2>1, <2>3, <2>4, Zenon
<1> HIDE DEF n, stale
<1>5. age' \in 0 .. kStaleMs
  BY <1>1, <1>2
<1>6. valid' \in BOOLEAN /\ g_gps_fix_valid' \in BOOLEAN
  BY <1>1, Zenon
<1>7. TypeOK'
  <2>1. {now, i2c_backoff_until, last_valid}' \subseteq 0 .. ClockMod - 1
    BY <1>1, <1>3, Typed
  <2> QED BY <1>1, <1>5, <1>6, <2>1 DEF GpsInv, TypeOK
<1>8. FreshInv'
  <2> SUFFICES ASSUME valid'
               PROVE  age' < kStaleMs /\ g_gps_fix_valid' /\ (now' - last_valid') % ClockMod = age'
    BY Zenon DEF FreshInv
  <2>1. valid /\ ~stale
    BY <1>1, Zenon
  <2>2. /\ age < kStaleMs /\ g_gps_fix_valid /\ (n - last_valid) % ClockMod = age + d
        /\ ~(age + d >= kStaleMs)
    BY <1>4, <2>1, Zenon
  <2>3. age' = age + d /\ age' < kStaleMs
    <3>1. ~(age + d >= kStaleMs)
      BY <2>2
    <3> QED BY <1>1, <1>2, <3>1
  <2>4. g_gps_fix_valid'
    BY <1>1, <2>1, <2>2, Zenon
  <2> QED BY <1>1, <2>2, <2>3, <2>4, Zenon
<1>9. DateInv'
  BY <1>1, Zenon DEF GpsInv, DateInv, Empty, DateOf
<1> QED BY <1>7, <1>8, <1>9, Zenon DEF GpsInv

(* The rest of the task touches neither the parser nor what is published.  *)
LEMMA TaskKeeps ==
  ASSUME GpsInv,
         \/ PollUart \/ EndPass
         \/ \E switched \in BOOLEAN :
              PollI2c(switched) \/ PollI2cFails(switched) \/ SkipI2c(switched)
  PROVE  GpsInv'
<1> USE GpsConstants
<1>1. /\ UNCHANGED <<gpsTime, buf, valid, fix, rmcDate, now, last_valid,
                     g_gps_fix_valid, g_gps_timestamp, age>>
      /\ i2c_backoff_until' \in {i2c_backoff_until, Deadline}
      /\ pc' \in {"drain", "sleep"} /\ use_i2c' \in {use_i2c, TRUE, FALSE}
  BY DEF PollUart, EndPass, PollI2c, PollI2cFails, SkipI2c, ReadBy, parser, published
<1>2. Deadline \in 0 .. ClockMod - 1
  <2>1. now + kBackoff \in Int /\ ClockMod \in Int /\ ClockMod > 0
    BY Typed
  <2> QED BY <2>1 DEF Deadline
<1>3. TypeOK'
  <2>1. {now, i2c_backoff_until, last_valid}' \subseteq 0 .. ClockMod - 1
    BY <1>1, <1>2, Typed
  <2> QED BY <1>1, <2>1 DEF GpsInv, TypeOK
<1>4. FreshInv' /\ DateInv'
  BY <1>1, Zenon DEF GpsInv, FreshInv, DateInv, Empty, DateOf
<1> QED BY <1>3, <1>4 DEF GpsInv

--------------------------------------------------------------------------------
(* Feeding the parser.                                                     *)

(* Sentences, in the buffer and as the module sends them.                  *)
LEMMA Sentences ==
  ASSUME NEW kind \in Kinds, NEW t \in 0 .. MaxTime
  PROVE  LET s == [body |-> "none", of |-> Sentence(kind, t)] IN
           /\ s \in Started /\ s.of.time <= t
           /\ s.of.kind \in Dated => s.of.time = t
<1> USE GpsConstants
<1> DEFINE r == Sentence(kind, t)
<1>1. r \in [kind : Kinds, time : 0 .. MaxTime] /\ r.time <= t /\ (r.kind \in Dated => r.time = t)
  BY DEF Sentence
<1>2. ASSUME NEW q \in [kind : Kinds, time : 0 .. MaxTime]
      PROVE  [body |-> "none", of |-> q] \in Started /\ [body |-> "none", of |-> q].of = q
  BY DEF Started
<1> QED BY <1>1, <1>2, Zenon

\* The fields of a buffer.
LEMMA BufferFields ==
  ASSUME NEW b \in Started \cup {Empty}
  PROVE  /\ b # Empty => /\ b \in Started /\ b.of.kind \in Kinds
                         /\ b.of.time \in Nat /\ b.of.time <= MaxTime
         /\ b.body \in {"none", "own"} => b # Empty
         /\ \A whose \in {"own", "other"} : b # Empty =>
              /\ [b EXCEPT !.body = whose] \in Started
              /\ [b EXCEPT !.body = whose].of = b.of
  BY GpsConstants DEF Started, Empty

(* What every feed leaves alone, and what it does to the buffer is enough  *)
(* while no sentence is accepted.                                          *)
LEMMA BufferKeeps ==
  ASSUME GpsInv, buf' \in Started \cup {Empty},
         UNCHANGED <<gpsTime, now, pc, use_i2c, i2c_backoff_until, rmcDate, fix, last_valid,
                     g_gps_fix_valid, g_gps_timestamp, age>>,
         valid' \in {valid, FALSE},
         buf' # Empty => /\ buf'.of.time <= gpsTime
                         /\ buf'.of.kind \in Dated => rmcDate <= DateOf(buf'.of.time)
  PROVE  GpsInv'
<1>1. valid' \in BOOLEAN
  BY Typed
<1>2. TypeOK'
  BY <1>1 DEF GpsInv, TypeOK, Started, Empty
<1>3. FreshInv'
  <2>1. valid' => valid
    OBVIOUS
  <2> QED BY <2>1, Zenon DEF GpsInv, FreshInv
<1>4. DateInv'
  <2>1. Empty' = Empty /\ DateOf(gpsTime)' = DateOf(gpsTime)
    BY Zenon DEF Empty, DateOf
  <2>2. DateOf(buf.of.time)' = DateOf(buf'.of.time)
    BY Zenon DEF DateOf
  <2> QED BY <2>1, <2>2, Zenon DEF GpsInv, DateInv
<1> QED BY <1>2, <1>3, <1>4, Zenon DEF GpsInv

\* A sentence begins, made at the module's time of now.
LEMMA FeedStartKeeps ==
  ASSUME GpsInv, NEW kind \in Kinds, FeedStart(kind)
  PROVE  GpsInv'
<1> DEFINE s == [body |-> "none", of |-> Sentence(kind, gpsTime)]
<1>1. /\ buf' = s
      /\ UNCHANGED <<gpsTime, now, pc, use_i2c, i2c_backoff_until, rmcDate, fix, last_valid,
                     g_gps_fix_valid, g_gps_timestamp, age, valid>>
  BY Zenon DEF FeedStart, Feeding, NotAccepted, published
<1>2. gpsTime \in 0 .. MaxTime
  BY GpsConstants, Typed
<1>3. s \in Started /\ s.of.time <= gpsTime /\ (s.of.kind \in Dated => s.of.time = gpsTime)
  BY <1>2, Sentences, Zenon
<1> HIDE DEF s
<1>4. s.of.kind \in Dated => rmcDate <= DateOf(s.of.time)
  BY <1>3, Zenon DEF GpsInv, DateInv
<1>5. buf' \in Started \cup {Empty} /\ valid' \in {valid, FALSE}
  BY <1>1, <1>3
<1> QED BY <1>1, <1>3, <1>4, <1>5, BufferKeeps, Zenon

\* The rest of a sentence, this one's or another's.
LEMMA FeedBodyKeeps ==
  ASSUME GpsInv, NEW whose \in {"own", "other"}, FeedBody(whose)
  PROVE  GpsInv'
<1>1. /\ \/ buf' = Empty
         \/ buf # Empty /\ buf' = [buf EXCEPT !.body = whose]
      /\ UNCHANGED <<gpsTime, now, pc, use_i2c, i2c_backoff_until, rmcDate, fix, last_valid,
                     g_gps_fix_valid, g_gps_timestamp, age, valid>>
  <2>1. /\ buf' = CASE buf = Empty -> Empty
                    [] buf.body = "none" -> [buf EXCEPT !.body = whose]
                    [] OTHER -> Empty
        /\ UNCHANGED <<gpsTime, now, pc, use_i2c, i2c_backoff_until, rmcDate, fix, last_valid,
                       g_gps_fix_valid, g_gps_timestamp, age, valid>>
    BY Zenon DEF FeedBody, Feeding, NotAccepted, published
  <2>2. Empty.body # "none"
    BY DEF Empty
  <2> DEFINE b == [buf EXCEPT !.body = whose]
  <2>3. buf' = CASE buf = Empty -> Empty [] buf.body = "none" -> b [] OTHER -> Empty
    BY <2>1
  <2> HIDE DEF b
  <2>4. \/ buf' = Empty
        \/ buf # Empty /\ buf' = b
    BY <2>2, <2>3
  <2> QED BY <2>1, <2>4, Zenon DEF b
<1>2. buf \in Started \cup {Empty} /\ valid' \in {valid, FALSE}
  BY <1>1, Typed
<1>3. /\ buf' \in Started \cup {Empty}
      /\ buf' # Empty => buf'.of = buf.of /\ buf # Empty
  BY <1>1, <1>2, BufferFields
<1>4. buf' # Empty => /\ buf'.of.time <= gpsTime
                      /\ buf'.of.kind \in Dated => rmcDate <= DateOf(buf'.of.time)
  BY <1>3, Zenon DEF GpsInv, DateInv
<1> QED BY <1>1, <1>2, <1>3, <1>4, BufferKeeps, Zenon

(* Accepting a sentence of the buffer: its date is no later than the time  *)
(* it was computed at, which has been.                                     *)
LEMMA AcceptedKeeps ==
  ASSUME GpsInv, Feeding, buf' = Empty, NEW date \in Nat, NEW t \in Nat, Accepted(date, t),
         rmcDate' \in Nat, rmcDate' <= DateOf(gpsTime),
         date > 0 => Timestamp(date, t) \in Nat /\ Timestamp(date, t) <= gpsTime
  PROVE  GpsInv'
<1> USE GpsConstants
<1>1. /\ UNCHANGED <<gpsTime, now, pc, use_i2c, i2c_backoff_until>>
      /\ fix' = (IF date = 0 THEN fix ELSE Timestamp(date, t))
      /\ valid' = TRUE /\ last_valid' = now /\ age' = 0
      /\ g_gps_fix_valid' = TRUE /\ g_gps_timestamp' = fix'
  BY Zenon DEF Feeding, Accepted
<1>2. fix' \in Nat /\ fix' <= gpsTime
  BY <1>1, Typed DEF GpsInv, DateInv
<1>3. TypeOK'
  <2>1. {now, i2c_backoff_until, last_valid}' \subseteq 0 .. ClockMod - 1
    BY <1>1, Typed
  <2>2. age' \in 0 .. kStaleMs /\ valid' \in BOOLEAN /\ g_gps_fix_valid' \in BOOLEAN
        /\ g_gps_timestamp' \in Nat
    BY <1>1, <1>2
  <2>3. buf' \in Started \cup {Empty}
    OBVIOUS
  <2>4. /\ gpsTime' \in 0 .. MaxTime /\ pc' \in {"sleep", "poll", "drain"} /\ use_i2c' \in BOOLEAN
    BY <1>1 DEF GpsInv, TypeOK
  <2>5. (Started \cup {Empty})' = Started \cup {Empty}
    BY Zenon DEF Started, Empty
  <2> QED BY <1>2, <2>1, <2>2, <2>3, <2>4, <2>5, Zenon DEF TypeOK
<1>4. FreshInv'
  <2>1. (now' - last_valid') % ClockMod = 0
    <3>1. now' - last_valid' = 0
      BY <1>1, Typed
    <3> QED BY <3>1, ModSmall
  <2> QED BY <1>1, <2>1 DEF FreshInv
<1>5. DateInv'
  <2>1. Empty' = Empty /\ DateOf(gpsTime)' = DateOf(gpsTime)
    BY <1>1, Zenon DEF Empty, DateOf
  <2> QED BY <1>1, <1>2, <2>1, Zenon DEF DateInv
<1> QED BY <1>3, <1>4, <1>5, Zenon DEF GpsInv

\* The end of a sentence: it is accepted, a GGA with the date of the last RMC, or not.
LEMMA FeedEndKeeps ==
  ASSUME GpsInv, FeedEnd
  PROVE  GpsInv'
<1> USE GpsConstants
<1> DEFINE s == buf.of
<1>1. Feeding /\ buf' = Empty
  BY Zenon DEF FeedEnd
<1>2. /\ UNCHANGED <<gpsTime, now, pc, use_i2c, i2c_backoff_until>>
      /\ buf' \in Started \cup {Empty} /\ gpsTime \in Nat
  BY <1>1, Typed DEF Feeding
<1>3. ASSUME NotAccepted, UNCHANGED rmcDate, valid' \in {valid, FALSE} PROVE GpsInv'
  BY <1>1, <1>2, <1>3, BufferKeeps, Zenon DEF NotAccepted, published
<1>4. CASE ~Intact(buf)
  <2>1. NotAccepted /\ UNCHANGED rmcDate /\ valid' = valid
    BY <1>4, Zenon DEF FeedEnd
  <2> QED BY <1>3, <2>1
<1>5. CASE Intact(buf)
  <2>1. /\ buf # Empty /\ s.time \in Nat /\ s.time <= gpsTime
        /\ s.kind \in Dated => rmcDate <= DateOf(s.time)
    <3>1. buf # Empty /\ s.time \in Nat
      BY <1>5, Typed, BufferFields DEF Intact
    <3> QED BY <3>1, Zenon DEF GpsInv, DateInv
  <2>2. ParseRmc(s) \/ ParseGga(s)
    BY <1>5, Zenon DEF FeedEnd
  <2>3. CASE s.kind = "V" /\ valid' = FALSE /\ UNCHANGED rmcDate /\ NotAccepted
    BY <1>3, <2>3
  <2>4. /\ DateOf(s.time) \in Nat \ {0} /\ DateOf(s.time) <= DateOf(gpsTime)
        /\ DateOf(gpsTime) \in Nat
    BY <1>2, <2>1, Calendar
  <2>5. /\ rmcDate \in Nat /\ rmcDate <= DateOf(gpsTime)
        /\ \A date \in Nat : date > 0 /\ date <= DateOf(s.time) =>
             Timestamp(date, s.time) \in Nat /\ Timestamp(date, s.time) <= gpsTime
        /\ rmcDate > 0 => Timestamp(rmcDate, 0) \in Nat /\ Timestamp(rmcDate, 0) <= gpsTime
    <3>1. rmcDate \in Nat /\ rmcDate <= DateOf(gpsTime)
      BY Typed DEF GpsInv, DateInv
    <3>2. ASSUME NEW date \in Nat, date > 0, date <= DateOf(s.time)
          PROVE  Timestamp(date, s.time) \in Nat /\ Timestamp(date, s.time) <= gpsTime
      <4>1. Timestamp(date, s.time) \in Nat /\ Timestamp(date, s.time) <= s.time
        BY <1>2, <2>1, <3>2, Calendar, Zenon
      <4> QED BY <1>2, <2>1, <4>1
    <3>3. gpsTime <= gpsTime
      BY <1>2
    <3>4. rmcDate > 0 => Timestamp(rmcDate, 0) \in Nat /\ Timestamp(rmcDate, 0) <= gpsTime
      BY <1>2, <3>1, <3>3, Calendar, Zenon
    <3> QED BY <3>1, <3>2, <3>4
  <2>6. CASE s.kind = "RMC_Notime" /\ rmcDate' = DateOf(s.time) /\ UNCHANGED valid /\ NotAccepted
    <3>1. TypeOK'
      BY <1>1, <1>2, <2>4, <2>6 DEF GpsInv, TypeOK, NotAccepted, published, Started, Empty
    <3>2. FreshInv'
      BY <1>2, <2>6, Zenon DEF GpsInv, FreshInv, NotAccepted, published
    <3>3. DateInv'
      <4>1. Empty' = Empty /\ DateOf(gpsTime)' = DateOf(gpsTime)
        BY <1>2, Zenon DEF Empty, DateOf
      <4> QED BY <1>1, <1>2, <2>4, <2>6, <4>1, Zenon DEF GpsInv, DateInv, NotAccepted, published
    <3> QED BY <3>1, <3>2, <3>3, Zenon DEF GpsInv
  <2>7. CASE s.kind = "RMC" /\ rmcDate' = DateOf(s.time) /\ Accepted(DateOf(s.time), s.time)
    <3>1. /\ DateOf(s.time) \in Nat /\ DateOf(s.time) > 0 /\ DateOf(s.time) <= DateOf(s.time)
          /\ rmcDate' \in Nat /\ rmcDate' <= DateOf(gpsTime)
      BY <2>4, <2>7
    <3>2. Timestamp(DateOf(s.time), s.time) \in Nat /\ Timestamp(DateOf(s.time), s.time) <= gpsTime
      BY <2>5, <3>1, Zenon
    <3> QED BY <1>1, <2>1, <2>7, <3>1, <3>2, AcceptedKeeps, Zenon
  <2>8. CASE s.kind = "GGA" /\ UNCHANGED rmcDate /\ Accepted(rmcDate, s.time)
    <3>1. rmcDate <= DateOf(s.time)
      BY <2>1, <2>8 DEF Dated
    <3>2. rmcDate > 0 => Timestamp(rmcDate, s.time) \in Nat /\ Timestamp(rmcDate, s.time) <= gpsTime
      BY <2>5, <3>1, Zenon
    <3>3. rmcDate' \in Nat /\ rmcDate' <= DateOf(gpsTime)
      BY <2>5, <2>8, Zenon
    <3> QED BY <1>1, <2>1, <2>5, <2>8, <3>2, <3>3, AcceptedKeeps, Zenon
  <2>9. CASE s.kind = "GGA_Notime" /\ UNCHANGED rmcDate /\ Accepted(rmcDate, 0)
    <3>1. rmcDate' \in Nat /\ rmcDate' <= DateOf(gpsTime) /\ 0 \in Nat
      BY <2>5, <2>9
    <3> QED BY <1>1, <2>5, <2>9, <3>1, AcceptedKeeps, Zenon
  <2>10. \/ s.kind = "V" /\ valid' = FALSE /\ UNCHANGED rmcDate /\ NotAccepted
         \/ s.kind = "RMC_Notime" /\ rmcDate' = DateOf(s.time) /\ UNCHANGED valid /\ NotAccepted
         \/ s.kind = "RMC" /\ rmcDate' = DateOf(s.time) /\ Accepted(DateOf(s.time), s.time)
         \/ s.kind = "GGA" /\ UNCHANGED rmcDate /\ Accepted(rmcDate, s.time)
         \/ s.kind = "GGA_Notime" /\ UNCHANGED rmcDate /\ Accepted(rmcDate, 0)
    <3>1. TimeOfDay(s) = IF s.kind = "GGA_Notime" THEN 0 ELSE s.time
      BY Zenon DEF TimeOfDay
    <3>2. s.kind = "GGA" => TimeOfDay(s) = s.time
      BY <3>1
    <3>3. s.kind = "GGA_Notime" => TimeOfDay(s) = 0
      BY <3>1
    <3>4. CASE ParseRmc(s)
      BY <3>4, Zenon DEF ParseRmc
    <3>5. CASE ParseGga(s)
      <4>1. GgaDate(s) = rmcDate
        BY Zenon DEF GgaDate
      <4>2. \/ s.kind = "V" /\ valid' = FALSE /\ UNCHANGED rmcDate /\ NotAccepted
            \/ s.kind \in {"GGA", "GGA_Notime"} /\ UNCHANGED rmcDate
               /\ Accepted(rmcDate, TimeOfDay(s))
        BY <3>5, <4>1, Zenon DEF ParseGga
      <4> QED BY <3>2, <3>3, <4>2, Zenon
    <3> QED BY <2>2, <3>4, <3>5
  <2> QED BY <2>3, <2>6, <2>7, <2>8, <2>9, <2>10, Zenon
<1> QED BY <1>4, <1>5

\* Every step preserves the invariant.
LEMMA GpsStep == GpsInv /\ [Next]_vars => GpsInv'
<1> SUFFICES ASSUME GpsInv, [Next]_vars PROVE GpsInv'
  OBVIOUS
<1>1. CASE GpsTick
  BY <1>1, TickKeeps
<1>2. CASE \E d \in 1 .. MaxStep : Wake(d)
  BY <1>2, WakeKeeps
<1>3. CASE \/ PollUart \/ EndPass
           \/ \E switched \in BOOLEAN :
                PollI2c(switched) \/ PollI2cFails(switched) \/ SkipI2c(switched)
  BY <1>3, TaskKeeps
<1>4. CASE \E kind \in Kinds : FeedStart(kind)
  BY <1>4, FeedStartKeeps
<1>5. CASE \E whose \in {"own", "other"} : FeedBody(whose)
  BY <1>5, FeedBodyKeeps
<1>6. CASE FeedEnd
  BY <1>6, FeedEndKeeps
<1>7. CASE UNCHANGED vars
  <2>1. /\ UNCHANGED <<gpsTime, buf, valid, fix, rmcDate, now, pc, use_i2c, i2c_backoff_until,
                       last_valid, g_gps_fix_valid, g_gps_timestamp, age>>
    BY <1>7 DEF vars, parser, task, published
  <2>2. buf' \in Started \cup {Empty} /\ valid' \in {valid, FALSE}
    BY <2>1, Typed
  <2> QED BY <2>1, <2>2, BufferKeeps, Zenon DEF GpsInv, DateInv
<1> QED BY <1>1, <1>2, <1>3, <1>4, <1>5, <1>6, <1>7, Zenon DEF Next

(* Every reachable state satisfies the inductive invariant.                *)
THEOREM GpsInvariant == Spec => []GpsInv
  BY GpsInit, GpsStep, PTL DEF Spec

(* Every variable keeps its type.                                          *)
THEOREM GpsTyped == Spec => []TypeOK
<1>1. GpsInv => TypeOK
  BY Zenon DEF GpsInv
<1> QED BY <1>1, GpsInvariant, PTL

(* A fix held as valid is less than kStaleMs old, across the wrap of the   *)
(* clock, and the other tasks see it as valid too.                         *)
THEOREM FreshFix == Spec => []ValidIsFresh
<1>1. GpsInv => ValidIsFresh
  BY Zenon DEF GpsInv, FreshInv, ValidIsFresh
<1> QED BY <1>1, GpsInvariant, PTL

(* The published time is never later than what the module has sent.        *)
THEOREM TimestampNotAhead == Spec => []NeverAhead
<1>1. GpsInv => NeverAhead
  BY Zenon DEF GpsInv, DateInv, NeverAhead
<1> QED BY <1>1, GpsInvariant, PTL
================================================================================
