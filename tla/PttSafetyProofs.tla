---------------------------- MODULE PttSafetyProofs ----------------------------
(***************************************************************************)
(* The transmit path.  However the senders, radio_set, the watchdog and a  *)
(* hang interleave, the transmitter is keyed only inside afsk_tx_frame: for*)
(* every timeout, clock width and number of frames (PttSafety).  And the   *)
(* signal keyed there is read back by a demodulator that hears its critical*)
(* part, whatever it heard before and whatever the frame (Hdlc).           *)
(***************************************************************************)
EXTENDS PttSafety, Hdlc, SharedLemmas, TLAPS

(* aprs_task is inside afsk_tx_frame only in a pass that has a frame left  *)
(* to send; what makes the count of frames stay a natural number.          *)
SendsInTick == tx["aprs"] # "idle" => apc = "tick" /\ frames > 0

TypeInv == TypeOK /\ SendsInTick

--------------------------------------------------------------------------------
(* app_main() leaves a well-typed state.                                   *)
LEMMA PttTypeInit == Init => TypeInv
<1>1. /\ 0 \in 0 .. ClockMod - 1 /\ 0 \in 0 .. MaxFrames
      /\ 0 \in 0 .. WdMax /\ 0 \in 0 .. MaxAge
  BY PttAssumption DEF MaxAge
<1>2. Init => tx["aprs"] = "idle"
  BY DEF Init, Senders
<1> QED BY <1>1, <1>2 DEF Init, TypeInv, TypeOK, SendsInTick

(* The steps of afsk_tx_frame keep the types, whoever takes them.          *)
LEMMA TransmitType ==
  ASSUME TypeInv, NEW t \in Senders, Transmit(t)
  PROVE  TypeInv'
<1> USE DEF TypeInv, TypeOK, SendsInTick, Senders, Keyed, Runs, MayCall, Returned,
            radio, aprs, watchdog, supervisor
<1>1. CASE TxRefuse(t)
  BY <1>1, PttAssumption DEF TxRefuse
<1>2. CASE TxPtt(t)
  BY <1>2 DEF TxPtt
<1>3. CASE TxKey(t)
  BY <1>3 DEF TxKey
<1>4. CASE TxEnd(t)
  BY <1>4 DEF TxEnd
<1>5. CASE TxUnkey(t)
  <2>1. /\ tx'[t] = "idle" /\ \A u \in Senders : u # t => tx'[u] = tx[u]
        /\ tx' \in [Senders -> {"idle", "keying", "forced"} \cup Keyed]
    BY <1>5 DEF TxUnkey
  <2>2. frames' \in 0 .. MaxFrames
    BY <1>5, PttAssumption DEF TxUnkey
  <2>3. SendsInTick'
    BY <1>5, <2>1 DEF TxUnkey
  <2> QED BY <1>5, <2>1, <2>2, <2>3 DEF TxUnkey
<1> QED BY <1>1, <1>2, <1>3, <1>4, <1>5 DEF Transmit

(* The steps of the watchdog keep the types.                               *)
LEMMA WatchdogType ==
  ASSUME TypeInv, Watchdog
  PROVE  TypeInv'
<1> USE DEF TypeInv, TypeOK, SendsInTick, Rest, Proceed,
            radio, aprs, watchdog, supervisor
<1>1. 0 \in 0 .. ClockMod - 1 /\ 0 \in 0 .. WdMax
  BY PttAssumption
<1>2. CASE WdWake
  BY <1>2 DEF WdWake
<1>3. CASE WdLoad
  BY <1>1, <1>3 DEF WdLoad
<1>4. CASE WdCompare
  BY <1>1, <1>4 DEF WdCompare
<1>5. CASE WdFire
  BY <1>1, <1>5 DEF WdFire
<1>6. CASE WdSafeOff
  BY <1>1, <1>6 DEF WdSafeOff
<1> QED BY <1>2, <1>3, <1>4, <1>5, <1>6 DEF Watchdog

(* Every step of the system keeps the types.                               *)
LEMMA PttTypeStep == TypeInv /\ [Next]_vars => TypeInv'
<1> SUFFICES ASSUME TypeInv, [Next]_vars PROVE TypeInv'
  OBVIOUS
<1> USE DEF TypeInv, TypeOK, SendsInTick, radio, aprs, watchdog, supervisor
<1>1. CASE RadioTask
  BY <1>1 DEF RadioTask, RadioStart
<1>2. CASE RadioSet
  <2>1. ASSUME NEW in_set_freq \in BOOLEAN, RadioSetForceOff(in_set_freq)
        PROVE  TypeInv'
    <3>1. tx'["aprs"] = tx["aprs"]
      BY <2>1 DEF RadioSetForceOff, Senders
    <3>2. tx' \in [Senders -> {"idle", "keying", "forced"} \cup Keyed]
      BY <2>1 DEF RadioSetForceOff
    <3>3. SendsInTick'
      BY <2>1, <3>1 DEF RadioSetForceOff
    <3>4. TypeOK'
      BY <2>1, <3>2 DEF RadioSetForceOff
    <3> QED BY <3>3, <3>4
  <2>2. CASE RadioSetError
    <3>1. tx'["aprs"] = tx["aprs"]
      BY <2>2 DEF RadioSetError, Senders
    <3>2. tx' \in [Senders -> {"idle", "keying", "forced"} \cup Keyed]
      BY <2>2 DEF RadioSetError
    <3>3. SendsInTick'
      BY <2>2, <3>1 DEF RadioSetError
    <3>4. TypeOK'
      BY <2>2, <3>2 DEF RadioSetError
    <3> QED BY <3>3, <3>4
  <2> QED BY <1>2, <2>1, <2>2 DEF RadioSet
<1>3. ASSUME NEW n \in 0 .. MaxFrames, LoopStart(n) PROVE TypeInv'
  BY <1>3 DEF LoopStart
<1>4. CASE Heartbeat \/ HeartbeatArm \/ HeartbeatClear
  <2>1. 0 \in 0 .. MaxAge /\ 0 \in 0 .. ClockMod - 1
    BY PttAssumption DEF MaxAge
  <2>2. CASE Heartbeat
    BY <2>1, <2>2 DEF Heartbeat
  <2>3. CASE HeartbeatArm
    BY <2>1, <2>3 DEF HeartbeatArm
  <2>4. CASE HeartbeatClear
    BY <2>1, <2>4 DEF HeartbeatClear
  <2> QED BY <1>4, <2>2, <2>3, <2>4
<1>5. CASE Hang
  BY <1>5 DEF Hang
<1>6. CASE Watchdog
  BY <1>6, WatchdogType
<1>7. CASE TimePasses
  <2>1. After(clock) \in 0 .. ClockMod - 1
    BY PttAssumption DEF After
  <2> QED BY <1>7, <2>1, PttAssumption DEF TimePasses, MaxAge
<1>8. ASSUME NEW t \in Senders, Transmit(t) PROVE TypeInv'
  BY <1>8, TransmitType
<1>9. CASE UNCHANGED vars
  BY <1>9 DEF vars
<1> QED BY <1>1, <1>2, <1>3, <1>4, <1>5, <1>6, <1>7, <1>8, <1>9 DEF Next, AprsLoop

(* Type correctness of the tasks that key the radio and the watchdog.      *)
THEOREM PttTypeCorrect == Spec => []TypeOK
<1>1. TypeInv => TypeOK
  BY DEF TypeInv
<1> QED BY <1>1, PttTypeInit, PttTypeStep, PTL DEF Spec

--------------------------------------------------------------------------------
(* A step that keys the line is taken by a sender that is then in the      *)
(* keyed part; the one by which a sender leaves it releases the line.      *)
LEMMA NeverLeftOnStep == TypeInv /\ PttOnlyDuringTx /\ [Next]_vars => PttOnlyDuringTx'
<1> SUFFICES ASSUME TypeInv, PttOnlyDuringTx, [Next]_vars PROVE PttOnlyDuringTx'
  OBVIOUS
<1> USE DEF TypeInv, TypeOK, PttOnlyDuringTx, Senders, Keyed,
            radio, aprs, watchdog, supervisor
<1>1. CASE RadioTask
  BY <1>1 DEF RadioTask, RadioStart
<1>2. CASE RadioSet
  BY <1>2 DEF RadioSet, RadioSetForceOff, RadioSetError
<1>3. CASE AprsLoop
  BY <1>3 DEF AprsLoop, LoopStart, Heartbeat, HeartbeatArm, HeartbeatClear
<1>4. CASE Hang
  BY <1>4 DEF Hang
<1>5. CASE Watchdog
  BY <1>5 DEF Watchdog, WdWake, WdLoad, WdCompare, WdFire, WdSafeOff, Rest, Proceed
<1>6. CASE TimePasses
  BY <1>6 DEF TimePasses
<1>7. ASSUME NEW t \in Senders, Transmit(t) PROVE PttOnlyDuringTx'
  <2>1. CASE TxRefuse(t)
    BY <2>1 DEF TxRefuse
  <2>2. CASE TxPtt(t)
    BY <2>2 DEF TxPtt
  <2>3. CASE TxKey(t)
    BY <2>3 DEF TxKey
  <2>4. CASE TxEnd(t)
    BY <2>4 DEF TxEnd
  <2>5. CASE TxUnkey(t)
    BY <2>5 DEF TxUnkey
  <2> QED BY <1>7, <2>1, <2>2, <2>3, <2>4, <2>5 DEF Transmit
<1>8. CASE UNCHANGED vars
  BY <1>8 DEF vars
<1> QED BY <1>1, <1>2, <1>3, <1>4, <1>5, <1>6, <1>7, <1>8 DEF Next

(* The transmitter is on only while a task is in the keyed part of         *)
(* afsk_tx_frame, whoever else runs, and even if aprs_task hangs.          *)
THEOREM NeverLeftOn == Spec => []PttOnlyDuringTx
<1>1. Init => PttOnlyDuringTx
  BY DEF Init, PttOnlyDuringTx
<1> QED BY <1>1, PttTypeInit, PttTypeStep, NeverLeftOnStep, PTL DEF Spec

--------------------------------------------------------------------------------
(* Why the watchdog triggers in time. All readings of the wrapped clock    *)
(* are recent: what the code computes with them is the true elapsed time.  *)
Since(t) == (clock - t) % ClockMod

(* The reading aprs_task stores is at most MaxTick old while the task      *)
(* runs, the one the watchdog compares is no older than its last tick, and *)
(* the heartbeat is as old as the time since it was stored, plus what it   *)
(* was old then.                                                           *)
ReadingsRecent ==
  /\ ~hung /\ apc # "sleep" => Since(now_ms) <= MaxTick
  /\ apc \in {"arm", "clear"} => last_heartbeat_ms = now_ms
  /\ wpc # "sleep" => Since(wnow) <= idle
  /\ age < MaxAge => age <= Since(last_heartbeat_ms) /\ Since(last_heartbeat_ms) <= age + MaxTick

(* An armed watchdog that has not triggered found a fresh heartbeat at its *)
(* last tick, which was idle units ago and looked back at most WdMax more. *)
LastTickFresh ==
  armed /\ ~triggered =>
    /\ age < idle + Timeout + WdMax
    /\ wpc = "safe_off" => age < idle + Timeout

WatchdogInv == ReadingsRecent /\ LastTickFresh /\ FiresInTime

(* The difference of two readings, without the remainder.                  *)
LEMMA Difference ==
  ASSUME NEW a \in 0 .. ClockMod - 1, NEW b \in 0 .. ClockMod - 1
  PROVE  (a - b) % ClockMod = IF b <= a THEN a - b ELSE a - b + ClockMod
BY PttAssumption

(* A unit of time later every reading is a unit older, if it was not about *)
(* to wrap round.                                                          *)
LEMMA OneUnitOlder ==
  ASSUME TypeOK, NEW t \in 0 .. ClockMod - 1, Since(t) < ClockMod - 1,
         clock' = After(clock)
  PROVE  (clock' - t) % ClockMod = Since(t) + 1
<1>1. clock' \in 0 .. ClockMod - 1 /\ clock \in 0 .. ClockMod - 1
  BY PttAssumption DEF TypeOK, After
<1>2. clock' = IF clock = ClockMod - 1 THEN 0 ELSE clock + 1
  BY PttAssumption DEF TypeOK, After
<1>3. Since(t) = IF t <= clock THEN clock - t ELSE clock - t + ClockMod
  BY <1>1, Difference DEF Since
<1>4. (clock' - t) % ClockMod = IF t <= clock' THEN clock' - t ELSE clock' - t + ClockMod
  BY <1>1, Difference
<1> QED BY <1>1, <1>2, <1>3, <1>4, PttAssumption

(* If the heartbeat is older than the watchdog's reading by Timeout the    *)
(* comparison says so.                                                     *)
LEMMA StaleSeen ==
  ASSUME TypeOK, Since(last_heartbeat_ms) >= Since(wnow) + Timeout
  PROVE  Stale
<1>1. Since(wnow) = IF wnow <= clock THEN clock - wnow ELSE clock - wnow + ClockMod
  BY Difference DEF TypeOK, Since
<1>2. Since(last_heartbeat_ms) = IF last_heartbeat_ms <= clock THEN clock - last_heartbeat_ms
                                 ELSE clock - last_heartbeat_ms + ClockMod
  BY Difference DEF TypeOK, Since
<1>3. (wnow - last_heartbeat_ms) % ClockMod =
        IF last_heartbeat_ms <= wnow THEN wnow - last_heartbeat_ms
        ELSE wnow - last_heartbeat_ms + ClockMod
  BY Difference DEF TypeOK
<1> QED BY <1>1, <1>2, <1>3, PttAssumption DEF TypeOK, Stale

(* Steps that touch neither the clock nor the watchdog's data keep it.     *)
LEMMA ElsewhereStep ==
  ASSUME WatchdogInv,
         UNCHANGED <<clock, apc, now_ms, hung, watchdog, supervisor, age>>
  PROVE  WatchdogInv'
BY DEF WatchdogInv, ReadingsRecent, LastTickFresh, FiresInTime, Since,
       watchdog, supervisor, MaxAge
(* A heartbeat stores a recent reading, and only then is the watchdog      *)
(* armed and its trigger cleared.                                          *)
LEMMA AprsLoopStep ==
  ASSUME TypeInv, WatchdogInv, AprsLoop
  PROVE  WatchdogInv'
<1>1. /\ Timeout \in Nat \ {0} /\ WdMax \in Nat \ {0} /\ MaxTick \in Nat
      /\ idle \in Nat /\ 0 < MaxAge
      /\ clock \in 0 .. ClockMod - 1 /\ now_ms \in 0 .. ClockMod - 1
  BY PttAssumption DEF TypeInv, TypeOK, MaxAge
<1>2. Since(clock) = 0
  BY <1>1, Difference DEF Since
<1>3. Since(now_ms) \in Nat
  BY <1>1, Difference, PttAssumption DEF Since
<1> USE DEF WatchdogInv, ReadingsRecent, LastTickFresh, FiresInTime, Since,
            radio, aprs, watchdog, supervisor, MaxAge
<1>4. ASSUME NEW n \in 0 .. MaxFrames, LoopStart(n) PROVE WatchdogInv'
  BY <1>1, <1>2, <1>4 DEF LoopStart
<1>5. CASE Heartbeat
  BY <1>1, <1>3, <1>5 DEF Heartbeat
<1>6. CASE HeartbeatArm
  BY <1>1, <1>3, <1>6 DEF HeartbeatArm
<1>7. CASE HeartbeatClear
  BY <1>1, <1>3, <1>7 DEF HeartbeatClear
<1> QED BY <1>4, <1>5, <1>6, <1>7 DEF AprsLoop

(* A tick of the watchdog that ends without a trigger saw a heartbeat      *)
(* younger than Timeout, at most WdMax ago.                                *)
LEMMA WatchdogStep ==
  ASSUME TypeInv, WatchdogInv, Watchdog
  PROVE  WatchdogInv'
<1>1. /\ Timeout \in Nat \ {0} /\ WdMax \in Nat \ {0} /\ MaxTick \in Nat
      /\ idle \in 0 .. WdMax /\ age \in 0 .. MaxAge
      /\ MaxAge = Timeout + 2 * WdMax
  BY PttAssumption DEF TypeInv, TypeOK, MaxAge
<1> USE DEF WatchdogInv, ReadingsRecent, LastTickFresh, FiresInTime, Since,
            radio, aprs, watchdog, supervisor, Rest, Proceed
<1>2. CASE WdWake
  <2>1. (clock - clock) % ClockMod = 0
    BY Difference DEF TypeInv, TypeOK
  <2> QED BY <1>1, <1>2, <2>1 DEF WdWake
<1>3. CASE WdLoad
  BY <1>1, <1>3 DEF WdLoad
<1>4. CASE WdCompare
  <2>1. CASE Stale
    BY <1>1, <1>4, <2>1 DEF WdCompare
  <2>2. CASE ~Stale
    <3>1. armed /\ ~triggered => age < idle + Timeout
      <4>1. Since(wnow) \in Int /\ Since(last_heartbeat_ms) \in Int
        BY Difference, PttAssumption DEF TypeInv, TypeOK
      <4>2. Since(last_heartbeat_ms) < Since(wnow) + Timeout
        BY <1>1, <2>2, <4>1, StaleSeen DEF TypeInv
      <4> QED BY <1>1, <1>4, <4>1, <4>2 DEF WdCompare
    <3> QED BY <1>1, <1>4, <2>2, <3>1 DEF WdCompare
  <2> QED BY <2>1, <2>2
<1>5. CASE WdFire
  BY <1>1, <1>5 DEF WdFire
<1>6. CASE WdSafeOff
  BY <1>1, <1>6 DEF WdSafeOff
<1> QED BY <1>2, <1>3, <1>4, <1>5, <1>6 DEF Watchdog

(* Time passes: every reading grows a unit older and none wraps round.     *)
LEMMA TimeStep ==
  ASSUME TypeInv, WatchdogInv, TimePasses
  PROVE  WatchdogInv'
<1>1. /\ Timeout \in Nat \ {0} /\ WdMax \in Nat \ {0} /\ MaxTick \in Nat
      /\ ClockMod \in Nat /\ ClockMod > MaxAge + MaxTick
      /\ idle \in Nat /\ idle < WdMax /\ idle' = idle + 1
      /\ age \in 0 .. MaxAge /\ MaxAge = Timeout + 2 * WdMax
      /\ age' = IF age < MaxAge THEN age + 1 ELSE age
  BY PttAssumption DEF TypeInv, TypeOK, MaxAge, TimePasses
<1>2. \A t \in 0 .. ClockMod - 1 :
        /\ Since(t) \in Nat
        /\ Since(t) < ClockMod - 1 => (clock' - t) % ClockMod = Since(t) + 1
  <2> TAKE t \in 0 .. ClockMod - 1
  <2>1. Since(t) \in Nat
    BY Difference, PttAssumption DEF TypeInv, TypeOK, Since
  <2> QED BY <2>1, OneUnitOlder DEF TypeInv, TimePasses
<1>3. /\ now_ms \in 0 .. ClockMod - 1 /\ wnow \in 0 .. ClockMod - 1
      /\ last_heartbeat_ms \in 0 .. ClockMod - 1
      /\ now_ms' = now_ms /\ wnow' = wnow /\ last_heartbeat_ms' = last_heartbeat_ms
  BY DEF TypeInv, TypeOK, TimePasses, aprs, watchdog
<1>4. ~hung' /\ apc' # "sleep" => Since(now_ms)' <= MaxTick
  BY <1>1, <1>2, <1>3 DEF TimePasses, aprs, Since
<1>5. apc' \in {"arm", "clear"} => last_heartbeat_ms' = now_ms'
  BY DEF WatchdogInv, ReadingsRecent, TimePasses, aprs, watchdog
<1>6. wpc' # "sleep" => Since(wnow)' <= idle'
  BY <1>1, <1>2, <1>3 DEF WatchdogInv, ReadingsRecent, TimePasses, Since
<1>7. age' < MaxAge => /\ age' <= Since(last_heartbeat_ms)'
                       /\ Since(last_heartbeat_ms)' <= age' + MaxTick
  BY <1>1, <1>2, <1>3 DEF WatchdogInv, ReadingsRecent, Since
<1>8. LastTickFresh' /\ FiresInTime'
  BY <1>1 DEF WatchdogInv, LastTickFresh, FiresInTime, TimePasses, watchdog, MaxAge
<1> QED BY <1>4, <1>5, <1>6, <1>7, <1>8 DEF WatchdogInv, ReadingsRecent, MaxAge

(* Every step keeps the watchdog's invariant.                              *)
LEMMA WatchdogInvStep == TypeInv /\ WatchdogInv /\ [Next]_vars => WatchdogInv'
<1> SUFFICES ASSUME TypeInv, WatchdogInv, [Next]_vars PROVE WatchdogInv'
  OBVIOUS
<1>1. CASE RadioTask
  BY <1>1, ElsewhereStep DEF RadioTask, RadioStart, aprs
<1>2. CASE RadioSet
  BY <1>2, ElsewhereStep DEF RadioSet, RadioSetForceOff, RadioSetError, aprs
<1>3. CASE AprsLoop
  BY <1>3, AprsLoopStep
<1>4. CASE Hang
  BY <1>4 DEF Hang, WatchdogInv, ReadingsRecent, LastTickFresh, FiresInTime, Since,
              watchdog, supervisor, MaxAge
<1>5. CASE Watchdog
  BY <1>5, WatchdogStep
<1>6. CASE TimePasses
  BY <1>6, TimeStep
<1>7. ASSUME NEW t \in Senders, Transmit(t) PROVE WatchdogInv'
  BY <1>7, ElsewhereStep
     DEF Transmit, TxRefuse, TxPtt, TxKey, TxEnd, TxUnkey, aprs
<1>8. CASE UNCHANGED vars
  BY <1>8, ElsewhereStep DEF vars, aprs
<1> QED BY <1>1, <1>2, <1>3, <1>4, <1>5, <1>6, <1>7, <1>8 DEF Next

(* The watchdog triggers at most Timeout and two of its periods after the  *)
(* last heartbeat, for every width of the clock that exceeds them.         *)
THEOREM WatchdogFiresInTime == Spec => []FiresInTime
<1>1. Init => WatchdogInv
  <2> SUFFICES ASSUME Init PROVE WatchdogInv
    OBVIOUS
  <2>1. Since(last_heartbeat_ms) = 0
    BY Difference, PttAssumption DEF Init, Since
  <2> QED
    BY <2>1, PttAssumption
       DEF Init, WatchdogInv, ReadingsRecent, LastTickFresh, FiresInTime, MaxAge
<1>2. WatchdogInv => FiresInTime
  BY DEF WatchdogInv
<1> QED BY <1>1, <1>2, PttTypeInit, PttTypeStep, WatchdogInvStep, PTL DEF Spec

--------------------------------------------------------------------------------
(* The check sequence is made of such registers.                           *)
Crcs == [1..16 -> Bit]

(* A turn of fcs() leaves sixteen bits.                                    *)
LEMMA CrcStepTyped ==
  ASSUME NEW crc \in Crcs, NEW bit \in Bit
  PROVE  CrcStep(crc, bit) \in Crcs
<1> DEFINE carry == (crc[1] + bit) % 2
           left(i) == IF i = 16 THEN 0 ELSE crc[i + 1]
           mask(i) == IF i \in Poly THEN carry ELSE 0
<1>1. \A x \in Int : x % 2 \in Bit
  BY DEF Bit
<1>2. carry \in Bit
  <2>1. crc[1] \in Int /\ bit \in Int
    BY DEF Crcs, Bit
  <2> QED BY <1>1, <2>1
<1>3. \A i \in 1..16 : left(i) \in Int
  BY DEF Crcs, Bit
<1> HIDE DEF carry
<1>4. \A i \in 1..16 : mask(i) \in Int
  BY <1>2 DEF Bit
<1> HIDE DEF left, mask
<1>5. \A i \in 1..16 : (left(i) + mask(i)) % 2 \in Bit
  BY <1>1, <1>3, <1>4
<1>6. [i \in 1..16 |-> (left(i) + mask(i)) % 2] \in Crcs
  BY <1>5 DEF Crcs
<1> QED BY <1>6, Zenon DEF CrcStep, left, mask, carry

(* The check sequence of any bits is sixteen bits.                         *)
LEMMA FcsTyped ==
  ASSUME NEW bits \in Seq(Bit)
  PROVE  fcs(bits) \in Seq(Bit) /\ Len(fcs(bits)) = 16
<1> DEFINE n == Len(bits)
           first == [i \in 1..16 |-> 1]
           step == [i \in 1..n |-> [c \in Crcs |-> CrcStep(c, bits[i])]]
           Equation(g) == g = [k \in 0..n |-> IF k = 0 THEN first ELSE CrcStep(g[k - 1], bits[k])]
           crc == CHOOSE g : Equation(g)
<1>1. n \in Nat /\ first \in Crcs /\ \A i \in 1..n : bits[i] \in Bit
  BY DEF Crcs, Bit
<1>2. step \in [1..n -> [Crcs -> Crcs]]
  BY <1>1, CrcStepTyped
<1>3. \A i \in 1..n, c \in Crcs : step[i][c] = CrcStep(c, bits[i])
  OBVIOUS
<1>4. fcs(bits) = [i \in 1..16 |-> 1 - crc[n][i]]
  BY Zenon DEF fcs
<1>5. PICK f : Iterates(f, Crcs, first, n, step)
  <2> HIDE DEF n, step, first
  <2> QED BY <1>1, <1>2, Iteration
<1>6. /\ f \in [0..n -> Crcs] /\ f[0] = first
      /\ \A i \in 1..n : f[i] = step[i][f[i - 1]]
  <2> HIDE DEF n, step, first
  <2> QED BY <1>5 DEF Iterates
<1> HIDE DEF step, n, first
<1>7. \A i \in 1..n : f[i] = CrcStep(f[i - 1], bits[i])
  <2> SUFFICES ASSUME NEW i \in 1..n PROVE f[i] = CrcStep(f[i - 1], bits[i])
    OBVIOUS
  <2>1. i - 1 \in 0..n
    BY <1>1
  <2> QED BY <1>3, <1>6, <2>1
<1>8. Equation(f)
  <2>1. \A i \in 0..n : f[i] = IF i = 0 THEN first ELSE CrcStep(f[i - 1], bits[i])
    BY <1>1, <1>6, <1>7
  <2> QED BY <1>6, <2>1
<1>9. Equation(crc)
  BY <1>8, Zenon
<1> HIDE DEF crc
<1>10. crc[n] = f[n]
  <2> DEFINE P == {i \in 0..n : crc[i] = f[i]}
  <2>1. 0 \in P
    BY <1>1, <1>6, <1>9
  <2>2. ASSUME NEW i \in 0..n, i \in P, i < n PROVE i + 1 \in P
    <3>1. i + 1 \in 0..n /\ i + 1 \in 1..n /\ i + 1 - 1 = i /\ i + 1 # 0
      BY <1>1, <2>2
    <3>2. crc[i + 1] = CrcStep(crc[i], bits[i + 1])
      BY <1>9, <3>1
    <3>3. f[i + 1] = CrcStep(f[i], bits[i + 1])
      BY <1>7, <3>1
    <3> QED BY <2>2, <3>1, <3>2, <3>3
  <2> HIDE DEF P
  <2>3. \A i \in 0..n : i \in P
    BY <1>1, <2>1, <2>2, Induction
  <2> QED BY <1>1, <2>3 DEF P
<1>11. f[n] \in Crcs
  BY <1>1, <1>6
<1>12. \A i \in 1..16 : 1 - f[n][i] \in Bit
  BY <1>11 DEF Crcs, Bit
<1>13. fcs(bits) \in [1..16 -> Bit]
  BY <1>4, <1>10, <1>12
<1> QED BY <1>13, SeqOfFunction

(* A byte gives eight bits.                                                *)
LEMMA BitsTyped ==
  ASSUME NEW bytes \in Seq(0..255)
  PROVE  BitsOf(bytes) \in Seq(Bit) /\ Len(BitsOf(bytes)) = 8 * Len(bytes)
<1> DEFINE n == 8 * Len(bytes)
<1>1. n \in Nat /\ Len(bytes) \in Nat /\ \A k \in 1..Len(bytes) : bytes[k] \in Int
  <2>1. \A k \in 1..Len(bytes) : bytes[k] \in 0..255
    BY ElementOfSeq
  <2>2. \A x \in 0..255 : x \in Int
    OBVIOUS
  <2>3. n \in Nat /\ Len(bytes) \in Nat
    OBVIOUS
  <2> QED BY <2>1, <2>2, <2>3, Zenon
<1>2. ASSUME NEW i \in 1..n
      PROVE  (bytes[(i - 1) \div 8 + 1] \div Weight[((i - 1) % 8) + 1]) % 2 \in Bit
  <2> DEFINE k == (i - 1) \div 8 + 1
             w == ((i - 1) % 8) + 1
  <2>1. k \in 1..Len(bytes) /\ w \in 1..8
    BY <1>1
  <2> HIDE DEF k, w
  <2>2. bytes[k] \in Int
    BY <1>1, <2>1, Zenon
  <2>3. Weight[w] \in Int /\ Weight[w] > 0
    BY <2>1 DEF Weight
  <2>4. bytes[k] \div Weight[w] \in Int
    BY <2>2, <2>3, DivMod
  <2>5. \A x \in Int : x % 2 \in Bit
    BY DEF Bit
  <2>6. (bytes[k] \div Weight[w]) % 2 \in Bit
    BY <2>4, <2>5
  <2> QED BY <2>6 DEF k, w
<1>3. BitsOf(bytes) \in [1..n -> Bit]
  BY <1>2 DEF BitsOf
<1> QED BY <1>1, <1>3, SeqOfFunction

(* What dispatch_frame() looks for in the bits of a frame of n bytes.      *)
Checked(f, n) ==
  /\ n \in Nat /\ n >= 4 /\ Len(f) = 8 * n
  /\ fcs(SubSeq(f, 1, 8 * (n - 2))) = SubSeq(f, 8 * (n - 2) + 1, 8 * (n - 2) + 16)

(* A frame is bits that end in their own check sequence.                   *)
LEMMA FrameChecked ==
  ASSUME NEW f \in Frames
  PROVE  f \in Seq(Bit) /\ f # <<>> /\ \E n : Checked(f, n)
<1>1. PICK p \in Payloads : f = FrameOf(p)
  BY DEF Frames
<1>2. p \in Seq(0..255) /\ Len(p) >= 2 /\ Len(p) \in Nat
  BY HdlcAssumption
<1> DEFINE b == BitsOf(p)
           c == fcs(b)
           m == Len(p)
<1>3. b \in Seq(Bit) /\ Len(b) = 8 * m
  BY <1>2, BitsTyped
<1>4. c \in Seq(Bit) /\ Len(c) = 16
  BY <1>3, FcsTyped
<1>5. f = b \o c
  BY <1>1 DEF FrameOf
<1>6. m \in Nat /\ m >= 2
  BY <1>2
<1> DEFINE l == 8 * m
<1>7. l \in Nat /\ l > 0 /\ l = 8 * m
  BY <1>6
<1> HIDE DEF b, c, m, l
<1>8. /\ f \in Seq(Bit) /\ Len(f) = l + 16
      /\ \A i \in 1..l : f[i] = b[i]
      /\ \A i \in 1..(l + 16) : i > l => f[i] = c[i - l]
  <2>1. Len(b) = l
    BY <1>3, <1>7
  <2>2. /\ b \o c \in Seq(Bit) /\ Len(b \o c) = Len(b) + Len(c)
        /\ \A i \in 1..Len(b) : (b \o c)[i] = b[i]
        /\ \A i \in 1..(Len(b) + Len(c)) : i > Len(b) => (b \o c)[i] = c[i - Len(b)]
    BY <1>3, <1>4, ConcatFields, Zenon
  <2> QED BY <1>4, <1>5, <2>1, <2>2, Zenon
<1> DEFINE u == SubSeq(f, 1, l)
           v == SubSeq(f, l + 1, l + 16)
<1>9. u = b
  <2>1. \A i \in 1..l : f[i] \in Bit
    BY <1>7, <1>8
  <2>2. u \in Seq(Bit) /\ Len(u) = l /\ \A i \in 1..l : u[i] = f[i]
    BY <1>7, <2>1, SubSeqProperties
  <2> HIDE DEF u
  <2> QED BY <1>3, <1>7, <1>8, <2>2, SeqEqual
<1>10. v = c
  <2> DEFINE lo == l + 1
             hi == l + 16
  <2>1. lo \in Int /\ hi \in Int /\ lo <= hi /\ \A i \in lo..hi : f[i] \in Bit
    BY <1>7, <1>8
  <2>2. hi - lo + 1 = 16 /\ \A i \in 1..16 : lo + i - 1 = l + i
    BY <1>7
  <2> HIDE DEF lo, hi
  <2>3. /\ SubSeq(f, lo, hi) \in Seq(Bit) /\ Len(SubSeq(f, lo, hi)) = 16
        /\ \A i \in 1..16 : SubSeq(f, lo, hi)[i] = f[lo + i - 1]
    BY <2>1, <2>2, SubSeqProperties
  <2>4. v = SubSeq(f, lo, hi)
    BY DEF lo, hi
  <2> HIDE DEF v
  <2>5. ASSUME NEW i \in 1..16 PROVE v[i] = c[i]
    <3> DEFINE x == l + i
    <3>1. x \in 1..(l + 16) /\ x > l /\ x - l = i
      BY <1>7
    <3>2. v[i] = f[x]
      BY <2>2, <2>3, <2>4
    <3> HIDE DEF x
    <3>3. f[x] = c[x - l]
      BY <1>8, <3>1
    <3> QED BY <3>1, <3>2, <3>3
  <2> QED BY <1>4, <2>3, <2>4, <2>5, SeqEqual
<1>11. Checked(f, m + 2)
  <2> DEFINE k == m + 2
  <2>1. k \in Nat /\ k >= 4 /\ Len(f) = 8 * k /\ 8 * (k - 2) = l
    BY <1>6, <1>7, <1>8
  <2>2. fcs(u) = v
    BY <1>9, <1>10 DEF c
  <2> HIDE DEF k
  <2>3. Checked(f, k)
    BY <2>1, <2>2, Zenon DEF Checked
  <2> QED BY <2>3 DEF k
<1>12. f # <<>>
  BY <1>7, <1>8
<1> QED BY <1>8, <1>11, <1>12

--------------------------------------------------------------------------------
(* What emit_data_bit has sent so far and its count of ones.               *)
Accs == [out : Seq(Bit), ones : 0..4]

(* What one data bit adds to the signal.                                   *)
Piece(acc, bit) == IF bit = 0 THEN <<0>> ELSE IF acc.ones < 4 THEN <<1>> ELSE <<1, 0>>

(* A data bit adds its piece, and the count is that of the ones at the end.*)
LEMMA EmitTyped ==
  ASSUME NEW acc \in Accs, NEW bit \in Bit
  PROVE  /\ Emit(acc, bit) \in Accs
         /\ Piece(acc, bit) \in Seq(Bit)
         /\ Emit(acc, bit).out = acc.out \o Piece(acc, bit)
         /\ Len(Emit(acc, bit).out) = Len(acc.out) + Len(Piece(acc, bit))
         /\ bit = 0 => Piece(acc, bit) = <<0>> /\ Emit(acc, bit).ones = 0
         /\ bit = 1 /\ acc.ones < 4 =>
              Piece(acc, bit) = <<1>> /\ Emit(acc, bit).ones = acc.ones + 1
         /\ bit = 1 /\ acc.ones = 4 =>
              Piece(acc, bit) = <<1, 0>> /\ Emit(acc, bit).ones = 0
<1>1. acc.out \in Seq(Bit) /\ acc.ones \in 0..4
  BY DEF Accs
<1>2. <<0>> \in Seq(Bit) /\ <<1>> \in Seq(Bit) /\ <<1, 0>> \in Seq(Bit)
  BY DEF Bit
<1>3. \A x \in Bit : Append(acc.out, x) = acc.out \o <<x>>
  <2> SUFFICES ASSUME NEW x \in Bit PROVE Append(acc.out, x) = acc.out \o <<x>>
    OBVIOUS
  <2>1. <<x>> \in Seq(Bit) /\ Len(<<x>>) = 1 /\ <<x>>[1] = x
    OBVIOUS
  <2>2. /\ acc.out \o <<x>> \in Seq(Bit) /\ Append(acc.out, x) \in Seq(Bit)
        /\ Len(acc.out \o <<x>>) = Len(acc.out) + 1
        /\ Len(Append(acc.out, x)) = Len(acc.out) + 1
    BY <1>1, <2>1
  <2>3. \A i \in 1..(Len(acc.out) + 1) : (acc.out \o <<x>>)[i] = Append(acc.out, x)[i]
    BY <1>1, <2>1
  <2> QED BY <2>2, <2>3, SeqEqual
<1>4. 0 \in Bit /\ 1 \in Bit
  BY DEF Bit
<1>5. CASE bit = 0
  <2>1. Piece(acc, bit) = <<0>> /\ Emit(acc, bit) = [out |-> Append(acc.out, 0), ones |-> 0]
    BY <1>5 DEF Piece, Emit
  <2>2. Emit(acc, bit).out = acc.out \o Piece(acc, bit) /\ Emit(acc, bit).ones = 0
    BY <1>3, <1>4, <2>1
  <2>3. acc.out \o <<0>> \in Seq(Bit) /\ Len(acc.out \o <<0>>) = Len(acc.out) + Len(<<0>>)
    BY <1>1, <1>2, ConcatFields
  <2>4. Emit(acc, bit) \in Accs
    BY <1>3, <1>4, <2>1, <2>3 DEF Accs
  <2> QED BY <1>2, <1>5, <2>1, <2>2, <2>3, <2>4
<1>6. CASE bit = 1 /\ acc.ones < 4
  <2>1. /\ Piece(acc, bit) = <<1>>
        /\ Emit(acc, bit) = [out |-> Append(acc.out, 1), ones |-> acc.ones + 1]
    BY <1>6 DEF Piece, Emit
  <2>2. Emit(acc, bit).out = acc.out \o Piece(acc, bit) /\ Emit(acc, bit).ones = acc.ones + 1
    BY <1>3, <1>4, <2>1
  <2>3. acc.out \o <<1>> \in Seq(Bit) /\ Len(acc.out \o <<1>>) = Len(acc.out) + Len(<<1>>)
    BY <1>1, <1>2, ConcatFields
  <2>4. acc.ones + 1 \in 0..4
    BY <1>1, <1>6
  <2>5. Emit(acc, bit) \in Accs
    BY <1>3, <1>4, <2>1, <2>3, <2>4 DEF Accs
  <2> QED BY <1>2, <1>6, <2>1, <2>2, <2>3, <2>5
<1>7. CASE bit = 1 /\ acc.ones = 4
  <2>1. /\ Piece(acc, bit) = <<1, 0>>
        /\ Emit(acc, bit) = [out |-> acc.out \o <<1, 0>>, ones |-> 0]
    BY <1>7 DEF Piece, Emit
  <2>2. Emit(acc, bit).out = acc.out \o Piece(acc, bit) /\ Emit(acc, bit).ones = 0
    BY <2>1
  <2>3. acc.out \o <<1, 0>> \in Seq(Bit) /\ Len(acc.out \o <<1, 0>>) = Len(acc.out) + Len(<<1, 0>>)
    BY <1>1, <1>2, ConcatFields
  <2>4. Emit(acc, bit) \in Accs
    BY <2>1, <2>3 DEF Accs
  <2> QED BY <1>2, <1>7, <2>1, <2>2, <2>3, <2>4
<1>8. bit = 0 \/ (bit = 1 /\ acc.ones < 4) \/ (bit = 1 /\ acc.ones = 4)
  BY <1>1 DEF Bit
<1> QED BY <1>5, <1>6, <1>7, <1>8, Zenon

(* acc[k] is the state of emit_data_bit after k bits of a frame.           *)
Stuffs(acc, bits) ==
  /\ acc \in [0..Len(bits) -> Accs] /\ acc[0] = [out |-> <<>>, ones |-> 0]
  /\ \A k \in 1..Len(bits) : acc[k] = Emit(acc[k - 1], bits[k])
  /\ Stuffed(bits) = acc[Len(bits)].out
  /\ \A k \in 0..Len(bits) : Begins(acc[k].out, Stuffed(bits))

(* modulate_frame() goes through such states for every frame.              *)
LEMMA Stuffing ==
  ASSUME NEW bits \in Seq(Bit)
  PROVE  \E acc : Stuffs(acc, bits)
<1> DEFINE n == Len(bits)
           first == [out |-> <<>>, ones |-> 0]
           step == [i \in 1..n |-> [a \in Accs |-> Emit(a, bits[i])]]
           Equation(g) == g = [k \in 0..n |-> IF k = 0 THEN first ELSE Emit(g[k - 1], bits[k])]
           acc == CHOOSE g : Equation(g)
<1>1. n \in Nat /\ first \in Accs /\ \A i \in 1..n : bits[i] \in Bit
  BY EmptySeq DEF Accs
<1>2. step \in [1..n -> [Accs -> Accs]]
  BY <1>1, EmitTyped
<1>3. \A i \in 1..n, a \in Accs : step[i][a] = Emit(a, bits[i])
  OBVIOUS
<1>4. Stuffed(bits) = acc[n].out
  BY Zenon DEF Stuffed
<1>5. PICK f : Iterates(f, Accs, first, n, step)
  <2> HIDE DEF n, step, first
  <2> QED BY <1>1, <1>2, Iteration
<1>6. /\ f \in [0..n -> Accs] /\ f[0] = first
      /\ \A i \in 1..n : f[i] = step[i][f[i - 1]]
  <2> HIDE DEF n, step, first
  <2> QED BY <1>5 DEF Iterates
<1> HIDE DEF step, n, first
<1>7. ASSUME NEW i \in 1..n
      PROVE  i - 1 \in 0..n /\ f[i - 1] \in Accs /\ f[i] = Emit(f[i - 1], bits[i])
  <2>1. i - 1 \in 0..n
    BY <1>1
  <2> QED BY <1>3, <1>6, <2>1
<1>8. Equation(f)
  <2>1. \A i \in 0..n : f[i] = IF i = 0 THEN first ELSE Emit(f[i - 1], bits[i])
    BY <1>1, <1>6, <1>7
  <2> QED BY <1>6, <2>1
<1>9. Equation(acc)
  BY <1>8, Zenon
<1> HIDE DEF acc
<1>10. acc[n] = f[n]
  <2> DEFINE P == {i \in 0..n : acc[i] = f[i]}
  <2>1. 0 \in P
    BY <1>1, <1>6, <1>9
  <2>2. ASSUME NEW i \in 0..n, i \in P, i < n PROVE i + 1 \in P
    <3>1. i + 1 \in 0..n /\ i + 1 \in 1..n /\ i + 1 - 1 = i /\ i + 1 # 0
      BY <1>1, <2>2
    <3>2. acc[i + 1] = Emit(acc[i], bits[i + 1])
      BY <1>9, <3>1
    <3>3. f[i + 1] = Emit(f[i], bits[i + 1])
      BY <1>7, <3>1
    <3> QED BY <2>2, <3>1, <3>2, <3>3
  <2> HIDE DEF P
  <2>3. \A i \in 0..n : i \in P
    BY <1>1, <2>1, <2>2, Induction
  <2> QED BY <1>1, <2>3 DEF P
<1>11. Stuffed(bits) = f[n].out
  BY <1>4, <1>10
<1>12. ASSUME NEW k \in 0..n PROVE Begins(f[k].out, f[n].out)
  <2> DEFINE outs == [i \in 0..n |-> f[i].out]
             parts == [i \in 1..n |-> Piece(f[i - 1], bits[i])]
  <2>1. outs \in [0..n -> Seq(Bit)]
    BY <1>6 DEF Accs
  <2>2. ASSUME NEW i \in 1..n
        PROVE  Piece(f[i - 1], bits[i]) \in Seq(Bit) /\ outs[i] = outs[i - 1] \o parts[i]
    <3>1. /\ Piece(f[i - 1], bits[i]) \in Seq(Bit)
          /\ f[i].out = f[i - 1].out \o Piece(f[i - 1], bits[i])
        <4>1. f[i - 1] \in Accs /\ bits[i] \in Bit
        BY <1>1, <1>7
      <4>2. /\ Piece(f[i - 1], bits[i]) \in Seq(Bit)
            /\ Emit(f[i - 1], bits[i]).out = f[i - 1].out \o Piece(f[i - 1], bits[i])
        BY <4>1, EmitTyped, Zenon
      <4> QED BY <1>7, <4>2
    <3>2. i \in 0..n /\ i - 1 \in 0..n
      BY <1>1, <1>7
    <3> QED BY <3>1, <3>2
  <2>3. parts \in [1..n -> Seq(Bit)]
    BY <2>2
  <2>4. outs[k] = f[k].out /\ outs[n] = f[n].out
    BY <1>1
  <2> HIDE DEF outs, parts
  <2>5. Begins(outs[k], outs[n])
    BY <1>1, <2>1, <2>2, <2>3, PartsBegin
  <2> QED BY <2>4, <2>5
<1>13. Stuffs(f, bits)
  BY <1>6, <1>7, <1>11, <1>12 DEF n, first, Stuffs
<1> QED BY <1>13, Zenon

(* A number of flags, one after the other.                                 *)
LEMMA FlagsTyped ==
  ASSUME NEW n \in Nat
  PROVE  /\ Flags(n) \in Seq(Bit) /\ Len(Flags(n)) = 8 * n
         /\ n > 0 => \A j \in 1..8 : Flags(n)[j] = Flag[j]
<1> DEFINE seqs == [i \in 1..n |-> Flag]
<1>1. Flag \in Seq(Bit) /\ Len(Flag) = 8
  <2>1. 0 \in Bit /\ 1 \in Bit
    BY DEF Bit
  <2> HIDE DEF Bit
  <2> QED BY <2>1 DEF Flag
<1>2. seqs \in [1..n -> Seq(Bit)] /\ seqs \in Seq(Seq(Bit)) /\ Len(seqs) = n
      /\ \A i \in 1..n : seqs[i] = Flag
  BY <1>1
<1>3. PICK f : Flattens(f, Bit, seqs)
  BY <1>2, Flattening
<1> HIDE DEF seqs
<1>4. /\ f \in [0..n -> Seq(Bit)] /\ f[0] = <<>>
      /\ \A i \in 1..n : f[i] = f[i - 1] \o seqs[i]
      /\ FlattenSeq(seqs) = f[n]
  BY <1>2, <1>3, Zenon DEF Flattens
<1>5. Flags(n) = f[n]
  BY <1>4 DEF Flags, seqs
<1>6. Len(f[n]) = 8 * n
  <2> DEFINE P == {i \in 0..n : Len(f[i]) = 8 * i}
  <2>1. 0 \in P
    BY <1>4
  <2>2. ASSUME NEW i \in 0..n, i \in P, i < n PROVE i + 1 \in P
    <3>1. i + 1 \in 0..n /\ i + 1 \in 1..n /\ i + 1 - 1 = i
      BY <2>2
    <3>2. f[i] \in Seq(Bit)
      BY <1>4
    <3>3. f[i + 1] = f[i] \o Flag
      <4> HIDE DEF Flag
      <4> DEFINE k == i + 1
      <4>1. k \in 1..n /\ k - 1 = i
        BY <3>1
      <4> HIDE DEF k
      <4>2. f[k] = f[k - 1] \o seqs[k] /\ seqs[k] = Flag
        BY <1>2, <1>4, <4>1, Zenon
      <4> QED BY <4>1, <4>2 DEF k
    <3>4. Len(f[i] \o Flag) = Len(f[i]) + 8
      <4>1. Len(f[i] \o Flag) = Len(f[i]) + Len(Flag)
        BY <1>1, <3>2, ConcatFields, Zenon
      <4> QED BY <1>1, <4>1, Zenon
    <3>5. 8 * i + 8 = 8 * (i + 1)
      OBVIOUS
    <3> QED BY <2>2, <3>1, <3>3, <3>4, <3>5
  <2> HIDE DEF P
  <2>3. \A i \in 0..n : i \in P
    BY <2>1, <2>2, Induction
  <2> QED BY <2>3 DEF P
<1>7. ASSUME n > 0, NEW j \in 1..8 PROVE f[n][j] = Flag[j]
  <2>1. 1 \in 0..n /\ 1 \in 1..n /\ 1 - 1 = 0
    BY <1>7
  <2>2. f[1] = <<>> \o Flag /\ f[1] \in Seq(Bit)
    BY <1>2, <1>4, <2>1
  <2>3. f[1] = Flag
    BY <1>1, <2>2
  <2>4. Begins(f[1], f[n])
    BY <1>2, <1>4, <2>1, PartsBegin
  <2> QED BY <1>1, <2>3, <2>4 DEF Begins
<1>8. f[n] \in Seq(Bit)
  BY <1>4
<1> QED BY <1>5, <1>6, <1>7, <1>8

(* Where the parts of a signal are: the preamble, the start flag, the      *)
(* stuffed bits and the first tail flag.                                   *)
Start == 8 * kPreambleFlags
(* The parts of a signal: preamble, start flag, stuffed bits, tail flags.  *)
LEMMA SignalParts ==
  ASSUME NEW f \in Frames
  PROVE  LET s == Signal[f]
             L == Len(Stuffed(f)) IN
           /\ Start \in Nat /\ Start > 0 /\ L \in Nat /\ Stuffed(f) \in Seq(Bit)
           /\ s \in Seq(Bit) /\ Len(s) = Start + 8 + L + 8 * kTailFlags
           /\ \A j \in 1..8 : s[Start + j] = Flag[j]
           /\ \A j \in 1..L : s[Start + 8 + j] = Stuffed(f)[j]
           /\ \A j \in 1..8 : s[Start + 8 + L + j] = Flag[j]
<1> DEFINE L == Len(Stuffed(f))
           pre == Flags(kPreambleFlags)
           data_ == Stuffed(f)
           tail == Flags(kTailFlags)
           T == 8 * kTailFlags
<1>1. kPreambleFlags \in Nat /\ kPreambleFlags > 0 /\ kTailFlags \in Nat /\ kTailFlags > 0
  BY HdlcAssumption
<1>2. f \in Seq(Bit)
  BY FrameChecked
<1>3. data_ \in Seq(Bit) /\ L \in Nat
  <2>1. PICK acc : Stuffs(acc, f)
    BY <1>2, Stuffing
  <2>2. Len(f) \in 0..Len(f) /\ Len(f) \in Nat
    BY <1>2
  <2>3. acc[Len(f)] \in Accs /\ data_ = acc[Len(f)].out
    BY <2>1, <2>2 DEF Stuffs
  <2>4. data_ \in Seq(Bit)
    BY <2>3 DEF Accs
  <2> QED BY <2>4
<1>4. pre \in Seq(Bit) /\ Len(pre) = Start /\ Start \in Nat /\ Start > 0
  BY <1>1, FlagsTyped DEF Start
<1>5. /\ tail \in Seq(Bit) /\ Len(tail) = T /\ T \in Nat /\ T >= 8
      /\ \A j \in 1..8 : tail[j] = Flag[j]
  BY <1>1, FlagsTyped
<1>6. Flag \in Seq(Bit) /\ Len(Flag) = 8
  <2>1. 0 \in Bit /\ 1 \in Bit
    BY DEF Bit
  <2> HIDE DEF Bit
  <2> QED BY <2>1 DEF Flag
<1>7. Signal[f] = pre \o Flag \o data_ \o tail
  BY DEF Signal
<1> HIDE DEF L, pre, data_, tail, T
<1> DEFINE u == pre \o Flag
           v == u \o data_
           s == v \o tail
<1>8. u \in Seq(Bit) /\ Len(u) = Start + 8
      /\ \A i \in 1..(Start + 8) : i > Start => u[i] = Flag[i - Start]
  <2>a. /\ pre \o Flag \in Seq(Bit) /\ Len(pre \o Flag) = Len(pre) + Len(Flag)
        /\ \A i \in 1..Len(pre) : (pre \o Flag)[i] = pre[i]
        /\ \A i \in 1..(Len(pre) + Len(Flag)) : i > Len(pre) => (pre \o Flag)[i] = Flag[i - Len(pre)]
    BY <1>4, <1>6, ConcatFields, Zenon
  <2> QED BY <1>4, <1>6, <2>a, Zenon
<1> HIDE DEF u
<1>9. v \in Seq(Bit) /\ Len(v) = Start + 8 + L
      /\ (\A i \in 1..(Start + 8) : v[i] = u[i])
      /\ \A i \in 1..(Start + 8 + L) : i > Start + 8 => v[i] = data_[i - (Start + 8)]
  <2>1. Len(data_) = L
    BY DEF L, data_
  <2>a. /\ u \o data_ \in Seq(Bit) /\ Len(u \o data_) = Len(u) + Len(data_)
        /\ \A i \in 1..Len(u) : (u \o data_)[i] = u[i]
        /\ \A i \in 1..(Len(u) + Len(data_)) : i > Len(u) => (u \o data_)[i] = data_[i - Len(u)]
    BY <1>3, <1>8, ConcatFields, Zenon
  <2> QED BY <1>8, <2>1, <2>a, Zenon
<1> HIDE DEF v
<1>10. s \in Seq(Bit) /\ Len(s) = Start + 8 + L + T
       /\ (\A i \in 1..(Start + 8 + L) : s[i] = v[i])
       /\ \A i \in 1..(Start + 8 + L + T) : i > Start + 8 + L => s[i] = tail[i - (Start + 8 + L)]
  <2>a. /\ v \o tail \in Seq(Bit) /\ Len(v \o tail) = Len(v) + Len(tail)
        /\ \A i \in 1..Len(v) : (v \o tail)[i] = v[i]
        /\ \A i \in 1..(Len(v) + Len(tail)) : i > Len(v) => (v \o tail)[i] = tail[i - Len(v)]
    BY <1>5, <1>9, ConcatFields, Zenon
  <2> QED BY <1>5, <1>9, <2>a, Zenon
<1>11. Signal[f] = s
  BY <1>7 DEF u, v
<1> HIDE DEF s
<1>12. ASSUME NEW j \in 1..8 PROVE s[Start + j] = Flag[j]
  <2> DEFINE x == Start + j
  <2>1. x \in 1..(Start + 8) /\ x \in 1..(Start + 8 + L) /\ x > Start /\ x - Start = j
    BY <1>3, <1>4
  <2> HIDE DEF x
  <2>2. s[x] = v[x] /\ v[x] = u[x] /\ u[x] = Flag[x - Start]
    BY <1>8, <1>9, <1>10, <2>1
  <2> QED BY <2>1, <2>2 DEF x
<1>13. ASSUME NEW j \in 1..L PROVE s[Start + 8 + j] = data_[j]
  <2> DEFINE x == Start + 8 + j
  <2>1. x \in 1..(Start + 8 + L) /\ x > Start + 8 /\ x - (Start + 8) = j
    BY <1>3, <1>4
  <2> HIDE DEF x
  <2>2. s[x] = v[x] /\ v[x] = data_[x - (Start + 8)]
    BY <1>9, <1>10, <2>1
  <2> QED BY <2>1, <2>2 DEF x
<1>14. ASSUME NEW j \in 1..8 PROVE s[Start + 8 + L + j] = Flag[j]
  <2> DEFINE x == Start + 8 + L + j
  <2>1. x \in 1..(Start + 8 + L + T) /\ x > Start + 8 + L /\ x - (Start + 8 + L) = j
    BY <1>3, <1>4, <1>5
  <2> HIDE DEF x
  <2>2. s[x] = tail[x - (Start + 8 + L)]
    BY <1>10, <2>1
  <2> QED BY <1>5, <2>1, <2>2 DEF x
<1> QED BY <1>3, <1>4, <1>10, <1>11, <1>12, <1>13, <1>14 DEF L, data_, T

--------------------------------------------------------------------------------
(* The states of the demodulator.                                          *)
Receivers == [nrzi_prev : BOOLEAN, sr : 0..255, ones_count : 0..7, in_frame : BOOLEAN,
              bits : Seq(Bit), heard : Seq(Seq(Bit))]

(* Those it can be in: the frame buffer does not overflow, and seven ones  *)
(* have ended a frame.                                                     *)
RxOK(r) ==
  /\ r \in Receivers /\ Len(r.bits) <= 8 * kMaxFrameBytes + 7
  /\ r.in_frame => r.ones_count <= 6

(* The fields of a receiver.                                               *)
LEMMA RxFields ==
  ASSUME NEW r \in Receivers
  PROVE  /\ r.nrzi_prev \in BOOLEAN /\ r.sr \in 0..255 /\ r.ones_count \in 0..7
         /\ r.in_frame \in BOOLEAN /\ r.bits \in Seq(Bit) /\ r.heard \in Seq(Seq(Bit))
         /\ Len(r.bits) \in Nat
BY DEF Receivers

(* A receiver by its fields.                                               *)
Receiver(p, v, c, f, b, h) ==
  [nrzi_prev |-> p, sr |-> v, ones_count |-> c, in_frame |-> f, bits |-> b, heard |-> h]

(* A receiver is the record of its fields.                                 *)
LEMMA ByFields ==
  ASSUME NEW r \in Receivers
  PROVE  r = Receiver(r.nrzi_prev, r.sr, r.ones_count, r.in_frame, r.bits, r.heard)
BY DEF Receivers, Receiver

(* A receiver with another value of one field.                             *)
LEMMA ToneSet ==
  ASSUME NEW r \in Receivers, NEW x \in BOOLEAN
  PROVE  LET s == [r EXCEPT !.nrzi_prev = x] IN
         /\ s \in Receivers /\ s.nrzi_prev = x /\ s.sr = r.sr /\ s.ones_count = r.ones_count
         /\ s.in_frame = r.in_frame /\ s.bits = r.bits /\ s.heard = r.heard
<1> DEFINE p == r.nrzi_prev
           v == r.sr
           c == r.ones_count
           f == r.in_frame
           b == r.bits
           h == r.heard
           a == Receiver(x, v, c, f, b, h)
<1>1. r = Receiver(p, v, c, f, b, h)
  BY ByFields, Zenon
<1>2. /\ v \in 0..255 /\ c \in 0..7 /\ f \in BOOLEAN /\ b \in Seq(Bit) /\ h \in Seq(Seq(Bit))
  BY RxFields, Zenon
<1> HIDE DEF p, v, c, f, b, h
<1>3. [Receiver(p, v, c, f, b, h) EXCEPT !.nrzi_prev = x] = a
  BY DEF Receiver
<1>4. [r EXCEPT !.nrzi_prev = x] = a
  BY <1>1, <1>3, Zenon
<1>5. /\ a \in Receivers /\ a.nrzi_prev = x /\ a.sr = v /\ a.ones_count = c
      /\ a.in_frame = f /\ a.bits = b /\ a.heard = h
  BY <1>2 DEF Receiver, Receivers
<1> HIDE DEF a
<1> QED BY <1>4, <1>5, Zenon DEF p, v, c, f, b, h

(* A receiver with another shift register.                                 *)
LEMMA RegisterSet ==
  ASSUME NEW r \in Receivers, NEW x \in 0..255
  PROVE  LET s == [r EXCEPT !.sr = x] IN
         /\ s \in Receivers /\ s.nrzi_prev = r.nrzi_prev /\ s.sr = x
         /\ s.ones_count = r.ones_count
         /\ s.in_frame = r.in_frame /\ s.bits = r.bits /\ s.heard = r.heard
<1> DEFINE p == r.nrzi_prev
           v == r.sr
           c == r.ones_count
           f == r.in_frame
           b == r.bits
           h == r.heard
           a == Receiver(p, x, c, f, b, h)
<1>1. r = Receiver(p, v, c, f, b, h)
  BY ByFields, Zenon
<1>2. /\ p \in BOOLEAN /\ c \in 0..7 /\ f \in BOOLEAN /\ b \in Seq(Bit) /\ h \in Seq(Seq(Bit))
  BY RxFields, Zenon
<1> HIDE DEF p, v, c, f, b, h
<1>3. [Receiver(p, v, c, f, b, h) EXCEPT !.sr = x] = a
  BY DEF Receiver
<1>4. [r EXCEPT !.sr = x] = a
  BY <1>1, <1>3, Zenon
<1>5. /\ a \in Receivers /\ a.nrzi_prev = p /\ a.sr = x /\ a.ones_count = c
      /\ a.in_frame = f /\ a.bits = b /\ a.heard = h
  BY <1>2 DEF Receiver, Receivers
<1> HIDE DEF a
<1> QED BY <1>4, <1>5, Zenon DEF p, v, c, f, b, h

(* A receiver with another count of ones.                                  *)
LEMMA CountSet ==
  ASSUME NEW r \in Receivers, NEW x \in 0..7
  PROVE  LET s == [r EXCEPT !.ones_count = x] IN
         /\ s \in Receivers /\ s.nrzi_prev = r.nrzi_prev /\ s.sr = r.sr /\ s.ones_count = x
         /\ s.in_frame = r.in_frame /\ s.bits = r.bits /\ s.heard = r.heard
<1> DEFINE p == r.nrzi_prev
           v == r.sr
           c == r.ones_count
           f == r.in_frame
           b == r.bits
           h == r.heard
           a == Receiver(p, v, x, f, b, h)
<1>1. r = Receiver(p, v, c, f, b, h)
  BY ByFields, Zenon
<1>2. /\ p \in BOOLEAN /\ v \in 0..255 /\ f \in BOOLEAN /\ b \in Seq(Bit) /\ h \in Seq(Seq(Bit))
  BY RxFields, Zenon
<1> HIDE DEF p, v, c, f, b, h
<1>3. [Receiver(p, v, c, f, b, h) EXCEPT !.ones_count = x] = a
  BY DEF Receiver
<1>4. [r EXCEPT !.ones_count = x] = a
  BY <1>1, <1>3, Zenon
<1>5. /\ a \in Receivers /\ a.nrzi_prev = p /\ a.sr = v /\ a.ones_count = x
      /\ a.in_frame = f /\ a.bits = b /\ a.heard = h
  BY <1>2 DEF Receiver, Receivers
<1> HIDE DEF a
<1> QED BY <1>4, <1>5, Zenon DEF p, v, c, f, b, h

(* A receiver with other bits.                                             *)
LEMMA BitsSet ==
  ASSUME NEW r \in Receivers, NEW x \in Seq(Bit)
  PROVE  LET s == [r EXCEPT !.bits = x] IN
         /\ s \in Receivers /\ s.nrzi_prev = r.nrzi_prev /\ s.sr = r.sr
         /\ s.ones_count = r.ones_count
         /\ s.in_frame = r.in_frame /\ s.bits = x /\ s.heard = r.heard
<1> DEFINE p == r.nrzi_prev
           v == r.sr
           c == r.ones_count
           f == r.in_frame
           b == r.bits
           h == r.heard
           a == Receiver(p, v, c, f, x, h)
<1>1. r = Receiver(p, v, c, f, b, h)
  BY ByFields, Zenon
<1>2. /\ p \in BOOLEAN /\ v \in 0..255 /\ c \in 0..7 /\ f \in BOOLEAN /\ h \in Seq(Seq(Bit))
  BY RxFields, Zenon
<1> HIDE DEF p, v, c, f, b, h
<1>3. [Receiver(p, v, c, f, b, h) EXCEPT !.bits = x] = a
  BY DEF Receiver
<1>4. [r EXCEPT !.bits = x] = a
  BY <1>1, <1>3, Zenon
<1>5. /\ a \in Receivers /\ a.nrzi_prev = p /\ a.sr = v /\ a.ones_count = c
      /\ a.in_frame = f /\ a.bits = x /\ a.heard = h
  BY <1>2 DEF Receiver, Receivers
<1> HIDE DEF a
<1> QED BY <1>4, <1>5, Zenon DEF p, v, c, f, b, h

(* What the callback is given is bits.                                     *)
LEMMA DispatchedTyped ==
  ASSUME NEW r \in Receivers
  PROVE  Dispatched(r) \in Seq(Seq(Bit))
<1> DEFINE n == 8 * (FrameLen(r) - 2)
           m == n + 16
<1>1. r.bits \in Seq(Bit) /\ Len(r.bits) \in Nat /\ FrameLen(r) \in Nat
      /\ 8 * FrameLen(r) <= Len(r.bits)
  <2>1. r.bits \in Seq(Bit) /\ Len(r.bits) \in Nat
    BY RxFields
  <2> DEFINE l == Len(r.bits)
  <2>2. \A x \in Nat : x \div 8 \in Nat /\ 8 * (x \div 8) <= x
    OBVIOUS
  <2> QED BY <2>1, <2>2, Zenon DEF FrameLen
<1>2. m = 8 * FrameLen(r) /\ m \in Nat
  BY <1>1
<1> HIDE DEF m
<1>3. \A i \in 1..m : r.bits[i] \in Bit
  BY <1>1, <1>2
<1>4. SubSeq(r.bits, 1, m) \in Seq(Bit)
  BY <1>2, <1>3, SubSeqProperties
<1>5. <<SubSeq(r.bits, 1, m)>> \in Seq(Seq(Bit)) /\ <<>> \in Seq(Seq(Bit))
  BY <1>4, EmptySeq
<1>6. Dispatched(r) \in {<<>>, <<SubSeq(r.bits, 1, m)>>}
  BY DEF Dispatched, m
<1> QED BY <1>5, <1>6

(* A flag starts a frame afresh, whatever the state it finds.              *)
LEMMA OnFlagEffect ==
  ASSUME NEW r \in Receivers
  PROVE  /\ RxOK(OnFlag(r)) /\ OnFlag(r).nrzi_prev = r.nrzi_prev /\ OnFlag(r).sr = r.sr
         /\ OnFlag(r).in_frame /\ OnFlag(r).bits = <<>> /\ OnFlag(r).ones_count = 0
         /\ OnFlag(r).heard = r.heard \o Dispatched(r)
<1> DEFINE g == r.heard \o Dispatched(r)
           p == r.nrzi_prev
           v == r.sr
           c == r.ones_count
           f == r.in_frame
           b == r.bits
           h == r.heard
           s == Receiver(p, v, 0, TRUE, <<>>, g)
<1>1. OnFlag(r) = [r EXCEPT !.in_frame = TRUE, !.bits = <<>>, !.ones_count = 0, !.heard = g]
  BY DEF OnFlag, Receivers
<1>2. g \in Seq(Seq(Bit))
  BY DispatchedTyped, RxFields, ConcatProperties
<1>3. <<>> \in Seq(Bit) /\ Len(<<>>) = 0 /\ 0 <= 6
  BY EmptySeq
<1>4. r = Receiver(p, v, c, f, b, h)
  BY ByFields, Zenon
<1>5. p \in BOOLEAN /\ v \in 0..255
  BY RxFields, Zenon
<1> HIDE DEF g, p, v, c, f, b, h
<1>a. PICK x, y, z, w : x = TRUE /\ y = <<>> /\ z = 0 /\ w = g
  BY Zenon
<1>6. [Receiver(p, v, c, f, b, h) EXCEPT !.in_frame = x, !.bits = y, !.ones_count = z, !.heard = w]
        = Receiver(p, v, z, x, y, w)
  <2>1. [Receiver(p, v, c, f, b, h) EXCEPT !.in_frame = x] = Receiver(p, v, c, x, b, h)
    BY DEF Receiver
  <2>2. [Receiver(p, v, c, x, b, h) EXCEPT !.bits = y] = Receiver(p, v, c, x, y, h)
    BY DEF Receiver
  <2>3. [Receiver(p, v, c, x, y, h) EXCEPT !.ones_count = z] = Receiver(p, v, z, x, y, h)
    BY DEF Receiver
  <2>4. [Receiver(p, v, z, x, y, h) EXCEPT !.heard = w] = Receiver(p, v, z, x, y, w)
    BY DEF Receiver
  <2>5. [[[[Receiver(p, v, c, f, b, h) EXCEPT !.in_frame = x] EXCEPT !.bits = y]
            EXCEPT !.ones_count = z] EXCEPT !.heard = w]
          = Receiver(p, v, z, x, y, w)
    BY <2>1, <2>2, <2>3, <2>4, Zenon
  <2> QED BY <2>5, Zenon
<1>7. OnFlag(r) = s
  <2>1. OnFlag(r) = [r EXCEPT !.in_frame = x, !.bits = y, !.ones_count = z, !.heard = w]
    BY <1>1, <1>a, Zenon
  <2>2. OnFlag(r) = Receiver(p, v, z, x, y, w)
    BY <1>4, <1>6, <2>1, Zenon
  <2> QED BY <1>a, <2>2, Zenon
<1>8. /\ s \in Receivers /\ s.nrzi_prev = p /\ s.sr = v /\ s.ones_count = 0
      /\ s.in_frame = TRUE /\ s.bits = <<>> /\ s.heard = g
  BY <1>2, <1>3, <1>5 DEF Receiver, Receivers
<1> HIDE DEF s
<1>9. RxOK(s)
  <2>1. 0 <= 8 * kMaxFrameBytes + 7
    BY HdlcAssumption
  <2> QED BY <1>3, <1>8, <2>1, Zenon DEF RxOK
<1> QED BY <1>7, <1>8, <1>9, Zenon DEF g, p, v

(* The end of a frame by too many ones or too many bytes.                  *)
LEMMA AbortEffect ==
  ASSUME NEW r \in Receivers
  PROVE  /\ RxOK(Abort(r)) /\ Abort(r).nrzi_prev = r.nrzi_prev /\ Abort(r).sr = r.sr
         /\ Abort(r).heard = r.heard
<1> DEFINE s == Abort(r)
           B == Seq(Bit)
           H == Seq(Seq(Bit))
           R == [nrzi_prev : BOOLEAN, sr : 0..255, ones_count : 0..7, in_frame : BOOLEAN,
                 bits : B, heard : H]
<1>1. s = [r EXCEPT !.in_frame = FALSE, !.bits = <<>>]
  BY DEF Abort
<1>2. <<>> \in B /\ Len(<<>>) = 0 /\ Receivers = R
  BY EmptySeq DEF Receivers
<1> HIDE DEF s, B, H
<1>3. s \in R
  BY <1>1, <1>2
<1>4. /\ s.nrzi_prev = r.nrzi_prev /\ s.sr = r.sr
      /\ s.in_frame = FALSE /\ s.bits = <<>> /\ s.heard = r.heard
  BY <1>1, <1>2
<1>5. RxOK(s)
  <2>1. 0 <= 8 * kMaxFrameBytes + 7
    BY HdlcAssumption
  <2> QED BY <1>2, <1>3, <1>4, <2>1, Zenon DEF RxOK
<1> QED BY <1>4, <1>5, Zenon DEF s

(* There is room for another bit of a frame.                               *)
Room(r) == Len(r.bits) < 8 * kMaxFrameBytes + 7

(* s comes from r by a count of c ones and a bit more, if there is room.   *)
Assembled(r, c, b, s) ==
  /\ RxOK(s) /\ s.nrzi_prev = r.nrzi_prev /\ s.sr = r.sr /\ s.heard = r.heard
  /\ Room(r) => s.in_frame /\ s.ones_count = c /\ s.bits = Append(r.bits, b)

(* The receiver with another count of ones, as it assembles a bit.         *)
LEMMA AssembleEffect ==
  ASSUME NEW r, RxOK(r), r.in_frame, NEW c \in 0..6, NEW b \in Bit
  PROVE  Assembled(r, c, b, Assemble([r EXCEPT !.ones_count = c], b))
<1> DEFINE full == 8 * kMaxFrameBytes + 7
           t == Append(r.bits, b)
           q == [r EXCEPT !.ones_count = c]
           s == Assemble(q, b)
<1>1. r \in Receivers /\ Len(r.bits) <= full /\ r.in_frame
  BY RxFields DEF RxOK
<1>2. full \in Nat /\ r.bits \in Seq(Bit) /\ Len(r.bits) \in Nat
  BY <1>1, RxFields, HdlcAssumption
<1>3. c \in 0..7 /\ c <= 6
  OBVIOUS
<1>6. /\ q \in Receivers /\ q.nrzi_prev = r.nrzi_prev /\ q.sr = r.sr /\ q.heard = r.heard
      /\ q.bits = r.bits /\ q.ones_count = c /\ q.in_frame
  BY <1>1, <1>3, CountSet, Zenon
<1> HIDE DEF full, t, q
<1>7. CASE Len(r.bits) = full
  <2>1. s = Abort(q)
    BY <1>6, <1>7, Zenon DEF Assemble, full
  <2>2. ~Room(r)
    BY <1>2, <1>7 DEF Room, full
  <2>3. RxOK(Abort(q)) /\ Abort(q).nrzi_prev = q.nrzi_prev /\ Abort(q).sr = q.sr
        /\ Abort(q).heard = q.heard
    BY <1>6, AbortEffect, Zenon
  <2> QED BY <1>6, <2>1, <2>2, <2>3, Zenon DEF q, Assembled
<1>8. CASE Len(r.bits) # full
  <2>1. t \in Seq(Bit) /\ Len(t) = Len(r.bits) + 1 /\ Len(r.bits) + 1 <= full
    BY <1>1, <1>2, <1>8 DEF t
  <2>2. s = [q EXCEPT !.bits = t]
    BY <1>6, <1>8, Zenon DEF Assemble, full, t
  <2> DEFINE a == [q EXCEPT !.bits = t]
  <2>5. /\ a \in Receivers /\ a.nrzi_prev = q.nrzi_prev /\ a.sr = q.sr /\ a.heard = q.heard
        /\ a.bits = t /\ a.ones_count = q.ones_count /\ a.in_frame = q.in_frame
    BY <1>6, <2>1, BitsSet, Zenon
  <2> HIDE DEF a
  <2>6. RxOK(a)
    <3>1. Len(a.bits) <= full /\ a.ones_count <= 6
      BY <1>3, <1>6, <2>1, <2>5, Zenon
    <3> QED BY <2>5, <3>1, Zenon DEF RxOK, full
  <2>7. s = a
    BY <2>2 DEF a
  <2> HIDE DEF s
  <2> QED BY <1>6, <2>5, <2>6, <2>7, Zenon DEF t, s, q, Assembled
<1> QED BY <1>7, <1>8, Zenon

(* How s comes from r by a bit of a frame: a one is counted and assembled, *)
(* a zero after five ones is dropped, another one is assembled.            *)
TakesIn(r, bit, s) ==
  /\ bit = 1 /\ r.ones_count < 6 /\ Room(r) =>
       s.in_frame /\ s.ones_count = r.ones_count + 1 /\ s.bits = Append(r.bits, 1)
  /\ bit = 0 /\ r.ones_count = 5 => s.in_frame /\ s.ones_count = 0 /\ s.bits = r.bits
  /\ bit = 0 /\ r.ones_count # 5 /\ Room(r) =>
       s.in_frame /\ s.ones_count = 0 /\ s.bits = Append(r.bits, 0)

(* What a bit does to a receiver that is in a frame.                       *)
LEMMA InFrameEffect ==
  ASSUME NEW r, RxOK(r), r.in_frame, NEW bit \in Bit
  PROVE  LET s == InFrame(r, bit) IN
         /\ RxOK(s) /\ s.nrzi_prev = r.nrzi_prev /\ s.sr = r.sr /\ s.heard = r.heard
         /\ TakesIn(r, bit, s)
<1>1. r \in Receivers /\ r.ones_count <= 6 /\ r.ones_count \in 0..7
  BY RxFields DEF RxOK
<1>2. bit \in {0, 1} /\ 0 \in Bit /\ 1 \in Bit /\ 0 # 1
  BY DEF Bit
<1> DEFINE s == InFrame(r, bit)
           Same(x) == RxOK(x) /\ x.nrzi_prev = r.nrzi_prev /\ x.sr = r.sr /\ x.heard = r.heard
<1>3. CASE bit = 1 /\ r.ones_count = 6
  <2> DEFINE c == r.ones_count + 1
             q == [r EXCEPT !.ones_count = c]
  <2>1. s = Abort(q)
    BY <1>1, <1>3 DEF InFrame
  <2>3. c \in 0..7
    BY <1>1, <1>3
  <2> HIDE DEF c
  <2>4. q \in Receivers /\ q.nrzi_prev = r.nrzi_prev /\ q.sr = r.sr /\ q.heard = r.heard
    BY <1>1, <2>3, CountSet, Zenon
  <2> HIDE DEF q
  <2>5. RxOK(Abort(q)) /\ Abort(q).nrzi_prev = q.nrzi_prev /\ Abort(q).sr = q.sr
        /\ Abort(q).heard = q.heard
    BY <2>4, AbortEffect, Zenon
  <2>6. Same(s)
    BY <2>1, <2>4, <2>5, Zenon
  <2>7. ~(r.ones_count < 6) /\ bit # 0
    BY <1>3
  <2> HIDE DEF s
  <2>8. TakesIn(r, bit, s)
    BY <2>7, Zenon DEF TakesIn
  <2> QED BY <2>6, <2>8, Zenon DEF s
<1>4. CASE bit = 1 /\ r.ones_count < 6
  <2>1. PICK c \in 0..6 : c = r.ones_count + 1
    BY <1>1, <1>4
  <2> DEFINE q == [r EXCEPT !.ones_count = c]
             a == Assemble(q, 1)
  <2>2. s = Assemble(q, 1)
    BY <1>1, <1>4, <2>1 DEF InFrame
  <2>3. /\ Same(a)
        /\ Room(r) => a.in_frame /\ a.ones_count = c /\ a.bits = Append(r.bits, 1)
    <3>1. Assembled(r, c, 1, Assemble([r EXCEPT !.ones_count = c], 1))
      BY <1>2, AssembleEffect, Zenon
    <3> QED BY <3>1, Zenon DEF Assembled
  <2>4. bit # 0
    BY <1>4
  <2> HIDE DEF s, q
  <2>5. TakesIn(r, bit, s)
    BY <2>1, <2>2, <2>3, <2>4, Zenon DEF TakesIn
  <2> QED BY <2>2, <2>3, <2>5, Zenon DEF s
<1>5. CASE bit = 0 /\ r.ones_count = 5
  <2> DEFINE a == [r EXCEPT !.ones_count = 0]
  <2>1. s = a
    BY <1>1, <1>5 DEF InFrame
  <2>3. 0 \in 0..7 /\ 0 <= 6
    OBVIOUS
  <2>4. /\ a \in Receivers /\ a.ones_count = 0 /\ a.in_frame = r.in_frame /\ a.bits = r.bits
        /\ a.nrzi_prev = r.nrzi_prev /\ a.sr = r.sr /\ a.heard = r.heard
    BY <1>1, <2>3, CountSet, Zenon
  <2> HIDE DEF a
  <2>5. RxOK(a)
    BY <2>3, <2>4, Zenon DEF RxOK
  <2>6. bit # 1
    BY <1>5
  <2> HIDE DEF s
  <2>7. TakesIn(r, bit, s)
    BY <1>5, <2>1, <2>4, <2>6, Zenon DEF TakesIn
  <2> QED BY <2>1, <2>4, <2>5, <2>7, Zenon DEF s
<1>6. CASE bit = 0 /\ r.ones_count # 5
  <2> DEFINE q == [r EXCEPT !.ones_count = 0]
  <2>1. s = Assemble(q, 0) /\ 0 \in 0..6
    BY <1>1, <1>6 DEF InFrame
  <2>2. /\ Same(Assemble(q, 0))
        /\ Room(r) => /\ Assemble(q, 0).in_frame /\ Assemble(q, 0).ones_count = 0
                      /\ Assemble(q, 0).bits = Append(r.bits, 0)
    <3>1. Assembled(r, 0, 0, Assemble([r EXCEPT !.ones_count = 0], 0))
      BY <1>2, <2>1, AssembleEffect, Zenon
    <3> QED BY <3>1, Zenon DEF Assembled
  <2>3. bit # 1
    BY <1>6
  <2> HIDE DEF s, q
  <2>4. TakesIn(r, bit, s)
    BY <1>6, <2>1, <2>2, <2>3, Zenon DEF TakesIn
  <2> QED BY <2>1, <2>2, <2>4, Zenon DEF s
<1>7. \/ bit = 1 /\ r.ones_count = 6
      \/ bit = 1 /\ r.ones_count < 6
      \/ bit = 0 /\ r.ones_count = 5
      \/ bit = 0 /\ r.ones_count # 5
  BY <1>1, <1>2
<1> HIDE DEF s
<1> QED BY <1>3, <1>4, <1>5, <1>6, <1>7, Zenon DEF s

(* What a bit does to the receiver: the last one of a flag delivers and    *)
(* starts afresh, another one belongs to the frame.                        *)
Processed(r, bit, s) ==
  /\ RxOK(s) /\ s.nrzi_prev = r.nrzi_prev /\ s.sr = r.sr \div 2 + 128 * bit
  /\ s.sr # 126 => s.heard = r.heard
  /\ s.sr = 126 => /\ s.in_frame /\ s.bits = <<>> /\ s.ones_count = 0
                   /\ s.heard = r.heard \o Dispatched(r)
  /\ s.sr # 126 /\ r.in_frame => TakesIn(r, bit, s)

(* What a bit does to any receiver.                                        *)
LEMMA BitEffect ==
  ASSUME NEW r, RxOK(r), NEW bit \in Bit
  PROVE  Processed(r, bit, ProcessBit(r, bit))
<1> DEFINE v == r.sr \div 2 + 128 * bit
           t == [r EXCEPT !.sr = v]
           s == ProcessBit(r, bit)
<1>1. r \in Receivers /\ r.sr \in 0..255 /\ r.in_frame \in BOOLEAN
  BY RxFields DEF RxOK
<1>2. v \in 0..255
  BY <1>1 DEF Bit
<1>3. s = IF t.sr = 126 THEN OnFlag(t) ELSE IF t.in_frame THEN InFrame(t, bit) ELSE t
  BY Zenon DEF ProcessBit
<1> HIDE DEF v
<1>4. /\ t \in Receivers /\ t.sr = v /\ t.nrzi_prev = r.nrzi_prev /\ t.in_frame = r.in_frame
      /\ t.ones_count = r.ones_count /\ t.bits = r.bits /\ t.heard = r.heard
  BY <1>1, <1>2, RegisterSet, Zenon
<1> HIDE DEF t, s
<1>5. RxOK(t)
  BY <1>4, Zenon DEF RxOK
<1>6. Dispatched(t) = Dispatched(r)
  BY <1>4, Zenon DEF Dispatched, FrameLen
<1>7. CASE v = 126
  <2>1. s = OnFlag(t)
    BY <1>3, <1>4, <1>7, Zenon
  <2>2. /\ RxOK(s) /\ s.nrzi_prev = t.nrzi_prev /\ s.sr = t.sr
        /\ s.in_frame /\ s.bits = <<>> /\ s.ones_count = 0
        /\ s.heard = t.heard \o Dispatched(t)
    BY <1>4, <2>1, OnFlagEffect, Zenon
  <2>3. s.sr = 126 /\ s.sr = v
    BY <1>4, <1>7, <2>2, Zenon
  <2>4. Processed(r, bit, s)
    BY <1>4, <1>6, <2>2, <2>3, Zenon DEF v, Processed
  <2> QED BY <2>4, Zenon DEF s
<1>8. CASE v # 126 /\ r.in_frame
  <2>1. s = InFrame(t, bit) /\ t.in_frame
    BY <1>3, <1>4, <1>8, Zenon
  <2>2. /\ RxOK(s) /\ s.nrzi_prev = t.nrzi_prev /\ s.sr = t.sr /\ s.heard = t.heard
        /\ TakesIn(t, bit, s)
    BY <1>5, <2>1, InFrameEffect, Zenon
  <2>3. TakesIn(r, bit, s)
    BY <1>4, <2>2, Zenon DEF TakesIn, Room
  <2>4. s.sr # 126 /\ s.sr = v
    BY <1>4, <1>8, <2>2, Zenon
  <2>5. Processed(r, bit, s)
    BY <1>4, <2>2, <2>3, <2>4, Zenon DEF v, Processed
  <2> QED BY <2>5, Zenon DEF s
<1>9. CASE v # 126 /\ ~r.in_frame
  <2>1. s = t
    BY <1>3, <1>4, <1>9, Zenon
  <2>2. s.sr # 126 /\ s.sr = v
    BY <1>4, <1>9, <2>1, Zenon
  <2>3. Processed(r, bit, s)
    BY <1>4, <1>5, <1>9, <2>1, <2>2, Zenon DEF v, Processed
  <2> QED BY <2>3, Zenon DEF s
<1> QED BY <1>7, <1>8, <1>9, Zenon

(* What a tone does: a 0 is a change of tone, and no frame is forgotten.   *)
Decoded(r, mark) == IF mark = r.nrzi_prev THEN 1 ELSE 0

Symbolled(r, bit, mark, s) ==
  /\ RxOK(s) /\ s.nrzi_prev = mark /\ s.sr = r.sr \div 2 + 128 * bit
  /\ s.sr = 126 => /\ s.in_frame /\ s.bits = <<>> /\ s.ones_count = 0
                   /\ s.heard = r.heard \o Dispatched(r)
  /\ s.sr # 126 /\ r.in_frame => TakesIn(r, bit, s)
  /\ Range(r.heard) \subseteq Range(s.heard)

(* What a symbol does to any receiver.                                     *)
LEMMA SymbolEffect ==
  ASSUME NEW r, RxOK(r), NEW mark \in BOOLEAN
  PROVE  /\ Decoded(r, mark) \in Bit
         /\ Symbolled(r, Decoded(r, mark), mark, ProcessSymbol(r, mark))
<1> DEFINE bit == Decoded(r, mark)
           q == [r EXCEPT !.nrzi_prev = mark]
           s == ProcessSymbol(r, mark)
<1>1. bit \in Bit
  BY DEF Bit, Decoded
<1>2. r \in Receivers
  BY DEF RxOK
<1>3. /\ q \in Receivers /\ q.nrzi_prev = mark /\ q.sr = r.sr /\ q.ones_count = r.ones_count
      /\ q.in_frame = r.in_frame /\ q.bits = r.bits /\ q.heard = r.heard
  BY <1>2, ToneSet, Zenon
<1>4. s = ProcessBit(q, bit)
  BY Zenon DEF ProcessSymbol, Decoded
<1> HIDE DEF bit, q, s
<1>5. RxOK(q)
  BY <1>3, Zenon DEF RxOK
<1>6. Processed(q, bit, s)
  BY <1>1, <1>4, <1>5, BitEffect, Zenon
<1>7. Dispatched(q) = Dispatched(r)
  BY <1>3, Zenon DEF Dispatched, FrameLen
<1>8. TakesIn(q, bit, s) => TakesIn(r, bit, s)
  BY <1>3, Zenon DEF TakesIn, Room
<1> DEFINE h == r.heard
           d == Dispatched(r)
<1>9. s.heard = h \/ s.heard = h \o d
  BY <1>3, <1>6, <1>7, Zenon DEF Processed
<1>10. h \in Seq(Seq(Bit)) /\ d \in Seq(Seq(Bit))
  BY <1>2, DispatchedTyped, RxFields
<1> HIDE DEF h, d
<1>11. Range(h) \subseteq Range(s.heard)
  <2>1. h \o d \in Seq(Seq(Bit)) /\ Len(h \o d) = Len(h) + Len(d)
        /\ \A i \in 1..Len(h) : (h \o d)[i] = h[i]
    BY <1>10, ConcatFields
  <2>2. ASSUME NEW x \in Range(h) PROVE x \in Range(h \o d)
    <3>1. PICK i \in 1..Len(h) : x = h[i]
      BY <1>10, RangeSeq
    <3>2. i \in 1..Len(h \o d) /\ (h \o d)[i] = x
      BY <1>10, <2>1, <3>1
    <3> QED BY <2>1, <3>2, RangeSeq
  <2> QED BY <1>9, <2>2, Zenon
<1>12. Symbolled(r, bit, mark, s)
  BY <1>3, <1>6, <1>7, <1>8, <1>11, Zenon DEF h, Processed, Symbolled
<1> QED BY <1>1, <1>12, Zenon DEF bit, s

--------------------------------------------------------------------------------
(* What the kth bit of a frame puts on the air, after m bits of the signal.*)
StuffPlace(acc, f, k, m) ==
  /\ acc[k - 1].ones \in 0..4 /\ f[k] \in Bit
  /\ m \in Nat /\ m < Len(acc[k].out) /\ Len(acc[k].out) <= Len(Stuffed(f))
  /\ f[k] = 0 =>
       Len(acc[k].out) = m + 1 /\ acc[k].ones = 0 /\ Stuffed(f)[m + 1] = 0
  /\ f[k] = 1 /\ acc[k - 1].ones < 4 =>
       /\ Len(acc[k].out) = m + 1 /\ acc[k].ones = acc[k - 1].ones + 1
       /\ Stuffed(f)[m + 1] = 1
  /\ f[k] = 1 /\ acc[k - 1].ones = 4 =>
       /\ Len(acc[k].out) = m + 2 /\ acc[k].ones = 0
       /\ Stuffed(f)[m + 1] = 1 /\ Stuffed(f)[m + 2] = 0

(* The kth bit of a frame puts itself on the air, and a zero after the     *)
(* fifth one in a row.                                                     *)
LEMMA StuffStep ==
  ASSUME NEW f \in Seq(Bit), NEW acc, Stuffs(acc, f), NEW k \in 1..Len(f)
  PROVE  StuffPlace(acc, f, k, Len(acc[k - 1].out))
<1> DEFINE a == acc[k - 1]
           z == acc[k]
           m == Len(a.out)
           p == Piece(a, f[k])
           st == Stuffed(f)
<1>1. k - 1 \in 0..Len(f) /\ k \in 0..Len(f) /\ f[k] \in Bit
  OBVIOUS
<1>2. a \in Accs /\ z = Emit(a, f[k]) /\ Begins(z.out, st)
  BY <1>1 DEF Stuffs
<1>3. a.ones \in 0..4 /\ a.out \in Seq(Bit) /\ m \in Nat
  BY <1>2 DEF Accs
<1>4. /\ p \in Seq(Bit) /\ z.out = a.out \o p /\ Len(z.out) = m + Len(p)
      /\ f[k] = 0 => p = <<0>> /\ z.ones = 0
      /\ f[k] = 1 /\ a.ones < 4 => p = <<1>> /\ z.ones = a.ones + 1
      /\ f[k] = 1 /\ a.ones = 4 => p = <<1, 0>> /\ z.ones = 0
  <2> DEFINE e == Emit(a, f[k])
  <2> HIDE DEF a
  <2>1. /\ p \in Seq(Bit) /\ e.out = a.out \o p /\ Len(e.out) = Len(a.out) + Len(p)
        /\ f[k] = 0 => p = <<0>> /\ e.ones = 0
        /\ f[k] = 1 /\ a.ones < 4 => p = <<1>> /\ e.ones = a.ones + 1
        /\ f[k] = 1 /\ a.ones = 4 => p = <<1, 0>> /\ e.ones = 0
    BY <1>1, <1>2, EmitTyped
  <2>2. z = e
    BY <1>2
  <2> HIDE DEF z, e, p
  <2> QED BY <2>1, <2>2, Zenon
<1> HIDE DEF a, z, p, st
<1>5. \A i \in 1..(m + Len(p)) : i > m => z.out[i] = p[i - m]
  <2>1. \A i \in 1..(Len(a.out) + Len(p)) : i > Len(a.out) => (a.out \o p)[i] = p[i - Len(a.out)]
    BY <1>3, <1>4, ConcatFields, Zenon
  <2> QED BY <1>4, <2>1, Zenon
<1>6. Len(z.out) <= Len(st) /\ \A i \in 1..Len(z.out) : st[i] = z.out[i]
  BY <1>2 DEF Begins
<1>7. ASSUME NEW x \in Bit, p = <<x>>
      PROVE  Len(z.out) = m + 1 /\ st[m + 1] = x
  <2>1. Len(p) = 1 /\ p[1] = x
    BY <1>7
  <2> HIDE DEF m
  <2> DEFINE i == m + 1
  <2>2. i \in 1..(m + Len(p)) /\ i > m /\ i - m = 1 /\ Len(z.out) = m + 1 /\ i \in 1..Len(z.out)
    BY <1>3, <1>4, <2>1
  <2> HIDE DEF i
  <2>3. st[i] = p[i - m]
    BY <1>5, <1>6, <2>2
  <2> QED BY <2>1, <2>2, <2>3 DEF i
<1>8. ASSUME p = <<1, 0>>
      PROVE  Len(z.out) = m + 2 /\ st[m + 1] = 1 /\ st[m + 2] = 0
  <2>1. Len(p) = 2 /\ p[1] = 1 /\ p[2] = 0
    BY <1>8
  <2> HIDE DEF m
  <2> DEFINE i == m + 1
             j == m + 2
  <2>2. /\ i \in 1..(m + Len(p)) /\ i > m /\ i - m = 1 /\ Len(z.out) = m + 2 /\ i \in 1..Len(z.out)
        /\ j \in 1..(m + Len(p)) /\ j > m /\ j - m = 2 /\ j \in 1..Len(z.out)
    BY <1>3, <1>4, <2>1
  <2> HIDE DEF i, j
  <2>3. st[i] = p[i - m] /\ st[j] = p[j - m]
    BY <1>5, <1>6, <2>2
  <2> QED BY <2>1, <2>2, <2>3 DEF i, j
<1>9. 0 \in Bit /\ 1 \in Bit
  BY DEF Bit
<1>10. f[k] = 0 => Len(z.out) = m + 1 /\ z.ones = 0 /\ st[m + 1] = 0
  BY <1>4, <1>7, <1>9, Zenon
<1>11. f[k] = 1 /\ a.ones < 4 => Len(z.out) = m + 1 /\ z.ones = a.ones + 1 /\ st[m + 1] = 1
  BY <1>4, <1>7, <1>9, Zenon
<1>12. f[k] = 1 /\ a.ones = 4 =>
         Len(z.out) = m + 2 /\ z.ones = 0 /\ st[m + 1] = 1 /\ st[m + 2] = 0
  BY <1>4, <1>8, Zenon
<1>13. m < Len(z.out)
  <2>1. f[k] = 0 \/ (f[k] = 1 /\ a.ones < 4) \/ (f[k] = 1 /\ a.ones = 4)
    BY <1>1, <1>3 DEF Bit
  <2> HIDE DEF m
  <2> QED BY <1>3, <1>10, <1>11, <1>12, <2>1
<1> HIDE DEF m
<1>14. StuffPlace(acc, f, k, m)
  BY <1>1, <1>3, <1>6, <1>10, <1>11, <1>12, <1>13, Zenon DEF StuffPlace, a, z, st
<1> QED BY <1>14 DEF m, a

--------------------------------------------------------------------------------
(* The receiver has the first k bits of f.                                 *)
FirstBits(f, k, b) == Len(b) = k /\ \A i \in 1..k : b[i] = f[i]

(* A receiver with the first k bits of a frame that takes the next one.    *)
LEMMA NextBit ==
  ASSUME NEW f \in Seq(Bit), NEW k \in Nat, NEW b \in Seq(Bit), FirstBits(f, k, b)
  PROVE  FirstBits(f, k + 1, Append(b, f[k + 1]))
<1>1. Len(b) = k /\ \A i \in 1..k : b[i] = f[i]
  BY DEF FirstBits
<1> DEFINE c == Append(b, f[k + 1])
<1>2. Len(c) = k + 1
  BY <1>1
<1>3. ASSUME NEW i \in 1..(k + 1) PROVE c[i] = f[i]
  BY <1>1
<1> HIDE DEF c
<1>4. FirstBits(f, k + 1, c)
  BY <1>2, <1>3 DEF FirstBits
<1> QED BY <1>4 DEF c

(* The shift register after so many ones at the end (place 1 for none): it *)
(* cannot be one zero from a flag.                                         *)
OnesLimit == <<128, 192, 224, 240, 248, 252>>

(* The bounds carry over from bit to bit and exclude the flag, which is    *)
(* 126.                                                                    *)
LEMMA RegisterLimit ==
  ASSUME NEW v \in 0..255, NEW o \in 0..5, v < OnesLimit[o + 1]
  PROVE  /\ v \div 2 + 128 * 0 < OnesLimit[1] /\ v \div 2 + 128 * 0 # 126
         /\ v \div 2 + 128 * 1 # 126 /\ v \div 2 + 128 * 1 \in 128..255
         /\ o < 5 => v \div 2 + 128 * 1 < OnesLimit[o + 2]
<1>1. v \div 2 \in 0..127 /\ 2 * (v \div 2) <= v /\ v <= 2 * (v \div 2) + 1
  OBVIOUS
<1>2. v < 252
  BY DEF OnesLimit
<1>3. o < 5 => v \div 2 + 128 < OnesLimit[o + 2]
  <2>1. CASE o = 0
    BY <1>1, <2>1 DEF OnesLimit
  <2>2. CASE o = 1
    BY <1>1, <2>2 DEF OnesLimit
  <2>3. CASE o = 2
    BY <1>1, <2>3 DEF OnesLimit
  <2>4. CASE o = 3
    BY <1>1, <2>4 DEF OnesLimit
  <2>5. CASE o = 4
    BY <1>1, <2>5 DEF OnesLimit
  <2>6. o = 0 \/ o = 1 \/ o = 2 \/ o = 3 \/ o = 4 \/ o = 5
    OBVIOUS
  <2> QED BY <2>1, <2>2, <2>3, <2>4, <2>5, <2>6
<1>4. OnesLimit[1] = 128
  BY DEF OnesLimit
<1> QED BY <1>1, <1>2, <1>3, <1>4

(* The receiver after n bits of the signal of f's data: it has the data    *)
(* bits those carry, and counts the ones as the modulator does; or it has  *)
(* the fifth one, and the stuffed zero is still to come.                   *)
InData(f, n, r, acc, k) ==
  /\ Stuffs(acc, f) /\ k \in 0..Len(f)
  /\ r.in_frame /\ FirstBits(f, k, r.bits)
  /\ r.ones_count \in 0..5 /\ r.sr < OnesLimit[r.ones_count + 1]
  /\ \/ n = Len(acc[k].out) /\ r.ones_count = acc[k].ones
     \/ /\ k >= 1 /\ n = Len(acc[k].out) - 1 /\ f[k] = 1 /\ acc[k - 1].ones = 4
        /\ r.ones_count = 5

(* A bit of the data signal keeps the receiver there.                      *)
LEMMA DataStep ==
  ASSUME NEW f \in Seq(Bit), Len(f) <= 8 * kMaxFrameBytes, NEW n \in Nat, n < Len(Stuffed(f)),
         NEW r, RxOK(r), NEW acc, NEW k, InData(f, n, r, acc, k),
         NEW mark, NEW s, Symbolled(r, Stuffed(f)[n + 1], mark, s)
  PROVE  \E k2 : InData(f, n + 1, s, acc, k2)
<1> DEFINE o == r.ones_count
           bit == Stuffed(f)[n + 1]
           l == Len(f)
<1>1. /\ Stuffs(acc, f) /\ k \in 0..l /\ l \in Nat /\ k \in Nat
      /\ r.in_frame /\ FirstBits(f, k, r.bits) /\ o \in 0..5 /\ r.sr < OnesLimit[o + 1]
  BY DEF InData
<1>2. r.sr \in 0..255 /\ r.bits \in Seq(Bit)
  BY RxFields DEF RxOK
<1>3. kMaxFrameBytes \in Nat /\ Len(r.bits) = k
  BY <1>1, HdlcAssumption DEF FirstBits
<1>4. Room(r)
  BY <1>1, <1>3 DEF Room
<1>5. s.sr = r.sr \div 2 + 128 * bit /\ (s.sr # 126 => TakesIn(r, bit, s))
  BY <1>1, Zenon DEF Symbolled
<1>6. /\ r.sr \div 2 + 128 * 0 < OnesLimit[1] /\ r.sr \div 2 + 128 * 0 # 126
      /\ r.sr \div 2 + 128 * 1 # 126
      /\ o < 5 => r.sr \div 2 + 128 * 1 < OnesLimit[o + 2]
  <2> HIDE DEF o
  <2> QED BY <1>1, <1>2, RegisterLimit
<1> HIDE DEF o, bit, l
<1>7. CASE n = Len(acc[k].out) /\ o = acc[k].ones
  <2> DEFINE k2 == k + 1
  <2>1. k2 \in 1..l /\ k2 - 1 = k /\ k2 \in 0..l
    <3>1. acc[l].out = Stuffed(f)
      BY <1>1 DEF Stuffs, l
    <3>2. k # l
      BY <1>7, <3>1
    <3> QED BY <1>1, <3>2
  <2> HIDE DEF k2
  <2>2. StuffPlace(acc, f, k2, n)
    <3>1. StuffPlace(acc, f, k2, Len(acc[k2 - 1].out))
      BY <1>1, <2>1, StuffStep, Zenon DEF l
    <3> QED BY <1>7, <2>1, <3>1, Zenon
  <2>3. FirstBits(f, k2, Append(r.bits, f[k2]))
    <3>1. k2 = k + 1
      BY DEF k2
    <3> QED BY <1>1, <1>2, <3>1, NextBit
  <2>4. /\ acc[k].ones \in 0..4 /\ f[k2] \in Bit
        /\ f[k2] = 0 => Len(acc[k2].out) = n + 1 /\ acc[k2].ones = 0 /\ bit = 0
        /\ f[k2] = 1 /\ o < 4 => Len(acc[k2].out) = n + 1 /\ acc[k2].ones = o + 1 /\ bit = 1
        /\ f[k2] = 1 /\ o = 4 => Len(acc[k2].out) = n + 2 /\ bit = 1
    BY <1>7, <2>1, <2>2, Zenon DEF StuffPlace, bit
  <2>5. CASE f[k2] = 0
    <3>1. bit = 0 /\ o # 5
      BY <1>7, <2>4, <2>5
    <3>2. s.sr # 126 /\ s.sr < OnesLimit[0 + 1]
      BY <1>5, <1>6, <3>1
    <3>3. s.in_frame /\ s.ones_count = 0 /\ s.bits = Append(r.bits, 0)
      BY <1>4, <1>5, <3>1, <3>2, Zenon DEF TakesIn, o
    <3>4. FirstBits(f, k2, s.bits) /\ n + 1 = Len(acc[k2].out) /\ s.ones_count = acc[k2].ones
      BY <2>3, <2>4, <2>5, <3>3, Zenon
    <3>5. 0 \in 0..5 /\ s.ones_count \in 0..5
      BY <3>3
    <3>6. InData(f, n + 1, s, acc, k2)
      BY <1>1, <2>1, <3>2, <3>3, <3>4, <3>5, Zenon DEF InData, l
    <3> QED BY <3>6, Zenon
  <2>6. CASE f[k2] = 1 /\ o < 4
    <3>1. bit = 1 /\ o < 6 /\ o < 5 /\ o + 1 \in 0..5 /\ (o + 1) + 1 = o + 2
      BY <1>1, <2>4, <2>6
    <3>2. s.sr # 126 /\ s.sr < OnesLimit[o + 2]
      BY <1>5, <1>6, <3>1, Zenon
    <3>3. s.in_frame /\ s.ones_count = o + 1 /\ s.bits = Append(r.bits, 1)
      BY <1>4, <1>5, <3>1, <3>2, Zenon DEF TakesIn, o
    <3>4. FirstBits(f, k2, s.bits) /\ n + 1 = Len(acc[k2].out) /\ s.ones_count = acc[k2].ones
      BY <2>3, <2>4, <2>6, <3>3, Zenon
    <3>5. s.ones_count \in 0..5 /\ s.sr < OnesLimit[s.ones_count + 1]
      BY <3>1, <3>2, <3>3, Zenon
    <3>6. InData(f, n + 1, s, acc, k2)
      BY <1>1, <2>1, <3>3, <3>4, <3>5, Zenon DEF InData, l
    <3> QED BY <3>6, Zenon
  <2>7. CASE f[k2] = 1 /\ o = 4
    <3>1. bit = 1 /\ o < 6 /\ o < 5 /\ o + 1 = 5 /\ o + 2 = 6 /\ 5 + 1 = 6 /\ 5 \in 0..5
      BY <1>1, <2>4, <2>7
    <3>2. s.sr # 126 /\ s.sr < OnesLimit[6]
      BY <1>5, <1>6, <3>1, Zenon
    <3>3. s.in_frame /\ s.ones_count = 5 /\ s.bits = Append(r.bits, 1)
      BY <1>4, <1>5, <3>1, <3>2, Zenon DEF TakesIn, o
    <3>4. FirstBits(f, k2, s.bits)
      BY <2>3, <2>7, <3>3, Zenon
    <3>5. k2 >= 1 /\ n + 1 = Len(acc[k2].out) - 1 /\ acc[k2 - 1].ones = 4
      <4>1. k2 >= 1 /\ n + 1 = (n + 2) - 1
        BY <2>1
      <4> QED BY <1>7, <2>1, <2>4, <2>7, <4>1, Zenon
    <3>6. s.ones_count \in 0..5 /\ s.sr < OnesLimit[s.ones_count + 1]
      BY <3>1, <3>2, <3>3, Zenon
    <3>7. InData(f, n + 1, s, acc, k2)
      BY <1>1, <2>1, <2>7, <3>3, <3>4, <3>5, <3>6, Zenon DEF InData, l
    <3> QED BY <3>7, Zenon
  <2> QED
    <3>1. f[k2] = 0 \/ (f[k2] = 1 /\ o < 4) \/ (f[k2] = 1 /\ o = 4)
      BY <1>7, <2>4 DEF Bit
    <3> QED BY <2>5, <2>6, <2>7, <3>1, Zenon
<1>8. CASE k >= 1 /\ n = Len(acc[k].out) - 1 /\ f[k] = 1 /\ acc[k - 1].ones = 4 /\ o = 5
  <2>1. k \in 1..l
    BY <1>1, <1>8
  <2> DEFINE m == Len(acc[k - 1].out)
  <2>2. StuffPlace(acc, f, k, m)
    BY <1>1, <2>1, StuffStep, Zenon DEF l
  <2> HIDE DEF m
  <2>3. m \in Nat /\ Len(acc[k].out) = m + 2 /\ acc[k].ones = 0 /\ Stuffed(f)[m + 2] = 0
    BY <1>8, <2>2, Zenon DEF StuffPlace
  <2>4. n + 1 = m + 2 /\ n + 1 = Len(acc[k].out)
    BY <1>8, <2>3
  <2>5. bit = 0
    BY <2>3, <2>4, Zenon DEF bit
  <2>6. s.sr # 126 /\ s.sr < OnesLimit[0 + 1]
    BY <1>5, <1>6, <2>5
  <2>7. s.in_frame /\ s.ones_count = 0 /\ s.bits = r.bits
    BY <1>5, <1>8, <2>5, <2>6, Zenon DEF TakesIn, o
  <2>8. 0 \in 0..5
    OBVIOUS
  <2>9. s.ones_count \in 0..5 /\ s.sr < OnesLimit[s.ones_count + 1]
    BY <2>6, <2>7, <2>8, Zenon
  <2>10. FirstBits(f, k, s.bits) /\ s.ones_count = acc[k].ones
    BY <1>1, <2>3, <2>7, Zenon
  <2>11. InData(f, n + 1, s, acc, k)
    BY <1>1, <2>4, <2>7, <2>9, <2>10, Zenon DEF InData, l
  <2> QED BY <2>11, Zenon
<1> QED BY <1>7, <1>8 DEF InData, o

(* The shift register after the first j bits of a flag.                    *)
FlagLow == <<0, 0, 128, 192, 224, 240, 248, 252, 126>>
FlagHigh == <<255, 127, 191, 223, 239, 247, 251, 253, 126>>
InFlag(j, v) == v \in 0..255 /\ FlagLow[j + 1] <= v /\ v <= FlagHigh[j + 1]

(* They carry over from bit to bit of a flag, and only its last bit makes  *)
(* 126.                                                                    *)
LEMMA FlagRegister ==
  ASSUME NEW j \in 0..7, NEW v \in 0..255, InFlag(j, v)
  PROVE  /\ InFlag(j + 1, v \div 2 + 128 * Flag[j + 1])
         /\ j \in 1..6 => v \div 2 + 128 * Flag[j + 1] # 126
         /\ j = 7 => v \div 2 + 128 * Flag[j + 1] = 126
<1> DEFINE h == v \div 2
<1>1. h \in 0..127 /\ 2 * h <= v /\ v <= 2 * h + 1
  OBVIOUS
<1> HIDE DEF h
<1>2. FlagLow[j + 1] <= v /\ v <= FlagHigh[j + 1]
  BY DEF InFlag
<1> DEFINE w == h + 128 * Flag[j + 1]
<1> USE <1>1, <1>2 DEF InFlag, FlagLow, FlagHigh, Flag
<1>3. CASE j = 0
  <2>1. w = h /\ 0 <= w /\ w <= 127
    BY <1>3
  <2> QED BY <1>3, <2>1 DEF h
<1>4. CASE j = 1
  <2>1. w = h + 128 /\ h <= 63
    BY <1>4
  <2> QED BY <1>4, <2>1 DEF h
<1>5. CASE j = 2
  <2>1. w = h + 128 /\ 64 <= h /\ h <= 95
    BY <1>5
  <2> QED BY <1>5, <2>1 DEF h
<1>6. CASE j = 3
  <2>1. w = h + 128 /\ 96 <= h /\ h <= 111
    BY <1>6
  <2> QED BY <1>6, <2>1 DEF h
<1>7. CASE j = 4
  <2>1. w = h + 128 /\ 112 <= h /\ h <= 119
    BY <1>7
  <2> QED BY <1>7, <2>1 DEF h
<1>8. CASE j = 5
  <2>1. w = h + 128 /\ 120 <= h /\ h <= 123
    BY <1>8
  <2> QED BY <1>8, <2>1 DEF h
<1>9. CASE j = 6
  <2>1. w = h + 128 /\ 124 <= h /\ h <= 125
    BY <1>9
  <2> QED BY <1>9, <2>1 DEF h
<1>10. CASE j = 7
  <2>1. w = h /\ h = 126
    BY <1>10
  <2> QED BY <1>10, <2>1 DEF h
<1>11. j = 0 \/ j = 1 \/ j = 2 \/ j = 3 \/ j = 4 \/ j = 5 \/ j = 6 \/ j = 7
  OBVIOUS
<1> QED BY <1>3, <1>4, <1>5, <1>6, <1>7, <1>8, <1>9, <1>10, <1>11, Zenon

(* The receiver after the first j bits of the flag that ends f: it takes   *)
(* them for data until the last one.                                       *)
InTail(f, j, r) ==
  /\ r.in_frame /\ Len(r.bits) = Len(f) + j /\ \A i \in 1..Len(f) : r.bits[i] = f[i]
  /\ r.ones_count = j - 1 /\ InFlag(j, r.sr)

(* The first bit of the tail flag, after the data.                         *)
LEMMA TailStart ==
  ASSUME NEW f \in Seq(Bit), Len(f) <= 8 * kMaxFrameBytes,
         NEW r, RxOK(r), NEW acc, NEW k, InData(f, Len(Stuffed(f)), r, acc, k),
         NEW mark, NEW s, Symbolled(r, 0, mark, s)
  PROVE  InTail(f, 1, s)
<1> DEFINE L == Len(Stuffed(f))
           l == Len(f)
<1>1. /\ Stuffs(acc, f) /\ k \in 0..l /\ l \in Nat
      /\ r.in_frame /\ FirstBits(f, k, r.bits) /\ r.ones_count \in 0..5
      /\ r.sr < OnesLimit[r.ones_count + 1]
  BY DEF InData
<1>2. acc[l].out = Stuffed(f) /\ \A i \in 0..l : Len(acc[i].out) <= L
  BY <1>1 DEF Stuffs, Begins
<1>3. acc[k] \in Accs /\ acc[k].out \in Seq(Bit) /\ Len(acc[k].out) \in Nat
      /\ acc[k].ones \in 0..4
  BY <1>1 DEF Stuffs, Accs
<1>4. Len(acc[k].out) = L /\ r.ones_count = acc[k].ones
  <2>1. Len(acc[k].out) <= L
    BY <1>1, <1>2
  <2>2. \/ L = Len(acc[k].out) /\ r.ones_count = acc[k].ones
        \/ L = Len(acc[k].out) - 1
    BY DEF InData
  <2>3. L # Len(acc[k].out) - 1
    <3> HIDE DEF L
    <3> QED BY <1>3, <2>1
  <2> QED BY <2>2, <2>3
<1>5. k = l
  <2> SUFFICES ASSUME k # l PROVE FALSE
    OBVIOUS
  <2> DEFINE k2 == k + 1
  <2>1. k2 \in 1..l /\ k2 - 1 = k /\ k2 \in 0..l
    BY <1>1
  <2> HIDE DEF k2
  <2>2. StuffPlace(acc, f, k2, Len(acc[k2 - 1].out))
    BY <1>1, <2>1, StuffStep, Zenon DEF l
  <2>3. L < Len(acc[k2].out) /\ Len(acc[k2].out) <= L /\ L \in Nat
    BY <1>3, <1>4, <2>1, <2>2, Zenon DEF StuffPlace, L
  <2>4. Len(acc[k2].out) \in Nat
    <3>1. acc[k2] \in Accs
      BY <1>1, <2>1 DEF Stuffs
    <3> QED BY <3>1 DEF Accs
  <2> HIDE DEF L
  <2> QED BY <2>3, <2>4
<1>6. r.sr \in 0..255 /\ r.bits \in Seq(Bit) /\ kMaxFrameBytes \in Nat
      /\ Len(r.bits) = l /\ \A i \in 1..l : r.bits[i] = f[i]
  BY <1>1, <1>5, RxFields, HdlcAssumption DEF RxOK, FirstBits
<1>7. Room(r)
  BY <1>6 DEF Room
<1>8. r.ones_count # 5
  BY <1>3, <1>4
<1>9. r.sr \div 2 + 128 * 0 < OnesLimit[1] /\ r.sr \div 2 + 128 * 0 # 126
  BY <1>1, <1>6, RegisterLimit
<1>10. s.sr = r.sr \div 2 + 128 * 0
  BY Zenon DEF Symbolled
<1>11. TakesIn(r, 0, s)
  BY <1>1, <1>9, <1>10, Zenon DEF Symbolled
<1>12. s.in_frame /\ s.ones_count = 0 /\ s.bits = Append(r.bits, 0)
  BY <1>7, <1>8, <1>11, Zenon DEF TakesIn
<1>13. InFlag(1, s.sr)
  <2> DEFINE v == r.sr
             w == s.sr
  <2>1. v \in 0..255 /\ w = v \div 2 + 128 * 0
    BY <1>6, <1>10
  <2> HIDE DEF v, w
  <2>2. w \in 0..127
    BY <2>1
  <2>3. FlagLow[1 + 1] = 0 /\ FlagHigh[1 + 1] = 127
    BY DEF FlagLow, FlagHigh
  <2>4. w \in 0..255 /\ FlagLow[1 + 1] <= w /\ w <= FlagHigh[1 + 1]
    BY <2>2, <2>3
  <2> QED BY <2>4, Zenon DEF InFlag, w
<1>14. Len(s.bits) = l + 1 /\ \A i \in 1..l : s.bits[i] = f[i]
  BY <1>6, <1>12
<1>15. s.ones_count = 1 - 1
  BY <1>12
<1> QED BY <1>12, <1>13, <1>14, <1>15, Zenon DEF InTail, l

(* The six ones of the tail flag.                                          *)
LEMMA TailStep ==
  ASSUME NEW f \in Seq(Bit), Len(f) <= 8 * kMaxFrameBytes, NEW j \in 1..6,
         NEW r, RxOK(r), InTail(f, j, r),
         NEW mark, NEW s, Symbolled(r, 1, mark, s)
  PROVE  InTail(f, j + 1, s)
<1> DEFINE l == Len(f)
<1>1. /\ r.in_frame /\ Len(r.bits) = l + j /\ l \in Nat /\ \A i \in 1..l : r.bits[i] = f[i]
      /\ r.ones_count = j - 1 /\ InFlag(j, r.sr)
  BY DEF InTail
<1>2. r.sr \in 0..255 /\ r.bits \in Seq(Bit) /\ kMaxFrameBytes \in Nat
  BY RxFields, HdlcAssumption DEF RxOK
<1>3. Room(r)
  BY <1>1, <1>2 DEF Room
<1>4. r.ones_count < 6 /\ r.ones_count + 1 = (j + 1) - 1
  BY <1>1
<1>5. Flag[j + 1] = 1
  BY DEF Flag
<1>6. InFlag(j + 1, r.sr \div 2 + 128 * 1) /\ r.sr \div 2 + 128 * 1 # 126
  <2>1. j \in 0..7
    OBVIOUS
  <2>2. /\ InFlag(j + 1, r.sr \div 2 + 128 * Flag[j + 1])
        /\ r.sr \div 2 + 128 * Flag[j + 1] # 126
    BY <1>1, <1>2, <2>1, FlagRegister
  <2> QED BY <1>5, <2>2
<1>7. s.sr = r.sr \div 2 + 128 * 1
  BY Zenon DEF Symbolled
<1>8. TakesIn(r, 1, s)
  BY <1>1, <1>6, <1>7, Zenon DEF Symbolled
<1>9. s.in_frame /\ s.ones_count = r.ones_count + 1 /\ s.bits = Append(r.bits, 1)
  BY <1>3, <1>4, <1>8, Zenon DEF TakesIn
<1>10. Len(s.bits) = l + (j + 1) /\ \A i \in 1..l : s.bits[i] = f[i]
  BY <1>1, <1>2, <1>9
<1>11. s.ones_count = (j + 1) - 1 /\ InFlag(j + 1, s.sr)
  BY <1>4, <1>6, <1>7, <1>9, Zenon
<1> QED BY <1>9, <1>10, <1>11, Zenon DEF InTail, l

(* The last bit of the flag delivers the frame.                            *)
LEMMA TailEnd ==
  ASSUME NEW f \in Frames, NEW r, RxOK(r), InTail(f, 7, r),
         NEW mark, NEW s, Symbolled(r, 0, mark, s)
  PROVE  f \in Range(s.heard)
<1> DEFINE b == r.bits
<1>1. f \in Seq(Bit)
  BY FrameChecked
<1>2. PICK n : Checked(f, n)
  BY FrameChecked
<1>3. /\ n \in Nat /\ n >= 4 /\ Len(f) = 8 * n
      /\ fcs(SubSeq(f, 1, 8 * (n - 2))) = SubSeq(f, 8 * (n - 2) + 1, 8 * (n - 2) + 16)
  BY <1>2 DEF Checked
<1>4. /\ r.in_frame /\ Len(b) = Len(f) + 7 /\ \A i \in 1..Len(f) : b[i] = f[i]
      /\ InFlag(7, r.sr)
  BY DEF InTail
<1>5. r \in Receivers /\ r.sr \in 0..255 /\ b \in Seq(Bit) /\ r.heard \in Seq(Seq(Bit))
  BY RxFields DEF RxOK
<1>6. s.sr = 126
  <2> DEFINE v == r.sr
             w == s.sr
  <2>1. w = v \div 2 + 128 * 0
    BY Zenon DEF Symbolled
  <2>2. v \in 0..255 /\ 252 <= v /\ v <= 253
    BY <1>4, <1>5 DEF InFlag, FlagLow, FlagHigh
  <2> HIDE DEF v, w
  <2>3. w = 126
    BY <2>1, <2>2
  <2> QED BY <2>3 DEF w
<1>7. s.heard = r.heard \o Dispatched(r)
  BY <1>6, Zenon DEF Symbolled
<1>8. FrameLen(r) = n
  BY <1>3, <1>4 DEF FrameLen
<1> DEFINE N == 8 * (n - 2)
<1>9. N \in Nat /\ N > 0 /\ N + 16 = Len(f) /\ Len(f) \in Nat
  BY <1>3
<1> HIDE DEF b, N
<1>10. ASSUME NEW lo \in Int, NEW hi \in Int, 1 <= lo, lo <= hi, hi <= Len(f)
       PROVE  SubSeq(b, lo, hi) = SubSeq(f, lo, hi)
  <2> DEFINE x == SubSeq(b, lo, hi)
             y == SubSeq(f, lo, hi)
             m == hi - lo + 1
  <2>1. \A i \in lo..hi : i \in 1..Len(f) /\ f[i] \in Bit /\ b[i] = f[i] /\ b[i] \in Bit
    BY <1>1, <1>4, <1>9, <1>10
  <2>2. y \in Seq(Bit) /\ Len(y) = m /\ \A i \in 1..m : y[i] = f[lo + i - 1]
    BY <1>10, <2>1, SubSeqProperties
  <2>3. x \in Seq(Bit) /\ Len(x) = m /\ \A i \in 1..m : x[i] = b[lo + i - 1]
    BY <1>10, <2>1, SubSeqProperties
  <2>4. \A i \in 1..m : lo + i - 1 \in lo..hi
    BY <1>10
  <2> HIDE DEF x, y, m
  <2>5. \A i \in 1..m : x[i] = y[i]
    BY <2>1, <2>2, <2>3, <2>4
  <2>6. x = y
    BY <2>2, <2>3, <2>5, SeqEqual
  <2> QED BY <2>6 DEF x, y
<1>11. SubSeq(b, 1, N) = SubSeq(f, 1, N)
  <2>1. 1 \in Int /\ N \in Int /\ 1 <= 1 /\ 1 <= N /\ N <= Len(f)
    BY <1>9
  <2> QED BY <1>10, <2>1
<1>12. SubSeq(b, N + 1, N + 16) = SubSeq(f, N + 1, N + 16)
  <2> DEFINE lo == N + 1
             hi == N + 16
  <2>1. lo \in Int /\ hi \in Int /\ 1 <= lo /\ lo <= hi /\ hi <= Len(f)
    BY <1>9
  <2> HIDE DEF lo, hi
  <2>2. SubSeq(b, lo, hi) = SubSeq(f, lo, hi)
    BY <1>10, <2>1
  <2> QED BY <2>2 DEF lo, hi
<1>13. SubSeq(b, 1, N + 16) = f
  <2> DEFINE m == Len(f)
  <2>1. 1 \in Int /\ m \in Int /\ 1 <= 1 /\ 1 <= m /\ m <= Len(f) /\ m - 1 + 1 = m
        /\ \A i \in 1..m : f[i] \in Bit /\ 1 + i - 1 = i
    BY <1>1, <1>9
  <2> HIDE DEF m
  <2>2. SubSeq(b, 1, m) = SubSeq(f, 1, m)
    BY <1>10, <2>1
  <2>3. SubSeq(f, 1, m) = f
    <3> DEFINE y == SubSeq(f, 1, m)
    <3>1. y \in Seq(Bit) /\ Len(y) = m /\ \A i \in 1..m : y[i] = f[i]
      BY <2>1, SubSeqProperties
    <3>2. Len(f) = m
      BY DEF m
    <3> HIDE DEF y
    <3>3. y = f
      BY <1>1, <3>1, <3>2, SeqEqual
    <3> QED BY <3>3 DEF y
  <2> QED BY <1>9, <2>2, <2>3 DEF m
<1>14. Dispatched(r) = <<f>>
  <2>1. Dispatched(r) =
          IF r.in_frame /\ n >= 4 /\ fcs(SubSeq(b, 1, N)) = SubSeq(b, N + 1, N + 16)
          THEN <<SubSeq(b, 1, N + 16)>> ELSE <<>>
    BY <1>8, Zenon DEF Dispatched, b, N
  <2>2. fcs(SubSeq(b, 1, N)) = SubSeq(b, N + 1, N + 16)
    BY <1>3, <1>11, <1>12, Zenon DEF N
  <2> QED BY <1>3, <1>4, <1>13, <2>1, <2>2, Zenon
<1>15. <<f>> \in Seq(Seq(Bit)) /\ Len(<<f>>) = 1 /\ <<f>>[1] = f
  BY <1>1
<1> DEFINE h == r.heard
           d == <<f>>
<1>16. h \in Seq(Seq(Bit)) /\ d \in Seq(Seq(Bit)) /\ Len(d) = 1 /\ d[1] = f /\ s.heard = h \o d
  BY <1>5, <1>7, <1>14, <1>15
<1> HIDE DEF h, d
<1>17. h \o d \in Seq(Seq(Bit)) /\ Len(h \o d) = Len(h) + Len(d)
       /\ \A i \in 1..(Len(h) + Len(d)) : i > Len(h) => (h \o d)[i] = d[i - Len(h)]
  BY <1>16, ConcatFields
<1> DEFINE i == Len(h) + 1
<1>18. i \in 1..(Len(h) + Len(d)) /\ i > Len(h) /\ i - Len(h) = 1
  BY <1>16
<1> HIDE DEF i
<1>19. (h \o d)[i] = f /\ i \in 1..Len(h \o d)
  BY <1>16, <1>17, <1>18
<1> DEFINE e == h \o d
<1>20. e \in Seq(Seq(Bit)) /\ i \in 1..Len(e) /\ e[i] = f /\ s.heard = e
  BY <1>16, <1>17, <1>19
<1> HIDE DEF e
<1>21. e[i] \in Range(e)
  BY <1>20, RangeSeq
<1> QED BY <1>20, <1>21, Zenon

--------------------------------------------------------------------------------
(* Where the signal of f has its first data bit, and where its data ends.  *)
DataAt == Start + 8
TailAt(f) == Start + 8 + Len(Stuffed(f))

(* How far a receiver has come that hears the critical part of f's signal  *)
(* as it is sent: after p symbols, the last of them t.                     *)
OnCourse(f, p, t, r) ==
  /\ p \in Start..(TailAt(f) + 8) => r.nrzi_prev = t
  /\ \A j \in 1..7 : p = Start + j => InFlag(j, r.sr)
  /\ p \in DataAt..TailAt(f) => \E acc, k : InData(f, p - DataAt, r, acc, k)
  /\ \A j \in 1..7 : p = TailAt(f) + j => InTail(f, j, r)
  /\ p >= TailAt(f) + 8 => f \in Range(r.heard)

(* A symbol that arrives keeps it on course.                               *)
LEMMA CourseStep ==
  ASSUME NEW f \in Frames, Len(f) <= 8 * kMaxFrameBytes,
         NEW p \in Nat, p < Len(Signal[f]), NEW t \in BOOLEAN, NEW u \in BOOLEAN,
         u = IF Signal[f][p + 1] = 0 THEN ~t ELSE t,
         NEW r, RxOK(r), OnCourse(f, p, t, r),
         NEW s, Symbolled(r, Decoded(r, u), u, s)
  PROVE  OnCourse(f, p + 1, u, s)
<1> DEFINE L == Len(Stuffed(f))
           T == TailAt(f)
           D == DataAt
           x == p + 1
           bit == Signal[f][x]
<1>1. f \in Seq(Bit)
  BY FrameChecked
<1>2. /\ Start \in Nat /\ Start > 0 /\ L \in Nat /\ Stuffed(f) \in Seq(Bit)
      /\ Signal[f] \in Seq(Bit) /\ Len(Signal[f]) = Start + 8 + L + 8 * kTailFlags
      /\ \A j \in 1..8 : Signal[f][Start + j] = Flag[j]
      /\ \A j \in 1..L : Signal[f][Start + 8 + j] = Stuffed(f)[j]
      /\ \A j \in 1..8 : Signal[f][Start + 8 + L + j] = Flag[j]
  BY SignalParts, Zenon
<1>3. D = Start + 8 /\ T = D + L /\ D \in Nat /\ T \in Nat
  <2>1. Start \in Nat /\ L \in Nat
    BY <1>2, Zenon
  <2>2. D = Start + 8 /\ T = Start + 8 + L
    BY Zenon DEF DataAt, TailAt
  <2> HIDE DEF D, T, L
  <2> QED BY <2>1, <2>2
<1>4. /\ \A j \in 1..8 : Signal[f][Start + j] = Flag[j]
      /\ \A j \in 1..L : Signal[f][D + j] = Stuffed(f)[j]
      /\ \A j \in 1..8 : Signal[f][T + j] = Flag[j]
  BY <1>2, <1>3
<1>5. x \in Nat /\ x = p + 1 /\ bit \in {0, 1} /\ r.sr \in 0..255 /\ s.sr \in 0..255
  <2>1. x \in 1..Len(Signal[f])
    <3> DEFINE n == Len(Signal[f])
    <3>1. n = Start + 8 + L + 8 * kTailFlags /\ Start \in Nat /\ L \in Nat /\ p < n
      BY <1>2, Zenon
    <3>2. kTailFlags \in Nat
      BY HdlcAssumption
    <3> HIDE DEF n, L
    <3>3. x \in 1..n
      BY <3>1, <3>2
    <3> QED BY <3>3, Zenon DEF n
  <2>2. bit \in Bit
    <3> DEFINE sg == Signal[f]
    <3>1. sg \in Seq(Bit) /\ x \in 1..Len(sg)
      BY <1>2, <2>1
    <3> HIDE DEF sg, x
    <3>2. sg[x] \in Bit
      BY <3>1, ElementOfSeq
    <3> QED BY <3>2 DEF sg
  <2>3. r.sr \in 0..255 /\ s.sr \in 0..255
    BY RxFields DEF RxOK, Symbolled
  <2> QED BY <2>2, <2>3 DEF Bit
<1>6. /\ p \in Start..(T + 8) => r.nrzi_prev = t
      /\ \A j \in 1..7 : p = Start + j => InFlag(j, r.sr)
      /\ p \in D..T => \E acc, k : InData(f, p - D, r, acc, k)
      /\ \A j \in 1..7 : p = T + j => InTail(f, j, r)
      /\ p >= T + 8 => f \in Range(r.heard)
  BY Zenon DEF OnCourse
<1>7. p \in Start..(T + 8) => Symbolled(r, bit, u, s)
  <2> SUFFICES ASSUME p \in Start..(T + 8) PROVE Symbolled(r, bit, u, s)
    OBVIOUS
  <2>1. r.nrzi_prev = t /\ u = IF bit = 0 THEN ~t ELSE t
    BY <1>6
  <2> HIDE DEF bit
  <2>2. bit = 0 => Decoded(r, u) = bit
    BY <2>1 DEF Decoded
  <2>3. bit = 1 => Decoded(r, u) = bit
    BY <2>1 DEF Decoded
  <2>4. Decoded(r, u) = bit
    BY <1>5, <2>2, <2>3
  <2> QED BY <2>4
<1> HIDE DEF L, T, D, bit
<1>8. x \in Start..(T + 8) => s.nrzi_prev = u
  BY Zenon DEF Symbolled
<1>9. ASSUME NEW j \in 0..7, p = Start + j, InFlag(j, r.sr)
      PROVE  InFlag(j + 1, s.sr) /\ (j = 7 => s.sr = 126)
  <2>1. p \in Start..(T + 8) /\ j + 1 \in 1..8 /\ x = Start + (j + 1)
    BY <1>2, <1>3, <1>5, <1>9
  <2>2. bit = Flag[j + 1]
    <3> DEFINE m == j + 1
    <3>1. m \in 1..8 /\ x = Start + m
      BY <2>1
    <3> HIDE DEF m, x
    <3>2. Signal[f][x] = Flag[m]
      BY <1>4, <3>1
    <3> QED BY <3>2 DEF m, bit
  <2>3. s.sr = r.sr \div 2 + 128 * Flag[j + 1]
    BY <1>7, <2>1, <2>2, Zenon DEF Symbolled
  <2>4. /\ InFlag(j + 1, r.sr \div 2 + 128 * Flag[j + 1])
        /\ j = 7 => r.sr \div 2 + 128 * Flag[j + 1] = 126
    BY <1>5, <1>9, FlagRegister
  <2> QED BY <2>3, <2>4, Zenon
<1>10. InFlag(0, r.sr)
  <2> DEFINE v == r.sr
  <2>1. FlagLow[0 + 1] = 0 /\ FlagHigh[0 + 1] = 255
    BY DEF FlagLow, FlagHigh
  <2>2. v \in 0..255
    BY <1>5, Zenon
  <2> HIDE DEF v
  <2>3. FlagLow[0 + 1] <= v /\ v <= FlagHigh[0 + 1]
    BY <2>1, <2>2
  <2>4. InFlag(0, v)
    BY <2>2, <2>3, Zenon DEF InFlag
  <2> QED BY <2>4, Zenon DEF v
<1>11. ASSUME NEW j \in 1..7, x = Start + j PROVE InFlag(j, s.sr)
  <2> DEFINE m == j - 1
  <2>1. m \in 0..7 /\ p = Start + m /\ m + 1 = j /\ (m = 0 \/ m \in 1..7)
    BY <1>2, <1>5, <1>11
  <2> HIDE DEF m
  <2>2. InFlag(m, r.sr)
    BY <1>6, <1>10, <2>1
  <2>3. InFlag(m + 1, s.sr)
    BY <1>9, <2>1, <2>2
  <2> QED BY <2>1, <2>3
<1>12. ASSUME x \in D..T PROVE \E acc, k : InData(f, x - D, s, acc, k)
  <2>1. CASE x = D
    <3>1. 7 \in 0..7 /\ 7 \in 1..7 /\ p = Start + 7 /\ p \in Start..(T + 8) /\ x - D = 0
      BY <1>2, <1>3, <1>5, <2>1
    <3>2. s.sr = 126
      BY <1>6, <1>9, <3>1
    <3>3. s.in_frame /\ s.bits = <<>> /\ s.ones_count = 0
      BY <1>7, <3>1, <3>2, Zenon DEF Symbolled
    <3>4. PICK acc : Stuffs(acc, f)
      BY <1>1, Stuffing
    <3>5. acc[0].out = <<>> /\ acc[0].ones = 0 /\ Len(acc[0].out) = 0
      BY <3>4 DEF Stuffs
    <3>6. 0 \in 0..Len(f)
      BY <1>1
    <3>7. FirstBits(f, 0, s.bits)
      BY <3>3 DEF FirstBits
    <3>8. s.ones_count \in 0..5 /\ s.sr < OnesLimit[s.ones_count + 1]
      BY <3>2, <3>3 DEF OnesLimit
    <3>9. InData(f, 0, s, acc, 0)
      BY <3>3, <3>4, <3>5, <3>6, <3>7, <3>8, Zenon DEF InData
    <3> QED BY <3>1, <3>9, Zenon
  <2>2. CASE x # D
    <3> DEFINE n == p - D
    <3>1. p \in D..T /\ p \in Start..(T + 8) /\ n \in Nat /\ n < L /\ x - D = n + 1
          /\ n + 1 \in 1..L /\ x = D + (n + 1)
      BY <1>2, <1>3, <1>5, <1>12, <2>2
    <3> HIDE DEF n
    <3>2. bit = Stuffed(f)[n + 1]
      <4> DEFINE m == n + 1
      <4>1. m \in 1..L /\ x = D + m
        BY <3>1
      <4> HIDE DEF m, x
      <4>2. Signal[f][x] = Stuffed(f)[m]
        BY <1>4, <4>1
      <4> QED BY <4>2 DEF m, bit
    <3>3. PICK acc, k : InData(f, n, r, acc, k)
      BY <1>6, <3>1 DEF n
    <3>4. Symbolled(r, Stuffed(f)[n + 1], u, s)
      BY <1>7, <3>1, <3>2, Zenon
    <3>5. \E k2 : InData(f, n + 1, s, acc, k2)
      <4>1. n < Len(Stuffed(f))
        BY <3>1 DEF L
      <4> QED BY <1>1, <3>1, <3>3, <3>4, <4>1, DataStep
    <3> QED BY <3>1, <3>5, Zenon
  <2> QED BY <2>1, <2>2
<1>13. ASSUME NEW j \in 1..7, x = T + j PROVE InTail(f, j, s)
  <2>a. p + 1 = T + j /\ 1 <= j /\ j <= 7 /\ j \in 1..8
    BY <1>5, <1>13
  <2>b. Start <= T /\ T \in Nat /\ Start \in Nat
    BY <1>2, <1>3
  <2>1. p \in Start..(T + 8) /\ j \in 1..8
    BY <2>a, <2>b
  <2>2. bit = Flag[j]
    <3> HIDE DEF x
    <3>1. Signal[f][x] = Flag[j]
      BY <1>4, <1>13, <2>1
    <3> QED BY <3>1 DEF bit
  <2>3. Symbolled(r, Flag[j], u, s)
    BY <1>7, <2>1, <2>2, Zenon
  <2>4. CASE j = 1
    <3>1. p \in D..T /\ p - D = L
      BY <1>3, <1>2, <1>5, <1>13, <2>4
    <3>2. PICK acc, k : InData(f, L, r, acc, k)
      BY <1>6, <3>1
    <3>3. Flag[1] = 0
      BY DEF Flag
    <3>4. InTail(f, 1, s)
      <4>1. Symbolled(r, 0, u, s)
        BY <2>3, <2>4, <3>3
      <4>2. InData(f, Len(Stuffed(f)), r, acc, k)
        BY <3>2 DEF L
      <4> QED BY <1>1, <4>1, <4>2, TailStart
    <3> QED BY <2>4, <3>4
  <2>5. CASE j # 1
    <3> DEFINE m == j - 1
    <3>1. m \in 1..6 /\ m \in 1..7 /\ p = T + m /\ m + 1 = j
      BY <1>3, <1>5, <1>13, <2>5
    <3> HIDE DEF m
    <3>2. InTail(f, m, r)
      BY <1>6, <3>1
    <3>3. Flag[j] = 1
      BY <2>5 DEF Flag
    <3>4. Symbolled(r, 1, u, s)
      BY <2>3, <3>3
    <3>5. InTail(f, m + 1, s)
      BY <1>1, <3>1, <3>2, <3>4, TailStep
    <3> QED BY <3>1, <3>5
  <2> QED BY <2>4, <2>5
<1>14. ASSUME x >= T + 8 PROVE f \in Range(s.heard)
  <2>1. CASE p >= T + 8
    BY <1>6, <2>1, Zenon DEF Symbolled
  <2>2. CASE ~(p >= T + 8)
    <3>1. p = T + 7 /\ 7 \in 1..7 /\ p \in Start..(T + 8) /\ x = T + 8 /\ 8 \in 1..8
      BY <1>2, <1>3, <1>5, <1>14, <2>2
    <3>2. InTail(f, 7, r)
      BY <1>6, <3>1
    <3>3. bit = 0
      <4>1. Flag[8] = 0
        BY DEF Flag
      <4> HIDE DEF x
      <4>2. Signal[f][x] = Flag[8]
        BY <1>4, <3>1
      <4> QED BY <4>1, <4>2 DEF bit
    <3>4. Symbolled(r, 0, u, s)
      BY <1>7, <3>1, <3>3
    <3> QED BY <3>2, <3>4, TailEnd
  <2> QED BY <2>1, <2>2
<1> QED BY <1>8, <1>11, <1>12, <1>13, <1>14, Zenon DEF OnCourse, T, D

--------------------------------------------------------------------------------
(* Types, with the bounds they rest on: a signal fits the buffer.          *)
SignalTypes ==
  /\ data \in Frames \cup {<<>>} /\ pos \in 0..MaxSymbols /\ tone \in BOOLEAN
  /\ RxOK(rx) /\ hits \subseteq 1..MaxSymbols /\ noise \in 0..MaxNoise
  /\ Sending => Len(Signal[data]) <= MaxSymbols /\ pos <= Len(Signal[data])

(* A receiver whose critical part is whole so far is on course.            *)
Course ==
  Sending /\ hits \cap Critical = {} /\ Len(data) <= 8 * kMaxFrameBytes
    => OnCourse(data, pos, tone, rx)

HdlcInv == SignalTypes /\ Course

(* At the start nobody sends.                                              *)
LEMMA HdlcInitInv == HdlcInit => HdlcInv
<1> SUFFICES ASSUME HdlcInit PROVE HdlcInv
  OBVIOUS
<1>1. data = <<>> /\ pos = 0 /\ tone = TRUE /\ rx = Rx0 /\ hits = {} /\ noise = 0
  BY DEF HdlcInit
<1>2. ~Sending
  BY <1>1 DEF Sending
<1>3. MaxSymbols \in Nat /\ MaxNoise \in Nat /\ kMaxFrameBytes \in Nat
  BY HdlcAssumption
<1>4. RxOK(Rx0)
  <2>1. <<>> \in Seq(Bit) /\ <<>> \in Seq(Seq(Bit)) /\ Len(<<>>) = 0
    BY EmptySeq
  <2>2. Rx0 \in Receivers
    BY <2>1 DEF Rx0, Receivers
  <2>3. Rx0.bits = <<>> /\ Rx0.in_frame = FALSE
    BY DEF Rx0
  <2>4. 0 <= 8 * kMaxFrameBytes + 7
    BY <1>3
  <2> QED BY <2>1, <2>2, <2>3, <2>4, Zenon DEF RxOK
<1>5. 0 \in 0..MaxSymbols /\ 0 \in 0..MaxNoise
  BY <1>3
<1>6. SignalTypes
  BY <1>1, <1>2, <1>4, <1>5, Zenon DEF SignalTypes
<1>7. Course
  BY <1>2, Zenon DEF Course
<1> QED BY <1>6, <1>7 DEF HdlcInv

(* The symbol that is sent next, and where it leaves the sender.           *)
LEMMA Advances ==
  ASSUME SignalTypes, Advance
  PROVE  /\ data \in Frames /\ data' = data /\ Sending /\ Sending' /\ noise' = noise
         /\ pos \in Nat /\ pos < Len(Signal[data]) /\ pos' = pos + 1
         /\ pos + 1 \in 1..MaxSymbols /\ pos + 1 \in 0..MaxSymbols
         /\ pos + 1 <= Len(Signal[data]) /\ Len(Signal[data]) <= MaxSymbols
         /\ NextTone \in BOOLEAN /\ (~NextTone) \in BOOLEAN /\ tone' = NextTone
         /\ NextTone = IF Signal[data][pos + 1] = 0 THEN ~tone ELSE tone
<1>1. /\ Sending /\ pos < Len(Signal[data]) /\ pos' = pos + 1 /\ tone' = NextTone
      /\ data' = data /\ noise' = noise
  BY DEF Advance
<1>2. data \in Frames /\ Sending'
  BY <1>1 DEF SignalTypes, Sending
<1> DEFINE n == Len(Signal[data])
<1>3. n \in Nat
  <2>1. Signal[data] \in Seq(Bit)
    BY <1>2, SignalParts, Zenon
  <2> DEFINE sg == Signal[data]
  <2> HIDE DEF sg
  <2>2. Len(sg) \in Nat
    BY <2>1 DEF sg
  <2> QED BY <2>2 DEF sg
<1>4. pos \in 0..MaxSymbols /\ n <= MaxSymbols /\ MaxSymbols \in Nat /\ tone \in BOOLEAN
  BY <1>1, HdlcAssumption DEF SignalTypes
<1> HIDE DEF n
<1>5. /\ pos \in Nat /\ pos + 1 \in 1..MaxSymbols /\ pos + 1 \in 0..MaxSymbols /\ pos + 1 <= n
  <2>1. pos < n
    BY <1>1 DEF n
  <2> QED BY <1>3, <1>4, <2>1
<1>6. /\ NextTone \in BOOLEAN /\ (~NextTone) \in BOOLEAN
      /\ NextTone = IF Signal[data][pos + 1] = 0 THEN ~tone ELSE tone
  <2>1. NextTone = IF Signal[data][pos + 1] = 0 THEN ~tone ELSE tone
    BY Zenon DEF NextTone
  <2>2. NextTone = tone \/ NextTone = ~tone
    BY <2>1, Zenon
  <2>3. NextTone = TRUE \/ NextTone = FALSE
    BY <1>4, <2>2, Zenon
  <2> HIDE DEF NextTone
  <2>4. NextTone \in BOOLEAN
    BY <2>3
  <2>5. (~NextTone) \in BOOLEAN
    BY <2>4
  <2> QED BY <2>1, <2>4, <2>5, Zenon
<1> QED BY <1>1, <1>2, <1>4, <1>5, <1>6, Zenon DEF n

(* The receiver after whatever reaches it of a symbol, and what it heard.  *)
LEMMA Reached ==
  ASSUME NEW r, RxOK(r), NEW mark \in BOOLEAN
  PROVE  RxOK(ProcessSymbol(r, mark)) /\ Range(r.heard) \subseteq Range(ProcessSymbol(r, mark).heard)
BY SymbolEffect, Zenon DEF Symbolled

(* Whatever arrives, the receiver keeps its types and what it has heard.   *)
LEMMA Arrival ==
  ASSUME SignalTypes, Symbol \/ Flip \/ Lose \/ Double
  PROVE  RxOK(rx') /\ Range(rx.heard) \subseteq Range(rx'.heard)
<1>1. RxOK(rx)
  BY DEF SignalTypes
<1>2. Advance
  BY DEF Symbol, Flip, Lose, Double
<1>3. NextTone \in BOOLEAN /\ (~NextTone) \in BOOLEAN
  BY <1>2, Advances, Zenon
<1> DEFINE m == NextTone
           a == ProcessSymbol(rx, m)
           b == ProcessSymbol(rx, ~m)
           c == ProcessSymbol(a, m)
<1> HIDE DEF m
<1>4. m \in BOOLEAN /\ (~m) \in BOOLEAN
  BY <1>3, Zenon DEF m
<1>5. RxOK(a) /\ Range(rx.heard) \subseteq Range(a.heard)
  BY <1>1, <1>4, Reached, Zenon
<1>6. RxOK(b) /\ Range(rx.heard) \subseteq Range(b.heard)
  BY <1>1, <1>4, Reached, Zenon
<1>7. RxOK(c) /\ Range(a.heard) \subseteq Range(c.heard)
  <2> HIDE DEF a
  <2> QED BY <1>4, <1>5, Reached, Zenon
<1>8. rx' = a \/ rx' = b \/ rx' = rx \/ rx' = c
  BY Zenon DEF Symbol, Flip, Lose, Double, m
<1> HIDE DEF a, b, c
<1>9. CASE rx' = a
  BY <1>5, <1>9, Zenon
<1>10. CASE rx' = b
  BY <1>6, <1>10, Zenon
<1>11. CASE rx' = rx
  BY <1>1, <1>11, Zenon
<1>12. CASE rx' = c
  BY <1>5, <1>7, <1>12, Zenon
<1> QED BY <1>8, <1>9, <1>10, <1>11, <1>12, Zenon

(* Every step preserves the types.                                         *)
LEMMA SignalTypesStep == SignalTypes /\ [HdlcNext]_hdlcVars => SignalTypes'
<1> SUFFICES ASSUME SignalTypes, [HdlcNext]_hdlcVars PROVE SignalTypes'
  OBVIOUS
<1>1. /\ data \in Frames \cup {<<>>} /\ pos \in 0..MaxSymbols /\ tone \in BOOLEAN
      /\ RxOK(rx) /\ hits \subseteq 1..MaxSymbols /\ noise \in 0..MaxNoise
      /\ Sending => Len(Signal[data]) <= MaxSymbols /\ pos <= Len(Signal[data])
  BY DEF SignalTypes
<1>2. MaxSymbols \in Nat /\ MaxNoise \in Nat
  BY HdlcAssumption
<1>3. CASE Noise
  <2>1. /\ ~Sending /\ noise < MaxNoise /\ noise' = noise + 1
        /\ data' = data /\ pos' = pos /\ tone' = tone /\ hits' = hits
    BY <1>3 DEF Noise
  <2>2. PICK mark \in BOOLEAN : rx' = ProcessSymbol(rx, mark)
    BY <1>3 DEF Noise
  <2>3. RxOK(ProcessSymbol(rx, mark))
    BY <1>1, Reached, Zenon
  <2>4. noise + 1 \in 0..MaxNoise
    BY <1>1, <1>2, <2>1
  <2>5. ~Sending'
    BY <2>1 DEF Sending
  <2> QED BY <1>1, <2>1, <2>2, <2>3, <2>4, <2>5, Zenon DEF SignalTypes
<1>4. CASE KeyUp
  <2>1. PICK f \in Frames : Len(Signal[f]) <= MaxSymbols /\ data' = f
    BY <1>4 DEF KeyUp
  <2>2. /\ pos' = 0 /\ tone' = TRUE /\ hits' = {} /\ noise' = noise
        /\ rx' = [rx EXCEPT !.heard = <<>>]
    BY <1>4 DEF KeyUp
  <2>3. RxOK(rx')
    <3>1. rx \in Receivers /\ Len(rx.bits) <= 8 * kMaxFrameBytes + 7
          /\ (rx.in_frame => rx.ones_count <= 6)
      BY <1>1 DEF RxOK
    <3>2. <<>> \in Seq(Seq(Bit))
      BY EmptySeq
    <3>3. rx' \in Receivers /\ rx'.bits = rx.bits /\ rx'.in_frame = rx.in_frame
          /\ rx'.ones_count = rx.ones_count
      BY <2>2, <3>1, <3>2 DEF Receivers
    <3> QED BY <3>1, <3>3, Zenon DEF RxOK
  <2>4. 0 \in 0..MaxSymbols /\ 0 <= Len(Signal[f])
    <3>1. Signal[f] \in Seq(Bit)
      BY <2>1, SignalParts, Zenon
    <3> DEFINE sg == Signal[f]
    <3> HIDE DEF sg
    <3>2. 0 <= Len(sg)
      BY <3>1 DEF sg
    <3> QED BY <1>2, <3>2 DEF sg
  <2>5. {} \subseteq 1..MaxSymbols /\ TRUE \in BOOLEAN
    OBVIOUS
  <2>6. Sending' => Len(Signal[data'])  <= MaxSymbols /\ pos' <= Len(Signal[data'])
    BY <2>1, <2>2, <2>4, Zenon
  <2> QED BY <1>1, <2>1, <2>2, <2>3, <2>4, <2>5, <2>6, Zenon DEF SignalTypes
<1>5. CASE Symbol \/ Flip \/ Lose \/ Double
  <2>1. Advance
    BY <1>5 DEF Symbol, Flip, Lose, Double
  <2>2. /\ data \in Frames /\ data' = data /\ noise' = noise /\ pos' = pos + 1
        /\ pos + 1 \in 1..MaxSymbols /\ pos + 1 \in 0..MaxSymbols
        /\ pos + 1 <= Len(Signal[data]) /\ Len(Signal[data]) <= MaxSymbols
        /\ NextTone \in BOOLEAN /\ tone' = NextTone
    BY <2>1, Advances, Zenon
  <2>3. RxOK(rx')
    BY <1>5, Arrival, Zenon
  <2>4. hits' = hits \/ hits' = hits \cup {pos + 1}
    BY <1>5, Zenon DEF Symbol, Flip, Lose, Double, Struck
  <2>5. hits' \subseteq 1..MaxSymbols
    BY <1>1, <2>2, <2>4, Zenon
  <2>6. Sending' => Len(Signal[data']) <= MaxSymbols /\ pos' <= Len(Signal[data'])
    BY <2>2, Zenon
  <2> QED BY <1>1, <2>2, <2>3, <2>5, <2>6, Zenon DEF SignalTypes
<1>6. CASE KeyDown
  <2>1. /\ data' = <<>> /\ noise' = 0 /\ pos' = pos /\ tone' = tone /\ rx' = rx /\ hits' = hits
    BY <1>6 DEF KeyDown
  <2>2. ~Sending' /\ 0 \in 0..MaxNoise
    BY <1>2, <2>1 DEF Sending
  <2> QED BY <1>1, <2>1, <2>2, Zenon DEF SignalTypes
<1>7. CASE UNCHANGED hdlcVars
  BY <1>1, <1>7 DEF hdlcVars, SignalTypes, Sending
<1> QED BY <1>3, <1>4, <1>5, <1>6, <1>7 DEF HdlcNext

(* Every step keeps a receiver on course: a symbol by CourseStep, and a    *)
(* fault is either outside the critical part or ends the claim.            *)
LEMMA CourseNext == HdlcInv /\ [HdlcNext]_hdlcVars => Course'
<1> SUFFICES ASSUME HdlcInv, [HdlcNext]_hdlcVars PROVE Course'
  OBVIOUS
<1>1. SignalTypes /\ Course
  BY DEF HdlcInv
<1>2. RxOK(rx) /\ tone \in BOOLEAN /\ kTailFlags \in Nat /\ kTailFlags > 0
  BY <1>1, HdlcAssumption DEF SignalTypes
<1>3. ASSUME NEW f \in Frames
      PROVE  /\ Start \in Nat /\ Start > 0 /\ TailAt(f) \in Nat /\ Start + 8 <= TailAt(f)
             /\ DataAt = Start + 8
             /\ Len(Signal[f]) - 8 * (kTailFlags - 1) = TailAt(f) + 8
  <2> DEFINE n == Len(Signal[f])
             L == Len(Stuffed(f))
  <2>1. /\ Start \in Nat /\ Start > 0 /\ L \in Nat
        /\ n = Start + 8 + L + 8 * kTailFlags
    BY SignalParts, Zenon
  <2>2. TailAt(f) = Start + 8 + L
    BY DEF TailAt
  <2> HIDE DEF n, L
  <2>3. n - 8 * (kTailFlags - 1) = TailAt(f) + 8
    BY <1>2, <2>1, <2>2
  <2> QED BY <2>1, <2>2, <2>3 DEF n, DataAt
<1>4. CASE Noise \/ KeyDown
  <2>1. ~Sending'
    BY <1>4 DEF Noise, KeyDown, Sending
  <2> QED BY <2>1, Zenon DEF Course
<1>5. CASE KeyUp
  <2>1. PICK f \in Frames : data' = f
    BY <1>5 DEF KeyUp
  <2>2. pos' = 0
    BY <1>5 DEF KeyUp
  <2> DEFINE T == TailAt(f)
  <2>3. Start > 0 /\ Start \in Nat /\ T \in Nat /\ Start + 8 <= T /\ DataAt = Start + 8
    BY <1>3
  <2> HIDE DEF T
  <2>4. /\ ~(0 \in Start..(T + 8)) /\ ~(0 \in DataAt..T) /\ ~(0 >= T + 8)
        /\ \A j \in 1..7 : 0 # Start + j /\ 0 # T + j
    BY <2>3
  <2>5. OnCourse(f, 0, tone', rx')
    BY <2>4, Zenon DEF OnCourse, T
  <2> QED BY <2>1, <2>2, <2>5, Zenon DEF Course
<1>6. CASE Symbol
  <2>1. Advance /\ hits' = hits /\ rx' = ProcessSymbol(rx, NextTone)
    BY <1>6 DEF Symbol
  <2>2. /\ data \in Frames /\ data' = data /\ Sending /\ pos \in Nat
        /\ pos < Len(Signal[data]) /\ pos' = pos + 1
        /\ NextTone \in BOOLEAN /\ tone' = NextTone
        /\ NextTone = IF Signal[data][pos + 1] = 0 THEN ~tone ELSE tone
    BY <1>1, <2>1, Advances, Zenon
  <2> SUFFICES ASSUME (hits \cap Critical)' = {}, Len(data') <= 8 * kMaxFrameBytes
               PROVE  OnCourse(data', pos', tone', rx')
    BY Zenon DEF Course
  <2>3. Critical' = Critical
    BY <2>2, Zenon DEF Critical, Delivery
  <2>4. hits \cap Critical = {} /\ Len(data) <= 8 * kMaxFrameBytes
    BY <2>1, <2>2, <2>3, Zenon
  <2>5. OnCourse(data, pos, tone, rx)
    BY <1>1, <2>2, <2>4, Zenon DEF Course
  <2> DEFINE u == NextTone
             s == ProcessSymbol(rx, u)
  <2> HIDE DEF u
  <2>6. u \in BOOLEAN /\ u = IF Signal[data][pos + 1] = 0 THEN ~tone ELSE tone
    BY <2>2, Zenon DEF u
  <2>7. Symbolled(rx, Decoded(rx, u), u, s)
    BY <1>2, <2>6, SymbolEffect, Zenon
  <2> HIDE DEF s
  <2>8. OnCourse(data, pos + 1, u, s)
    BY <1>2, <2>2, <2>4, <2>5, <2>6, <2>7, CourseStep
  <2> QED BY <2>1, <2>2, <2>8, Zenon DEF u, s
<1>7. CASE Flip \/ Lose \/ Double
  <2>1. Advance /\ hits' = hits \cup {pos + 1}
    BY <1>7, Zenon DEF Flip, Lose, Double, Struck
  <2>2. data \in Frames /\ data' = data /\ Sending /\ pos \in Nat /\ pos' = pos + 1
    BY <1>1, <2>1, Advances, Zenon
  <2>3. Range(rx.heard) \subseteq Range(rx'.heard)
    BY <1>1, <1>7, Arrival, Zenon
  <2> SUFFICES ASSUME (hits \cap Critical)' = {}, Len(data') <= 8 * kMaxFrameBytes
               PROVE  OnCourse(data', pos', tone', rx')
    BY Zenon DEF Course
  <2>4. Critical' = Critical
    BY <2>2, Zenon DEF Critical, Delivery
  <2>5. hits \cap Critical = {} /\ pos + 1 \notin Critical /\ Len(data) <= 8 * kMaxFrameBytes
    BY <2>1, <2>2, <2>4, Zenon
  <2>6. OnCourse(data, pos, tone, rx)
    BY <1>1, <2>2, <2>5, Zenon DEF Course
  <2> DEFINE f == data
             T == TailAt(f)
             x == pos + 1
  <2>7. /\ Start > 0 /\ Start \in Nat /\ T \in Nat /\ Start + 8 <= T /\ DataAt = Start + 8
        /\ Delivery = T + 8
    BY <1>3, <2>2 DEF Delivery
  <2>8. Critical = Start..(T + 8)
    BY <2>7 DEF Critical, Start
  <2> HIDE DEF f, T
  <2>9. x < Start \/ (x > T + 8 /\ pos >= T + 8)
    BY <2>2, <2>5, <2>7, <2>8
  <2>10. x \in Nat
    BY <2>2
  <2> HIDE DEF x
  <2>11. /\ ~(x \in Start..(T + 8)) /\ ~(x \in DataAt..T)
         /\ \A j \in 1..7 : x # Start + j /\ x # T + j
         /\ x >= T + 8 => pos >= T + 8
    BY <2>7, <2>9, <2>10
  <2>12. x >= T + 8 => f \in Range(rx'.heard)
    BY <2>3, <2>6, <2>11, Zenon DEF OnCourse, f, T
  <2>13. OnCourse(f, x, tone', rx')
    BY <2>11, <2>12, Zenon DEF OnCourse, T
  <2> QED BY <2>2, <2>13, Zenon DEF f, x
<1>8. CASE UNCHANGED hdlcVars
  <2>1. data' = data /\ pos' = pos /\ tone' = tone /\ rx' = rx /\ hits' = hits
    BY <1>8 DEF hdlcVars
  <2> QED BY <1>1, <2>1, Zenon DEF Course, Sending, Critical, Delivery
<1> QED BY <1>4, <1>5, <1>6, <1>7, <1>8 DEF HdlcNext

(* Every step preserves the invariant.                                     *)
LEMMA HdlcStep == HdlcInv /\ [HdlcNext]_hdlcVars => HdlcInv'
BY SignalTypesStep, CourseNext DEF HdlcInv

(* It implies what the run checks.                                         *)
LEMMA HdlcImplies == HdlcInv => HdlcTypeOK /\ CleanFrameDelivered
<1> SUFFICES ASSUME HdlcInv PROVE HdlcTypeOK /\ CleanFrameDelivered
  OBVIOUS
<1>1. SignalTypes /\ Course
  BY DEF HdlcInv
<1>2. rx \in Receivers /\ Len(rx.bits) <= 8 * kMaxFrameBytes + 7 /\ kMaxFrameBytes \in Nat
  BY <1>1, HdlcAssumption DEF SignalTypes, RxOK
<1>3. /\ rx.nrzi_prev \in BOOLEAN /\ rx.sr \in 0..255 /\ rx.ones_count \in 0..7
      /\ rx.in_frame \in BOOLEAN /\ rx.bits \in Seq(Bit) /\ Len(rx.bits) \in Nat
  BY <1>2, RxFields, Zenon
<1>4. \A i \in DOMAIN rx.bits : rx.bits[i] \in Bit
  BY <1>3
<1>5. FrameLen(rx) <= kMaxFrameBytes
  <2> DEFINE n == Len(rx.bits)
  <2>1. n \in Nat /\ n <= 8 * kMaxFrameBytes + 7
    BY <1>2, <1>3
  <2> HIDE DEF n
  <2>2. n \div 8 <= kMaxFrameBytes
    BY <1>2, <2>1
  <2> QED BY <2>2 DEF n, FrameLen
<1>6. HdlcTypeOK
  BY <1>1, <1>3, <1>4, <1>5, Zenon DEF HdlcTypeOK, SignalTypes
<1>7. CleanFrameDelivered
  <2> SUFFICES ASSUME Sending, pos >= Delivery, Len(data) <= 8 * kMaxFrameBytes,
                      hits \cap Critical = {}
               PROVE  data \in Range(rx.heard)
    BY Zenon DEF CleanFrameDelivered
  <2>1. data \in Frames
    BY <1>1 DEF SignalTypes, Sending
  <2>2. OnCourse(data, pos, tone, rx)
    BY <1>1, Zenon DEF Course
  <2>3. Delivery = TailAt(data) + 8
    <3> DEFINE n == Len(Signal[data])
               L == Len(Stuffed(data))
    <3>1. Start \in Nat /\ L \in Nat /\ n = Start + 8 + L + 8 * kTailFlags
      BY <2>1, SignalParts, Zenon
    <3>2. kTailFlags \in Nat /\ TailAt(data) = Start + 8 + L /\ Delivery = n - 8 * (kTailFlags - 1)
      BY HdlcAssumption DEF TailAt, Delivery
    <3> HIDE DEF n, L
    <3> QED BY <3>1, <3>2
  <2> QED BY <2>2, <2>3, Zenon DEF OnCourse
<1> QED BY <1>6, <1>7

(* The demodulator's buffer and shift register stay within their bounds    *)
(* whatever it hears: noise, slips, wrong decisions and frames of any size.*)
THEOREM DemodulatorTyped == HdlcSpec => []HdlcTypeOK
<1>1. HdlcSpec => []HdlcInv
  BY HdlcInitInv, HdlcStep, PTL DEF HdlcSpec
<1> QED BY <1>1, HdlcImplies, PTL

(* A frame whose signal arrives whole from its start flag on is given to   *)
(* the callback, whatever the receiver heard before and however many       *)
(* stuffed bits it takes.                                                  *)
THEOREM WholeFrameIsDelivered == HdlcSpec => []CleanFrameDelivered
<1>1. HdlcSpec => []HdlcInv
  BY HdlcInitInv, HdlcStep, PTL DEF HdlcSpec
<1> QED BY <1>1, HdlcImplies, PTL

================================================================================
