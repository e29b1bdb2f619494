--------------------------- MODULE RadioControlProofs ---------------------------
(***************************************************************************)
(* The radio and its driver: the station transmits on the frequency the    *)
(* driver holds, and what was answered with success is in force; for any   *)
(* frequencies, settings and number of late commands.                      *)
(***************************************************************************)
EXTENDS RadioControl, TLAPS

GroupSteps == {"freq", "squelch", "wide"}
Settable == GroupSteps \cup {"volume"}

(* The steps still to do belong to the request, or to the start.           *)
TodoInv ==
  /\ \A i \in 1 .. Len(todo) :
       /\ todo[i] \in Settable => req[todo[i]] # None
       /\ todo[i] = "connect" => g_radio = "starting"
       /\ todo[i] = "publish" => Len(todo) = 1
  /\ g_radio = "starting" => /\ todo \in {<<"connect", "freq">>, <<"freq">>, <<"publish">>}
                             /\ req = Boot
  /\ g_radio = "failed" => todo = <<>>
  /\ waiting => todo # <<>> /\ todo[1] # "publish"

(* While no answer was late the wire holds the command being waited for,   *)
(* or its answer, and an answer OK means that the module obeyed.           *)
Asked == Command(todo[1])
Answer(ok) == [kind |-> Asked.kind, ok |-> ok]
Obeyed == Asked.kind = "group" => Group(sa818) = Asked.set

WireInv ==
  /\ ~waiting => Len(commands) <= MaxLate
  /\ ~late /\ ~waiting => commands = <<>> /\ line = <<>>
  /\ ~late /\ waiting =>
       \/ commands = <<Asked>> /\ line = <<>>
       \/ commands = <<>> /\ line \in {<<>>, <<Answer(FALSE)>>}
       \/ commands = <<>> /\ line = <<Answer(TRUE)>> /\ Obeyed

(* A failed set_freq() is remembered and unkeys; otherwise the module is   *)
(* on the driver's frequency, as every group command carries it.           *)
KeyInv ==
  /\ keyed => ~error /\ g_radio = "ready"
  /\ ~error /\ (g_radio = "ready" \/ todo = <<"publish">>) => driver.freq # NoFreq
  /\ ~error /\ ~late /\ driver.freq # NoFreq /\ ~(waiting /\ todo[1] = "freq") =>
       sa818.freq = driver.freq

(* In a request the module follows the driver from the first group command *)
(* confirmed; squelch and width are stored before they are sent.           *)
GroupInv ==
  /\ waiting /\ todo[1] \in {"squelch", "wide"} =>
       driver.freq # NoFreq /\ driver[todo[1]] = req[todo[1]]
  /\ /\ g_radio = "ready" /\ sent /\ ~late /\ todo # <<>>
     /\ ~(waiting /\ todo[1] \in GroupSteps)
     => driver.freq # NoFreq /\ Group(sa818) = Group(driver)

RadioInv ==
  TypeOK /\ TodoInv /\ WireInv /\ KeyInv /\ GroupInv /\ SuccessMeansInForce

--------------------------------------------------------------------------------
(* Settings and group commands.                                            *)

Put(s, step, v) == [s EXCEPT ![step] = v]
GroupSets == {Group(s) : s \in Settings}

\* The fields of a setting, and what a change of volume leaves alone.
LEMMA SettingFields ==
  ASSUME NEW s \in Settings
  PROVE  /\ s.freq \in Freqs \cup {NoFreq} /\ s.squelch \in Squelches
         /\ s.wide \in Widths /\ s.volume \in Volumes
         /\ Group(s) \in GroupSets /\ Group(s).freq = s.freq
         /\ \A v : Group(Put(s, "volume", v)) = Group(s)
         /\ \A v : Put(s, "volume", v).freq = s.freq
         /\ \A v \in Volumes : Put(s, "volume", v) \in Settings
  BY DEF Settings, Group, GroupSets, Put

\* One field of a request put into a setting.
LEMMA PutFields ==
  ASSUME NEW s \in Settings, NEW r \in Requests, NEW step \in Settable, r[step] # None
  PROVE  /\ Put(s, step, r[step]) \in Settings
         /\ Put(s, step, r[step]).freq = IF step = "freq" THEN r.freq ELSE s.freq
         /\ Put(Put(s, step, r[step]), step, r[step]) = Put(s, step, r[step])
         /\ s[step] = r[step] => Put(s, step, r[step]) = s
         /\ step = "freq" => r.freq \in Freqs
         /\ step = "volume" => r.volume \in Volumes
         /\ Put(s, step, r[step])[step] = r[step]
<1>1. CASE step = "freq"
  BY <1>1 DEF Settings, Requests, Put
<1>2. CASE step = "squelch"
  BY <1>2 DEF Settings, Requests, Put
<1>3. CASE step = "wide"
  BY <1>3 DEF Settings, Requests, Put
<1>4. CASE step = "volume"
  BY <1>4 DEF Settings, Requests, Put
<1> QED BY <1>1, <1>2, <1>3, <1>4 DEF Settable, GroupSteps

(* The module takes a group command, or keeps its volume.                  *)
LEMMA GroupTaken ==
  ASSUME NEW g \in GroupSets, NEW s \in Settings
  PROVE  /\ Put(g, "volume", s.volume) \in Settings
         /\ Group(Put(g, "volume", s.volume)) = g
         /\ Put(g, "volume", s.volume).freq = g.freq
<1>1. PICK t \in Settings : g = Group(t)
  BY DEF GroupSets
<1>2. s.volume \in Volumes
  BY DEF Settings
<1> QED BY <1>1, <1>2 DEF Settings, Group, Put

(* What a request names is applied in order, and only that.                *)
LEMMA FieldsNamed ==
  ASSUME NEW r \in Requests
  PROVE  /\ FieldsOf(r) \in Seq(Steps)
         /\ \A i \in 1 .. Len(FieldsOf(r)) :
              FieldsOf(r)[i] \in Settable /\ r[FieldsOf(r)[i]] # None
<1> DEFINE Named == {f \in Settable : r[f] # None}
           If(field) == IF r[field] # None THEN <<field>> ELSE <<>>
<1>1. ASSUME NEW f \in Settable PROVE If(f) \in Seq(Named)
  <2>1. CASE r[f] # None
    <3>1. f \in Named /\ If(f) = <<f>>
      BY <2>1
    <3> HIDE DEF Named, If
    <3>2. <<f>> \in Seq(Named)
      BY <3>1
    <3> QED BY <3>1, <3>2, Zenon
  <2>2. CASE ~(r[f] # None)
    <3>1. If(f) = <<>>
      BY <2>2
    <3> HIDE DEF Named, If
    <3>2. <<>> \in Seq(Named)
      OBVIOUS
    <3> QED BY <3>1, <3>2, Zenon
  <2> QED BY <2>1, <2>2
<1> HIDE DEF If, Named
<1>2. If("freq") \in Seq(Named) /\ If("squelch") \in Seq(Named)
  BY <1>1 DEF Settable, GroupSteps
<1>3. If("wide") \in Seq(Named) /\ If("volume") \in Seq(Named)
  BY <1>1 DEF Settable, GroupSteps
<1>4. If("freq") \o If("squelch") \o If("wide") \o If("volume") \in Seq(Named)
  BY <1>2, <1>3
<1>5. FieldsOf(r) = If("freq") \o If("squelch") \o If("wide") \o If("volume")
  BY DEF FieldsOf, If
<1>6. FieldsOf(r) \in Seq(Named)
  BY <1>4, <1>5
<1>7. Named \subseteq Steps /\ \A f \in Named : f \in Settable /\ r[f] # None
  BY DEF Named, Settable, GroupSteps, Steps
<1> QED BY <1>6, <1>7

(* The command of a step, and what the driver would hold were it obeyed.   *)
LEMMA CommandOf ==
  ASSUME TypeOK, NEW step \in Settable \cup {"connect"},
         step \in Settable => req[step] # None
  PROVE  /\ Command(step) \in Commands
         /\ step \in GroupSteps => /\ Command(step).kind = "group"
                                   /\ Command(step).set = Group(Put(driver, step, req[step]))
                                   /\ Command(step).set \in GroupSets
         /\ step \notin GroupSteps => Command(step).kind = step
<1>1. driver \in Settings /\ req \in Requests
  BY DEF TypeOK
<1>2. CASE step \in GroupSteps
  <2>1. Put(driver, step, req[step]) \in Settings
    BY <1>1, <1>2, PutFields DEF Settable
  <2>2. Command(step) = [kind |-> "group", set |-> Group(Put(driver, step, req[step]))]
    BY <1>2 DEF Command, Put, GroupSteps
  <2> QED BY <1>2, <2>1, <2>2 DEF Commands, GroupSets
<1>3. CASE step = "volume"
  <2>1. req.volume \in Volumes
    BY <1>1, <1>3, PutFields
  <2> QED BY <1>3, <2>1 DEF Command, Commands, GroupSteps
<1>4. CASE step = "connect"
  BY <1>4 DEF Command, Commands, GroupSteps, Settable
<1> QED BY <1>2, <1>3, <1>4 DEF Settable

--------------------------------------------------------------------------------
(* The invariant holds at the start, and every step preserves it.          *)

\* At the start the module may be set to anything: nothing is sent yet.
LEMMA RadioInit == Init => RadioInv
<1> SUFFICES ASSUME Init PROVE RadioInv
  OBVIOUS
<1> USE RadioAssumption
<1>1. driver \in Settings /\ sa818 \in Settings /\ driver.freq = NoFreq
  BY DEF Init, Settings
<1>2. published \in Settings
  BY <1>1 DEF Init, Settings
<1>3. Boot \in Requests /\ Boot.freq = BootFreq /\ BootFreq # None
  BY DEF Boot, Requests
<1>4. todo \in Seq(Steps) /\ Len(todo) = 2 /\ todo[1] = "connect" /\ todo[2] = "freq"
  BY DEF Init, Steps
<1>5. TypeOK
  <2>1. /\ commands \in Seq(Commands) /\ Len(commands) <= MaxLate + 1
        /\ line \in Seq([kind : {"connect", "group", "volume", Scrap}, ok : BOOLEAN])
    <3> DEFINE A == [kind : {"connect", "group", "volume", Scrap}, ok : BOOLEAN]
    <3> HIDE DEF A
    <3>1. <<>> \in Seq(Commands) /\ <<>> \in Seq(A) /\ Len(<<>>) <= MaxLate + 1
      OBVIOUS
    <3> QED BY <3>1 DEF Init, A
  <2> QED BY <1>1, <1>2, <1>3, <1>4, <2>1 DEF Init, TypeOK
<1>6. TodoInv
  <2>1. ASSUME NEW i \in 1 .. Len(todo)
        PROVE  /\ todo[i] \in Settable => req[todo[i]] # None
               /\ todo[i] = "connect" => g_radio = "starting"
               /\ todo[i] = "publish" => Len(todo) = 1
    BY <1>3, <1>4 DEF Init, Settable, GroupSteps
  <2> QED BY <2>1 DEF Init, TodoInv
<1>7. WireInv
  BY DEF Init, WireInv
<1>8. KeyInv
  <2>1. todo # <<"publish">>
    BY <1>4
  <2> QED BY <1>1, <2>1 DEF Init, KeyInv
<1>9. GroupInv /\ SuccessMeansInForce
  BY DEF Init, GroupInv, SuccessMeansInForce, None
<1> QED BY <1>5, <1>6, <1>7, <1>8, <1>9 DEF RadioInv

\* The types, variable by variable, and the step at hand.
LEMMA Typed ==
  ASSUME RadioInv
  PROVE  /\ driver \in Settings /\ sa818 \in Settings /\ published \in Settings
         /\ req \in Requests /\ todo \in Seq(Steps) /\ commands \in Seq(Commands)
         /\ waiting \in BOOLEAN /\ late \in BOOLEAN /\ error \in BOOLEAN /\ keyed \in BOOLEAN
         /\ todo # <<>> => todo[1] \in Steps
         /\ waiting => todo # <<>> /\ todo[1] \in Settable \cup {"connect"}
         /\ todo # <<>> /\ todo[1] \in Settable => req[todo[1]] # None
<1>1. /\ driver \in Settings /\ sa818 \in Settings /\ published \in Settings
      /\ req \in Requests /\ todo \in Seq(Steps) /\ commands \in Seq(Commands)
      /\ waiting \in BOOLEAN /\ late \in BOOLEAN /\ error \in BOOLEAN /\ keyed \in BOOLEAN
  BY DEF RadioInv, TypeOK
<1>2. todo # <<>> => todo[1] \in Steps /\ 1 \in 1 .. Len(todo)
  BY <1>1
<1>3. waiting => todo # <<>> /\ todo[1] # "publish"
  BY DEF RadioInv, TodoInv
<1>4. waiting => todo[1] \in Settable \cup {"connect"}
  BY <1>2, <1>3 DEF Steps, Settable, GroupSteps
<1>5. todo # <<>> /\ todo[1] \in Settable => req[todo[1]] # None
  BY <1>2 DEF RadioInv, TodoInv
<1> QED BY <1>1, <1>2, <1>3, <1>4, <1>5

\* The command whose answer is awaited.
LEMMA AskedOf ==
  ASSUME RadioInv, waiting
  PROVE  /\ Asked \in Commands /\ Asked.kind \in {"connect", "group", "volume"}
         /\ todo[1] \in GroupSteps =>
              /\ Asked.kind = "group"
              /\ Asked.set = Group(Put(driver, todo[1], req[todo[1]]))
              /\ Asked.set \in GroupSets
         /\ todo[1] \notin GroupSteps => Asked.kind = todo[1] /\ todo[1] # "group"
<1> DEFINE step == todo[1]
<1>1. step \in Settable \cup {"connect"} /\ (step \in Settable => req[step] # None)
  <2>1. todo # <<>>
    BY DEF RadioInv, TodoInv
  <2> QED BY <2>1, Typed
<1>2. TypeOK
  BY DEF RadioInv
<1> HIDE DEF step
<1>3. /\ Command(step) \in Commands
      /\ step \in GroupSteps => /\ Command(step).kind = "group"
                                /\ Command(step).set = Group(Put(driver, step, req[step]))
                                /\ Command(step).set \in GroupSets
      /\ step \notin GroupSteps => Command(step).kind = step
  BY <1>1, <1>2, CommandOf
<1>4. Command(step).kind \in {"connect", "group", "volume"} /\ step # "group"
  BY <1>1, <1>3 DEF Settable, GroupSteps
<1> QED BY <1>3, <1>4, Zenon DEF step, Asked

(* What handling a command does to the module.                             *)
LEMMA ModuleMoves ==
  ASSUME RadioInv, NEW heard \in BOOLEAN, NEW obeys \in BOOLEAN, NEW answers \in BOOLEAN,
         Sa818(heard, obeys, answers)
  PROVE  LET c == commands[1] IN
         /\ c \in Commands /\ sa818' \in Settings
         /\ c.kind # "group" => Group(sa818') = Group(sa818)
         /\ c.kind = "group" => /\ Group(sa818') \in {Group(sa818), c.set}
                                /\ heard /\ obeys => Group(sa818') = c.set
<1> DEFINE c == commands[1]
<1>1. /\ commands # <<>> /\ Head(commands) = c /\ c \in Commands
  BY Typed DEF Sa818
<1>2. sa818' = CASE heard /\ obeys /\ c.kind = "group" -> Put(c.set, "volume", sa818.volume)
                 [] heard /\ obeys /\ c.kind = "volume" -> Put(sa818, "volume", c.set)
                 [] OTHER -> sa818
  BY <1>1 DEF Sa818, Put
<1>3. sa818 \in Settings /\ c.kind \in {"connect", "group", "volume"}
  BY <1>1, Typed DEF Commands
<1> HIDE DEF c
<1>4. c.kind = "group" => c.set \in GroupSets
  BY <1>1 DEF Commands, GroupSets
<1>5. c.kind = "volume" => c.set \in Volumes
  BY <1>1 DEF Commands
<1>6. CASE ~heard \/ ~obeys \/ c.kind = "connect"
  <2>1. sa818' = sa818
    BY <1>2, <1>6
  <2> QED BY <1>1, <1>3, <1>6, <2>1 DEF c
<1>7. CASE heard /\ obeys /\ c.kind = "group"
  <2>1. sa818' = Put(c.set, "volume", sa818.volume)
    BY <1>2, <1>7
  <2>2. sa818' \in Settings /\ Group(sa818') = c.set
    BY <1>3, <1>4, <1>7, <2>1, GroupTaken
  <2> QED BY <1>1, <1>7, <2>2 DEF c
<1>8. CASE heard /\ obeys /\ c.kind = "volume"
  <2>1. sa818' = Put(sa818, "volume", c.set)
    BY <1>2, <1>8
  <2>2. sa818' \in Settings /\ Group(sa818') = Group(sa818)
    BY <1>3, <1>5, <1>8, <2>1, SettingFields
  <2> QED BY <1>1, <1>8, <2>2 DEF c
<1> QED BY <1>3, <1>6, <1>7, <1>8

\* The module handles a command, or loses it, or its answer.
LEMMA Sa818Keeps ==
  ASSUME RadioInv, NEW heard \in BOOLEAN, NEW obeys \in BOOLEAN, NEW answers \in BOOLEAN,
         Sa818(heard, obeys, answers)
  PROVE  RadioInv'
<1> DEFINE c == commands[1]
<1>1. /\ c \in Commands /\ sa818' \in Settings
      /\ c.kind # "group" => Group(sa818') = Group(sa818)
      /\ c.kind = "group" => /\ Group(sa818') \in {Group(sa818), c.set}
                             /\ heard /\ obeys => Group(sa818') = c.set
  BY ModuleMoves
<1>2. /\ commands # <<>> /\ commands' = Tail(commands)
      /\ line' = IF heard /\ answers THEN Append(line, [kind |-> c.kind, ok |-> obeys])
                 ELSE line
      /\ UNCHANGED <<driver, error, g_radio, radio_state, published, req, todo, waiting,
                     sending, keyed, result, sent, late>>
  BY Typed DEF Sa818, handler
<1>3. commands' \in Seq(Commands) /\ Len(commands') = Len(commands) - 1 /\ Len(commands) \in Nat
  BY <1>2, Typed
<1>4. TypeOK'
  <2>1. [kind |-> c.kind, ok |-> obeys] \in [kind : {"connect", "group", "volume", Scrap}, ok : BOOLEAN]
    BY <1>1 DEF Commands
  <2> HIDE DEF c
  <2>2. line' \in Seq([kind : {"connect", "group", "volume", Scrap}, ok : BOOLEAN])
    <3>1. line \in Seq([kind : {"connect", "group", "volume", Scrap}, ok : BOOLEAN])
      BY DEF RadioInv, TypeOK
    <3> DEFINE A == [kind : {"connect", "group", "volume", Scrap}, ok : BOOLEAN]
               a == [kind |-> c.kind, ok |-> obeys]
    <3>2. line \in Seq(A) /\ a \in A /\ line' = IF heard /\ answers THEN Append(line, a) ELSE line
      BY <1>2, <2>1, <3>1
    <3> HIDE DEF A, a
    <3>3. line' \in Seq(A)
      BY <3>2
    <3> QED BY <3>3 DEF A
  <2>3. Len(commands') <= MaxLate + 1
    BY <1>3, RadioAssumption DEF RadioInv, TypeOK
  <2> QED BY <1>1, <1>2, <1>3, <2>2, <2>3 DEF RadioInv, TypeOK
<1>5. TodoInv'
  BY <1>2 DEF RadioInv, TodoInv
<1>6. ASSUME ~late
      PROVE  /\ waiting /\ commands = <<Asked>> /\ line = <<>> /\ c = Asked /\ commands' = <<>>
             /\ \/ line' \in {<<>>, <<Answer(FALSE)>>}
                \/ line' = <<Answer(TRUE)>> /\ heard /\ obeys
  <2>1. waiting /\ commands = <<Asked>> /\ line = <<>>
    BY <1>2, <1>6 DEF RadioInv, WireInv
  <2>2. c = Asked /\ commands' = <<>>
    BY <1>2, <2>1
  <2>3. line' = IF heard /\ answers THEN <<Answer(obeys)>> ELSE <<>>
    <3>1. line' = IF heard /\ answers THEN Append(<<>>, Answer(obeys)) ELSE <<>>
      BY <1>2, <2>1, <2>2, Zenon DEF Answer
    <3>2. Append(<<>>, Answer(obeys)) = <<Answer(obeys)>>
      <4> DEFINE a == Answer(obeys)
      <4> HIDE DEF a
      <4>1. Append(<<>>, a) = <<a>>
        OBVIOUS
      <4> QED BY <4>1 DEF a
    <3> QED BY <3>1, <3>2, Zenon
  <2>4. obeys = TRUE \/ obeys = FALSE
    OBVIOUS
  <2> QED BY <2>1, <2>2, <2>3, <2>4, Zenon
<1>7. Asked' = Asked /\ Answer(TRUE)' = Answer(TRUE) /\ Answer(FALSE)' = Answer(FALSE)
  BY <1>2, Zenon DEF Asked, Answer, Command
<1> HIDE DEF c
<1>8. WireInv'
  <2>1. ~waiting' => Len(commands') <= MaxLate
    BY <1>2, <1>3, RadioAssumption DEF RadioInv, WireInv
  <2>2. ASSUME ~late'
        PROVE  /\ waiting' /\ commands' = <<>>
               /\ \/ line' \in {<<>>, <<Answer(FALSE)>>}
                  \/ line' = <<Answer(TRUE)>> /\ (Asked.kind = "group" => Group(sa818') = Asked.set)
    BY <1>1, <1>2, <1>6, <2>2, Zenon
  <2>3. Obeyed' <=> (Asked.kind = "group" => Group(sa818') = Asked.set)
    BY <1>7, Zenon DEF Obeyed, Group
  <2> QED BY <1>7, <2>1, <2>2, <2>3, Zenon DEF WireInv
<1>9. ASSUME ~late, waiting, todo[1] # "freq"
      PROVE  Group(sa818') \in {Group(sa818), Group(driver)}
  <2>1. c = Asked
    BY <1>6, <1>9
  <2>2. CASE c.kind = "group"
    <3>1. todo[1] \in {"squelch", "wide"}
      BY <1>9, <2>1, <2>2, AskedOf DEF GroupSteps
    <3>2. Asked.set = Group(Put(driver, todo[1], req[todo[1]]))
      BY <1>9, <3>1, AskedOf DEF GroupSteps
    <3>3. driver[todo[1]] = req[todo[1]]
      BY <1>9, <3>1 DEF RadioInv, GroupInv
    <3>4. Put(driver, todo[1], req[todo[1]]) = driver
      <4> DEFINE step == todo[1]
      <4>1. step \in Settable /\ req[step] # None /\ driver[step] = req[step]
        BY <1>9, <3>1, <3>3, Typed DEF GroupSteps, Settable
      <4> HIDE DEF step
      <4>2. Put(driver, step, req[step]) = driver
        BY <4>1, PutFields, Typed
      <4> QED BY <4>2 DEF step
    <3> QED BY <1>1, <2>1, <2>2, <3>2, <3>4
  <2>3. CASE c.kind # "group"
    BY <1>1, <2>3
  <2> QED BY <2>2, <2>3
<1>10. KeyInv'
  <2> SUFFICES ASSUME ~error, ~late, driver.freq # NoFreq, ~(waiting /\ todo[1] = "freq")
               PROVE  sa818'.freq = driver.freq
    BY <1>2 DEF RadioInv, KeyInv
  <2>1. Group(sa818') \in {Group(sa818), Group(driver)}
    BY <1>6, <1>9
  <2>2. sa818.freq = driver.freq
    BY DEF RadioInv, KeyInv
  <2> QED BY <1>1, <2>1, <2>2, Typed, SettingFields
<1>11. GroupInv'
  <2>1. Group(sa818)' = Group(sa818') /\ Group(driver)' = Group(driver)
    BY <1>2, Zenon DEF Group
  <2> SUFFICES ASSUME g_radio = "ready", sent, ~late, todo # <<>>,
                      ~(waiting /\ todo[1] \in GroupSteps)
               PROVE  driver.freq # NoFreq /\ Group(sa818') = Group(driver)
    BY <1>2, <2>1 DEF RadioInv, GroupInv
  <2>2. driver.freq # NoFreq /\ Group(sa818) = Group(driver)
    BY DEF RadioInv, GroupInv
  <2>3. waiting /\ todo[1] # "freq"
    BY <1>6 DEF GroupSteps
  <2> QED BY <1>9, <2>2, <2>3
<1>12. SuccessMeansInForce'
  <2>1. late \/ waiting
    BY <1>6
  <2> QED BY <1>2, <2>1 DEF SuccessMeansInForce, Idle
<1> QED BY <1>4, <1>5, <1>8, <1>10, <1>11, <1>12 DEF RadioInv

\* A request arrives: the wire is empty, or late.
LEMMA RadioSetKeeps ==
  ASSUME RadioInv, NEW r \in Requests, RadioSet(r)
  PROVE  RadioInv'
<1>1. /\ g_radio = "ready" /\ todo = <<>> /\ ~waiting /\ req' = r /\ todo' = FieldsOf(r)
      /\ result' = None /\ sent' = FALSE
      /\ UNCHANGED <<driver, error, g_radio, radio_state, published, sa818, commands, line,
                     waiting, sending, keyed, late>>
  BY DEF RadioSet, Idle, uart
<1>2. /\ todo' \in Seq(Steps)
      /\ \A i \in 1 .. Len(todo') : todo'[i] \in Settable /\ r[todo'[i]] # None
  BY <1>1, FieldsNamed
<1>3. TypeOK'
  BY <1>1, <1>2 DEF RadioInv, TypeOK
<1>4. TodoInv'
  BY <1>1, <1>2 DEF TodoInv, Settable, GroupSteps
<1>5. WireInv'
  BY <1>1 DEF RadioInv, WireInv
<1>6. KeyInv'
  BY <1>1 DEF RadioInv, KeyInv
<1>7. GroupInv' /\ SuccessMeansInForce'
  BY <1>1 DEF GroupInv, SuccessMeansInForce
<1> QED BY <1>3, <1>4, <1>5, <1>6, <1>7 DEF RadioInv

(* The wire after a step of the handler that leaves no command unanswered, *)
(* or is late.                                                             *)
WireTyped ==
  /\ commands \in Seq(Commands) /\ Len(commands) <= MaxLate
  /\ line \in Seq([kind : {"connect", "group", "volume", Scrap}, ok : BOOLEAN])
  /\ late \in BOOLEAN /\ (~late => commands = <<>> /\ line = <<>>)

\* The rest of a sequence of two or more.
LEMMA Shortened ==
  \A S : \A s \in Seq(S) :
    Len(s) \in Nat \ {0} /\ Len(s) # 1 => Tail(s) \in Seq(S) /\ Tail(s) # <<>>
<1> TAKE S
<1> TAKE s \in Seq(S)
<1> HAVE Len(s) \in Nat \ {0} /\ Len(s) # 1
<1>1. Tail(s) \in Seq(S) /\ Len(Tail(s)) = Len(s) - 1
  OBVIOUS
<1>2. Tail(s) # <<>>
  <2>1. Len(Tail(s)) # 0
    BY <1>1
  <2>2. Len(<<>>) = 0
    OBVIOUS
  <2> QED BY <2>1, <2>2, Zenon
<1> QED BY <1>1, <1>2

\* A sequence of one.
LEMMA Single == \A a : Len(<<a>>) = 1 /\ <<a>>[1] = a
  OBVIOUS

\* The last step alone.
LEMMA Publishing ==
  <<>> \in Seq(Steps) /\ <<"publish">> \in Seq(Steps) /\ <<"publish">> # <<>>
<1>1. "publish" \in Steps
  BY DEF Steps
<1> QED BY <1>1

\* A step fails: what the driver believes stays, or the error is shown.
LEMMA FailedKeeps ==
  ASSUME RadioInv, todo # <<>>, todo[1] \in Settable \cup {"connect"}, Failed(todo[1]),
         driver' \in Settings, driver'.freq = driver.freq, sa818' = sa818,
         keyed' \in BOOLEAN, keyed' => keyed /\ ~error',
         WireTyped', late => late', UNCHANGED <<published, sending>>, sent' \in BOOLEAN
  PROVE  RadioInv'
<1> DEFINE step == todo[1]
<1>1. /\ todo' = IF g_radio = "ready" \/ step = "connect" THEN <<>> ELSE <<"publish">>
      /\ waiting' = FALSE /\ req' = (IF todo' = <<>> THEN Boot ELSE req) /\ result' = "failed"
      /\ g_radio' = IF step = "connect" THEN "failed" ELSE g_radio
      /\ error' = (error \/ step \in {"connect", "freq"})
      /\ radio_state' \in {"Error", radio_state}
  BY DEF Failed, Finished
<1>2. /\ step = "connect" => g_radio = "starting"
      /\ g_radio = "starting" => step \in {"connect", "freq"} /\ req = Boot
      /\ g_radio \in {"starting", "ready"}
  <2>1. 1 \in 1 .. Len(todo)
    BY Typed
  <2>2. g_radio = "starting" => todo[1] \in {"connect", "freq", "publish"} /\ req = Boot
    BY DEF RadioInv, TodoInv
  <2> QED BY <2>1, <2>2 DEF RadioInv, TodoInv, TypeOK, Settable, GroupSteps
<1> HIDE DEF step
<1>3. todo' \in Seq(Steps) /\ (todo' # <<>> => todo' = <<"publish">> /\ g_radio = "starting")
  <2>1. todo' \in {<<>>, <<"publish">>} /\ (g_radio = "ready" => todo' = <<>>)
    BY <1>1, Zenon
  <2> QED BY <1>2, <2>1, Publishing, Zenon
<1>4. req' \in Requests
  BY <1>1, Typed, RadioAssumption DEF Boot, Requests
<1>5. TypeOK'
  <2>1. Len(commands') <= MaxLate + 1
    BY RadioAssumption DEF WireTyped
  <2> QED BY <1>1, <1>3, <1>4, <2>1 DEF RadioInv, TypeOK, WireTyped
<1>6. TodoInv'
  <2>1. \A i \in 1 .. Len(todo') : todo'[i] = "publish" /\ Len(todo') = 1
    BY <1>3
  <2> QED BY <1>1, <1>2, <1>3, <2>1 DEF TodoInv, Settable, GroupSteps
<1>7. WireInv'
  BY <1>1 DEF WireInv, WireTyped
<1>8. KeyInv'
  <2>1. keyed' => ~error' /\ g_radio' = "ready"
    BY <1>1, <1>2 DEF RadioInv, KeyInv
  <2>2. ASSUME ~error'
        PROVE  /\ ~error /\ g_radio = "ready" /\ driver.freq # NoFreq /\ step # "freq"
               /\ ~late' => sa818.freq = driver.freq
    BY <1>1, <1>2, <2>2 DEF RadioInv, KeyInv, step
  <2> QED BY <2>1, <2>2 DEF KeyInv
<1>9. GroupInv' /\ SuccessMeansInForce'
  BY <1>1, <1>2 DEF GroupInv, SuccessMeansInForce
<1> QED BY <1>5, <1>6, <1>7, <1>8, <1>9 DEF RadioInv

\* A step succeeds: the module follows the driver.
LEMMA SucceededKeeps ==
  ASSUME RadioInv, todo # <<>>, todo[1] \in Settable \cup {"connect"}, Succeeded,
         driver' \in Settings, sa818' = sa818, keyed' \in BOOLEAN, keyed' => keyed,
         WireTyped', late => late', UNCHANGED <<published, sending, sent>>,
         driver.freq # NoFreq \/ todo[1] = "freq" => driver'.freq # NoFreq,
         ~error /\ ~late' /\ driver'.freq # NoFreq => sa818.freq = driver'.freq,
         g_radio = "ready" /\ sent /\ ~late' =>
            driver'.freq # NoFreq /\ Group(sa818) = Group(driver')
  PROVE  RadioInv'
<1>1. /\ todo' = IF Len(todo) = 1 THEN <<"publish">> ELSE Tail(todo)
      /\ waiting' = FALSE /\ req' = (IF todo' = <<>> THEN Boot ELSE req)
      /\ UNCHANGED <<error, g_radio, radio_state, result>>
  BY DEF Succeeded, Finished
<1>2. todo \in Seq(Steps) /\ Len(todo) \in Nat \ {0}
  BY Typed
<1>3. todo' \in Seq(Steps) /\ todo' # <<>> /\ req' = req
  <2>1. CASE Len(todo) = 1
    BY <1>1, <2>1, Publishing, Zenon
  <2>2. CASE Len(todo) # 1
    <3>1. Tail(todo) \in Seq(Steps) /\ Tail(todo) # <<>>
      BY <1>2, <2>2, Shortened, Zenon
    <3> QED BY <1>1, <2>2, <3>1, Zenon
  <2> QED BY <2>1, <2>2
<1>4. TypeOK'
  <2>1. Len(commands') <= MaxLate + 1
    BY RadioAssumption DEF WireTyped
  <2> QED BY <1>1, <1>3, <2>1 DEF RadioInv, TypeOK, WireTyped
<1>5. /\ g_radio # "failed"
      /\ g_radio = "starting" => /\ todo' \in {<<"freq">>, <<"publish">>} /\ req = Boot
                                 /\ todo' = <<"publish">> => todo[1] = "freq"
  <2>1. g_radio = "starting" => todo \in {<<"connect", "freq">>, <<"freq">>} /\ req = Boot
    BY DEF RadioInv, TodoInv, Settable, GroupSteps
  <2>2. todo = <<"connect", "freq">> => todo' = <<"freq">>
    BY <1>1
  <2>3. todo = <<"freq">> => todo' = <<"publish">> /\ todo[1] = "freq"
    BY <1>1
  <2>4. g_radio # "failed"
    BY DEF RadioInv, TodoInv
  <2>5. <<"freq">> # <<"publish">>
    BY Z3
  <2> QED BY <2>1, <2>2, <2>3, <2>4, <2>5, Zenon
<1>6. TodoInv'
  <2>1. ASSUME NEW i \in 1 .. Len(todo')
        PROVE  /\ todo'[i] \in Settable => req[todo'[i]] # None
               /\ todo'[i] = "connect" => g_radio = "starting"
               /\ todo'[i] = "publish" => Len(todo') = 1
    <3>1. CASE Len(todo) = 1
      <4>1. todo' = <<"publish">> /\ i = 1
        BY <1>1, <3>1
      <4> QED BY <4>1 DEF Settable, GroupSteps
    <3>2. CASE Len(todo) # 1
      <4>1. i + 1 \in 1 .. Len(todo) /\ todo'[i] = todo[i + 1]
        BY <1>1, <1>2, <3>2
      <4> QED BY <3>2, <4>1 DEF RadioInv, TodoInv
    <3> QED BY <3>1, <3>2
  <2> QED BY <1>1, <1>3, <1>5, <2>1 DEF TodoInv
<1>7. WireInv'
  BY <1>1 DEF WireInv, WireTyped
<1>8. KeyInv'
  <2>1. keyed' => ~error' /\ g_radio' = "ready"
    BY <1>1 DEF RadioInv, KeyInv
  <2>2. ~error /\ (g_radio = "ready" \/ todo' = <<"publish">>) => driver'.freq # NoFreq
    BY <1>5 DEF RadioInv, KeyInv, TypeOK
  <2> QED BY <1>1, <2>1, <2>2 DEF KeyInv
<1>9. GroupInv'
  <2>1. Group(driver)' = Group(driver') /\ Group(sa818)' = Group(sa818)
    BY Zenon DEF Group
  <2> QED BY <1>1, <2>1 DEF GroupInv
<1>10. SuccessMeansInForce'
  BY <1>1, <1>3 DEF SuccessMeansInForce, Idle
<1> QED BY <1>4, <1>6, <1>7, <1>8, <1>9, <1>10 DEF RadioInv

(* The step at hand.                                                       *)
LEMMA AtHand ==
  ASSUME RadioInv, todo # <<>>, todo # <<"publish">>
  PROVE  /\ todo[1] \in Settable \cup {"connect"} /\ Head(todo) = todo[1]
         /\ todo[1] \in Settable => req[todo[1]] # None
<1>1. todo \in Seq(Steps) /\ 1 \in 1 .. Len(todo) /\ Head(todo) = todo[1]
  BY Typed
<1>2. todo[1] # "publish"
  <2> SUFFICES ASSUME todo[1] = "publish" PROVE FALSE
    OBVIOUS
  <2>1. Len(todo) = 1
    BY <1>1 DEF RadioInv, TodoInv
  <2>2. todo = <<todo[1]>>
    BY <1>1, <2>1
  <2> QED BY <2>2
<1>3. todo[1] \in Settable \cup {"connect"}
  BY <1>2, Typed DEF Steps, Settable, GroupSteps
<1> QED BY <1>1, <1>3, Typed

(* Squelch and width are stored before they are sent.                      *)
LEMMA StoredFirst ==
  ASSUME RadioInv, NEW step \in Settable \cup {"connect"}, step \in Settable => req[step] # None
  PROVE  /\ Cached(step) \in Settings /\ Cached(step).freq = driver.freq
         /\ step \notin {"squelch", "wide"} => Cached(step) = driver
         /\ step \in {"squelch", "wide"} => Cached(step)[step] = req[step]
         /\ step \in Settable => Put(Cached(step), step, req[step]) = Put(driver, step, req[step])
<1>1. CASE step \in {"squelch", "wide"}
  <2>1. Cached(step) = Put(driver, step, req[step]) /\ step \in Settable
    BY <1>1 DEF Cached, Put, Settable, GroupSteps
  <2> QED BY <1>1, <2>1, PutFields, Typed
<1>2. CASE step \notin {"squelch", "wide"}
  BY <1>2, Typed DEF Cached
<1> QED BY <1>1, <1>2

\* A step is refused, needs nothing, is written or cannot be.
LEMMA ApplyKeeps ==
  ASSUME RadioInv, NEW written \in BOOLEAN, Apply(written)
  PROVE  RadioInv'
<1> DEFINE step == todo[1]
<1>1. /\ todo # <<>> /\ todo # <<"publish">> /\ ~waiting /\ Head(todo) = step
      /\ step \in Settable \cup {"connect"} /\ (step \in Settable => req[step] # None)
  BY AtHand DEF Apply
<1>2. /\ driver' = Cached(step) /\ UNCHANGED <<published, sa818, line, sending, late>>
      /\ \/ /\ Refused(step) /\ Failed(step) /\ UNCHANGED <<commands, keyed, sent>>
         \/ /\ ~Refused(step) /\ NothingToSend(step) /\ Succeeded
            /\ UNCHANGED <<commands, keyed, sent>>
         \/ /\ ~Refused(step) /\ ~NothingToSend(step) /\ written
            /\ commands' = Append(commands, Command(step))
            /\ waiting' = TRUE
            /\ sent' = (sent \/ Command(step).kind = "group")
            /\ UNCHANGED <<error, g_radio, radio_state, req, todo, keyed, result>>
         \/ /\ ~Refused(step) /\ ~NothingToSend(step) /\ ~written
            /\ Failed(step) /\ keyed' = FALSE /\ UNCHANGED <<commands, sent>>
  BY <1>1, Zenon DEF Apply
<1>3. /\ driver' \in Settings /\ driver'.freq = driver.freq
      /\ step \notin {"squelch", "wide"} => driver' = driver
      /\ step \in {"squelch", "wide"} => driver'[step] = req[step]
      /\ step \in Settable => Put(driver', step, req[step]) = Put(driver, step, req[step])
  <2> HIDE DEF step
  <2> QED BY <1>1, <1>2, StoredFirst
<1>4. commands' = commands => WireTyped'
  <2>1. ~late => commands = <<>> /\ line = <<>>
    BY <1>1 DEF RadioInv, WireInv
  <2> QED BY <1>1, <1>2, <2>1 DEF RadioInv, TypeOK, WireInv, WireTyped
<1>5. keyed \in BOOLEAN /\ sent \in BOOLEAN /\ (keyed => ~error /\ g_radio = "ready")
      /\ (g_radio = "ready" => step # "connect")
  <2>1. 1 \in 1 .. Len(todo)
    BY <1>1, Typed
  <2>2. step = "connect" => g_radio = "starting"
    BY <2>1 DEF RadioInv, TodoInv
  <2> QED BY <2>2 DEF RadioInv, TypeOK, KeyInv
<1>6. CASE Refused(step) /\ Failed(step) /\ UNCHANGED <<commands, keyed, sent>>
  <2>1. ~keyed'
    BY <1>5, <1>6 DEF Refused
  <2> QED BY <1>1, <1>2, <1>3, <1>4, <1>5, <1>6, <2>1, FailedKeeps
<1>7. CASE Failed(step) /\ keyed' = FALSE /\ UNCHANGED <<commands, sent>>
  BY <1>1, <1>2, <1>3, <1>4, <1>5, <1>7, FailedKeeps
<1>8. CASE NothingToSend(step) /\ Succeeded /\ UNCHANGED <<commands, keyed, sent>>
  <2>1. driver.freq # NoFreq \/ step = "freq" => driver'.freq # NoFreq
    <3>1. step = "freq" => driver.freq \in Freqs
      BY <1>1, <1>8, Typed, PutFields DEF NothingToSend, Settable, GroupSteps
    <3> QED BY <1>3, <3>1, RadioAssumption
  <2>2. ~error /\ ~late' /\ driver'.freq # NoFreq => sa818.freq = driver'.freq
    BY <1>1, <1>2, <1>3 DEF RadioInv, KeyInv
  <2>3. g_radio = "ready" /\ sent /\ ~late' =>
          driver'.freq # NoFreq /\ Group(sa818) = Group(driver')
    <3> SUFFICES ASSUME g_radio = "ready", sent, ~late'
                 PROVE  driver'.freq # NoFreq /\ Group(sa818) = Group(driver')
      OBVIOUS
    <3>1. driver.freq # NoFreq /\ Group(sa818) = Group(driver)
      BY <1>1, <1>2 DEF RadioInv, GroupInv
    <3>2. driver' = driver
      BY <1>3, <1>8, <3>1 DEF NothingToSend
    <3> QED BY <3>1, <3>2
  <2> QED BY <1>1, <1>2, <1>3, <1>4, <1>5, <1>8, <2>1, <2>2, <2>3, SucceededKeeps
<1>9. CASE /\ ~NothingToSend(step) /\ commands' = Append(commands, Command(step))
           /\ waiting' = TRUE /\ sent' = (sent \/ Command(step).kind = "group")
           /\ UNCHANGED <<error, g_radio, radio_state, req, todo, keyed, result>>
  <2>1. /\ Command(step) \in Commands
        /\ step \in GroupSteps =>
             Command(step) = [kind |-> "group", set |-> Group(Put(driver, step, req[step]))]
        /\ step \notin GroupSteps => Command(step).kind = step /\ step # "group"
    <3>1. TypeOK
      BY DEF RadioInv
    <3> HIDE DEF step
    <3>2. /\ Command(step) \in Commands
          /\ step \notin GroupSteps => Command(step).kind = step
      BY <1>1, <3>1, CommandOf
    <3>3. step \in GroupSteps =>
            Command(step) = [kind |-> "group", set |-> Group(Put(driver, step, req[step]))]
      BY DEF Command, Put, GroupSteps
    <3>4. step # "group"
      BY <1>1 DEF Settable, GroupSteps
    <3> QED BY <3>2, <3>3, <3>4
  <2>2. Asked' = Command(step)
    <3>1. Asked' = CASE step = "connect" -> [kind |-> "connect", set |-> None]
                     [] step = "volume" -> [kind |-> "volume", set |-> req.volume]
                     [] OTHER -> [kind |-> "group", set |-> Group(Put(driver', step, req[step]))]
      BY <1>9, Zenon DEF Asked, Command, Put, Group
    <3>2. Command(step) = CASE step = "connect" -> [kind |-> "connect", set |-> None]
                     [] step = "volume" -> [kind |-> "volume", set |-> req.volume]
                     [] OTHER -> [kind |-> "group", set |-> Group(Put(driver, step, req[step]))]
      BY Zenon DEF Command, Put
    <3> HIDE DEF step
    <3>3. CASE step \in Settable
      BY <1>3, <3>1, <3>2, <3>3
    <3>4. CASE step = "connect"
      BY <3>1, <3>2, <3>4
    <3> QED BY <1>1, <3>3, <3>4
  <2> DEFINE c == Command(step)
  <2>3. commands' = Append(commands, c) /\ c \in Commands /\ Asked' = c
    BY <1>9, <2>1, <2>2, Zenon
  <2>4. commands \in Seq(Commands) /\ Len(commands) <= MaxLate /\ Len(commands) \in Nat
    <3>1. commands \in Seq(Commands)
      BY Typed
    <3>2. Len(commands) <= MaxLate
      BY <1>1 DEF RadioInv, WireInv
    <3>3. Len(commands) \in Nat
      BY <3>1
    <3> QED BY <3>1, <3>2, <3>3
  <2>5. /\ commands' \in Seq(Commands) /\ Len(commands') <= MaxLate + 1
        /\ commands = <<>> => commands' = <<c>>
    <3> HIDE DEF c
    <3>1. commands' \in Seq(Commands) /\ Len(commands') = Len(commands) + 1
      BY <2>3, <2>4
    <3>2. commands = <<>> => commands' = <<c>>
      BY <2>3
    <3> QED BY <2>4, <3>1, <3>2, RadioAssumption
  <2>6. TypeOK'
    BY <1>1, <1>2, <1>3, <1>5, <1>9, <2>5 DEF RadioInv, TypeOK
  <2>7. TodoInv'
    <3>1. step # "publish"
      BY <1>1 DEF Settable, GroupSteps
    <3> QED BY <1>1, <1>9, <3>1 DEF RadioInv, TodoInv
  <2>8. WireInv'
    <3>1. ~late => commands = <<>> /\ line = <<>>
      BY <1>1 DEF RadioInv, WireInv
    <3> QED BY <1>2, <1>9, <2>3, <2>5, <3>1, Zenon DEF WireInv
  <2>9. KeyInv'
    <3>1. ~error /\ ~late /\ driver.freq # NoFreq => sa818.freq = driver.freq
      BY <1>1 DEF RadioInv, KeyInv
    <3>2. todo # <<"publish">>
      BY <1>1
    <3>3. ~error /\ g_radio = "ready" => driver.freq # NoFreq
      BY DEF RadioInv, KeyInv
    <3> QED BY <1>2, <1>3, <1>5, <1>9, <3>1, <3>2, <3>3, Zenon DEF KeyInv
  <2>10. GroupInv'
    <3>1. step \in {"squelch", "wide"} => driver'.freq # NoFreq /\ driver'[step] = req[step]
      BY <1>3, <1>9 DEF NothingToSend
    <3>2. ASSUME g_radio = "ready", sent', ~late, step \notin GroupSteps
          PROVE  driver'.freq # NoFreq /\ Group(sa818) = Group(driver')
      <4>1. sent /\ driver' = driver
        BY <1>3, <1>9, <2>1, <3>2 DEF GroupSteps
      <4> QED BY <1>1, <3>2, <4>1 DEF RadioInv, GroupInv
    <3>3. Group(driver)' = Group(driver') /\ Group(sa818)' = Group(sa818)
      BY <1>2, Zenon DEF Group
    <3>4. GroupSteps' = GroupSteps /\ NoFreq' = NoFreq
      BY Zenon DEF GroupSteps, NoFreq
    <3> QED BY <1>2, <1>9, <3>1, <3>2, <3>3, <3>4, Zenon DEF GroupInv
  <2>11. SuccessMeansInForce'
    BY <1>1, <1>9 DEF SuccessMeansInForce, Idle
  <2> QED BY <2>6, <2>7, <2>8, <2>9, <2>10, <2>11 DEF RadioInv
<1> QED BY <1>2, <1>6, <1>7, <1>8, <1>9

(* What a read leaves on the wire.                                         *)
LEMMA ReadClears ==
  ASSUME RadioInv, ReadAnswer
  PROVE  WireTyped' /\ (late => late')
<1> DEFINE A == [kind : {"connect", "group", "volume", Scrap}, ok : BOOLEAN]
<1>1. /\ waiting /\ line \in Seq(A) /\ commands \in Seq(Commands)
      /\ Len(commands) <= MaxLate + 1 /\ MaxLate \in Nat /\ late \in BOOLEAN
  BY RadioAssumption DEF RadioInv, TypeOK, ReadAnswer
<1>2. /\ line' = IF Len(Answers) > 1
                 THEN <<[kind |-> Scrap, ok |-> FALSE]>> \o SubSeq(Answers, 3, Len(Answers))
                 ELSE <<>>
      /\ commands' = IF Len(commands) > MaxLate THEN Tail(commands) ELSE commands
      /\ late' = (late \/ commands' # <<>>)
  BY DEF ReadAnswer
<1>3. [kind |-> Scrap, ok |-> FALSE] \in A
  OBVIOUS
<1>4. Answers = line \/ (line # <<>> /\ Answers = Tail(line))
  BY DEF Answers
<1> DEFINE scrap == [kind |-> Scrap, ok |-> FALSE]
<1>5. scrap \in A
  BY <1>3
<1> HIDE DEF A, scrap
<1>6. Answers \in Seq(A) /\ Len(Answers) <= Len(line) /\ Len(line) \in Nat
  <2>1. line # <<>> => Tail(line) \in Seq(A) /\ Len(Tail(line)) = Len(line) - 1
    BY <1>1
  <2>2. line \in Seq(A) /\ Len(line) \in Nat
    BY <1>1
  <2> QED BY <1>4, <2>1, <2>2
<1>7. line' \in Seq(A)
  <2>1. line' = IF Len(Answers) > 1 THEN <<scrap>> \o SubSeq(Answers, 3, Len(Answers)) ELSE <<>>
    BY <1>2, Zenon DEF scrap
  <2> DEFINE B == Answers
  <2>2. B \in Seq(A)
    BY <1>6
  <2> HIDE DEF B
  <2>3. Len(B) \in Nat /\ \A i \in 3 .. Len(B) : B[i] \in A
    BY <2>2
  <2>4. SubSeq(B, 3, Len(B)) \in Seq(A)
    BY <2>2, <2>3
  <2>5. <<scrap>> \in Seq(A) /\ <<>> \in Seq(A)
    BY <1>5
  <2>6. <<scrap>> \o SubSeq(B, 3, Len(B)) \in Seq(A)
    BY <2>4, <2>5
  <2> QED BY <2>1, <2>5, <2>6, Zenon DEF B
<1>8. commands' \in Seq(Commands) /\ Len(commands') <= MaxLate
  <2>1. CASE Len(commands) > MaxLate
    <3>1. commands' = Tail(commands) /\ commands # <<>>
      BY <1>1, <1>2, <2>1
    <3>2. Tail(commands) \in Seq(Commands) /\ Len(Tail(commands)) = Len(commands) - 1
      BY <1>1, <3>1
    <3> QED BY <1>1, <3>1, <3>2
  <2>2. CASE ~(Len(commands) > MaxLate)
    BY <1>1, <1>2, <2>2
  <2> QED BY <2>1, <2>2
<1>9. ASSUME ~late' PROVE commands' = <<>> /\ line' = <<>>
  <2>1. ~late /\ commands' = <<>>
    BY <1>2, <1>9
  <2>2. line \in {<<>>, <<Answer(TRUE)>>, <<Answer(FALSE)>>}
    BY <1>1, <2>1, Zenon DEF RadioInv, WireInv
  <2>3. Len(line) <= 1
    <3>1. Len(<<Answer(TRUE)>>) = 1 /\ Len(<<Answer(FALSE)>>) = 1
      BY Single, Zenon
    <3>2. Len(<<>>) = 0
      OBVIOUS
    <3>3. Len(line) = 0 \/ Len(line) = 1
      BY <2>2, <3>1, <3>2, Zenon
    <3>4. 0 <= 1 /\ 1 <= 1
      OBVIOUS
    <3> QED BY <3>3, <3>4, Zenon
  <2> QED BY <1>2, <1>6, <2>1, <2>3
<1>10. late' \in BOOLEAN /\ (late => late')
  BY <1>1, <1>2
<1> QED BY <1>7, <1>8, <1>9, <1>10 DEF WireTyped, A

(* A confirmation that is not late means that the command is in force.     *)
LEMMA ConfirmedInForce ==
  ASSUME RadioInv, waiting, ~late, todo[1] \in GroupSteps, Confirmed(todo[1])
  PROVE  Group(sa818) = Group(Put(driver, todo[1], req[todo[1]]))
<1>1. line # <<>> /\ line[1] = [kind |-> Asked.kind, ok |-> TRUE]
  BY DEF Confirmed, Asked, GroupSteps
<1>2. line # <<Answer(FALSE)>>
  <2>1. Answer(FALSE) # [kind |-> Asked.kind, ok |-> TRUE]
    <3>1. \A k : [kind |-> k, ok |-> FALSE] # [kind |-> k, ok |-> TRUE]
      <4> TAKE k
      <4>1. [kind |-> k, ok |-> FALSE].ok = FALSE /\ [kind |-> k, ok |-> TRUE].ok = TRUE
        OBVIOUS
      <4> QED BY <4>1, Zenon
    <3> QED BY <3>1, Zenon DEF Answer
  <2>2. <<Answer(FALSE)>>[1] = Answer(FALSE)
    BY Single, Zenon
  <2> QED BY <1>1, <2>1, <2>2, Zenon
<1>3. Obeyed
  <2>1. \/ commands = <<Asked>> /\ line = <<>>
        \/ commands = <<>> /\ line \in {<<>>, <<Answer(FALSE)>>}
        \/ commands = <<>> /\ line = <<Answer(TRUE)>> /\ Obeyed
    BY Zenon DEF RadioInv, WireInv
  <2> QED BY <1>1, <1>2, <2>1, Zenon
<1> QED BY <1>3, AskedOf, Zenon DEF Obeyed

\* The read returns: with the answer, with an older one, with none.
LEMMA ReadKeeps ==
  ASSUME RadioInv, ReadAnswer
  PROVE  RadioInv'
<1> DEFINE step == todo[1]
           ok == Confirmed(step)
<1>1. /\ waiting /\ todo # <<>> /\ Head(todo) = step
      /\ step \in Settable \cup {"connect"} /\ (step \in Settable => req[step] # None)
  <2>1. todo # <<>> /\ waiting /\ step \in Settable \cup {"connect"}
    BY Typed DEF ReadAnswer
  <2>2. Head(todo) = step
    BY <2>1, Typed
  <2> QED BY <2>1, <2>2, Typed
<1>2. /\ driver' = (IF ok /\ step \in {"freq", "volume"} THEN Put(driver, step, req[step])
                   ELSE driver)
      /\ IF ok THEN Succeeded ELSE Failed(step)
      /\ keyed' = (keyed /\ line # <<>> /\ (ok \/ step # "freq"))
      /\ UNCHANGED <<published, sa818, sending, sent>>
  BY <1>1, Zenon DEF ReadAnswer, Put
<1>3. WireTyped' /\ (late => late')
  BY ReadClears
<1>4. keyed \in BOOLEAN /\ sent \in BOOLEAN /\ (keyed => ~error /\ g_radio = "ready")
      /\ (g_radio = "ready" => step # "connect")
  <2>1. 1 \in 1 .. Len(todo)
    BY <1>1, Typed
  <2>2. step = "connect" => g_radio = "starting"
    BY <2>1 DEF RadioInv, TodoInv
  <2> QED BY <2>2 DEF RadioInv, TypeOK, KeyInv
<1>5. driver \in Settings /\ req \in Requests
  BY Typed
<1>6. CASE ok
  <2>1. /\ driver' \in Settings
        /\ driver'.freq = IF step = "freq" THEN req.freq ELSE driver.freq
        /\ step = "freq" => req.freq \in Freqs
    <3> HIDE DEF step
    <3>1. CASE step \in {"freq", "volume"}
      <4>1. step \in Settable /\ req[step] # None
        BY <1>1, <3>1 DEF Settable, GroupSteps
      <4>2. driver' = Put(driver, step, req[step])
        BY <1>2, <1>6, <3>1, Zenon
      <4> QED BY <1>5, <4>1, <4>2, PutFields
    <3>2. CASE step \notin {"freq", "volume"}
      BY <1>2, <1>5, <3>2
    <3> QED BY <3>1, <3>2
  <2>2. step \in GroupSteps => driver' = Put(driver, step, req[step])
    <3>1. step \in {"squelch", "wide"} => driver[step] = req[step]
      BY <1>1 DEF RadioInv, GroupInv
    <3> HIDE DEF step
    <3>2. step \in {"squelch", "wide"} => driver = Put(driver, step, req[step])
      BY <1>1, <1>5, <3>1, PutFields DEF Settable, GroupSteps
    <3>3. step = "freq" => driver' = Put(driver, step, req[step])
      BY <1>2, <1>6
    <3>4. step \in {"squelch", "wide"} => driver' = driver
      BY <1>2
    <3> QED BY <3>2, <3>3, <3>4 DEF GroupSteps
  <2>3. step \in GroupSteps /\ ~late => Group(sa818) = Group(driver')
    BY <1>1, <1>6, <2>2, ConfirmedInForce
  <2>4. step \notin GroupSteps => Group(driver') = Group(driver)
    <3>1. step \notin GroupSteps => driver' \in {driver, Put(driver, "volume", req["volume"])}
      BY <1>2 DEF GroupSteps
    <3> QED BY <1>5, <3>1, SettingFields
  <2>5. driver.freq # NoFreq \/ step = "freq" => driver'.freq # NoFreq
    BY <2>1, RadioAssumption
  <2>6. ~error /\ ~late' /\ driver'.freq # NoFreq => sa818.freq = driver'.freq
    <3>1. CASE step \in GroupSteps
      BY <1>3, <2>1, <2>3, <3>1, Typed, SettingFields
    <3>2. CASE step \notin GroupSteps
      BY <1>1, <1>3, <2>1, <3>2 DEF RadioInv, KeyInv, GroupSteps
    <3> QED BY <3>1, <3>2
  <2>7. g_radio = "ready" /\ sent /\ ~late' =>
          driver'.freq # NoFreq /\ Group(sa818) = Group(driver')
    <3> SUFFICES ASSUME g_radio = "ready", sent, ~late'
                 PROVE  driver'.freq # NoFreq /\ Group(sa818) = Group(driver')
      OBVIOUS
    <3>1. CASE step \in GroupSteps
      <4>1. driver.freq # NoFreq \/ step = "freq"
        BY <1>1, <3>1 DEF RadioInv, GroupInv, GroupSteps
      <4> QED BY <1>3, <2>3, <2>5, <3>1, <4>1
    <3>2. CASE step \notin GroupSteps
      <4>1. driver.freq # NoFreq /\ Group(sa818) = Group(driver)
        BY <1>1, <1>3, <3>2 DEF RadioInv, GroupInv
      <4> QED BY <2>4, <2>5, <3>2, <4>1
    <3> QED BY <3>1, <3>2
  <2>8. Succeeded /\ keyed' \in BOOLEAN /\ (keyed' => keyed)
    BY <1>2, <1>4, <1>6
  <2> QED BY <1>1, <1>2, <1>3, <2>1, <2>5, <2>6, <2>7, <2>8, SucceededKeeps
<1>7. CASE ~ok
  <2>1. Failed(step) /\ driver' = driver
    BY <1>2, <1>7, Zenon
  <2>2. error' = (error \/ step \in {"connect", "freq"})
    BY <2>1 DEF Failed
  <2>3. keyed' => keyed /\ ~error'
    BY <1>2, <1>4, <1>7, <2>2
  <2>4. keyed' \in BOOLEAN /\ sent' \in BOOLEAN
    BY <1>2, <1>4
  <2> HIDE DEF ok
  <2> QED BY <1>1, <1>2, <1>3, <1>5, <2>1, <2>3, <2>4, FailedKeeps
<1> QED BY <1>6, <1>7

\* The driver's settings are published: in force, if they were sent.
LEMMA PublishKeeps ==
  ASSUME RadioInv, Publish
  PROVE  RadioInv'
<1>1. /\ todo = <<"publish">> /\ ~waiting /\ published' = driver /\ todo' = <<>>
      /\ waiting' = FALSE /\ req' = Boot /\ g_radio' = "ready"
      /\ result' = (IF g_radio = "ready" THEN "ok" ELSE None)
      /\ radio_state' \in {"Idle", radio_state}
      /\ UNCHANGED <<driver, error, sa818, commands, line, sending, keyed, sent, late>>
  BY DEF Publish, Finished, uart
<1>2. todo' \in Seq(Steps) /\ todo # <<>>
  BY <1>1, Publishing, Zenon
<1>3. Boot \in Requests
  BY RadioAssumption DEF Boot, Requests
<1>4. TypeOK'
  BY <1>1, <1>2, <1>3 DEF RadioInv, TypeOK
<1>5. TodoInv'
  BY <1>1 DEF TodoInv
<1>6. WireInv'
  BY <1>1 DEF RadioInv, WireInv
<1>7. KeyInv'
  BY <1>1 DEF RadioInv, KeyInv
<1>8. GroupInv'
  BY <1>1 DEF GroupInv
<1>9. SuccessMeansInForce'
  <2>1. ASSUME result' = "ok", sent, ~late
        PROVE  Group(sa818) = Group(driver)
    <3>1. g_radio = "ready"
      BY <1>1, <2>1 DEF None
    <3> QED BY <1>1, <1>2, <2>1, <3>1 DEF RadioInv, GroupInv
  <2>2. Group(sa818)' = Group(sa818) /\ Group(published)' = Group(driver)
    BY <1>1, Zenon DEF Group
  <2> QED BY <1>1, <2>1, <2>2 DEF SuccessMeansInForce
<1> QED BY <1>4, <1>5, <1>6, <1>7, <1>8, <1>9 DEF RadioInv

\* aprs_task keys only without error, and changes no setting.
LEMMA TxKeeps ==
  ASSUME RadioInv, TxKey \/ TxEnd
  PROVE  RadioInv'
<1>1. /\ UNCHANGED <<driver, error, g_radio, published, sa818, commands, line, req, todo,
                     waiting, result, sent, late>>
      /\ sending' \in BOOLEAN /\ radio_state' \in {"Tx", "Idle"}
      /\ keyed' \in BOOLEAN /\ (keyed' => ~error /\ g_radio = "ready")
  BY DEF TxKey, TxEnd, MayKey, uart, handler
<1>2. TypeOK'
  BY <1>1 DEF RadioInv, TypeOK
<1>3. KeyInv'
  BY <1>1 DEF RadioInv, KeyInv
<1>4. TodoInv' /\ WireInv' /\ GroupInv' /\ SuccessMeansInForce'
  BY <1>1, Zenon DEF RadioInv, TodoInv, WireInv, GroupInv, SuccessMeansInForce, Idle, Asked,
     Answer, Obeyed, Command, Group, GroupSteps, Settable, Boot, None, NoFreq
<1> QED BY <1>2, <1>3, <1>4 DEF RadioInv

\* Nothing changes.
LEMMA StutterKeeps ==
  ASSUME RadioInv, UNCHANGED vars
  PROVE  RadioInv'
<1>1. UNCHANGED <<driver, error, g_radio, radio_state, published, sa818, commands, line, req,
                  todo, waiting, sending, keyed, result, sent, late>>
  BY DEF vars, uart, handler
<1>2. TypeOK'
  BY <1>1 DEF RadioInv, TypeOK
<1>3. TodoInv' /\ KeyInv'
  BY <1>1, Zenon DEF RadioInv, TodoInv, KeyInv, GroupSteps, Settable, Boot, None, NoFreq
<1>4. WireInv'
  BY <1>1, Zenon DEF RadioInv, WireInv, Asked, Answer, Obeyed, Command, Group
<1>5. GroupInv' /\ SuccessMeansInForce'
  BY <1>1, Zenon DEF RadioInv, GroupInv, SuccessMeansInForce, Idle, Group, GroupSteps, NoFreq
<1> QED BY <1>2, <1>3, <1>4, <1>5 DEF RadioInv

\* Every step preserves the invariant.
LEMMA RadioStep == RadioInv /\ [Next]_vars => RadioInv'
<1> SUFFICES ASSUME RadioInv, [Next]_vars PROVE RadioInv'
  OBVIOUS
<1>1. CASE \E heard, obeys, answers \in BOOLEAN : Sa818(heard, obeys, answers)
  BY <1>1, Sa818Keeps
<1>2. CASE \E r \in Requests : RadioSet(r)
  BY <1>2, RadioSetKeeps
<1>3. CASE \E written \in BOOLEAN : Apply(written)
  BY <1>3, ApplyKeeps
<1>4. CASE ReadAnswer
  BY <1>4, ReadKeeps
<1>5. CASE Publish
  BY <1>5, PublishKeeps
<1>6. CASE TxKey \/ TxEnd
  BY <1>6, TxKeeps
<1>7. CASE RadioFailed \/ UNCHANGED vars
  BY <1>7, StutterKeeps DEF RadioFailed
<1> QED BY <1>1, <1>2, <1>3, <1>4, <1>5, <1>6, <1>7 DEF Next, Handler

--------------------------------------------------------------------------------
(* The driver, the wire and the module agree as the parts of RadioInv say, *)
(* through every refused, lost and unsent command and every transmission.  *)
THEOREM RadioInvariant == Spec => []RadioInv
<1>1. Init => RadioInv
  BY RadioInit
<1>2. RadioInv /\ [Next]_vars => RadioInv'
  BY RadioStep
<1> QED BY <1>1, <1>2, PTL DEF Spec

(* Every variable has its type.                                            *)
THEOREM RadioTyped == Spec => []TypeOK
<1>1. RadioInv => TypeOK
  BY DEF RadioInv
<1> QED BY <1>1, RadioInvariant, PTL

(* The station is on the air only on the frequency its driver holds, while *)
(* no request is being applied and no answer was late.                     *)
THEOREM OnDriversFrequency == Spec => []KeyedOnDriverFreq
<1>1. RadioInv => KeyedOnDriverFreq
  BY DEF RadioInv, KeyInv, KeyedOnDriverFreq, Idle
<1> QED BY <1>1, RadioInvariant, PTL

(* radio_set answered with success after it sent the group: what it set is *)
(* in force and published.                                                 *)
THEOREM SuccessInForce == Spec => []SuccessMeansInForce
<1>1. RadioInv => SuccessMeansInForce
  BY DEF RadioInv
<1> QED BY <1>1, RadioInvariant, PTL

================================================================================
