------------------------------ MODULE DeviceConfig -----------------------------
(***************************************************************************)
(* The station's identity, callsign and SSID: a client writes it as JSON,  *)
(* on_config_write() (main.cpp, BLE host task) has PayloadValidator read   *)
(* the fields out of the text and DeviceConfigStore store them in memory   *)
(* and in NVS; a reset goes back to what NVS holds. on_tx_request() has    *)
(* the same validator read a message out of the text it is written.        *)
(*                                                                         *)
(* A text is a sequence of tokens. "q" is a quotation mark; "colon" the    *)
(* colon with the spaces and tabs around it, "late" one that a line break  *)
(* keeps from its name, "break" a line break before a value; "comma" is    *)
(* everything else between two values; a letter, a key word, an escape     *)
(* (backslash and what belongs to it) and a value without quotation marks  *)
(* stand for themselves. The names of members are written without escapes. *)
(***************************************************************************)
EXTENDS Integers, Sequences, SequencesExt

CONSTANTS
  Letters,      \* what a callsign may consist of; "ssid" is one of them
  BadLetters,   \* what else a string may contain
  Escapes,      \* the escapes that occur in strings
  Kept, Meant,  \* what the code makes of each, and what it is in JSON
  Bare,         \* the values without quotation marks: numbers, true, null
  Leading,      \* of those that begin with digits or a minus: their integer
  Integral,     \* those that consist of nothing else
  IntMod,       \* an int wraps at half of it (2^32)
  Objects,      \* the configurations that are written
  TxObjects,    \* the requests that are written
  kMaxCallsign, \* pieces of the longest callsign (6 characters)
  kMaxText,     \* pieces of the longest message text (67 characters)
  kMaxJsonLen   \* tokens of the first text that is refused as too long (512)

Keys == {"callsign", "ssid", "other", "dest", "text"}

(* The members of an object; layout says on which side of the colon the    *)
(* writer broke the line.                                                  *)
MembersOf(type, values) ==
  [key : Keys, layout : {"plain", "before", "after"}, type : {type}, val : values]
Members == MembersOf("string", Seq(Letters \cup BadLetters \cup Escapes))
             \cup MembersOf("bare", Bare)

ASSUME ConfigAssumption ==
  /\ "ssid" \in Letters
  /\ (Letters \cup BadLetters \cup Escapes \cup Bare) \cap {"q", "break", "end", "none"} = {}
  /\ (Letters \cup BadLetters) \cap Escapes = {}
  /\ {Kept, Meant} \subseteq [Escapes -> Seq(Letters \cup BadLetters \cup {"q"})]
  /\ DOMAIN Leading \subseteq Bare /\ Integral \subseteq DOMAIN Leading
  /\ \A x \in DOMAIN Leading : Leading[x] \in Int
  /\ Objects \subseteq Seq(Members) /\ TxObjects \subseteq Seq(Members)
  /\ {kMaxCallsign, kMaxText} \subseteq Nat \ {0}
  /\ kMaxJsonLen \in Nat /\ IntMod \in Nat \ {0}

VARIABLES
  callsign, ssid,   \* DeviceConfigStore: cfg_
  storage,          \* storage_ is set: NVS could be initialised
  nvs,              \* the blob NVS holds
  hpc, fields,      \* on_config_write: where it is, the fields it validated
  request,          \* the last request, as it is pushed for aprs_task
  asked,            \* history: what that request asked for
  clear,            \* history: it was written so that this is in no doubt
  expected,         \* history: the identity the last legal write asked for,
                    \* None when a write since has left that in doubt
  save_failed       \* history: NVS was told less than memory holds

config == <<callsign, ssid>>
handler == <<hpc, fields>>
messages == <<request, asked, clear>>
configVars == <<config, storage, nvs, handler, messages, expected, save_failed>>

Id(c, s) == [callsign |-> c, ssid |-> s]
Default == Id(<<>>, 0)       \* default_config()
None == Id(<<"none">>, 0)    \* no blob of this schema in NVS, no fields
NoRequest == [dest |-> <<"none">>, ssid |-> 0, text |-> <<>>]

--------------------------------------------------------------------------------
\* What a client writes: the text of a flat JSON object.
Quoted(s) == <<"q">> \o s \o <<"q">>
Separator(p) == IF p.layout = "before" THEN "late" ELSE "colon"
ValueOf(p) == (IF p.layout = "after" THEN <<"break">> ELSE <<>>)
                \o (IF p.type = "string" THEN Quoted(p.val) ELSE <<p.val>>)
TextOf(p) == Quoted(<<p.key>>) \o <<Separator(p)>> \o ValueOf(p) \o <<"comma">>
Text(obj) == FlattenSeq([i \in DOMAIN obj |-> TextOf(obj[i])])

\* The string that is written s, with an escape e read as how[e].
Reading(s, how) ==
  FlattenSeq([k \in DOMAIN s |-> IF s[k] \in Escapes THEN how[s[k]] ELSE <<s[k]>>])

\* An int that overflows wraps (undefined in C++, so in the build).
Wrapped(n) == ((n + IntMod \div 2) % IntMod) - IntMod \div 2

(* What the object means. Not the code: the reference the code is measured *)
(* against, JSON as the clients read and write it. The last member of a    *)
(* name counts, as in json.loads().                                        *)
Member(obj, key) == {i \in DOMAIN obj : obj[i].key = key}
LastOf(obj, key) == obj[CHOOSE i \in Member(obj, key) : \A j \in Member(obj, key) : j <= i]
StringIn(obj, key) == Reading(LastOf(obj, key).val, Meant)
HasString(obj, key, max) ==
  /\ Member(obj, key) # {} /\ LastOf(obj, key).type = "string"
  /\ Len(StringIn(obj, key)) \in 1..max
LegalSsid(p) == p.type = "bare" /\ p.val \in Integral /\ Leading[p.val] \in 0..15
LegalAs(obj, name) ==
  /\ Len(Text(obj)) < kMaxJsonLen
  /\ HasString(obj, name, kMaxCallsign) /\ Range(StringIn(obj, name)) \subseteq Letters
  /\ Member(obj, "ssid") # {} => LegalSsid(LastOf(obj, "ssid"))
SsidIn(obj) == IF Member(obj, "ssid") = {} THEN 0 ELSE Leading[LastOf(obj, "ssid").val]
Meaning(obj) ==
  IF LegalAs(obj, "callsign") THEN Id(StringIn(obj, "callsign"), SsidIn(obj)) ELSE None
TxMeaning(obj) ==
  IF LegalAs(obj, "dest") /\ HasString(obj, "text", kMaxText)
  THEN [dest |-> StringIn(obj, "dest"), ssid |-> SsidIn(obj), text |-> StringIn(obj, "text")]
  ELSE NoRequest

(* What the scanner is made for. It does not know JSON's escapes beyond    *)
(* quotation mark, backslash and slash, nor line breaks around a colon,    *)
(* fractions, exponents and numbers beyond an int, and of two members with *)
(* one name it takes the first.                                            *)
Plain(p) ==
  /\ p.layout = "plain"
  /\ p.type = "string" => \A e \in Range(p.val) \cap Escapes : Kept[e] = Meant[e]
  /\ p.type = "bare" /\ p.val \in DOMAIN Leading =>
       p.val \in Integral /\ Wrapped(Leading[p.val]) = Leading[p.val]
IsClear(obj, names) ==
  \A name \in names : \A i, j \in Member(obj, name) : i = j /\ Plain(obj[i])

--------------------------------------------------------------------------------
\* The text ends with a NUL.
At(t, i) == IF i \in DOMAIN t THEN t[i] ELSE "end"

\* Mutant: a quotation mark ends a string even after a backslash.
NextQuote_NoEscape(t, i) ==
  LET Marks(x) == x = "q" \/ (x \in Escapes /\ Kept[x] = <<"q">>)
      after == {j \in DOMAIN t : j > i /\ Marks(t[j])} IN
    IF after = {} THEN 0 ELSE CHOOSE j \in after : \A k \in after : j <= k

(* skip_string() from a quotation mark: where the string ends. 0: nowhere. *)
(* It steps over an escape, whatever is escaped.                           *)
NextQuote(t, i) ==
  LET after == {j \in DOMAIN t : j > i /\ t[j] = "q"} IN
    IF after = {} THEN 0 ELSE CHOOSE j \in after : \A k \in after : j <= k

\* Mutant: a string with the name of the key is the key, whatever follows it.
FindValue_NoColon(t, key) ==
  LET at == {j \in DOMAIN t : t[j] = "q" /\ At(t, j + 1) = key /\ At(t, j + 2) = "q"}
  IN  IF at = {} THEN 0 ELSE (CHOOSE j \in at : \A k \in at : j <= k) + 4

(* find_value(): the string at i is the key if it is the word and a colon  *)
(* follows; else the search goes on after it.                              *)
FindValue(t, key) ==
  LET from[i \in 0..(Len(t) + 1)] ==     \* 0: not found
        LET q == IF At(t, i) = "q" THEN i ELSE NextQuote(t, i)
            close == NextQuote(t, q) IN
          IF i = 0 \/ q = 0 THEN 0
          ELSE IF At(t, q + 1) = key /\ At(t, q + 2) = "q"
               THEN IF At(t, q + 3) = "colon" THEN q + 4 ELSE from[q + 3]
               ELSE IF close = 0 THEN 0 ELSE from[close + 1]
  IN from[1]

(* extract_string(): of an escape it keeps what is behind the backslash;   *)
(* the buffer takes one character more than is legal.                      *)
ExtractString(t, i, max) ==
  LET s == Reading(SubSeq(t, i + 1, NextQuote(t, i) - 1), Kept) IN
    SubSeq(s, 1, IF Len(s) > max + 1 THEN max + 1 ELSE Len(s))

\* extract_int(): the leading digits, whatever follows them. Refused: -1.
ExtractInt(x) == IF x \in DOMAIN Leading THEN Wrapped(Leading[x]) ELSE 0 - 1

IsValidCallsign(s) == Len(s) \in 1..kMaxCallsign /\ Range(s) \subseteq Letters

\* What both kinds of payload need: a legal length, a callsign under this name
\* and, if there is one, a legal ssid.
SsidOf(t) ==
  LET v == FindValue(t, "ssid") IN
    IF v = 0 THEN 0 ELSE ExtractInt(At(t, v))
CallsignOf(t, name) == ExtractString(t, FindValue(t, name), kMaxCallsign)
ValidAs(t, name) ==
  LET v == FindValue(t, name) IN
    /\ Len(t) > 0 /\ Len(t) < kMaxJsonLen
    /\ v # 0 /\ At(t, v) = "q" /\ NextQuote(t, v) # 0
    /\ IsValidCallsign(CallsignOf(t, name))
    /\ SsidOf(t) \in 0..15

\* validate_config_payload(): it returns the fields, or None.
Validate(t) ==
  IF ValidAs(t, "callsign") THEN Id(CallsignOf(t, "callsign"), SsidOf(t)) ELSE None

\* validate_tx_request_payload().
ValidateTx(t) ==
  LET v == FindValue(t, "text")
      text == ExtractString(t, v, kMaxText) IN
    IF /\ ValidAs(t, "dest")
       /\ v # 0 /\ At(t, v) = "q" /\ NextQuote(t, v) # 0
       /\ Len(text) \in 1..kMaxText
    THEN [dest |-> CallsignOf(t, "dest"), ssid |-> SsidOf(t), text |-> text]
    ELSE NoRequest

(* What comes of writing each object, beside what it means: written out as *)
(* sets, which TLC evaluates once.                                         *)
Writes == {[fields |-> Validate(Text(obj)), meant |-> Meaning(obj),
            clear |-> IsClear(obj, {"callsign", "ssid"})] : obj \in Objects}
TxWrites == {[request |-> ValidateTx(Text(obj)), meant |-> TxMeaning(obj),
              clear |-> IsClear(obj, {"dest", "text", "ssid"})] : obj \in TxObjects}

--------------------------------------------------------------------------------
ConfigInit ==
  /\ nvs \in {None, Id(<<"ssid">>, 3)}
  /\ storage = TRUE
  /\ LET loaded == IF nvs = None THEN Default ELSE nvs IN
       callsign = loaded.callsign /\ ssid = loaded.ssid /\ expected = loaded
  /\ hpc = "idle" /\ fields = None
  /\ request = NoRequest /\ asked = NoRequest /\ clear = TRUE
  /\ save_failed = FALSE

\* on_config_write(): an object that is not valid is refused and changes nothing.
Write(w) ==
  /\ hpc = "idle"
  /\ fields' = w.fields
  /\ hpc' = IF w.fields = None THEN "idle" ELSE "callsign"
  /\ expected' = IF w.meant = None /\ (w.clear \/ w.fields = None) THEN expected
                 ELSE IF w.clear THEN w.meant ELSE None
  /\ request' = NoRequest /\ asked' = NoRequest /\ clear' = TRUE
  /\ UNCHANGED <<config, storage, nvs, save_failed>>

\* on_tx_request(), up to the push into the ring of aprs_task.
TxRequest(w) ==
  /\ hpc = "idle"
  /\ request' = w.request /\ asked' = w.meant /\ clear' = w.clear
  /\ UNCHANGED <<config, storage, nvs, handler, expected, save_failed>>

\* DeviceConfigStore::apply(): one field, the other, then the blob.
StoreCallsign ==
  /\ hpc = "callsign"
  /\ hpc' = "ssid"
  /\ callsign' = fields.callsign
  /\ UNCHANGED <<ssid, storage, nvs, fields, messages, expected, save_failed>>

StoreSsid ==
  /\ hpc = "ssid"
  /\ hpc' = "save"
  /\ ssid' = fields.ssid
  /\ UNCHANGED <<callsign, storage, nvs, fields, messages, expected, save_failed>>

\* Mutant: the fields that came in are saved, without those kept from before.
Blob_Callsign == [callsign |-> fields.callsign, ssid |-> 0]

Blob == Id(callsign, ssid)

\* NvsStorage::save(); without NVS the update is in memory only.
Save(written) ==
  /\ hpc = "save"
  /\ written => storage
  /\ hpc' = "idle" /\ fields' = None
  /\ nvs' = IF written THEN Blob ELSE nvs
  /\ save_failed' = ~written
  /\ UNCHANGED <<config, storage, messages, expected>>

(* A reset at any moment, and app_main(): NVS is initialised, after an     *)
(* erase if it was full or of another version, or it cannot be. What the   *)
(* last legal write asked for is still owed when it was saved and NVS is   *)
(* as it was.                                                              *)
Reset(init) ==
  /\ nvs' = IF init = "erased" THEN None ELSE nvs
  /\ storage' = (init # "failed")
  /\ LET loaded == IF storage' /\ nvs' # None THEN nvs' ELSE Default
         owed == hpc = "idle" /\ ~save_failed /\ init = "ok" IN
       /\ callsign' = loaded.callsign /\ ssid' = loaded.ssid
       /\ expected' = IF owed THEN expected ELSE loaded
  /\ save_failed' = ~storage'
  /\ hpc' = "idle" /\ fields' = None
  /\ request' = NoRequest /\ asked' = NoRequest /\ clear' = TRUE

ConfigNext ==
  \/ \E w \in Writes : Write(w)
  \/ \E w \in TxWrites : TxRequest(w)
  \/ StoreCallsign \/ StoreSsid
  \/ \E written \in BOOLEAN : Save(written)
  \/ \E init \in {"ok", "erased", "failed"} : Reset(init)

ConfigSpec == ConfigInit /\ [][ConfigNext]_configVars

--------------------------------------------------------------------------------
\* Every variable has its type.
Callsigns == {c \in SeqOf(Letters, kMaxCallsign) : c # <<>>}
Identities == [callsign : {<<>>} \cup Callsigns, ssid : 0..15]
ConfigTypeOK ==
  /\ Id(callsign, ssid) \in Identities /\ expected \in Identities \cup {None}
  /\ nvs \in Identities \cup {None} /\ fields \in Identities \cup {None}
  /\ request = NoRequest \/ /\ request.dest \in Callsigns /\ request.ssid \in 0..15
                            /\ Len(request.text) \in 1..kMaxText
  /\ {storage, save_failed, clear} \subseteq BOOLEAN
  /\ hpc \in {"idle", "callsign", "ssid", "save"}

(* The station's identity is what the last legal object asked for, and an  *)
(* object that is not legal changes nothing: whatever the order of its     *)
(* members, with values that look like names, quotation marks inside       *)
(* strings and other members of any form, and still after a reset if it    *)
(* was saved. It is said of objects the scanner is made for (IsClear).     *)
IdentityIsLastWritten ==
  hpc = "idle" /\ expected # None => Id(callsign, ssid) = expected

(* A request that is legal reaches aprs_task as it was meant, and no other  *)
(* does: a destination that is called like a field, an empty or overlong   *)
(* text and quoted quotation marks included; of the same objects.          *)
RequestIsWhatWasAsked == clear => request = asked

(* What PayloadValidator.h and payload_contracts.md promise, of every JSON *)
(* object. Neither holds: "A\nB" is stored as AnB, \u0041 as u0041, of two *)
(* members with one name the first counts, 3.7 and 4294967299 are 3, and   *)
(* an SSID behind a line break and a colon is not found and taken as 0.    *)
EveryWriteIsRead == \A w \in Writes : w.fields = w.meant
EveryRequestIsRead == \A w \in TxWrites : w.request = w.meant

(* A reset at any moment brings back the identity of now: once the handler *)
(* is done NVS holds what memory holds, both fields of the same write,     *)
(* unless a save has failed.                                               *)
StoredIsCurrent ==
  hpc = "idle" /\ ~save_failed =>
    Id(callsign, ssid) = IF nvs = None THEN Default ELSE nvs
================================================================================
