----------------------------- MODULE MCDeviceConfig ----------------------------
(* Every object of two members with short strings and usual numbers; beside *)
(* them, alone and in pairs, members the scanner is not made for: escapes   *)
(* of a line feed and by number, fractions, a number that wraps to 3, line  *)
(* breaks around the colon; and strings one piece too long.                 *)
EXTENDS DeviceConfig, TLC

MCKept == [quoted |-> <<"q">>, slash |-> <<"/">>, linefeed |-> <<"n">>,
           number |-> <<"u", "0041">>]
MCMeant == [quoted |-> <<"q">>, slash |-> <<"/">>, linefeed |-> <<"control">>,
            number |-> <<"A">>]
MCLeading == ("-1" :> 0 - 1) @@ ("15" :> 15) @@ ("16" :> 16) @@ ("3.7" :> 3) @@ ("67" :> 67)

Plains(keys, type, values) == [key : keys, layout : {"plain"}, type : {type}, val : values]

(* The usual members, with strings that read like a name or like what      *)
(* follows one, and a few of them to stand beside the odd ones.            *)
Usual(keys, name) ==
  Plains(keys, "string", SeqOf({"A", name, "quoted", "colon"}, 2))
    \cup Plains(keys, "bare", {"15", "16", "-1"})
Few(keys) ==
  Plains(keys, "string", {<<>>, <<"A">>, <<"ssid">>}) \cup Plains(keys, "bare", {"15", "16"})
Odd(keys) ==
  Plains(keys, "string", {<<"linefeed">>, <<"A", "linefeed">>, <<"number">>, <<"number", "A">>,
                          <<"slash">>, <<"A", "A", "A">>})
    \cup Plains(keys, "bare", {"67", "3.7", "null"})
    \cup {[p EXCEPT !.layout = l] : p \in Few(keys), l \in {"before", "after"}}

Pairs(P, Q) == {<<p, q>> : p \in P, q \in Q} \cup {<<q, p>> : p \in P, q \in Q}
ConfigKeys == {"callsign", "ssid", "other"}
MCObjects ==
  {<<>>} \cup {<<p>> : p \in Usual(ConfigKeys, "ssid") \cup Odd(ConfigKeys)}
    \cup Pairs(Usual(ConfigKeys, "ssid"), Usual(ConfigKeys, "ssid"))
    \cup Pairs(Odd(ConfigKeys), Few(ConfigKeys) \cup Odd(ConfigKeys))

TxKeys == {"dest", "text"}
MCTxObjects ==
  LET named == Pairs(Usual(TxKeys, "text"), Usual(TxKeys, "text"))
                 \cup Pairs(Odd(TxKeys), Few(TxKeys))
      ssids == {p \in Odd({"ssid"}) \cup Plains({"ssid"}, "bare", {"15", "16", "-1"}) : p.type = "bare"}
  IN  named \cup {Append(o, p) : o \in named, p \in Plains({"ssid"}, "bare", {"15", "16", "-1"})}
        \cup {Append(o, p) : o \in Pairs(Few({"dest"}), Few({"text"})), p \in ssids}
================================================================================
