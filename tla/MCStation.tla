------------------------------- MODULE MCStation -------------------------------
(* Callsigns that begin alike, one that reads like another with its SSID, *)
(* one in small letters, and the empty one of a new device.               *)
EXTENDS Station

MCCharacters ==
  {" ", "-", ":", "{", "!", "position", "A", "B", "P", "K", "T", "a", "b", "c", "e", "h",
   "i", "j", "k", "r", "x", "0", "1", "2", "3", "4", "5", "6", "7", "8", "9"}
MCCallsigns == {<<>>, <<"A">>, <<"A", "B">>, <<"A", "-", "1">>, <<"a", "b">>}
MCDests == {Id(<<"B">>, 0), Id(<<"A", "B", "A">>, 15)}
MCTexts == {<<"x">>, <<":", "a", "c", "k">>}
MCIds == {<<"7">>, <<"7", "1">>}
MCNames == {<<"A">>, <<"A", "-", "1">>, <<"A", "-", "1", "1">>, <<"A", "B">>,
            <<"A", "B", "-", "1", "1">>, <<"A", "-", "1", "-", "1", "1">>, <<"B">>}
MCHeard == UNION {HeardFrames(to) : to \in MCNames}
================================================================================
