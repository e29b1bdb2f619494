------------------------------ MODULE MCKissLink -------------------------------
(* Frames of one, two and three chunks, with KISS codes in their bytes and *)
(* an escape across two chunks; the second is just as long as a KISS body  *)
(* may be, the third too long. Frames clients write that are not data,     *)
(* malformed with several FENDs, or too long.                              *)
EXTENDS KissLink

MCContents == {<<"FEND">>, <<"x", "x", "FESC", "TFEND">>,
               <<"FEND", "FEND", "FEND", "FEND">>}
MCWritten == {<<"FEND", "x", "FEND">>, <<"FEND", "FEND", "0", "FESC", "FEND">>,
              <<"FEND", "0", "x", "x", "x", "x", "x", "x", "x", "x">>}
================================================================================
