------------------------------- MODULE MCHdlc -------------------------------
\* Instance of Hdlc for TLC: payloads of ones (a stuffed bit in every byte and
\* one that ends the run of ones at a byte boundary), of flag bytes and of
\* zeros; a frame of exactly kMaxFrameBytes, one longer by a byte, and one that
\* only its stuffed bits make too long for the sample buffer.
EXTENDS Hdlc

MCPayloads == {<<255, 255>>, <<126, 126>>, <<0, 31, 248>>, <<1, 2, 3, 4>>,
               <<255, 255, 255, 255>>}
=============================================================================
