------------------------------ MODULE MCBleWrite -------------------------------
(* BleWrite for TLC: the coroutines of the client are interchangeable.     *)
EXTENDS BleWrite, TLC

WriterSymmetry == Permutations(Writers)
================================================================================
