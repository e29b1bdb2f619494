------------------------------ MODULE BoundedFifo ------------------------------
(***************************************************************************)
(* What a single-producer single-consumer ring promises its users          *)
(* (AprsTaskContext.h, "thread-safe SPSC ring buffer"): values come out    *)
(* whole, in the order they were accepted, each once, and no more than     *)
(* Depth of them are under way.                                            *)
(***************************************************************************)
EXTENDS Naturals, Sequences

CONSTANTS Depth, Values

VARIABLES sent, received

Init == sent = <<>> /\ received = <<>>

Put(v) ==
  /\ Len(sent) - Len(received) < Depth
  /\ sent' = Append(sent, v)
  /\ UNCHANGED received

Get ==
  /\ Len(received) < Len(sent)
  /\ received' = Append(received, sent[Len(received) + 1])
  /\ UNCHANGED sent

Next == Get \/ \E v \in Values : Put(v)

Spec == Init /\ [][Next]_<<sent, received>>
================================================================================
