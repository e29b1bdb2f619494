------------------------------ MODULE TxLifecycle ------------------------------
(***************************************************************************)
(* What the message scheduler promises its users, without its table, clock *)
(* and ids: up to Capacity messages are live at a time; a live message is  *)
(* sent at most MaxRetries times; it is settled once, by an ack, a cancel  *)
(* or its last transmission, and is never heard of again.                  *)
(***************************************************************************)
EXTENDS Naturals, FiniteSets

CONSTANTS Capacity, MaxRetries, MaxMsgs

VARIABLES
  accepted,   \* messages accepted so far
  life,       \* of each message: "none" before it is accepted, "live", "done"
  sent        \* transmissions of each live message

Messages == 1 .. MaxMsgs
Live == {s \in Messages : life[s] = "live"}

Init ==
  /\ accepted = 0
  /\ life = [s \in Messages |-> "none"]
  /\ sent = [s \in Messages |-> 0]

Accept ==
  /\ accepted < MaxMsgs
  /\ Cardinality(Live) < Capacity
  /\ accepted' = accepted + 1
  /\ life' = [life EXCEPT ![accepted + 1] = "live"]
  /\ UNCHANGED sent

Settle(s) ==
  /\ s \in Live
  /\ life' = [life EXCEPT ![s] = "done"]
  /\ sent' = [sent EXCEPT ![s] = 0]
  /\ UNCHANGED accepted

\* The last transmission settles the message: it has timed out.
IsLast(s) == sent[s] + 1 >= MaxRetries

Transmit(s) ==
  /\ s \in Live
  /\ IF IsLast(s)
     THEN Settle(s)
     ELSE sent' = [sent EXCEPT ![s] = @ + 1] /\ UNCHANGED <<accepted, life>>

Next == Accept \/ \E s \in Messages : Settle(s) \/ Transmit(s)

Spec == Init /\ [][Next]_<<accepted, life, sent>>
================================================================================
