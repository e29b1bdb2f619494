------------------------------- MODULE SpscRing --------------------------------
(***************************************************************************)
(* The lock-free rings between tasks: the TX request ring and the KISS     *)
(* ring of AprsTaskContext (BLE host task to aprs_task), and Ax25RxQueue   *)
(* in main.cpp (audio_task to aprs_task). head and tail are free-running   *)
(* uint32_t counters; an entry is addressed by its counter modulo Depth.   *)
(* Producer and consumer interleave between any two accesses of shared     *)
(* memory, and an entry that is being copied reads as Torn.                *)
(***************************************************************************)
EXTENDS Integers, Sequences

CONSTANTS
  Depth,     \* kRingDepth (8), kKissRingDepth (4), Ax25RxQueue::kDepth (8)
  IndexMod,  \* head and tail are uint32_t: 2^32
  Values,    \* what is queued
  Torn,      \* an entry in the middle of a copy
  MaxPush    \* bound: values accepted

ASSUME RingAssumption ==
  /\ Depth \in Nat \ {0}
  /\ IndexMod \in Nat /\ IndexMod > Depth
  /\ IndexMod % Depth = 0
  /\ Torn \notin Values
  /\ MaxPush \in Nat

VARIABLES
  head, tail,      \* head_, tail_: written by the producer, by the consumer
  ring,            \* ring_[], kiss_ring_[], slots[]
  ppc, ph, pt, pv, \* producer: program counter, its h and t, the value pushed
  cpc, ct, ch, cv, \* consumer: program counter, its t and h, the value read
  pushed,          \* history: values accepted (push returned true)
  got              \* history: values handed to the consumer

prod == <<ppc, ph, pt, pv>>
cons == <<cpc, ct, ch, cv>>
vars == <<head, tail, ring, prod, cons, pushed, got>>

Entries == 0 .. Depth - 1
Counters == 0 .. IndexMod - 1

\* Mutant: a counter that does not wrap.
Inc_NoWrap(n) == n + 1

Inc(n) == (n + 1) % IndexMod

Init ==
  /\ head = 0 /\ tail = 0
  /\ ring = [e \in Entries |-> Torn]
  /\ ppc = "idle" /\ ph = 0 /\ pt = 0 /\ pv = Torn
  /\ cpc = "idle" /\ ct = 0 /\ ch = 0 /\ cv = Torn
  /\ pushed = <<>> /\ got = <<>>

--------------------------------------------------------------------------------
(* push_tx_request(), push_kiss_ax25(), Ax25RxQueue::push(). Requests the  *)
(* producer rejects for their size or content never get here.              *)
PushLoad(v) ==
  /\ ppc = "idle"
  /\ Len(pushed) < MaxPush
  /\ ppc' = "check" /\ ph' = head /\ pt' = tail /\ pv' = v
  /\ UNCHANGED <<head, tail, ring, cons, pushed, got>>

\* Mutants: one entry too early; one too late.
Full_Early == (ph - pt) % IndexMod >= Depth - 1
Full_Late == (ph - pt) % IndexMod > Depth

Full == (ph - pt) % IndexMod >= Depth

PushFull ==
  /\ ppc = "check" /\ Full
  /\ ppc' = "idle"
  /\ UNCHANGED <<head, tail, ring, ph, pt, pv, cons, pushed, got>>

PushCopy ==
  /\ ppc = "check" /\ ~Full
  /\ ppc' = "copy"
  /\ ring' = [ring EXCEPT ![ph % Depth] = Torn]
  /\ UNCHANGED <<head, tail, ph, pt, pv, cons, pushed, got>>

PushCopied ==
  /\ ppc = "copy"
  /\ ppc' = "publish"
  /\ ring' = [ring EXCEPT ![ph % Depth] = pv]
  /\ UNCHANGED <<head, tail, ph, pt, pv, cons, pushed, got>>

PushPublish ==
  /\ ppc = "publish"
  /\ ppc' = "idle"
  /\ head' = Inc(ph)
  /\ pushed' = Append(pushed, pv)
  /\ UNCHANGED <<tail, ring, ph, pt, pv, cons, got>>

--------------------------------------------------------------------------------
(* tick() reads head once and takes every entry up to that snapshot;       *)
(* Ax25RxQueue::pop() takes one entry and returns. Either way an entry is  *)
(* used in place, and only then released by storing tail.                  *)
DrainLoad ==
  /\ cpc = "idle"
  /\ cpc' = "loop" /\ ct' = tail /\ ch' = head
  /\ UNCHANGED <<head, tail, ring, prod, cv, pushed, got>>

\* Mutant: the counters compared as if they never wrapped.
More_Ordered == ct < ch

More == ct # ch

DrainDone ==
  /\ cpc = "loop" /\ ~More
  /\ cpc' = "idle"
  /\ UNCHANGED <<head, tail, ring, prod, ct, ch, cv, pushed, got>>

\* Mutant: the entry is released before it is used.
DrainRead_ReleasesFirst ==
  /\ cpc = "loop" /\ More
  /\ cpc' = "use" /\ cv' = ring[ct % Depth] /\ tail' = Inc(ct)
  /\ UNCHANGED <<head, ring, prod, ct, ch, pushed, got>>

DrainRead ==
  /\ cpc = "loop" /\ More
  /\ cpc' = "use" /\ cv' = ring[ct % Depth]
  /\ UNCHANGED <<head, tail, ring, prod, ct, ch, pushed, got>>

\* What the consumer made of the entry: whole only if it did not change meanwhile.
DrainUse ==
  /\ cpc = "use"
  /\ cpc' = "release"
  /\ got' = Append(got, IF ring[ct % Depth] = cv THEN cv ELSE Torn)
  /\ UNCHANGED <<head, tail, ring, prod, ct, ch, cv, pushed>>

DrainRelease ==
  /\ cpc = "release"
  /\ cpc' \in {"loop", "idle"}
  /\ ct' = Inc(ct) /\ tail' = Inc(ct)
  /\ UNCHANGED <<head, ring, prod, ch, cv, pushed, got>>

Produce ==
  \/ \E v \in Values : PushLoad(v)
  \/ PushFull \/ PushCopy \/ PushCopied \/ PushPublish

Consume == DrainLoad \/ DrainDone \/ DrainRead \/ DrainUse \/ DrainRelease

Next == Produce \/ Consume

Spec == Init /\ [][Next]_vars

(* Both tasks keep running; aprs_task polls the ring on every loop.        *)
FairSpec == Spec /\ WF_vars(Consume)

--------------------------------------------------------------------------------
TypeOK ==
  /\ head \in Counters /\ tail \in Counters
  /\ ring \in [Entries -> Values \cup {Torn}]
  /\ ppc \in {"idle", "check", "copy", "publish"}
  /\ ph \in Counters /\ pt \in Counters /\ pv \in Values \cup {Torn}
  /\ cpc \in {"idle", "loop", "use", "release"}
  /\ ct \in Counters /\ ch \in Counters /\ cv \in Values \cup {Torn}
  /\ pushed \in Seq(Values)
  /\ got \in Seq(Values \cup {Torn})

(* The ring is a bounded FIFO queue: what aprs_task gets is what the other *)
(* task pushed, whole, in order, once, across the wrap of the counters.    *)
Fifo == INSTANCE BoundedFifo WITH sent <- pushed, received <- got
IsBoundedFifo == Fifo!Spec

(* The producer is never copying into the entry the consumer is using.     *)
NoSharedEntry ==
  ppc \in {"copy", "publish"} /\ cpc = "use" => ph % Depth # ct % Depth

(* A push is refused only if every entry was taken when the producer       *)
(* looked: with tail unchanged since, Depth values are not yet released.   *)
Unreleased == Len(pushed) - Len(got) + (IF cpc = "release" THEN 1 ELSE 0)
RefusedOnlyWhenFull == ppc = "check" /\ Full /\ pt = tail => Unreleased = Depth

(* Everything accepted is handed over in the end: again and again nothing  *)
(* is under way (MaxPush bounds the new values).                           *)
AllDelivered == []<>(Len(got) = Len(pushed))
================================================================================
