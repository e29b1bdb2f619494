---------------------------- MODULE SpscRingProofs -----------------------------
(***************************************************************************)
(* The two paths a frame takes out of the modem.                           *)
(*                                                                         *)
(* SpscRing, between the tasks: the lock-free ring implements a bounded    *)
(* FIFO queue, for every depth and every counter width that is a multiple  *)
(* of it.                                                                  *)
(*                                                                         *)
(* KissLink, to the client and back: what KissBridge delivers is what was  *)
(* received, what is transmitted is what was written; for every frame,     *)
(* chunk size, number of ids and table size.                               *)
(***************************************************************************)
EXTENDS SpscRing, KissLink, SharedLemmas

(* Values the consumer has released, by storing tail.                      *)
Released == IF cpc = "release" THEN Len(got) - 1 ELSE Len(got)

(* The inductive invariant: the wrapped counters stand for the true        *)
(* numbers of values accepted and released, never more than Depth apart;   *)
(* the entries between them hold those values; and what each side loaded   *)
(* earlier is old, but old in the safe direction.                          *)
CountersTrue ==
  /\ head = Len(pushed) % IndexMod /\ tail = Released % IndexMod
  /\ Released \in Nat /\ Released <= Len(pushed) /\ Len(pushed) <= Released + Depth

EntriesHold ==
  \A j \in 1 .. Len(pushed) : j > Released => ring[(j - 1) % Depth] = pushed[j]

ProducerView ==
  /\ ppc # "idle" => ph = head /\ pv \in Values
  /\ ppc = "check" =>
       \E s \in 0 .. Released : Len(pushed) <= s + Depth /\ pt = s % IndexMod
  /\ ppc \in {"copy", "publish"} => Len(pushed) < Released + Depth
  /\ ppc = "publish" => ring[ph % Depth] = pv

ConsumerView ==
  /\ cpc # "idle" => ct = tail
  /\ cpc = "loop" => \E e \in Released .. Len(pushed) : ch = e % IndexMod
  /\ cpc \in {"use", "release"} =>
       \E e \in Released + 1 .. Len(pushed) : ch = e % IndexMod
  /\ cpc = "use" => cv = pushed[Released + 1]

RingInv == TypeOK /\ CountersTrue /\ EntriesHold /\ ProducerView /\ ConsumerView

--------------------------------------------------------------------------------
(* The facts about remainders, for the numbers this module uses.           *)
LEMMA Remainders ==
  /\ \A n \in Nat : (n % IndexMod) % Depth = n % Depth
  /\ \A n, s \in Nat : ((n % IndexMod) - (s % IndexMod)) % IndexMod = (n - s) % IndexMod
  /\ \A n \in Nat : n < IndexMod => n % IndexMod = n
  /\ \A n, s \in Nat : s < n /\ n < s + Depth => s % Depth # n % Depth
  /\ \A n \in Nat : n % Depth \in Entries /\ n % IndexMod \in Counters
  /\ \A n \in Nat : Inc(n % IndexMod) = (n + 1) % IndexMod
<1>1. /\ IndexMod \in Int /\ IndexMod > 0 /\ Depth \in Int /\ Depth > 0
      /\ IndexMod % Depth = 0 /\ \A n \in Nat : n \in Int
  BY RingAssumption
<1>2. \A n \in Nat : (n % IndexMod) % Depth = n % Depth
  BY <1>1, ModMod, Zenon
<1>3. \A n, s \in Nat : ((n % IndexMod) - (s % IndexMod)) % IndexMod = (n - s) % IndexMod
  BY <1>1, ModSub, Zenon
<1>4. \A n \in Nat : n < IndexMod => n % IndexMod = n
  BY <1>1, ModSmall
<1>5. \A n, s \in Nat : s < n /\ n < s + Depth => s % Depth # n % Depth
  BY <1>1, ModWindow, Zenon
<1>6. \A n \in Nat : n % Depth \in Entries /\ n % IndexMod \in Counters
  BY <1>1 DEF Entries, Counters
<1>7. \A n \in Nat : Inc(n % IndexMod) = (n + 1) % IndexMod
  <2>1. 1 \in Int
    OBVIOUS
  <2> QED BY <1>1, <2>1, ModAdd, Zenon DEF Inc
<1> QED BY <1>2, <1>3, <1>4, <1>5, <1>6, <1>7

(* The free-running counters address the entries of the true numbers.      *)
LEMMA Addresses ==
  ASSUME RingInv
  PROVE  /\ ppc # "idle" => ph % Depth = Len(pushed) % Depth
         /\ cpc # "idle" => ct % Depth = Released % Depth
         /\ Len(pushed) \in Nat /\ Released \in Nat /\ Len(got) \in Nat
         /\ Len(pushed) % Depth \in Entries /\ Released % Depth \in Entries
<1> USE RingAssumption
<1>1. Len(pushed) \in Nat /\ Released \in Nat /\ Len(got) \in Nat
  BY DEF RingInv, TypeOK, CountersTrue
<1>2. /\ (Len(pushed) % IndexMod) % Depth = Len(pushed) % Depth
      /\ (Released % IndexMod) % Depth = Released % Depth
  BY <1>1, Remainders
<1>3. Len(pushed) % Depth \in Entries /\ Released % Depth \in Entries
  BY <1>1, Remainders
<1> QED
  BY <1>1, <1>2, <1>3 DEF RingInv, CountersTrue, ProducerView, ConsumerView

(* The producer's test on its old copy of tail is right, or errs on the    *)
(* safe side: if it does not see a full ring there is a free entry.        *)
LEMMA FreeEntry ==
  ASSUME RingInv, ppc = "check", ~Full
  PROVE  Len(pushed) < Released + Depth
<1> USE RingAssumption
<1>1. Len(pushed) \in Nat /\ Released \in Nat /\ ph = Len(pushed) % IndexMod
  BY Addresses DEF RingInv, CountersTrue, ProducerView
<1>2. PICK s \in 0 .. Released : Len(pushed) <= s + Depth /\ pt = s % IndexMod
  BY DEF RingInv, ProducerView
<1>3. s \in Nat /\ Len(pushed) - s \in Nat /\ Len(pushed) - s < IndexMod
  BY <1>1, <1>2 DEF RingInv, CountersTrue
<1>4. (ph - pt) % IndexMod = (Len(pushed) - s) % IndexMod
  BY <1>1, <1>2, <1>3, Remainders, Zenon
<1>5. (Len(pushed) - s) % IndexMod = Len(pushed) - s
  BY <1>3, Remainders, Zenon
<1> QED
  BY <1>1, <1>2, <1>4, <1>5 DEF Full

(* While there is a free entry, the one the producer writes is none of     *)
(* those that hold a value not yet released.                               *)
LEMMA FreeIsUnused ==
  ASSUME RingInv, Len(pushed) < Released + Depth,
         NEW j \in 1 .. Len(pushed), j > Released
  PROVE  (j - 1) % Depth # Len(pushed) % Depth
<1>1. j - 1 < Len(pushed) /\ Len(pushed) < (j - 1) + Depth
  BY Addresses, RingAssumption
<1> QED
  BY <1>1, Remainders, Addresses

(* The consumer sees an entry only if there is one, and it is whole.       *)
LEMMA EntryIsNext ==
  ASSUME RingInv
  PROVE  /\ cpc = "loop" /\ ct # ch =>
              \E e \in Released + 1 .. Len(pushed) : ch = e % IndexMod
         /\ cpc # "idle" /\ Released < Len(pushed) =>
              ring[ct % Depth] = pushed[Released + 1]
<1> USE RingAssumption
<1>1. ASSUME cpc = "loop", ct # ch
      PROVE  \E e \in Released + 1 .. Len(pushed) : ch = e % IndexMod
  <2>1. PICK e \in Released .. Len(pushed) : ch = e % IndexMod
    BY <1>1 DEF RingInv, ConsumerView
  <2>2. e # Released
    BY <1>1, <2>1 DEF RingInv, ConsumerView, CountersTrue
  <2> QED BY <2>1, <2>2, Addresses
<1>2. ASSUME cpc # "idle", Released < Len(pushed)
      PROVE  ring[ct % Depth] = pushed[Released + 1]
  <2> DEFINE j == Released + 1
  <2>1. j \in 1 .. Len(pushed) /\ j > Released /\ j - 1 = Released
    BY <1>2, Addresses
  <2>2. ring[(j - 1) % Depth] = pushed[j]
    BY <2>1 DEF RingInv, EntriesHold
  <2> QED BY <1>2, <2>1, <2>2, Addresses
<1> QED BY <1>1, <1>2


(* The empty ring satisfies the invariant.                                 *)
LEMMA RingInit == Init => RingInv
<1> SUFFICES ASSUME Init PROVE RingInv
  OBVIOUS
<1>1. Len(pushed) = 0 /\ Released = 0 /\ 0 % IndexMod = 0 /\ 0 \in Counters
  BY Remainders, RingAssumption DEF Init, Released, Counters
<1> QED
  BY <1>1, RingAssumption
  DEF Init, RingInv, TypeOK, CountersTrue, EntriesHold, ProducerView, ConsumerView, Entries

(* Every step of the pushing task keeps the invariant.                     *)
LEMMA ProducerStep == RingInv /\ Produce => RingInv'
<1> SUFFICES ASSUME RingInv, Produce PROVE RingInv'
  OBVIOUS
<1> USE DEF RingInv
<1>0. /\ Len(pushed) \in Nat /\ Released \in Nat /\ Released' = Released
      /\ Depth \in Nat /\ Depth > 0
  BY Addresses, RingAssumption
  DEF Released, Produce, PushLoad, PushFull, PushCopy, PushCopied, PushPublish, cons
<1>1. ASSUME NEW v \in Values, PushLoad(v) PROVE RingInv'
  <2>1. TypeOK' /\ CountersTrue' /\ EntriesHold'
    BY <1>0, <1>1 DEF PushLoad, TypeOK, CountersTrue, EntriesHold, cons
  <2>2. ProducerView'
    <3>1. Released \in 0 .. Released /\ Len(pushed) <= Released + Depth
          /\ pt' = Released % IndexMod
      BY <1>0, <1>1 DEF PushLoad, CountersTrue
    <3> QED BY <1>0, <1>1, <3>1 DEF PushLoad, ProducerView
  <2>3. ConsumerView'
    BY <1>0, <1>1 DEF PushLoad, ConsumerView, cons
  <2> QED BY <2>1, <2>2, <2>3
<1>2. ASSUME PushFull PROVE RingInv'
  BY <1>0, <1>2
  DEF PushFull, TypeOK, CountersTrue, EntriesHold, ProducerView, ConsumerView, cons
<1>3. ASSUME PushCopy PROVE RingInv'
  <2>1. Len(pushed) < Released + Depth
    BY <1>3, FreeEntry DEF PushCopy
  <2>2. ph % Depth = Len(pushed) % Depth /\ Len(pushed) % Depth \in Entries
    BY <1>3, Addresses DEF PushCopy
  <2>3. TypeOK' /\ CountersTrue' /\ ProducerView'
    BY <1>0, <1>3, <2>1, <2>2 DEF PushCopy, TypeOK, CountersTrue, ProducerView, cons
  <2>4. EntriesHold'
    BY <1>0, <1>3, <2>1, <2>2, FreeIsUnused DEF PushCopy, EntriesHold, TypeOK
  <2>5. ConsumerView'
    BY <1>0, <1>3 DEF PushCopy, ConsumerView, cons
  <2> QED BY <2>3, <2>4, <2>5
<1>4. ASSUME PushCopied PROVE RingInv'
  <2>1. Len(pushed) < Released + Depth
    BY <1>4 DEF PushCopied, ProducerView
  <2>2. ph % Depth = Len(pushed) % Depth /\ Len(pushed) % Depth \in Entries
    BY <1>4, Addresses DEF PushCopied
  <2>3. TypeOK' /\ CountersTrue' /\ ProducerView'
    BY <1>0, <1>4, <2>1, <2>2 DEF PushCopied, TypeOK, CountersTrue, ProducerView, cons
  <2>4. EntriesHold'
    BY <1>0, <1>4, <2>1, <2>2, FreeIsUnused DEF PushCopied, EntriesHold, TypeOK
  <2>5. ConsumerView'
    BY <1>0, <1>4 DEF PushCopied, ConsumerView, cons
  <2> QED BY <2>3, <2>4, <2>5
<1>5. ASSUME PushPublish PROVE RingInv'
  <2>1. /\ pushed' = Append(pushed, pv) /\ pushed \in Seq(Values) /\ pv \in Values
        /\ Len(pushed') = Len(pushed) + 1 /\ Len(pushed) < Released + Depth
    BY <1>5 DEF PushPublish, TypeOK, ProducerView
  <2>2. \A j \in 1 .. Len(pushed) : pushed'[j] = pushed[j]
    BY <2>1
  <2>3. pushed'[Len(pushed) + 1] = pv /\ pushed' \in Seq(Values)
    BY <2>1
  <2>4. ring[Len(pushed) % Depth] = pv /\ ring' = ring
    BY <1>5, Addresses DEF PushPublish, ProducerView
  <2>5. head' = (Len(pushed) + 1) % IndexMod /\ head' \in Counters
    <3>1. head' = Inc(Len(pushed) % IndexMod)
      BY <1>5 DEF PushPublish, ProducerView, CountersTrue
    <3> QED BY <1>0, <3>1, Remainders
  <2>6. TypeOK'
    BY <1>5, <2>3, <2>5 DEF PushPublish, TypeOK, cons
  <2>7. CountersTrue'
    BY <1>0, <1>5, <2>1, <2>5 DEF PushPublish, CountersTrue
  <2>8. EntriesHold'
    <3> SUFFICES ASSUME NEW j \in 1 .. Len(pushed) + 1, j > Released
                 PROVE  ring[(j - 1) % Depth] = pushed'[j]
      BY <1>0, <2>1, <2>4 DEF EntriesHold
    <3>1. CASE j = Len(pushed) + 1
      BY <1>0, <2>3, <2>4, <3>1
    <3>2. CASE j \in 1 .. Len(pushed)
      BY <2>2, <3>2 DEF EntriesHold
    <3> QED BY <1>0, <3>1, <3>2
  <2>9. ProducerView'
    BY <1>5 DEF PushPublish, ProducerView
  <2>10. ConsumerView'
    <3>1. cpc' = cpc /\ ct' = ct /\ ch' = ch /\ cv' = cv /\ tail' = tail
      BY <1>5 DEF PushPublish, cons
    <3>2. \A k \in Nat : k .. Len(pushed) \subseteq k .. Len(pushed')
      BY <1>0, <2>1
    <3>3. Released \in Nat /\ Released + 1 \in Nat
      BY <1>0
    <3>4. cpc' = "loop" => \E e \in Released .. Len(pushed') : ch = e % IndexMod
      BY <3>1, <3>2, <3>3, Zenon DEF ConsumerView
    <3>5. cpc' \in {"use", "release"} =>
            \E e \in Released + 1 .. Len(pushed') : ch = e % IndexMod
      BY <3>1, <3>2, <3>3, Zenon DEF ConsumerView
    <3>6. cpc' = "use" => cv = pushed'[Released + 1]
      <4> SUFFICES ASSUME cpc = "use" PROVE cv = pushed'[Released + 1]
        BY <3>1
      <4>1. Released + 1 \in 1 .. Len(pushed)
        BY <1>0 DEF ConsumerView
      <4> QED BY <2>2, <4>1 DEF ConsumerView
    <3>7. cpc # "idle" => ct = tail
      BY DEF ConsumerView
    <3> QED BY <1>0, <3>1, <3>4, <3>5, <3>6, <3>7 DEF ConsumerView
  <2> QED BY <2>6, <2>7, <2>8, <2>9, <2>10
<1> QED BY <1>1, <1>2, <1>3, <1>4, <1>5 DEF Produce

(* Every step of the draining task keeps the invariant.                    *)
LEMMA ConsumerStep == RingInv /\ Consume => RingInv'
<1> SUFFICES ASSUME RingInv, Consume PROVE RingInv'
  OBVIOUS
<1> USE DEF RingInv
<1>0. /\ Len(pushed) \in Nat /\ Released \in Nat /\ Len(got) \in Nat
      /\ Depth \in Nat /\ Depth > 0 /\ Released <= Len(pushed)
      /\ prod' = prod /\ head' = head /\ ring' = ring /\ pushed' = pushed
      /\ ppc' = ppc /\ ph' = ph /\ pt' = pt /\ pv' = pv
  BY Addresses, RingAssumption
  DEF CountersTrue, Consume, DrainLoad, DrainDone, DrainRead, DrainUse, DrainRelease, prod
<1>1. ASSUME DrainLoad PROVE RingInv'
  <2>1. Released' = Released
    BY <1>1 DEF DrainLoad, Released
  <2>2. TypeOK' /\ CountersTrue' /\ EntriesHold' /\ ProducerView'
    BY <1>0, <1>1, <2>1
    DEF DrainLoad, TypeOK, CountersTrue, EntriesHold, ProducerView
  <2>3. Len(pushed) \in Released .. Len(pushed) /\ ch' = Len(pushed) % IndexMod
    BY <1>0, <1>1 DEF DrainLoad, CountersTrue
  <2>4. ConsumerView'
    BY <1>0, <1>1, <2>1, <2>3 DEF DrainLoad, ConsumerView
  <2> QED BY <2>2, <2>4
<1>2. ASSUME DrainDone PROVE RingInv'
  <2>1. Released' = Released
    BY <1>2 DEF DrainDone, Released
  <2> QED
    BY <1>0, <1>2, <2>1
    DEF DrainDone, TypeOK, CountersTrue, EntriesHold, ProducerView, ConsumerView
<1>3. ASSUME DrainRead PROVE RingInv'
  <2>1. Released' = Released
    BY <1>3 DEF DrainRead, Released
  <2>2. PICK e \in Released + 1 .. Len(pushed) : ch = e % IndexMod
    BY <1>3, EntryIsNext DEF DrainRead, More
  <2>3. Released < Len(pushed)
    BY <1>0, <2>2
  <2>4. cv' = pushed[Released + 1] /\ cv' \in Values \cup {Torn}
    BY <1>0, <1>3, <2>3, EntryIsNext DEF DrainRead, TypeOK
  <2>5. TypeOK' /\ CountersTrue' /\ EntriesHold' /\ ProducerView'
    BY <1>0, <1>3, <2>1, <2>4
    DEF DrainRead, TypeOK, CountersTrue, EntriesHold, ProducerView
  <2>6. ConsumerView'
    BY <1>0, <1>3, <2>1, <2>2, <2>4 DEF DrainRead, ConsumerView
  <2> QED BY <2>5, <2>6
<1>4. ASSUME DrainUse PROVE RingInv'
  <2>1. Len(got') = Len(got) + 1 /\ got' \in Seq(Values \cup {Torn})
    BY <1>4 DEF DrainUse, TypeOK
  <2>2. Released' = Released
    BY <1>0, <1>4, <2>1 DEF DrainUse, Released
  <2>3. TypeOK' /\ CountersTrue' /\ EntriesHold' /\ ProducerView'
    BY <1>0, <1>4, <2>1, <2>2
    DEF DrainUse, TypeOK, CountersTrue, EntriesHold, ProducerView
  <2>4. ConsumerView'
    BY <1>0, <1>4, <2>2 DEF DrainUse, ConsumerView
  <2> QED BY <2>3, <2>4
<1>5. ASSUME DrainRelease PROVE RingInv'
  <2>1. Released' = Released + 1
    BY <1>0, <1>5 DEF DrainRelease, Released
  <2>2. PICK e \in Released + 1 .. Len(pushed) : ch = e % IndexMod
    BY <1>5 DEF DrainRelease, ConsumerView
  <2>3. tail' = (Released + 1) % IndexMod /\ ct' = tail' /\ tail' \in Counters
    <3>1. tail' = Inc(Released % IndexMod) /\ ct' = tail'
      BY <1>5 DEF DrainRelease, ConsumerView, CountersTrue
    <3> QED BY <1>0, <3>1, Remainders
  <2>4. TypeOK'
    BY <1>0, <1>5, <2>3 DEF DrainRelease, TypeOK
  <2>5. CountersTrue'
    BY <1>0, <2>1, <2>2, <2>3 DEF CountersTrue
  <2>6. EntriesHold'
    BY <1>0, <2>1 DEF EntriesHold
  <2>7. ProducerView'
    <3>1. 0 .. Released \subseteq 0 .. Released'
      BY <1>0, <2>1
    <3>2. ppc = "check" =>
            \E s \in 0 .. Released' : Len(pushed) <= s + Depth /\ pt = s % IndexMod
      BY <3>1 DEF ProducerView
    <3>3. ppc \in {"copy", "publish"} => Len(pushed) < Released' + Depth
      BY <1>0, <2>1 DEF ProducerView
    <3> QED BY <1>0, <3>2, <3>3 DEF ProducerView
  <2>8. ConsumerView'
    BY <1>0, <1>5, <2>1, <2>2, <2>3 DEF DrainRelease, ConsumerView
  <2> QED BY <2>4, <2>5, <2>6, <2>7, <2>8
<1> QED BY <1>1, <1>2, <1>3, <1>4, <1>5 DEF Consume

(* The invariant is inductive.                                             *)
LEMMA RingStep == RingInv /\ [Next]_vars => RingInv'
<1>1. ASSUME RingInv, UNCHANGED vars PROVE RingInv'
  BY <1>1 DEF vars, prod, cons, RingInv, TypeOK, CountersTrue, Released, EntriesHold,
     ProducerView, ConsumerView
<1> QED BY <1>1, ProducerStep, ConsumerStep DEF Next

(* Type correctness of the ring.                                           *)
THEOREM RingTypeCorrect == Spec => []TypeOK
<1>1. RingInv => TypeOK
  BY DEF RingInv
<1> QED BY <1>1, RingInit, RingStep, PTL DEF Spec

(* The copy into an entry never overlaps the use of that entry, for any    *)
(* depth, any counter width that is a multiple of it, and any timing of    *)
(* the two tasks.                                                          *)
THEOREM RingNoSharedEntry == Spec => []NoSharedEntry
<1>1. ASSUME RingInv, ppc \in {"copy", "publish"}, cpc = "use"
      PROVE  ph % Depth # ct % Depth
  <2>1. Released < Len(pushed) /\ Len(pushed) < Released + Depth
    BY <1>1, Addresses DEF RingInv, ProducerView, ConsumerView
  <2>2. Released % Depth # Len(pushed) % Depth
    BY <2>1, <1>1, Addresses, Remainders
  <2> QED BY <1>1, <2>2, Addresses
<1>2. RingInv => NoSharedEntry
  BY <1>1 DEF NoSharedEntry
<1> QED BY <1>2, RingInit, RingStep, PTL DEF Spec

(* A push is refused only when Depth values are waiting or in use.         *)
THEOREM RingRefusal == Spec => []RefusedOnlyWhenFull
<1>1. ASSUME RingInv, ppc = "check", Full, pt = tail PROVE Unreleased = Depth
  <2>1. /\ Len(pushed) \in Nat /\ Released \in Nat /\ Len(got) \in Nat
        /\ ph = Len(pushed) % IndexMod /\ pt = Released % IndexMod
        /\ Released <= Len(pushed) /\ Len(pushed) <= Released + Depth
    BY <1>1, Addresses DEF RingInv, CountersTrue, ProducerView
  <2>2. Len(pushed) - Released \in Nat /\ Len(pushed) - Released < IndexMod
    BY <2>1, RingAssumption
  <2>3. (ph - pt) % IndexMod = (Len(pushed) - Released) % IndexMod
    BY <2>1, Remainders, Zenon
  <2>4. (Len(pushed) - Released) % IndexMod = Len(pushed) - Released
    BY <2>2, Remainders, Zenon
  <2>5. Unreleased = Len(pushed) - Released
    BY <2>1 DEF Unreleased, Released
  <2> QED BY <1>1, <2>1, <2>3, <2>4, <2>5, RingAssumption DEF Full
<1>2. RingInv => RefusedOnlyWhenFull
  BY <1>1 DEF RefusedOnlyWhenFull
<1> QED BY <1>2, RingInit, RingStep, PTL DEF Spec

(* Every step of the ring is a Put, a Get or a stuttering step of the      *)
(* bounded FIFO queue.                                                     *)
LEMMA FifoStep == RingInv /\ [Next]_vars => [Fifo!Next]_<<pushed, got>>
<1> SUFFICES ASSUME RingInv, [Next]_vars PROVE [Fifo!Next]_<<pushed, got>>
  OBVIOUS
<1>1. CASE PushPublish
  <2>1. pv \in Values /\ Len(pushed) < Released + Depth /\ got' = got
    BY <1>1 DEF PushPublish, RingInv, ProducerView
  <2>2. Len(pushed) - Len(got) < Depth
    BY <2>1, Addresses, RingAssumption DEF Released
  <2>3. Fifo!Put(pv)
    BY <1>1, <2>1, <2>2 DEF PushPublish, Fifo!Put
  <2> QED BY <2>1, <2>3 DEF Fifo!Next
<1>2. CASE DrainUse
  <2>1. Released = Len(got) /\ pushed' = pushed
    BY <1>2 DEF DrainUse, Released
  <2>2. Len(got) < Len(pushed) /\ cv = pushed[Len(got) + 1]
    BY <1>2, <2>1, Addresses DEF DrainUse, RingInv, ConsumerView
  <2>3. ring[ct % Depth] = cv
    BY <1>2, <2>1, <2>2, EntryIsNext DEF DrainUse
  <2>4. Fifo!Get
    BY <1>2, <2>1, <2>2, <2>3 DEF DrainUse, Fifo!Get
  <2> QED BY <2>4 DEF Fifo!Next
<1>3. CASE ~PushPublish /\ ~DrainUse
  BY <1>3 DEF Next, Produce, Consume, PushLoad, PushFull, PushCopy, PushCopied,
     DrainLoad, DrainDone, DrainRead, DrainRelease, vars
<1> QED BY <1>1, <1>2, <1>3

(* The lock-free ring of AprsTaskContext and Ax25RxQueue implements the    *)
(* bounded FIFO queue.                                                     *)
THEOREM RingImplementsFifo == Spec => IsBoundedFifo
<1>1. Init => Fifo!Init
  BY DEF Init, Fifo!Init
<1> QED
  BY <1>1, RingInit, RingStep, FifoStep, PTL DEF Spec, IsBoundedFifo, Fifo!Spec

--------------------------------------------------------------------------------

(* unescape() as the states it goes through.                               *)
States == [out : Seq(Bytes) \cup {Malformed}, esc : BOOLEAN]

(* The state stays one: an error is kept, a byte is appended, or an escape *)
(* noted.                                                                  *)
LEMMA UnescapeTyped ==
  ASSUME NEW st \in States, NEW b \in Bytes
  PROVE  UnescapeByte(st, b) \in States
<1>1. CASE st.out = Malformed
  BY <1>1, Zenon DEF UnescapeByte
<1>2. CASE st.out # Malformed
  <2>1. st.out \in Seq(Bytes) /\ st.esc \in BOOLEAN
    BY <1>2 DEF States
  <2>2. "FEND" \in Bytes /\ "FESC" \in Bytes
    BY DEF Bytes
  <2>3. \A c \in Bytes : [out |-> Append(st.out, c), esc |-> FALSE] \in States
    BY <2>1 DEF States
  <2>4. [st EXCEPT !.esc = TRUE] \in States /\ [st EXCEPT !.out = Malformed] \in States
    BY DEF States
  <2>5. Append(st.out, b) \in Seq(Bytes)
    BY <2>1
  <2>6. [st EXCEPT !.out = Append(st.out, b)] \in States
    BY <2>5 DEF States
  <2> QED BY <1>2, <2>2, <2>3, <2>4, <2>6 DEF UnescapeByte
<1> QED BY <1>1, <1>2

(* st[i] is the state of unescape() after the first i bytes of the body.   *)
Unescapes(st, body) ==
  /\ st \in [0..Len(body) -> States] /\ st[0] = [out |-> <<>>, esc |-> FALSE]
  /\ \A i \in 1..Len(body) : st[i] = UnescapeByte(st[i - 1], body[i])
  /\ Unescape(body) = IF st[Len(body)].esc THEN Malformed ELSE st[Len(body)].out

(* unescape() goes through such states for every body.                     *)
LEMMA Unescaping ==
  ASSUME NEW body \in Seq(Bytes)
  PROVE  \E st : Unescapes(st, body)
<1> DEFINE n == Len(body)
           first == [out |-> <<>>, esc |-> FALSE]
           step == [i \in 1..n |-> [s \in States |-> UnescapeByte(s, body[i])]]
           Equation(g) == g = [i \in 0..n |-> IF i = 0 THEN first
                                                ELSE UnescapeByte(g[i - 1], body[i])]
           st == CHOOSE g : Equation(g)
<1>1. n \in Nat /\ first \in States
  BY EmptySeq DEF States
<1>2. step \in [1..n -> [States -> States]]
  BY UnescapeTyped
<1>3. \A i \in 1..n, s \in States : step[i][s] = UnescapeByte(s, body[i])
  OBVIOUS
<1>4. Unescape(body) = IF st[n].esc THEN Malformed ELSE st[n].out
  BY Zenon DEF Unescape
<1>p. PICK f : Iterates(f, States, first, n, step)
  <2> HIDE DEF n, step, first
  <2> QED BY <1>1, <1>2, Iteration
<1>5. /\ f \in [0..n -> States] /\ f[0] = first
      /\ \A i \in 1..n : f[i] = step[i][f[i - 1]]
  <2> HIDE DEF n, step, first
  <2> QED BY <1>p DEF Iterates
<1> HIDE DEF step
<1>6. \A i \in 1..n : f[i] = UnescapeByte(f[i - 1], body[i])
  <2> SUFFICES ASSUME NEW i \in 1..n PROVE f[i] = UnescapeByte(f[i - 1], body[i])
    OBVIOUS
  <2>1. i - 1 \in 0..n
    BY <1>1
  <2>2. f[i - 1] \in States
    BY <1>5, <2>1
  <2> QED BY <1>3, <1>5, <2>2
<1> HIDE DEF n, first
<1>7. Equation(f)
  <2>1. \A i \in 0..n : f[i] = IF i = 0 THEN first ELSE UnescapeByte(f[i - 1], body[i])
    BY <1>1, <1>5, <1>6
  <2> QED BY <1>5, <2>1
<1>8. Equation(st)
  BY <1>7, Zenon
<1> HIDE DEF st
<1>9. st[n] = f[n]
  <2> DEFINE P == {i \in 0..n : st[i] = f[i]}
  <2>1. 0 \in P
    BY <1>1, <1>5, <1>8
  <2>2. ASSUME NEW i \in 0..n, i \in P, i < n PROVE i + 1 \in P
    <3>1. i + 1 \in 0..n /\ i + 1 \in 1..n /\ i + 1 - 1 = i /\ i + 1 # 0
      BY <1>1, <2>2
    <3>2. st[i + 1] = UnescapeByte(st[i], body[i + 1])
      BY <1>8, <3>1
    <3>3. f[i + 1] = UnescapeByte(f[i], body[i + 1])
      BY <1>6, <3>1
    <3> QED BY <2>2, <3>1, <3>2, <3>3
  <2> HIDE DEF P
  <2>3. n \in P
    <3>1. \A i \in 0..n : i \in P
      BY <1>1, <2>1, <2>2, Induction
    <3> QED BY <1>1, <3>1
  <2> QED BY <2>3 DEF P
<1>10. Unescapes(f, body)
  BY <1>4, <1>5, <1>6, <1>9 DEF n, first, Unescapes
<1> QED BY <1>10

(* No frame is taken for the mark that stands for -1.                      *)
LEMMA NotMalformed ==
  ASSUME NEW s \in Seq(Bytes)
  PROVE  s # Malformed
<1> SUFFICES ASSUME s = Malformed PROVE FALSE
  OBVIOUS
<1>1. Len(s) = 1 /\ s[1] = "malformed"
  BY DEF Malformed
<1>2. s[1] \in Bytes
  BY <1>1
<1> QED BY <1>1, <1>2 DEF Bytes

(* Escaping a byte gives one byte or two, and no FEND.                     *)
LEMMA EscapedTyped ==
  ASSUME NEW b \in Bytes
  PROVE  /\ Escaped(b) \in Seq(Bytes) /\ Len(Escaped(b)) >= 1
         /\ \A k \in 1..Len(Escaped(b)) : Escaped(b)[k] # "FEND"
<1>1. CASE b = "FEND"
  <2>1. Escaped(b) = <<"FESC", "TFEND">>
    BY <1>1 DEF Escaped
  <2> QED BY <2>1 DEF Bytes
<1>2. CASE b = "FESC"
  <2>1. Escaped(b) = <<"FESC", "TFESC">>
    BY <1>2 DEF Escaped
  <2> QED BY <2>1 DEF Bytes
<1>3. CASE b \notin {"FEND", "FESC"}
  <2>1. Escaped(b) = <<b>>
    BY <1>3 DEF Escaped
  <2> QED BY <1>3, <2>1
<1> QED BY <1>1, <1>2, <1>3

(* Escape() as what has come of the first bytes.                           *)
Escapes(f, data) ==
  /\ f \in [0..Len(data) -> Seq(Bytes)] /\ f[0] = <<>>
  /\ \A i \in 1..Len(data) : f[i] = f[i - 1] \o Escaped(data[i])
  /\ Escape(data) = f[Len(data)]
  /\ \A i \in 0..Len(data) : Begins(f[i], f[Len(data)])

(* escape() puts a frame together that way, whatever the frame.            *)
LEMMA Escaping ==
  ASSUME NEW data \in Seq(Bytes)
  PROVE  \E f : Escapes(f, data)
<1> DEFINE seqs == [i \in DOMAIN data |-> Escaped(data[i])]
           n == Len(data)
<1>1. n \in Nat /\ DOMAIN data = 1..n /\ \A i \in 1..n : data[i] \in Bytes
  OBVIOUS
<1>2. seqs \in [1..n -> Seq(Bytes)]
  BY <1>1, EscapedTyped
<1>3. seqs \in Seq(Seq(Bytes)) /\ Len(seqs) = n
  BY <1>1, <1>2
<1>4. PICK f : Flattens(f, Bytes, seqs)
  BY <1>3, Flattening
<1>5. /\ f \in [0..n -> Seq(Bytes)] /\ f[0] = <<>>
      /\ \A i \in 1..n : f[i] = f[i - 1] \o seqs[i]
      /\ FlattenSeq(seqs) = f[n]
  <2> HIDE DEF seqs, n
  <2> QED BY <1>3, <1>4, Zenon DEF Flattens
<1>6. Escape(data) = f[n]
  BY <1>5, Zenon DEF Escape
<1>7. \A i \in 0..n : Begins(f[i], f[n])
  <2> HIDE DEF seqs, n
  <2> QED BY <1>1, <1>2, <1>5, PartsBegin
<1>8. \A i \in 1..n : seqs[i] = Escaped(data[i])
  BY <1>1
<1>9. \A i \in 1..n : f[i] = f[i - 1] \o Escaped(data[i])
  <2> HIDE DEF seqs, n
  <2> QED BY <1>5, <1>8
<1>10. Escapes(f, data)
  BY <1>5, <1>6, <1>7, <1>9, Zenon DEF Escapes
<1> QED BY <1>10, Zenon

(* A body that cannot be mistaken for the end of a frame.                  *)
NoFend(s) == \A k \in 1..Len(s) : s[k] # "FEND"

(* Two of them, one after the other, are one.                              *)
LEMMA NoFendConcat ==
  ASSUME NEW s \in Seq(Bytes), NEW t \in Seq(Bytes), NoFend(s), NoFend(t)
  PROVE  NoFend(s \o t)
BY DEF NoFend

(* The escaped body of a frame holds no FEND, and is not empty unless the  *)
(* frame is.                                                               *)
LEMMA EscapeTyped ==
  ASSUME NEW data \in Seq(Bytes)
  PROVE  Escape(data) \in Seq(Bytes) /\ NoFend(Escape(data))
<1> DEFINE n == Len(data)
<1>1. PICK f : Escapes(f, data)
  BY Escaping, Zenon
<1>2. /\ n \in Nat /\ f \in [0..n -> Seq(Bytes)] /\ f[0] = <<>>
      /\ \A i \in 1..n : f[i] = f[i - 1] \o Escaped(data[i])
      /\ Escape(data) = f[n]
  BY <1>1 DEF Escapes
<1> DEFINE Cat(s, t) == s \o t
<1>c. \A i \in 1..n : f[i] = Cat(f[i - 1], Escaped(data[i]))
  BY <1>2, Zenon
<1> HIDE DEF Cat
<1> DEFINE P == {i \in 0..n : NoFend(f[i])}
<1>3. 0 \in P
  BY <1>2 DEF NoFend
<1>4. ASSUME NEW i \in 0..n, i \in P, i < n PROVE i + 1 \in P
  <2>1. i + 1 \in 1..n /\ i + 1 \in 0..n /\ i + 1 - 1 = i
    BY <1>2, <1>4
  <2>2. data[i + 1] \in Bytes
    BY <2>1
  <2>3. Escaped(data[i + 1]) \in Seq(Bytes) /\ NoFend(Escaped(data[i + 1]))
    BY <2>2, EscapedTyped DEF NoFend
  <2>4. f[i] \in Seq(Bytes) /\ NoFend(f[i])
    BY <1>2, <1>4
  <2>5. NoFend(f[i] \o Escaped(data[i + 1]))
    BY <2>3, <2>4, NoFendConcat
  <2>6. f[i + 1] = Cat(f[i], Escaped(data[i + 1]))
    BY <1>c, <2>1
  <2>7. f[i + 1] = f[i] \o Escaped(data[i + 1])
    BY <2>6 DEF Cat
  <2> QED BY <2>1, <2>5, <2>7
<1> HIDE DEF P, n
<1>5. \A i \in 0..n : i \in P
  BY <1>2, <1>3, <1>4, Induction
<1>6. n \in P
  BY <1>2, <1>5
<1> QED BY <1>2, <1>6 DEF P

(* One byte of the frame, escaped and unescaped.                           *)
LEMMA ByteRoundTrip ==
  ASSUME NEW b \in Bytes, NEW out \in Seq(Bytes), NEW body \in Seq(Bytes), NEW st,
         NEW m \in Nat, st[m] = [out |-> out, esc |-> FALSE],
         m + Len(Escaped(b)) <= Len(body),
         \A i \in 1..Len(body) : st[i] = UnescapeByte(st[i - 1], body[i]),
         \A k \in 1..Len(Escaped(b)) : body[m + k] = Escaped(b)[k]
  PROVE  st[m + Len(Escaped(b))] = [out |-> Append(out, b), esc |-> FALSE]
<1> DEFINE R == [out |-> out, esc |-> FALSE]
<1>0. out # Malformed /\ st[m] = R
  BY NotMalformed
<1>1. CASE b \notin {"FEND", "FESC"}
  <2>1. Escaped(b) = <<b>>
    BY <1>1 DEF Escaped
  <2>2. m + 1 \in 1..Len(body) /\ m + 1 - 1 = m /\ body[m + 1] = b /\ Len(Escaped(b)) = 1
    BY <2>1
  <2>3. st[m + 1] = UnescapeByte(st[m], b)
    BY <2>2
  <2>4. UnescapeByte(R, b) = [out |-> Append(out, b), esc |-> FALSE]
    BY <1>0, <1>1 DEF UnescapeByte
  <2> QED BY <1>0, <2>2, <2>3, <2>4
<1>2. ASSUME NEW c, Escaped(b) = <<"FESC", c>>, (c = "TFEND" /\ b = "FEND") \/ (c = "TFESC" /\ b = "FESC")
      PROVE  st[m + Len(Escaped(b))] = [out |-> Append(out, b), esc |-> FALSE]
  <2>1. /\ m + 1 \in 1..Len(body) /\ m + 1 - 1 = m /\ body[m + 1] = "FESC"
        /\ m + 2 \in 1..Len(body) /\ m + 2 - 1 = m + 1 /\ body[m + 2] = c
        /\ Len(Escaped(b)) = 2
    BY <1>2
  <2>2. st[m + 1] = UnescapeByte(st[m], "FESC") /\ st[m + 2] = UnescapeByte(st[m + 1], c)
    BY <2>1
  <2>3. UnescapeByte(R, "FESC") = [out |-> out, esc |-> TRUE]
    BY <1>0 DEF UnescapeByte
  <2>5. st[m + 1].out = out /\ st[m + 1].esc = TRUE
    BY <1>0, <2>2, <2>3
  <2>6. UnescapeByte(st[m + 1], c) = [out |-> Append(out, b), esc |-> FALSE]
    BY <1>0, <1>2, <2>5 DEF UnescapeByte
  <2> QED BY <2>1, <2>2, <2>6
<1>3. CASE b = "FEND"
  <2>1. Escaped(b) = <<"FESC", "TFEND">>
    BY <1>3 DEF Escaped
  <2>2. ("TFEND" = "TFEND" /\ b = "FEND") \/ ("TFEND" = "TFESC" /\ b = "FESC")
    BY <1>3
  <2> QED BY <1>2, <2>1, <2>2, Zenon
<1>4. CASE b = "FESC"
  <2>1. Escaped(b) = <<"FESC", "TFESC">>
    BY <1>4 DEF Escaped
  <2>2. ("TFESC" = "TFEND" /\ b = "FEND") \/ ("TFESC" = "TFESC" /\ b = "FESC")
    BY <1>4
  <2> QED BY <1>2, <2>1, <2>2, Zenon
<1> QED BY <1>1, <1>3, <1>4

(* unescape() undoes escape(), for every frame.                            *)
LEMMA UnescapeEscape ==
  ASSUME NEW data \in Seq(Bytes)
  PROVE  Unescape(Escape(data)) = data
<1> DEFINE n == Len(data)
           body == Escape(data)
           L == Len(body)
<1>1. PICK f : Escapes(f, data)
  BY Escaping, Zenon
<1>2. /\ n \in Nat /\ f \in [0..n -> Seq(Bytes)] /\ f[0] = <<>>
      /\ \A i \in 1..n : f[i] = f[i - 1] \o Escaped(data[i])
      /\ body = f[n] /\ \A i \in 0..n : Begins(f[i], body)
  BY <1>1 DEF Escapes
<1> DEFINE Cat(s, t) == s \o t
<1>c. \A i \in 1..n : f[i] = Cat(f[i - 1], Escaped(data[i]))
  BY <1>2, Zenon
<1> HIDE DEF Cat
<1>3. body \in Seq(Bytes)
  BY EscapeTyped
<1> HIDE DEF body
<1>4. PICK st : Unescapes(st, body)
  BY <1>3, Unescaping, Zenon
<1>5. /\ L \in Nat /\ st \in [0..L -> States] /\ st[0] = [out |-> <<>>, esc |-> FALSE]
      /\ \A i \in 1..Len(body) : st[i] = UnescapeByte(st[i - 1], body[i])
      /\ Unescape(body) = IF st[L].esc THEN Malformed ELSE st[L].out
  BY <1>3, <1>4 DEF Unescapes
<1> DEFINE P == {i \in 0..n : st[Len(f[i])] = [out |-> SubSeq(data, 1, i), esc |-> FALSE]}
<1>6. 0 \in P
  <2>1. Len(f[0]) = 0 /\ SubSeq(data, 1, 0) = <<>> /\ 0 \in 0..n
    BY <1>2
  <2>2. st[Len(f[0])] = [out |-> SubSeq(data, 1, 0), esc |-> FALSE]
    BY <1>5, <2>1, Zenon
  <2> QED BY <2>1, <2>2
<1>7. ASSUME NEW i \in 0..n, i \in P, i < n PROVE i + 1 \in P
  <2> DEFINE b == data[i + 1]
             e == Escaped(b)
             m == Len(f[i])
             out == SubSeq(data, 1, i)
  <2>1. i + 1 \in 1..n /\ i + 1 \in 0..n /\ i + 1 - 1 = i
    BY <1>2, <1>7
  <2>2. b \in Bytes
    BY <2>1
  <2>3. e \in Seq(Bytes) /\ f[i] \in Seq(Bytes) /\ f[i + 1] = f[i] \o e
    <3>1. e \in Seq(Bytes)
      BY <2>2, EscapedTyped
    <3>2. f[i] \in Seq(Bytes)
      BY <1>2
    <3>3. f[i + 1] = f[i] \o e
      <4>1. f[i + 1] = Cat(f[i], e)
        BY <1>c, <2>1
      <4> QED BY <4>1 DEF Cat
    <3> QED BY <3>1, <3>2, <3>3
  <2>4. m \in Nat /\ Len(f[i + 1]) = m + Len(e) /\ \A k \in 1..Len(e) : f[i + 1][m + k] = e[k]
    <3> HIDE DEF e
    <3> QED BY <2>3
  <2>5. Begins(f[i + 1], body)
    BY <1>2, <2>1
  <2>6. m + Len(e) <= Len(body) /\ \A k \in 1..Len(e) : body[m + k] = e[k]
    <3> HIDE DEF e
    <3>1. Len(e) \in Nat
      BY <2>3
    <3>2. \A k \in 1..Len(e) : m + k \in 1..Len(f[i + 1])
      BY <2>4, <3>1
    <3> QED BY <2>4, <2>5, <3>2 DEF Begins
  <2>7. out \in Seq(Bytes) /\ st[m] = [out |-> out, esc |-> FALSE]
    BY <1>7, <1>2
  <2>8. st[m + Len(e)] = [out |-> Append(out, b), esc |-> FALSE]
    <3> HIDE DEF out, m, b, P
    <3> QED BY <1>3, <1>5, <2>2, <2>4, <2>6, <2>7, ByteRoundTrip
  <2>9. Append(out, b) = SubSeq(data, 1, i + 1)
    BY <1>2, <1>7
  <2> QED BY <2>1, <2>4, <2>8, <2>9
<1>8. n \in P
  <2> HIDE DEF P, n
  <2>1. \A i \in 0..n : i \in P
    BY <1>2, <1>6, <1>7, Induction
  <2> QED BY <1>2, <2>1
<1>9. st[L] = [out |-> data, esc |-> FALSE]
  <2>1. SubSeq(data, 1, n) = data
    OBVIOUS
  <2> QED BY <1>2, <1>8, <2>1
<1>10. Unescape(body) = data
  BY <1>5, <1>9
<1> QED BY <1>10 DEF body

(* The limits the code sets are numbers, all but the bound on the frames   *)
(* positive.                                                               *)
LEMMA Limits ==
  /\ kKissMaxFrame \in Nat \ {0} /\ kChunkPayload \in Nat \ {0} /\ IdMod \in Nat \ {0}
  /\ MaxPending \in Nat \ {0} /\ MaxAir \in Nat \ {0} /\ MaxFrames \in Nat
BY KissAssumption

(* A KISS frame byte by byte.                                              *)
LEMMA ConcatBytes ==
  ASSUME NEW s \in Seq(Bytes), NEW t \in Seq(Bytes), NEW m \in Nat, Len(s) = m
  PROVE  /\ s \o t \in Seq(Bytes) /\ Len(s \o t) = Len(t) + m
         /\ \A k \in 1..m : (s \o t)[k] = s[k]
         /\ \A k \in 1..Len(t) : (s \o t)[k + m] = t[k]
OBVIOUS

(* encode(): a FEND, the command byte, the escaped frame and a FEND.       *)
LEMMA EncodeBytes ==
  ASSUME NEW data \in Seq(Bytes)
  PROVE  /\ Encode(data) \in Seq(Bytes) /\ Len(Encode(data)) = Len(Escape(data)) + 3
         /\ Encode(data)[1] = "FEND" /\ Encode(data)[2] = "0"
         /\ Encode(data)[Len(Escape(data)) + 3] = "FEND"
         /\ \A k \in 1..Len(Escape(data)) : Encode(data)[k + 2] = Escape(data)[k]
<1> DEFINE e == Escape(data)
           front == <<"FEND", "0">>
           back == <<"FEND">>
           body == front \o e
<1>1. e \in Seq(Bytes) /\ Len(e) \in Nat
  BY EscapeTyped
<1> HIDE DEF e
<1>2. /\ front \in Seq(Bytes) /\ back \in Seq(Bytes) /\ Len(front) = 2 /\ Len(back) = 1
      /\ front[1] = "FEND" /\ front[2] = "0" /\ back[1] = "FEND"
  BY DEF Bytes
<1> HIDE DEF front, back
<1>3. /\ body \in Seq(Bytes) /\ Len(body) = Len(e) + 2
      /\ body[1] = "FEND" /\ body[2] = "0"
      /\ \A k \in 1..Len(e) : body[k + 2] = e[k]
  <2>1. /\ body \in Seq(Bytes) /\ Len(body) = Len(e) + 2
        /\ \A k \in 1..2 : body[k] = front[k]
        /\ \A k \in 1..Len(e) : body[k + 2] = e[k]
    <3>1. 2 \in Nat
      OBVIOUS
    <3> QED BY <1>1, <1>2, <3>1, ConcatBytes, Zenon
  <2> HIDE DEF body
  <2> QED BY <1>2, <2>1
<1> HIDE DEF body
<1>4. /\ body \o back \in Seq(Bytes) /\ Len(body \o back) = Len(e) + 3
      /\ \A k \in 1..Len(body) : (body \o back)[k] = body[k]
      /\ (body \o back)[Len(e) + 3] = "FEND"
  <2> DEFINE all == body \o back
             m == Len(body)
  <2>0. m \in Nat
    BY <1>1, <1>3
  <2>1. /\ all \in Seq(Bytes) /\ Len(all) = Len(back) + m
        /\ \A k \in 1..m : all[k] = body[k]
        /\ \A k \in 1..Len(back) : all[k + m] = back[k]
    BY <1>2, <1>3, <2>0, ConcatBytes
  <2>2. 1 \in 1..Len(back) /\ 1 + m = Len(e) + 3
    BY <1>1, <1>2, <1>3
  <2>3. all[1 + m] = "FEND"
    <3> HIDE DEF all, m
    <3> QED BY <1>2, <2>1, <2>2
  <2> HIDE DEF all
  <2>4. Len(all) = Len(e) + 3
    BY <1>1, <1>2, <1>3, <2>1
  <2> QED BY <2>1, <2>2, <2>3, <2>4 DEF all
<1>5. \A k \in 1..Len(e) : k + 2 \in 1..Len(body)
  BY <1>1, <1>3
<1>6. 1 \in 1..Len(body) /\ 2 \in 1..Len(body)
  BY <1>1, <1>3
<1>7. Encode(data) = body \o back
  BY Zenon DEF Encode, body, front, back, e
<1> QED BY <1>3, <1>4, <1>5, <1>6, <1>7 DEF e

(* strip_fends() finds the command byte and the escaped body.              *)
LEMMA StripEncode ==
  ASSUME NEW data \in Seq(Bytes)
  PROVE  LET s == Strip(Encode(data)) IN
           s # <<>> /\ s[1] = "0" /\ Len(s) - 1 = Len(Escape(data)) /\ Tail(s) = Escape(data)
<1> DEFINE e == Escape(data)
           f == Encode(data)
           n == Len(e)
           inner == {i \in DOMAIN f : f[i] # "FEND"}
           lo == CHOOSE i \in inner : \A j \in inner : i <= j
           hi == CHOOSE i \in inner : \A j \in inner : j <= i
           s == SubSeq(f, lo, hi)
<1>1. /\ n \in Nat /\ e \in Seq(Bytes) /\ \A k \in 1..n : e[k] # "FEND"
      /\ f \in Seq(Bytes) /\ Len(f) = n + 3 /\ f[1] = "FEND" /\ f[2] = "0" /\ f[n + 3] = "FEND"
      /\ \A k \in 1..n : f[k + 2] = e[k]
  BY EscapeTyped, EncodeBytes DEF NoFend
<1> HIDE DEF e, f, n
<1>2. inner = 2..(n + 2)
  <2>1. ASSUME NEW i \in 2..(n + 2) PROVE f[i] # "FEND"
    <3>1. CASE i = 2
      BY <1>1, <3>1
    <3>2. CASE i # 2
      <4>1. i - 2 \in 1..n /\ i - 2 + 2 = i
        BY <1>1, <3>2
      <4>2. f[i] = e[i - 2]
        BY <1>1, <4>1
      <4> QED BY <1>1, <4>1, <4>2
    <3> QED BY <3>1, <3>2
  <2>2. DOMAIN f = 1..(n + 3)
    BY <1>1
  <2> QED BY <1>1, <2>1, <2>2
<1> HIDE DEF inner
<1>3. lo = 2
  <2>1. 2 \in inner /\ \A j \in inner : 2 <= j
    BY <1>1, <1>2
  <2>2. lo \in inner /\ \A j \in inner : lo <= j
    BY <2>1, Zenon
  <2> HIDE DEF lo
  <2> QED BY <1>1, <1>2, <2>1, <2>2
<1>4. hi = n + 2
  <2>1. n + 2 \in inner /\ \A j \in inner : j <= n + 2
    BY <1>1, <1>2
  <2>2. hi \in inner /\ \A j \in inner : j <= hi
    BY <2>1, Zenon
  <2> HIDE DEF hi
  <2> QED BY <1>1, <1>2, <2>1, <2>2
<1>5. Strip(f) = s
  <2>0. 2 \in inner
    <3> HIDE DEF lo, hi
    <3> QED BY <1>1, <1>2
  <2>1. inner # {}
    BY <2>0, Zenon
  <2> QED BY <2>1, Zenon DEF Strip, inner, lo, hi, s
<1> HIDE DEF lo, hi
<1>6. /\ s \in Seq(Bytes) /\ Len(s) = n + 1
      /\ \A k \in 1..(n + 1) : s[k] = f[k + 1]
  <2>1. lo \in 1..Len(f) /\ hi \in 1..Len(f) /\ lo <= hi
    BY <1>1, <1>3, <1>4
  <2>2. s = SubSeq(f, 2, n + 2)
    BY <1>3, <1>4
  <2> HIDE DEF s
  <2> QED BY <1>1, <2>2
<1> HIDE DEF s
<1>7. s # <<>> /\ s[1] = "0" /\ Len(s) - 1 = n
  BY <1>1, <1>6
<1>8. Tail(s) = e
  <2>1. Tail(s) \in Seq(Bytes) /\ Len(Tail(s)) = n /\ \A k \in 1..n : Tail(s)[k] = s[k + 1]
    BY <1>1, <1>6, <1>7
  <2>2. ASSUME NEW k \in 1..n PROVE Tail(s)[k] = e[k]
    <3>1. k + 1 \in 1..(n + 1) /\ k + 1 + 1 = k + 2
      BY <1>1
    <3> QED BY <1>1, <1>6, <2>1, <3>1
  <2> QED BY <1>1, <2>1, <2>2, SeqEqual DEF n
<1> QED BY <1>5, <1>7, <1>8 DEF e, f, n

(* decode() undoes encode(), for every frame whose body is not too long.   *)
LEMMA DecodeEncode ==
  ASSUME NEW data \in Seq(Bytes)
  PROVE  Decode(Encode(data)) = IF Len(Escape(data)) > kKissMaxFrame THEN Malformed ELSE data
<1> DEFINE s == Strip(Encode(data))
<1>1. s # <<>> /\ s[1] = "0" /\ Len(s) - 1 = Len(Escape(data)) /\ Tail(s) = Escape(data)
  BY StripEncode
<1>2. Unescape(Tail(s)) = data
  BY <1>1, UnescapeEscape
<1>3. Decode(Encode(data)) = CASE s = <<>> -> Malformed
                               [] s # <<>> /\ s[1] # "0" -> <<>>
                               [] s # <<>> /\ s[1] = "0" /\ Len(s) - 1 > kKissMaxFrame -> Malformed
                               [] OTHER -> Unescape(Tail(s))
  BY DEF Decode
<1> HIDE DEF s
<1>4. CASE Len(Escape(data)) > kKissMaxFrame
  BY <1>1, <1>3, <1>4
<1>5. CASE ~(Len(Escape(data)) > kKissMaxFrame)
  BY <1>1, <1>2, <1>3, <1>5
<1> QED BY <1>4, <1>5

(* KissTxExact is inductive with one more case: nothing was written.       *)
TxExact == \/ written = None /\ queued = None
           \/ queued = IF Decode(written) \in {Malformed, <<>>} THEN None ELSE Decode(written)

(* TxExact: what is pushed for a frame of the bridge is the AX.25 frame.   *)
THEOREM TransmitsWhatWasWritten == KissSpec => []KissTxExact
<1>1. KissInit => TxExact
  BY DEF KissInit, TxExact
<1>2. TxExact /\ [KissNext]_kissVars => TxExact'
  <2> SUFFICES ASSUME TxExact, [KissNext]_kissVars PROVE TxExact'
    OBVIOUS
  <2>1. ASSUME NEW content \in Contents, RxFrame(content) PROVE TxExact'
    BY <2>1 DEF TxExact, RxFrame, tx
  <2>2. ASSUME NEW ok \in BOOLEAN, SendChunk(ok) PROVE TxExact'
    BY <2>2 DEF TxExact, SendChunk, tx
  <2>3. CASE Connect
    BY <2>3 DEF TxExact, Connect, tx
  <2>4. CASE Subscribe
    BY <2>4 DEF TxExact, Subscribe, tx
  <2>5. CASE Reset
    BY <2>5 DEF TxExact, Reset, tx
  <2>6. ASSUME NEW own \in BOOLEAN, Disconnect(own) PROVE TxExact'
    BY <2>6 DEF TxExact, Disconnect, tx
  <2>7. CASE Notified
    BY <2>7 DEF TxExact, Notified, tx
  <2>8. ASSUME NEW frame, WriteKiss(frame) PROVE TxExact'
    BY <2>8, Zenon DEF TxExact, WriteKiss
  <2>9. CASE TakeKiss
    BY <2>9 DEF TxExact, TakeKiss
  <2>10. CASE UNCHANGED kissVars
    BY <2>10 DEF TxExact, kissVars, tx
  <2> QED BY <2>1, <2>2, <2>3, <2>4, <2>5, <2>6, <2>7, <2>8, <2>9, <2>10 DEF KissNext
<1>3. TxExact => KissTxExact
  <2> SUFFICES ASSUME TxExact, NEW c \in Contents, written = Encoded[c]
               PROVE  queued = IF c \in TooLong THEN None ELSE c
    BY DEF KissTxExact
  <2>1. c \in Seq(Bytes) /\ c # <<>> /\ Encoded[c] = Encode(c)
    BY KissAssumption DEF Encoded
  <2>2. Decode(written) = IF c \in TooLong THEN Malformed ELSE c
    BY <2>1, DecodeEncode DEF TooLong
  <2>3. written # None
    <3>1. written[1] = "FEND"
      BY <2>1, EncodeBytes
    <3> QED BY <3>1 DEF None
  <2>4. c # Malformed
    BY <2>1, NotMalformed
  <2>5. queued = IF Decode(written) \in {Malformed, <<>>} THEN None ELSE Decode(written)
    BY <2>3, Zenon DEF TxExact
  <2> QED BY <2>1, <2>2, <2>4, <2>5
<1> QED BY <1>1, <1>2, <1>3, PTL DEF KissSpec

(* How many chunks a frame takes, and what the i-th holds.                 *)
Total(frame) == (Len(frame) + kChunkPayload - 1) \div kChunkPayload

(* Where the i-th chunk begins: after i chunks, or at the end of the       *)
(* frame.                                                                  *)
Upto(i, frame) == IF i * kChunkPayload < Len(frame) THEN i * kChunkPayload ELSE Len(frame)

(* The bytes the i-th chunk holds.                                         *)
Part(i, frame) == SubSeq(frame, i * kChunkPayload + 1, Upto(i + 1, frame))

(* A chunk, field by field.                                                *)
LEMMA ChunkFields ==
  ASSUME NEW id, NEW i, NEW frame, NEW s
  PROVE  Chunk(id, i, frame, s) =
           [id |-> id, idx |-> i, total |-> Total(frame), part |-> Part(i, frame), of |-> s]
BY Zenon DEF Chunk, Total, Part, Upto

(* The last chunk ends where the frame does, the one before does not.      *)
LEMMA TotalBounds ==
  ASSUME NEW frame \in Seq(Bytes), frame # <<>>
  PROVE  /\ Total(frame) \in Nat \ {0}
         /\ Total(frame) * kChunkPayload >= Len(frame)
         /\ \A i \in 0..(Total(frame) - 1) : i * kChunkPayload \in Nat /\ i * kChunkPayload < Len(frame)
<1> DEFINE n == Len(frame)
           p == kChunkPayload
           t == Total(frame)
<1>1. n \in Nat \ {0} /\ p \in Nat \ {0}
  BY Limits, EmptySeq
<1>2. t = (n + p - 1) \div p
  BY DEF Total
<1> HIDE DEF n, p, t
<1>3. n + p - 1 \in Nat /\ n + p - 1 >= p
  BY <1>1
<1>4. t \in Nat /\ p * t <= n + p - 1 /\ n + p - 1 < p * (t + 1)
  BY <1>1, <1>2, <1>3
<1>5. p * (t + 1) = p * t + p /\ t * p = p * t /\ t * p \in Nat
  BY <1>1, <1>4
<1>6. t # 0
  <2> SUFFICES ASSUME t = 0 PROVE FALSE
    OBVIOUS
  <2> QED BY <1>1, <1>3, <1>4, <1>5
<1>7. t * p >= n
  BY <1>1, <1>4, <1>5
<1>8. ASSUME NEW i \in 0..(t - 1) PROVE i * p \in Nat /\ i * p < n
  <2>1. i \in Nat /\ i + 1 <= t
    BY <1>4
  <2>2. i * p \in Nat /\ (i + 1) * p = i * p + p
    BY <1>1, <2>1
  <2>3. (i + 1) * p <= t * p
    BY <1>1, <1>4, <2>1
  <2> QED BY <1>1, <1>4, <1>5, <2>2, <2>3
<1> QED BY <1>4, <1>6, <1>7, <1>8 DEF n, p, t

(* The first a bytes and those up to b are the first b bytes.              *)
LEMMA SubSeqConcat ==
  ASSUME NEW s \in Seq(Bytes), NEW a \in Nat, NEW b \in Nat, a <= b, b <= Len(s)
  PROVE  SubSeq(s, 1, a) \o SubSeq(s, a + 1, b) = SubSeq(s, 1, b)
OBVIOUS

(* A frame cut at any places is the parts, one after the other.            *)
LEMMA Cuts ==
  ASSUME NEW frame \in Seq(Bytes), NEW N \in Nat, NEW b \in [0..N -> Nat],
         b[0] = 0, b[N] = Len(frame),
         \A i \in 0..N : b[i] <= Len(frame), \A i \in 1..N : b[i - 1] <= b[i],
         NEW parts \in [1..N -> Seq(Bytes)],
         \A i \in 1..N : parts[i] = SubSeq(frame, b[i - 1] + 1, b[i])
  PROVE  parts \in Seq(Seq(Bytes)) /\ FlattenSeq(parts) = frame
<1>1. parts \in Seq(Seq(Bytes)) /\ Len(parts) = N
  BY SeqOfFunction
<1>2. PICK f : Flattens(f, Bytes, parts)
  BY <1>1, Flattening, Zenon
<1> DEFINE Cat(s, t) == s \o t
<1>3. f[0] = <<>> /\ FlattenSeq(parts) = f[N]
  BY <1>1, <1>2, Zenon DEF Flattens
<1>4. \A i \in 1..N : f[i] = Cat(f[i - 1], parts[i])
  BY <1>1, <1>2, Zenon DEF Flattens
<1> HIDE DEF Cat
<1> DEFINE Cut(x, y) == SubSeq(frame, x + 1, y)
<1>p. \A i \in 1..N : parts[i] = Cut(b[i - 1], b[i])
  BY Zenon
<1> HIDE DEF Cut
<1> DEFINE P == {i \in 0..N : f[i] = SubSeq(frame, 1, b[i])}
<1>5. 0 \in P
  <2>1. SubSeq(frame, 1, 0) = <<>> /\ 0 \in 0..N
    OBVIOUS
  <2> QED BY <1>3, <2>1
<1>6. ASSUME NEW i \in 0..N, i \in P, i < N PROVE i + 1 \in P
  <2>1. i + 1 \in 1..N /\ i + 1 \in 0..N /\ i + 1 - 1 = i
    BY <1>6
  <2>2. f[i + 1] = Cat(f[i], parts[i + 1])
    BY <1>4, <2>1
  <2>3. parts[i + 1] = SubSeq(frame, b[i] + 1, b[i + 1])
    <3>1. parts[i + 1] = Cut(b[i], b[i + 1])
      BY <1>p, <2>1
    <3> QED BY <3>1 DEF Cut
  <2>4. f[i] = SubSeq(frame, 1, b[i])
    BY <1>6
  <2>5. b[i] \in Nat /\ b[i + 1] \in Nat /\ b[i] <= b[i + 1] /\ b[i + 1] <= Len(frame)
    BY <2>1
  <2>6. SubSeq(frame, 1, b[i]) \o SubSeq(frame, b[i] + 1, b[i + 1]) = SubSeq(frame, 1, b[i + 1])
    BY <2>5, SubSeqConcat
  <2>7. f[i + 1] = SubSeq(frame, 1, b[i + 1])
    BY <2>2, <2>3, <2>4, <2>6, Zenon DEF Cat
  <2> QED BY <2>1, <2>7
<1>7. N \in P
  <2> HIDE DEF P
  <2>1. \A i \in 0..N : i \in P
    BY <1>5, <1>6, Induction
  <2> QED BY <2>1
<1>8. SubSeq(frame, 1, Len(frame)) = frame
  OBVIOUS
<1>9. f[N] = frame
  BY <1>7, <1>8
<1> QED BY <1>1, <1>3, <1>9

(* The chunks of a frame hold the frame.                                   *)
LEMMA PartsMakeFrame ==
  ASSUME NEW frame \in Seq(Bytes), frame # <<>>
  PROVE  LET parts == [i \in 1..Total(frame) |-> Part(i - 1, frame)] IN
           parts \in Seq(Seq(Bytes)) /\ FlattenSeq(parts) = frame
<1> DEFINE N == Total(frame)
           q(i) == i * kChunkPayload
           n == Len(frame)
           b == [i \in 0..N |-> Upto(i, frame)]
           parts == [i \in 1..N |-> Part(i - 1, frame)]
<1>1. /\ N \in Nat \ {0} /\ q(N) >= n /\ n \in Nat
      /\ \A i \in 0..(N - 1) : q(i) \in Nat /\ q(i) < n
  BY TotalBounds
<1>2. \A i \in 0..N : q(i) \in Nat /\ q(i + 1) \in Nat /\ q(i + 1) >= q(i)
  BY <1>1, Limits
<1>3. \A i \in 0..N : Upto(i, frame) = IF q(i) < n THEN q(i) ELSE n
  BY DEF Upto
<1>4. q(0) = 0
  BY Limits
<1>5. ASSUME NEW i \in 1..N PROVE parts[i] = SubSeq(frame, q(i - 1) + 1, Upto(i, frame))
  <2>1. i - 1 + 1 = i
    BY <1>1
  <2>2. parts[i] = SubSeq(frame, q(i - 1) + 1, Upto(i - 1 + 1, frame))
    BY DEF Part
  <2> QED BY <2>1, <2>2
<1> HIDE DEF N, q, n, parts
<1>6. \A i \in 0..N : b[i] \in Nat /\ b[i] <= n /\ b[i] = Upto(i, frame)
  <2>1. \A i \in 0..N : b[i] = Upto(i, frame)
    OBVIOUS
  <2> HIDE DEF b
  <2> QED BY <1>1, <1>2, <1>3, <2>1
<1>7. b \in [0..N -> Nat]
  BY <1>6
<1>8. b[0] = 0 /\ b[N] = n
  <2>1. 0 \in 0..N /\ N \in 0..N
    BY <1>1
  <2> HIDE DEF b
  <2> QED BY <1>1, <1>2, <1>3, <1>4, <1>6, <2>1
<1>9. \A i \in 1..N : i - 1 \in 0..(N - 1) /\ i - 1 \in 0..N /\ i - 1 + 1 = i /\ i \in 0..N
  BY <1>1
<1> HIDE DEF b
<1>10. \A i \in 1..N : b[i - 1] = q(i - 1)
  BY <1>1, <1>3, <1>6, <1>9
<1>11. \A i \in 1..N : b[i - 1] <= b[i]
  <2> SUFFICES ASSUME NEW i \in 1..N PROVE b[i - 1] <= b[i]
    OBVIOUS
  <2>1. q(i) >= q(i - 1) /\ q(i - 1) < n
    BY <1>1, <1>2, <1>9
  <2>2. b[i] = IF q(i) < n THEN q(i) ELSE n
    BY <1>3, <1>6, <1>9
  <2> QED BY <1>1, <1>2, <1>9, <1>10, <2>1, <2>2
<1>12. \A i \in 1..N : parts[i] = SubSeq(frame, b[i - 1] + 1, b[i])
  BY <1>5, <1>6, <1>9, <1>10
<1>13. parts \in [1..N -> Seq(Bytes)]
  <2>1. ASSUME NEW i \in 1..N PROVE parts[i] \in Seq(Bytes)
    <3>1. b[i - 1] \in Nat /\ b[i] \in Nat /\ b[i] <= Len(frame)
      BY <1>6, <1>9 DEF n
    <3>2. \A j, k \in Nat : k <= Len(frame) => SubSeq(frame, j + 1, k) \in Seq(Bytes)
      OBVIOUS
    <3> QED BY <1>12, <3>1, <3>2
  <2> QED BY <2>1 DEF parts
<1>14. parts \in Seq(Seq(Bytes)) /\ FlattenSeq(parts) = frame
  BY <1>1, <1>6, <1>7, <1>8, <1>11, <1>12, <1>13, Cuts DEF n
<1> QED BY <1>14 DEF N, parts

(* A chunk as notify_kiss_rx() makes them, of a frame received.            *)
Genuine(c) ==
  /\ c.of \in DOMAIN received /\ c.idx \in Nat /\ c.idx < c.total
  /\ c = Chunk(c.id, c.idx, Encoded[received[c.of]], c.of)

(* All the chunks of a frame, in any order, are put together to the frame. *)
LEMMA ReassembledWhole ==
  ASSUME NEW frame \in Seq(Bytes), frame # <<>>,
         NEW chunks, NEW n \in Nat \ {0}, DOMAIN chunks = 1..n, Len(chunks) = n,
         \A c \in Range(chunks) : c.total = Total(frame) /\ c.part = Part(c.idx, frame),
         chunks[1].total = n, \A i \in 0..(n - 1) : \E c \in Range(chunks) : c.idx = i
  PROVE  Reassembled(chunks) = frame
<1> DEFINE N == Total(frame)
           at(i) == {c \in Range(chunks) : c.idx = i}
           parts == [i \in DOMAIN chunks |-> (CHOOSE c \in at(i - 1) : TRUE).part]
<1>1. chunks[1].total = Len(chunks) /\ \A i \in 0..(Len(chunks) - 1) : at(i) # {}
  OBVIOUS
<1>2. Reassembled(chunks) = FlattenSeq(parts)
  BY <1>1 DEF Reassembled
<1>3. chunks[1] \in Range(chunks)
  BY DEF Range
<1>4. n = N
  BY <1>1, <1>3
<1>5. parts = [i \in 1..N |-> Part(i - 1, frame)]
  <2>1. ASSUME NEW i \in 1..N PROVE (CHOOSE c \in at(i - 1) : TRUE).part = Part(i - 1, frame)
    <3>1. i - 1 \in 0..(Len(chunks) - 1)
      BY <1>4
    <3>2. PICK c \in at(i - 1) : TRUE
      BY <1>1, <3>1
    <3>3. (CHOOSE d \in at(i - 1) : TRUE) \in at(i - 1)
      BY <3>2, Zenon
    <3> QED BY <3>3
  <2>2. DOMAIN chunks = 1..N
    BY <1>4
  <2> QED BY <2>1, <2>2
<1> HIDE DEF parts
<1> QED BY <1>2, <1>5, PartsMakeFrame

(* Chunks of one frame, reassembled, give that frame or nothing.           *)
LEMMA ReassembledFrame ==
  ASSUME NEW frame \in Seq(Bytes), frame # <<>>,
         NEW chunks, chunks # <<>>, NEW n \in Nat \ {0}, DOMAIN chunks = 1..n, Len(chunks) = n,
         \A c \in Range(chunks) : c.total = Total(frame) /\ c.part = Part(c.idx, frame),
         Reassembled(chunks) # Malformed
  PROVE  Reassembled(chunks) = frame
<1>1. chunks[1].total = n /\ \A i \in 0..(n - 1) : \E c \in Range(chunks) : c.idx = i
  BY DEF Reassembled
<1> QED BY <1>1, ReassembledWhole

(* The message ids of one byte, the chunks with the frame they are cut     *)
(* from, and the entries of the table of messages not yet complete.        *)
Ids == 0..(IdMod - 1)

ChunkSet == [id : Ids, idx : Nat, total : Nat, part : Seq(Bytes), of : Nat]

EntrySet == [id : Ids, chunks : Seq(ChunkSet)]

(* KissBridge's table: a dictionary keeps one entry for an id.             *)
IsTable(t) ==
  t \in Seq(EntrySet) /\ \A i, j \in DOMAIN t : t[i].id = t[j].id => i = j

(* A KISS frame is made of bytes and never empty.                          *)
LEMMA FrameTyped ==
  ASSUME NEW content \in Contents
  PROVE  Encoded[content] \in Seq(Bytes) /\ Encoded[content] # <<>>
<1>1. content \in Seq(Bytes) /\ Encoded[content] = Encode(content)
  BY KissAssumption DEF Encoded
<1>2. Encode(content) \in Seq(Bytes) /\ Encode(content)[1] = "FEND" /\ Len(Encode(content)) = Len(Escape(content)) + 3
  BY <1>1, EncodeBytes
<1>3. Len(Escape(content)) \in Nat
  BY <1>1, EscapeTyped
<1>4. Len(Encode(content)) # 0
  BY <1>2, <1>3
<1> QED BY <1>1, <1>2, <1>4

(* What a chunk holds is made of bytes.                                    *)
LEMMA PartTyped ==
  ASSUME NEW frame \in Seq(Bytes), NEW i \in Nat
  PROVE  Part(i, frame) \in Seq(Bytes)
<1>1. \A j, k \in Nat : k <= Len(frame) => SubSeq(frame, j + 1, k) \in Seq(Bytes)
  OBVIOUS
<1>2. i * kChunkPayload \in Nat /\ (i + 1) * kChunkPayload \in Nat /\ Len(frame) \in Nat
  BY Limits
<1>3. Upto(i + 1, frame) \in Nat /\ Upto(i + 1, frame) <= Len(frame)
  BY <1>2 DEF Upto
<1> QED BY <1>1, <1>2, <1>3 DEF Part

(* The chunks notify_kiss_rx() makes of a frame: as many as it takes,      *)
(* numbered from 0, all with the id and the frame they belong to.          *)
LEMMA ChunksTyped ==
  ASSUME NEW content \in Contents, NEW id \in Ids, NEW s \in Nat
  PROVE  LET frame == Encoded[content]
             chunks == Chunks(id, frame, s) IN
           /\ chunks \in Seq(ChunkSet) /\ Len(chunks) = Total(frame)
           /\ \A i \in 1..Total(frame) : chunks[i] = Chunk(id, i - 1, frame, s)
           /\ \A c \in Range(chunks) : c.id = id /\ c.of = s /\ c.idx \in Nat /\ c.idx < c.total
                                         /\ c = Chunk(c.id, c.idx, frame, s)
<1> DEFINE frame == Encoded[content]
           N == Total(frame)
           chunks == Chunks(id, frame, s)
<1>1. frame \in Seq(Bytes) /\ N \in Nat \ {0}
  BY FrameTyped, TotalBounds
<1>2. chunks = [i \in 1..N |-> Chunk(id, i - 1, frame, s)]
  BY Zenon DEF Chunks, Total
<1> HIDE DEF frame, N, chunks
<1>3. ASSUME NEW i \in 1..N
      PROVE  /\ chunks[i] = [id |-> id, idx |-> i - 1, total |-> N, part |-> Part(i - 1, frame), of |-> s]
             /\ chunks[i] \in ChunkSet /\ i - 1 \in Nat /\ i - 1 < N
             /\ chunks[i] = Chunk(id, i - 1, frame, s)
  <2>1. chunks[i] = Chunk(id, i - 1, frame, s)
    BY <1>2
  <2>2. i - 1 \in Nat /\ i - 1 < N
    BY <1>1
  <2>3. Part(i - 1, frame) \in Seq(Bytes)
    BY <1>1, <2>2, PartTyped
  <2>4. chunks[i] = [id |-> id, idx |-> i - 1, total |-> N, part |-> Part(i - 1, frame), of |-> s]
    BY <2>1, ChunkFields, Zenon DEF N
  <2> QED BY <1>1, <2>1, <2>2, <2>3, <2>4 DEF ChunkSet
<1>4. chunks \in [1..N -> ChunkSet]
  BY <1>2, <1>3
<1>5. chunks \in Seq(ChunkSet) /\ Len(chunks) = N
  BY <1>1, <1>4, SeqOfFunction
<1>6. ASSUME NEW c \in Range(chunks)
      PROVE  c.id = id /\ c.of = s /\ c.idx \in Nat /\ c.idx < c.total /\ c = Chunk(c.id, c.idx, frame, s)
  <2>1. PICK i \in 1..N : c = chunks[i]
    BY <1>4 DEF Range
  <2>2. /\ c = [id |-> id, idx |-> i - 1, total |-> N, part |-> Part(i - 1, frame), of |-> s]
        /\ i - 1 \in Nat /\ i - 1 < N /\ c = Chunk(id, i - 1, frame, s)
    BY <1>3, <2>1
  <2>3. c.id = id /\ c.of = s /\ c.idx = i - 1 /\ c.total = N
    BY <2>2
  <2> QED BY <2>2, <2>3
<1> QED BY <1>3, <1>5, <1>6 DEF frame, N, chunks

(* The entry of an id is the one there is.                                 *)
LEMMA EntryOf ==
  ASSUME NEW t, IsTable(t), NEW p \in Range(t)
  PROVE  (CHOOSE q \in Range(t) : q.id = p.id) = p
<1> DEFINE r == CHOOSE q \in Range(t) : q.id = p.id
<1>1. r \in Range(t) /\ r.id = p.id
  BY Zenon
<1> HIDE DEF r
<1>2. PICK i, j \in DOMAIN t : r = t[i] /\ p = t[j]
  BY <1>1, Zenon DEF Range
<1>3. i = j
  BY <1>1, <1>2 DEF IsTable
<1> QED BY <1>2, <1>3 DEF r

(* Making room for an id keeps the table one, within its size.             *)
LEMMA RoomTable ==
  ASSUME NEW t, IsTable(t), Len(t) <= MaxPending, NEW id \in Ids
  PROVE  /\ IsTable(Room(t, id)) /\ Len(Room(t, id)) <= MaxPending
         /\ (\E p \in Range(t) : p.id = id) => Room(t, id) = t
         /\ ~(\E p \in Range(t) : p.id = id) => [id |-> id, chunks |-> <<>>] \in Range(Room(t, id))
         /\ \A p \in Range(Room(t, id)) : p \in Range(t) \/ p = [id |-> id, chunks |-> <<>>]
<1>1. CASE \E p \in Range(t) : p.id = id
  <2>1. Room(t, id) = t
    BY <1>1 DEF Room
  <2> QED BY <1>1, <2>1
<1>2. CASE ~(\E p \in Range(t) : p.id = id)
  <2> DEFINE u == IF Len(t) >= MaxPending THEN Tail(t) ELSE t
             e == [id |-> id, chunks |-> <<>>]
  <2>1. Room(t, id) = Append(u, e)
    BY <1>2, Zenon DEF Room
  <2>2. t \in Seq(EntrySet) /\ \A i, j \in DOMAIN t : t[i].id = t[j].id => i = j
    BY DEF IsTable
  <2>3. /\ u \in Seq(EntrySet) /\ Len(u) + 1 <= MaxPending
        /\ \E d \in {0, 1} : \A i \in 1..Len(u) : i + d \in DOMAIN t /\ u[i] = t[i + d]
    <3>1. CASE Len(t) >= MaxPending
      <4>1. t # <<>> /\ Len(t) = MaxPending
        BY <2>2, <3>1, Limits
      <4>2. u = Tail(t)
        BY <3>1
      <4>3. u \in Seq(EntrySet) /\ Len(u) = Len(t) - 1 /\ \A i \in 1..Len(u) : i + 1 \in DOMAIN t /\ u[i] = t[i + 1]
        BY <2>2, <4>1, <4>2
      <4> QED BY <4>1, <4>3, Limits
    <3>2. CASE ~(Len(t) >= MaxPending)
      <4>1. u = t
        BY <3>2
      <4>2. \A i \in 1..Len(u) : i + 0 \in DOMAIN t /\ u[i] = t[i + 0]
        BY <2>2, <4>1
      <4>3. Len(u) + 1 <= MaxPending
        BY <2>2, <3>2, <4>1, Limits
      <4> QED BY <2>2, <4>1, <4>2, <4>3
    <3> QED BY <3>1, <3>2
  <2>4. e \in EntrySet
    BY EmptySeq DEF EntrySet
  <2> HIDE DEF u
  <2>5. PICK d \in {0, 1} : \A i \in 1..Len(u) : i + d \in DOMAIN t /\ u[i] = t[i + d]
    BY <2>3
  <2>6. \A i \in 1..Len(u) : u[i] \in Range(t)
    BY <2>5 DEF Range
  <2>7. \A i, j \in 1..Len(u) : u[i].id = u[j].id => i = j
    <3> SUFFICES ASSUME NEW i \in 1..Len(u), NEW j \in 1..Len(u), u[i].id = u[j].id PROVE i = j
      OBVIOUS
    <3>0. /\ i + d \in DOMAIN t /\ j + d \in DOMAIN t
          /\ t[i + d].id = t[j + d].id
      BY <2>5
    <3>1. i + d = j + d
      BY <2>2, <3>0, Zenon
    <3> QED BY <3>1
  <2> DEFINE n == Len(u)
             r == Append(u, e)
  <2>8. /\ r \in Seq(EntrySet) /\ Len(r) = n + 1 /\ DOMAIN r = 1..(n + 1) /\ n \in Nat
        /\ r[n + 1] = e /\ \A i \in 1..n : r[i] = u[i]
    <3> HIDE DEF e
    <3> QED BY <2>3, <2>4
  <2>9. e.id = id
    OBVIOUS
  <2> HIDE DEF r, n, e
  <2>10. \A i \in 1..(n + 1) : i \in 1..n \/ i = n + 1
    BY <2>8
  <2>11. \A i \in 1..n : u[i].id # id
    BY <1>2, <2>6 DEF n
  <2>12. \A i, j \in 1..(n + 1) : r[i].id = r[j].id => i = j
    BY <2>7, <2>8, <2>9, <2>10, <2>11 DEF n
  <2>13. \A p \in Range(r) : p \in Range(t) \/ p = e
    BY <2>6, <2>8, <2>10 DEF Range, n
  <2>14. e \in Range(r)
    <3>1. n + 1 \in DOMAIN r
      BY <2>8
    <3> QED BY <2>8, <3>1 DEF Range
  <2>15. IsTable(r)
    BY <2>8, <2>12 DEF IsTable
  <2>16. Len(r) <= MaxPending
    BY <2>3, <2>8 DEF n
  <2> QED BY <1>2, <2>1, <2>13, <2>14, <2>15, <2>16 DEF r, e
<1> QED BY <1>1, <1>2

(* A message that is complete leaves the table.                            *)
LEMMA WithoutTable ==
  ASSUME NEW t, IsTable(t), NEW p \in Range(t)
  PROVE  /\ IsTable(Without(t, p.id)) /\ Len(Without(t, p.id)) <= Len(t)
         /\ \A q \in Range(Without(t, p.id)) : q \in Range(t) /\ q.id # p.id
<1> DEFINE k == CHOOSE i \in DOMAIN t : t[i].id = p.id
           n == Len(t)
           w == RemoveAt(t, k)
<1>1. /\ t \in Seq(EntrySet) /\ n \in Nat /\ DOMAIN t = 1..n
      /\ \A i, j \in DOMAIN t : t[i].id = t[j].id => i = j
  BY DEF IsTable
<1>2. k \in 1..n /\ t[k].id = p.id
  <2>1. \E i \in DOMAIN t : t[i].id = p.id
    BY Zenon DEF Range
  <2>2. k \in DOMAIN t /\ t[k].id = p.id
    BY <2>1, Zenon
  <2> HIDE DEF k
  <2> QED BY <1>1, <2>2
<1>3. Without(t, p.id) = w
  BY Zenon DEF Without
<1> HIDE DEF k, n
<1>4. w = SubSeq(t, 1, k - 1) \o SubSeq(t, k + 1, n)
  BY Zenon DEF RemoveAt, n
<1> DEFINE m(i) == IF i < k THEN i ELSE i + 1
<1>5. /\ w \in Seq(EntrySet) /\ Len(w) = n - 1 /\ DOMAIN w = 1..(n - 1)
      /\ \A i \in 1..(n - 1) : w[i] = t[m(i)]
  <2> DEFINE a == SubSeq(t, 1, k - 1)
             b == SubSeq(t, k + 1, n)
  <2>1. a \in Seq(EntrySet) /\ Len(a) = k - 1 /\ \A i \in 1..(k - 1) : a[i] = t[i]
    BY <1>1, <1>2 DEF n
  <2>2. b \in Seq(EntrySet) /\ Len(b) = n - k /\ \A i \in 1..(n - k) : b[i] = t[k + i]
    BY <1>1, <1>2, SubSeqTail DEF n
  <2>3. w = a \o b
    BY <1>4
  <2> HIDE DEF a, b, w
  <2>4. /\ w \in Seq(EntrySet) /\ Len(w) = n - 1 /\ DOMAIN w = 1..(n - 1)
        /\ \A i \in 1..(n - 1) : w[i] = IF i <= k - 1 THEN a[i] ELSE b[i - (k - 1)]
    <3>1. k - 1 \in Nat /\ n - k \in Nat /\ k - 1 + (n - k) = n - 1
      BY <1>1, <1>2
    <3>2. /\ w \in Seq(EntrySet) /\ Len(w) = Len(a) + Len(b) /\ DOMAIN w = 1..(Len(a) + Len(b))
          /\ \A i \in 1..Len(a) : w[i] = a[i]
          /\ \A i \in 1..(Len(a) + Len(b)) : i > Len(a) => w[i] = b[i - Len(a)]
      <4>1. a \in Seq(EntrySet) /\ b \in Seq(EntrySet)
        BY <2>1, <2>2
      <4>2. /\ a \o b \in Seq(EntrySet) /\ Len(a \o b) = Len(a) + Len(b) /\ DOMAIN (a \o b) = 1..(Len(a) + Len(b))
            /\ \A i \in 1..Len(a) : (a \o b)[i] = a[i]
            /\ \A i \in 1..(Len(a) + Len(b)) : i > Len(a) => (a \o b)[i] = b[i - Len(a)]
        BY <4>1, ConcatFields
      <4> QED BY <2>3, <4>2
    <3>3. Len(a) = k - 1 /\ Len(a) + Len(b) = n - 1
      BY <2>1, <2>2, <3>1
    <3> QED BY <1>1, <1>2, <3>2, <3>3
  <2>5. ASSUME NEW i \in 1..(n - 1) PROVE w[i] = t[m(i)]
    <3>1. CASE i < k
      BY <1>1, <1>2, <2>1, <2>4, <3>1
    <3>2. CASE ~(i < k)
      <4>1. i - (k - 1) \in 1..(n - k) /\ k + (i - (k - 1)) = i + 1
        BY <1>1, <1>2, <3>2
      <4>2. w[i] = b[i - (k - 1)]
        BY <1>1, <1>2, <2>4, <3>2
      <4>3. b[i - (k - 1)] = t[i + 1]
        BY <2>2, <4>1
      <4> QED BY <3>2, <4>2, <4>3
    <3> QED BY <3>1, <3>2
  <2> QED BY <2>4, <2>5
<1>6. /\ \A i \in 1..(n - 1) : m(i) \in 1..n /\ m(i) # k
      /\ \A i, j \in 1..(n - 1) : m(i) = m(j) => i = j
  BY <1>1, <1>2
<1> HIDE DEF w, m
<1>7. \A i, j \in 1..(n - 1) : w[i].id = w[j].id => i = j
  BY <1>1, <1>5, <1>6
<1>8. ASSUME NEW q \in Range(w) PROVE q \in Range(t) /\ q.id # p.id
  <2>1. PICK i \in 1..(n - 1) : q = w[i]
    BY <1>5 DEF Range
  <2>2. PICK j \in 1..n : q = t[j] /\ j # k
    BY <1>1, <1>2, <1>5, <1>6, <2>1
  <2> QED BY <1>1, <1>2, <2>2 DEF Range
<1>9. IsTable(w)
  BY <1>5, <1>7 DEF IsTable
<1>10. Len(w) <= n
  BY <1>1, <1>5
<1> QED BY <1>3, <1>8, <1>9, <1>10 DEF n

(* A message that is not complete gets its next chunk.                     *)
Updated(u, t, id, chunks) ==
  u = [i \in DOMAIN t |-> IF t[i].id = id THEN [t[i] EXCEPT !.chunks = chunks] ELSE t[i]]

(* The table stays one, with these chunks in the entry of the id.          *)
LEMMA UpdatedTable ==
  ASSUME NEW t, IsTable(t), NEW p \in Range(t), NEW chunks \in Seq(ChunkSet), NEW u,
         Updated(u, t, p.id, chunks)
  PROVE  /\ IsTable(u) /\ Len(u) = Len(t)
         /\ [id |-> p.id, chunks |-> chunks] \in Range(u)
         /\ \A q \in Range(u) : \/ q \in Range(t) /\ q.id # p.id
                                \/ q = [id |-> p.id, chunks |-> chunks]
<1> DEFINE n == Len(t)
<1>1. /\ t \in Seq(EntrySet) /\ n \in Nat /\ DOMAIN t = 1..n
      /\ \A i, j \in 1..n : t[i].id = t[j].id => i = j
      /\ \A i \in 1..n : t[i] \in EntrySet
  BY DEF IsTable
<1> HIDE DEF n
<1>2. ASSUME NEW i \in 1..n
      PROVE  u[i] = IF t[i].id = p.id THEN [id |-> p.id, chunks |-> chunks] ELSE t[i]
  <2>1. u[i] = IF t[i].id = p.id THEN [t[i] EXCEPT !.chunks = chunks] ELSE t[i]
    BY <1>1 DEF Updated
  <2>2. t[i] \in EntrySet
    BY <1>1
  <2>3. [t[i] EXCEPT !.chunks = chunks] = [id |-> t[i].id, chunks |-> chunks]
    BY <2>2 DEF EntrySet
  <2> QED BY <2>1, <2>3
<1>3. ASSUME NEW i \in 1..n PROVE u[i] \in EntrySet /\ u[i].id = t[i].id
  <2>1. t[i] \in EntrySet /\ t[i].id \in Ids
    BY <1>1 DEF EntrySet
  <2>2. CASE t[i].id = p.id
    <3>1. u[i] = [id |-> p.id, chunks |-> chunks] /\ p.id \in Ids
      BY <1>2, <2>1, <2>2
    <3> QED BY <2>2, <3>1 DEF EntrySet
  <2>3. CASE t[i].id # p.id
    BY <1>2, <2>1, <2>3
  <2> QED BY <2>2, <2>3
<1>4. u \in [1..n -> EntrySet]
  BY <1>1, <1>3 DEF Updated
<1>5. u \in Seq(EntrySet) /\ Len(u) = n /\ DOMAIN u = 1..n
  BY <1>1, <1>4, SeqOfFunction
<1>6. IsTable(u)
  BY <1>1, <1>3, <1>5 DEF IsTable
<1>7. PICK k \in 1..n : p = t[k]
  BY <1>1 DEF Range
<1>8. [id |-> p.id, chunks |-> chunks] \in Range(u)
  <2>1. u[k] = [id |-> p.id, chunks |-> chunks]
    BY <1>2, <1>7
  <2> QED BY <1>5, <2>1 DEF Range
<1>9. ASSUME NEW q \in Range(u)
      PROVE  (q \in Range(t) /\ q.id # p.id) \/ q = [id |-> p.id, chunks |-> chunks]
  <2>1. PICK i \in 1..n : q = u[i]
    BY <1>5 DEF Range
  <2>2. t[i] \in Range(t)
    BY <1>1 DEF Range
  <2> QED BY <1>2, <2>1, <2>2
<1> QED BY <1>5, <1>6, <1>8, <1>9 DEF n

(* The type of the state, with the table of the client a dictionary of at  *)
(* most MaxPending messages.                                               *)
LinkTyped ==
  /\ kiss_rx_msg_id \in Ids
  /\ connected \in BOOLEAN /\ subscribed \in BOOLEAN /\ unbroken \in BOOLEAN
  /\ sending \in [chunks : Seq(ChunkSet), all_sent : BOOLEAN, clean : BOOLEAN]
  /\ air \in Seq(ChunkSet)
  /\ IsTable(rx_pending) /\ Len(rx_pending) <= MaxPending
  /\ received \in Seq(Contents) /\ Len(received) <= MaxFrames
  /\ boots \in 0..1

(* Every chunk of an entry has the entry's id, and no entry is empty.      *)
EntriesOwnChunks ==
  \A p \in Range(rx_pending) : p.chunks # <<>> /\ \A c \in Range(p.chunks) : c.id = p.id

(* Every chunk there is: about to be sent, in the air, or in the table.    *)
AllChunks == Range(sending.chunks) \cup Range(air)
               \cup UNION {Range(p.chunks) : p \in Range(rx_pending)}

(* The chunks a message may be put together from: those of its id.         *)
SameId(c) == {d \in AllChunks : d.id = c.id}

(* What KissBridge has delivered last is put together from chunks.         *)
DeliveredFrom(chunks) ==
  /\ chunks # <<>> /\ Reassembled(chunks) # Malformed
  /\ last' = [from |-> {d.of : d \in Range(chunks)}, frame |-> Decode(Reassembled(chunks))]

(* Delivering chunks leaves what was delivered last, or delivers from      *)
(* them.                                                                   *)
LEMMA DeliverStep ==
  ASSUME NEW chunks, chunks # <<>>, Deliver(chunks)
  PROVE  last' = last \/ DeliveredFrom(chunks)
BY Zenon DEF Deliver, DeliveredFrom

(* A notification: what stays in the air, what the table is then, and what *)
(* is delivered.                                                           *)
LEMMA NotifiedStep ==
  ASSUME LinkTyped, EntriesOwnChunks, Notified
  PROVE  /\ air \in Seq(ChunkSet) /\ air # <<>> /\ Head(air) \in AllChunks
         /\ IsTable(rx_pending') /\ Len(rx_pending') <= MaxPending
         /\ \A p \in Range(rx_pending') :
              p \in Range(rx_pending)
                \/ (p.id = Head(air).id /\ p.chunks # <<>> /\ Range(p.chunks) \subseteq SameId(Head(air)))
         /\ \/ last' = last
            \/ \E chunks \in Seq(ChunkSet) :
                  DeliveredFrom(chunks) /\ Range(chunks) \subseteq SameId(Head(air))
<1> DEFINE c == Head(air)
           table == Room(rx_pending, c.id)
           entry == CHOOSE p \in Range(table) : p.id = c.id
           chunks == Append(entry.chunks, c)
           new == [id |-> c.id, chunks |-> <<>>]
<1>0. air \in Seq(ChunkSet) /\ IsTable(rx_pending) /\ Len(rx_pending) <= MaxPending /\ air # <<>>
  BY DEF LinkTyped, Notified
<1>1. c \in ChunkSet /\ c \in Range(air) /\ c.id \in Ids
  <2>1. c \in ChunkSet /\ c \in Range(air)
    BY <1>0, RangeTail
  <2> QED BY <2>1 DEF ChunkSet
<1>2. c \in AllChunks
  BY <1>1 DEF AllChunks
<1>n. /\ air' = Tail(air)
      /\ \/ UNCHANGED <<rx_pending, last>>
         \/ c.total = 1 /\ Deliver(<<c>>) /\ UNCHANGED rx_pending
         \/ IsDuplicate(c, entry.chunks) /\ rx_pending' = table /\ UNCHANGED last
         \/ Deliver(chunks) /\ rx_pending' = Without(table, c.id)
         \/ /\ rx_pending' = [i \in DOMAIN table |->
                       IF table[i].id = c.id THEN [table[i] EXCEPT !.chunks = chunks]
                       ELSE table[i]]
            /\ UNCHANGED last
  BY Zenon DEF Notified
<1>3. /\ IsTable(table) /\ Len(table) <= MaxPending
      /\ (\E p \in Range(rx_pending) : p.id = c.id) => table = rx_pending
      /\ ~(\E p \in Range(rx_pending) : p.id = c.id) => new \in Range(table)
      /\ \A p \in Range(table) : p \in Range(rx_pending) \/ p = new
  <2> HIDE DEF c
  <2> QED BY <1>0, <1>1, RoomTable, Zenon
<1>4. PICK e \in Range(table) : e.id = c.id /\ (e \in Range(rx_pending) \/ e = new)
  <2>1. CASE \E p \in Range(rx_pending) : p.id = c.id
    BY <1>3, <2>1, Zenon
  <2>2. CASE ~(\E p \in Range(rx_pending) : p.id = c.id)
    <3>1. new \in Range(table) /\ new.id = c.id
      BY <1>3, <2>2
    <3> QED BY <3>1, Zenon
  <2> QED BY <2>1, <2>2, Zenon
<1>5. entry = e
  <2> HIDE DEF table, c
  <2> QED BY <1>3, <1>4, EntryOf
<1> HIDE DEF entry, table, c
<1>6. e \in EntrySet
  BY <1>3, <1>4, RangeSeq DEF IsTable
<1>7. e.chunks \in Seq(ChunkSet) /\ Range(e.chunks) \subseteq SameId(c)
  <2>1. e.chunks \in Seq(ChunkSet)
    BY <1>6 DEF EntrySet
  <2>2. CASE e \in Range(rx_pending)
    <3>1. \A d \in Range(e.chunks) : d.id = c.id /\ d \in AllChunks
      BY <1>4, <2>2 DEF EntriesOwnChunks, AllChunks
    <3> QED BY <2>1, <3>1 DEF SameId
  <2>3. CASE e = new
    <3>1. e.chunks = <<>>
      BY <2>3
    <3>2. Range(e.chunks) = {}
      BY <3>1 DEF Range
    <3> QED BY <2>1, <3>2
  <2> QED BY <1>4, <2>1, <2>2, <2>3
<1>8. /\ chunks \in Seq(ChunkSet) /\ chunks # <<>> /\ Range(chunks) = Range(e.chunks) \cup {c}
  <2>1. LET s == Append(e.chunks, c) IN
          s \in Seq(ChunkSet) /\ s # <<>> /\ Range(s) = Range(e.chunks) \cup {c}
    BY <1>1, <1>7, RangeAppend
  <2>2. chunks = Append(e.chunks, c)
    BY <1>5
  <2> HIDE DEF chunks
  <2> QED BY <2>1, <2>2
<1>9. Range(chunks) \subseteq SameId(c)
  BY <1>2, <1>7, <1>8 DEF SameId
<1> HIDE DEF chunks
<1> DEFINE Table == /\ IsTable(rx_pending') /\ Len(rx_pending') <= MaxPending
                    /\ \A p \in Range(rx_pending') :
                         p \in Range(rx_pending)
                           \/ (p.id = c.id /\ p.chunks # <<>> /\ Range(p.chunks) \subseteq SameId(c))
           Latest == \/ last' = last
                   \/ \E s \in Seq(ChunkSet) : DeliveredFrom(s) /\ Range(s) \subseteq SameId(c)
<1>10. CASE UNCHANGED <<rx_pending, last>>
  <2>1. Table
    BY <1>0, <1>10
  <2>2. Latest
    BY <1>10
  <2> QED BY <1>0, <1>2, <2>1, <2>2 DEF c
<1>11. CASE Deliver(<<c>>) /\ UNCHANGED rx_pending
  <2>1. Table
    BY <1>0, <1>11
  <2> DEFINE one == <<c>>
  <2>2. one \in Seq(ChunkSet) /\ one # <<>> /\ Range(one) = {c}
    BY <1>1 DEF Range
  <2> HIDE DEF one
  <2>3. Range(one) \subseteq SameId(c)
    BY <1>2, <2>2 DEF SameId
  <2>4. last' = last \/ DeliveredFrom(one)
    BY <1>11, <2>2, DeliverStep, Zenon DEF one
  <2>5. Latest
    BY <2>2, <2>3, <2>4, Zenon
  <2> QED BY <1>0, <1>2, <2>1, <2>5 DEF c
<1>12. CASE IsDuplicate(c, entry.chunks) /\ rx_pending' = table /\ UNCHANGED last
  <2>1. e # new
    <3> SUFFICES ASSUME e = new PROVE FALSE
      OBVIOUS
    <3>1. e.chunks = <<>>
      OBVIOUS
    <3>2. Range(e.chunks) = {}
      BY <3>1 DEF Range
    <3> QED BY <1>5, <1>12, <3>2 DEF IsDuplicate
  <2>2. table = rx_pending
    BY <1>3, <1>4, <2>1
  <2>3. Table
    BY <1>0, <1>12, <2>2
  <2>4. Latest
    BY <1>12
  <2> QED BY <1>0, <1>2, <2>3, <2>4 DEF c
<1>13. CASE Deliver(chunks) /\ rx_pending' = Without(table, c.id)
  <2>1. /\ IsTable(Without(table, c.id)) /\ Len(Without(table, c.id)) <= Len(table)
        /\ \A q \in Range(Without(table, c.id)) : q \in Range(table) /\ q.id # c.id
    BY <1>3, <1>4, WithoutTable, Zenon
  <2>2. \A q \in Range(Without(table, c.id)) : q \in Range(rx_pending)
    <3>1. new.id = c.id
      OBVIOUS
    <3> HIDE DEF new
    <3> QED BY <1>3, <2>1, <3>1, Zenon
  <2>3. Table
    <3>1. Len(table) \in Nat /\ Len(Without(table, c.id)) \in Nat
      BY <1>3, <2>1 DEF IsTable
    <3>2. Len(Without(table, c.id)) <= MaxPending
      BY <1>3, <2>1, <3>1, Limits
    <3> QED BY <1>13, <2>1, <2>2, <3>2, Zenon
  <2>4. last' = last \/ DeliveredFrom(chunks)
    BY <1>8, <1>13, DeliverStep
  <2>5. Latest
    BY <1>8, <1>9, <2>4, Zenon
  <2> QED BY <1>0, <1>2, <2>3, <2>5 DEF c
<1>14. CASE /\ rx_pending' = [i \in DOMAIN table |->
                       IF table[i].id = c.id THEN [table[i] EXCEPT !.chunks = chunks]
                       ELSE table[i]]
            /\ UNCHANGED last
  <2> DEFINE u == [i \in DOMAIN table |->
                       IF table[i].id = c.id THEN [table[i] EXCEPT !.chunks = chunks]
                       ELSE table[i]]
             full == [id |-> c.id, chunks |-> chunks]
  <2>0. Updated(u, table, e.id, chunks)
    BY <1>4, Zenon DEF Updated
  <2>f. full = [id |-> e.id, chunks |-> chunks] /\ full.id = c.id /\ full.chunks = chunks
    BY <1>4
  <2> HIDE DEF u, full
  <2>1. /\ IsTable(u) /\ Len(u) = Len(table)
        /\ \A q \in Range(u) : (q \in Range(table) /\ q.id # c.id) \/ q = full
    <3>1. /\ IsTable(u) /\ Len(u) = Len(table)
          /\ \A q \in Range(u) : \/ q \in Range(table) /\ q.id # e.id
                                 \/ q = [id |-> e.id, chunks |-> chunks]
      BY <1>3, <1>8, <2>0, UpdatedTable, Zenon
    <3> QED BY <1>4, <2>f, <3>1
  <2>2. \A q \in Range(u) : q \in Range(rx_pending) \/ q = full
    <3>1. new.id = c.id
      OBVIOUS
    <3> HIDE DEF new
    <3> QED BY <1>3, <2>1, <3>1, Zenon
  <2>3. Table
    BY <1>3, <1>8, <1>9, <1>14, <2>1, <2>2, <2>f, Zenon DEF u
  <2>4. Latest
    BY <1>14
  <2> QED BY <1>0, <1>2, <2>3, <2>4 DEF c
<1> QED BY <1>n, <1>10, <1>11, <1>12, <1>13, <1>14, Zenon

(* An operation that brings no new chunk and no new frame.                 *)
NoNewChunk ==
  /\ EntriesOwnChunks' /\ AllChunks' \subseteq AllChunks
  /\ received' = received

(* A table that does not change keeps its entries.                         *)
LEMMA SameTable ==
  ASSUME EntriesOwnChunks, UNCHANGED rx_pending
  PROVE  EntriesOwnChunks'
BY DEF EntriesOwnChunks

(* Types, for each operation but the reception of a frame; and no chunk    *)
(* appears that was not there.                                             *)
LEMMA TypedStep ==
  ASSUME LinkTyped, EntriesOwnChunks, [KissNext]_kissVars,
         ~(\E content \in Contents : RxFrame(content))
  PROVE  LinkTyped' /\ NoNewChunk
<1>t. /\ kiss_rx_msg_id \in Ids
      /\ connected \in BOOLEAN /\ subscribed \in BOOLEAN /\ unbroken \in BOOLEAN
      /\ sending \in [chunks : Seq(ChunkSet), all_sent : BOOLEAN, clean : BOOLEAN]
      /\ air \in Seq(ChunkSet)
      /\ IsTable(rx_pending) /\ Len(rx_pending) <= MaxPending
      /\ received \in Seq(Contents) /\ Len(received) <= MaxFrames
      /\ boots \in 0..1
  BY DEF LinkTyped
<1>e. /\ <<>> \in Seq(ChunkSet) /\ Range(<<>>) = {} /\ IsTable(<<>>) /\ Len(<<>>) <= MaxPending
  BY Limits, EmptySeq DEF Range, IsTable
<1>2. ASSUME NEW ok \in BOOLEAN, SendChunk(ok) PROVE LinkTyped' /\ NoNewChunk
  <2>1. sending.chunks \in Seq(ChunkSet) /\ sending.chunks # <<>>
    BY <1>t, <1>2 DEF SendChunk
  <2>2. /\ Tail(sending.chunks) \in Seq(ChunkSet)
        /\ Range(Tail(sending.chunks)) \subseteq Range(sending.chunks)
        /\ Head(sending.chunks) \in ChunkSet /\ Head(sending.chunks) \in Range(sending.chunks)
    BY <2>1, RangeTail
  <2>3. sending' = [chunks |-> Tail(sending.chunks), all_sent |-> sending.all_sent /\ ok,
                    clean |-> sending.clean]
    BY <1>t, <1>2 DEF SendChunk
  <2>4. sending' \in [chunks : Seq(ChunkSet), all_sent : BOOLEAN, clean : BOOLEAN]
        /\ sending'.chunks = Tail(sending.chunks)
    BY <1>t, <2>2, <2>3
  <2>5. air' \in Seq(ChunkSet) /\ Range(air') \subseteq Range(air) \cup Range(sending.chunks)
    <3>1. CASE ok
      <4>1. air' = Append(air, Head(sending.chunks))
        BY <1>2, <3>1 DEF SendChunk
      <4>2. /\ Append(air, Head(sending.chunks)) \in Seq(ChunkSet)
            /\ Range(Append(air, Head(sending.chunks))) = Range(air) \cup {Head(sending.chunks)}
        BY <1>t, <2>2, RangeAppend
      <4> QED BY <2>2, <4>1, <4>2
    <3>2. CASE ~ok
      BY <1>t, <1>2, <3>2 DEF SendChunk
    <3> QED BY <3>1, <3>2
  <2>6. /\ UNCHANGED <<kiss_rx_msg_id, connected, subscribed, rx_pending, received, boots, unbroken>>
    BY <1>2 DEF SendChunk, bridge
  <2>7. LinkTyped'
    BY <1>t, <2>4, <2>5, <2>6 DEF LinkTyped
  <2>8. AllChunks' \subseteq AllChunks
    BY <2>2, <2>4, <2>5, <2>6 DEF AllChunks
  <2> QED BY <2>6, <2>7, <2>8, SameTable DEF NoNewChunk
<1>3. ASSUME Connect \/ Subscribe \/ TakeKiss \/ (\E frame : WriteKiss(frame)) \/ UNCHANGED kissVars
      PROVE  LinkTyped' /\ NoNewChunk
  <2>1. /\ UNCHANGED <<kiss_rx_msg_id, sending, air, rx_pending, received, boots, unbroken>>
        /\ connected' \in BOOLEAN /\ subscribed' \in BOOLEAN
    BY <1>t, <1>3 DEF Connect, Subscribe, TakeKiss, WriteKiss, kissVars, device, bridge
  <2>2. LinkTyped'
    BY <1>t, <2>1 DEF LinkTyped
  <2> QED BY <2>1, <2>2, SameTable DEF NoNewChunk, AllChunks
<1>4. CASE Reset
  <2>1. /\ UNCHANGED <<rx_pending, received>> /\ sending' = Idle /\ air' = <<>>
        /\ kiss_rx_msg_id' = 0 /\ connected' = FALSE /\ subscribed' = FALSE /\ unbroken' = FALSE /\ boots' = 1
    BY <1>4 DEF Reset
  <2>2. Idle \in [chunks : Seq(ChunkSet), all_sent : BOOLEAN, clean : BOOLEAN] /\ Idle.chunks = <<>>
    BY <1>e DEF Idle
  <2>3. 0 \in Ids
    BY Limits DEF Ids
  <2>4. LinkTyped'
    <3>1. /\ sending' \in [chunks : Seq(ChunkSet), all_sent : BOOLEAN, clean : BOOLEAN]
          /\ kiss_rx_msg_id' \in Ids /\ air' \in Seq(ChunkSet) /\ boots' \in 0..1
      BY <1>e, <2>1, <2>2, <2>3
    <3>2. /\ connected' \in BOOLEAN /\ subscribed' \in BOOLEAN /\ unbroken' \in BOOLEAN
          /\ IsTable(rx_pending') /\ Len(rx_pending') <= MaxPending
          /\ received' \in Seq(Contents) /\ Len(received') <= MaxFrames
      BY <1>t, <2>1
    <3> QED BY <3>1, <3>2 DEF LinkTyped
  <2>5. AllChunks' \subseteq AllChunks
    BY <1>e, <2>1, <2>2 DEF AllChunks
  <2> QED BY <2>1, <2>4, <2>5, SameTable DEF NoNewChunk
<1>5. ASSUME NEW own \in BOOLEAN, Disconnect(own) PROVE LinkTyped' /\ NoNewChunk
  <2>1. /\ UNCHANGED <<kiss_rx_msg_id, sending, received, boots>> /\ air' = <<>>
        /\ connected' = FALSE /\ subscribed' = FALSE /\ unbroken' = FALSE
        /\ (rx_pending' = <<>> \/ rx_pending' = rx_pending)
    BY <1>5 DEF Disconnect
  <2>2. LinkTyped'
    BY <1>t, <1>e, <2>1 DEF LinkTyped
  <2>3. AllChunks' \subseteq AllChunks
    BY <1>e, <2>1 DEF AllChunks
  <2>4. EntriesOwnChunks'
    BY <1>e, <2>1 DEF EntriesOwnChunks
  <2> QED BY <2>1, <2>2, <2>3, <2>4 DEF NoNewChunk
<1>6. CASE Notified
  <2>1. /\ air \in Seq(ChunkSet) /\ air # <<>> /\ Head(air) \in AllChunks
        /\ IsTable(rx_pending') /\ Len(rx_pending') <= MaxPending
        /\ \A p \in Range(rx_pending') :
             p \in Range(rx_pending)
               \/ (p.id = Head(air).id /\ p.chunks # <<>> /\ Range(p.chunks) \subseteq SameId(Head(air)))
    BY <1>6, NotifiedStep
  <2>2. /\ UNCHANGED <<kiss_rx_msg_id, connected, sending, subscribed, received, boots, unbroken>>
        /\ air' = Tail(air)
    BY <1>6 DEF Notified, device
  <2>3. air' \in Seq(ChunkSet) /\ Range(air') \subseteq Range(air)
    BY <2>1, <2>2, RangeTail
  <2>4. LinkTyped'
    BY <1>t, <2>1, <2>2, <2>3 DEF LinkTyped
  <2>5. EntriesOwnChunks'
    <3> SUFFICES ASSUME NEW p \in Range(rx_pending')
                 PROVE  p.chunks # <<>> /\ \A c \in Range(p.chunks) : c.id = p.id
      BY DEF EntriesOwnChunks
    <3> QED BY <2>1 DEF EntriesOwnChunks, SameId
  <2>6. ASSUME NEW p \in Range(rx_pending') PROVE Range(p.chunks) \subseteq AllChunks
    BY <2>1 DEF SameId, AllChunks
  <2>7. AllChunks' \subseteq AllChunks
    <3> QED BY <2>2, <2>3, <2>6 DEF AllChunks
  <2> QED BY <2>2, <2>4, <2>5, <2>7 DEF NoNewChunk
<1> QED BY <1>2, <1>3, <1>4, <1>5, <1>6 DEF KissNext

(* The inductive invariant of the link: the types, every chunk anywhere is *)
(* one notify_kiss_rx() made of a frame received, and what was delivered   *)
(* from the chunks of one frame is that frame.                             *)
LinkInv ==
  /\ LinkTyped /\ EntriesOwnChunks
  /\ \A c \in AllChunks : Genuine(c)
  /\ last.from \subseteq DOMAIN received /\ FrameExact

(* The reception of a frame: while there is a connection it gets the next  *)
(* id and its chunks are all that is new.                                  *)
NewChunk(c, content) ==
  /\ c.id = kiss_rx_msg_id' /\ c.of = Len(received') /\ c.idx \in Nat /\ c.idx < c.total
  /\ c = Chunk(c.id, c.idx, Encoded[content], c.of)

(* It is: with a connection the id moves on and the new chunks take the    *)
(* place of those not yet sent; without one the frame is only counted.     *)
LEMMA RxFrameStep ==
  ASSUME LinkTyped, EntriesOwnChunks, NEW content \in Contents, RxFrame(content)
  PROVE  /\ LinkTyped' /\ EntriesOwnChunks'
         /\ received' = Append(received, content) /\ Len(received') = Len(received) + 1
         /\ UNCHANGED <<connected, air, rx_pending, subscribed, boots, last>>
         /\ IF connected
            THEN /\ kiss_rx_msg_id' = NextId
                 /\ AllChunks' = Range(sending'.chunks) \cup Range(air)
                                   \cup UNION {Range(p.chunks) : p \in Range(rx_pending)}
                 /\ \A c \in Range(sending'.chunks) : NewChunk(c, content)
            ELSE AllChunks' = AllChunks /\ UNCHANGED <<kiss_rx_msg_id, sending, unbroken>>
<1>t. /\ kiss_rx_msg_id \in Ids
      /\ connected \in BOOLEAN /\ subscribed \in BOOLEAN /\ unbroken \in BOOLEAN
      /\ sending \in [chunks : Seq(ChunkSet), all_sent : BOOLEAN, clean : BOOLEAN]
      /\ air \in Seq(ChunkSet)
      /\ IsTable(rx_pending) /\ Len(rx_pending) <= MaxPending
      /\ received \in Seq(Contents) /\ Len(received) <= MaxFrames
      /\ boots \in 0..1
  BY DEF LinkTyped
<1>1. /\ received' = Append(received, content) /\ Len(received) < MaxFrames
      /\ UNCHANGED <<connected, air, rx_pending, subscribed, boots, last>>
  BY DEF RxFrame, bridge
<1>2. /\ received' \in Seq(Contents) /\ Len(received') = Len(received) + 1
      /\ Len(received) \in Nat /\ Len(received') <= MaxFrames /\ Len(received') \in Nat
  BY <1>t, <1>1, Limits
<1>3. EntriesOwnChunks'
  BY <1>1, SameTable
<1>4. CASE connected
  <2> DEFINE chunks == Chunks(NextId, Encoded[content], Len(received'))
             ok == NextId \notin IdsUnfinished
  <2>1. /\ kiss_rx_msg_id' = NextId /\ unbroken' = subscribed
        /\ sending' = [chunks |-> chunks, all_sent |-> TRUE, clean |-> ok]
    BY <1>4, Zenon DEF RxFrame
  <2>2. NextId \in Ids
    <3>1. kiss_rx_msg_id + 1 \in Int /\ IdMod \in Int /\ IdMod > 0
      BY <1>t, Limits DEF Ids
    <3>2. (kiss_rx_msg_id + 1) % IdMod \in Int /\ 0 <= (kiss_rx_msg_id + 1) % IdMod
          /\ (kiss_rx_msg_id + 1) % IdMod < IdMod
      BY <3>1
    <3> QED BY <3>1, <3>2 DEF NextId, Ids
  <2>3. /\ chunks \in Seq(ChunkSet)
        /\ \A c \in Range(chunks) : c.id = NextId /\ c.of = Len(received') /\ c.idx \in Nat /\ c.idx < c.total
                                      /\ c = Chunk(c.id, c.idx, Encoded[content], Len(received'))
    <3> DEFINE n == Len(received')
               id == NextId
    <3>1. n \in Nat /\ id \in Ids
      BY <1>2, <2>2
    <3> HIDE DEF n, id
    <3>2. LET cs == Chunks(id, Encoded[content], n) IN
          /\ cs \in Seq(ChunkSet)
          /\ \A c \in Range(cs) : c.id = id /\ c.of = n /\ c.idx \in Nat /\ c.idx < c.total
                                    /\ c = Chunk(c.id, c.idx, Encoded[content], n)
      BY <3>1, ChunksTyped
    <3> QED BY <3>2, Zenon DEF n, id
  <2> HIDE DEF chunks, ok
  <2>4. ok \in BOOLEAN
    BY DEF ok
  <2>5. sending' \in [chunks : Seq(ChunkSet), all_sent : BOOLEAN, clean : BOOLEAN]
        /\ sending'.chunks = chunks
    BY <2>1, <2>3, <2>4
  <2>6. LinkTyped'
    <3>1. unbroken' \in BOOLEAN /\ kiss_rx_msg_id' \in Ids
      BY <1>t, <2>1, <2>2
    <3> QED BY <1>t, <1>1, <1>2, <2>5, <3>1 DEF LinkTyped
  <2>7. \A c \in Range(sending'.chunks) : NewChunk(c, content)
    BY <2>1, <2>3, <2>5 DEF NewChunk
  <2>8. AllChunks' = Range(sending'.chunks) \cup Range(air)
                       \cup UNION {Range(p.chunks) : p \in Range(rx_pending)}
    BY <1>1, Zenon DEF AllChunks
  <2> QED BY <1>1, <1>2, <1>3, <1>4, <2>1, <2>6, <2>7, <2>8
<1>5. CASE ~connected
  <2>1. UNCHANGED <<kiss_rx_msg_id, sending, unbroken>>
    BY <1>5 DEF RxFrame
  <2>2. LinkTyped'
    BY <1>t, <1>1, <1>2, <2>1 DEF LinkTyped
  <2>3. AllChunks' = AllChunks
    BY <1>1, <2>1 DEF AllChunks
  <2> QED BY <1>1, <1>2, <1>3, <1>5, <2>1, <2>2, <2>3
<1> QED BY <1>4, <1>5

(* One more frame received leaves those before it as they are.             *)
LEMMA ReceivedGrows ==
  ASSUME NEW content \in Contents, received \in Seq(Contents), received' = Append(received, content)
  PROVE  /\ DOMAIN received \subseteq DOMAIN received'
         /\ \A s \in DOMAIN received : received'[s] = received[s]
         /\ Len(received') \in DOMAIN received' /\ received'[Len(received')] = content
         /\ DOMAIN received' = DOMAIN received \cup {Len(received')}
         /\ Len(received') \notin DOMAIN received
<1>1. /\ DOMAIN received = 1..Len(received) /\ Len(received) \in Nat
      /\ DOMAIN Append(received, content) = 1..(Len(received) + 1)
      /\ Len(Append(received, content)) = Len(received) + 1
      /\ Append(received, content)[Len(received) + 1] = content
      /\ \A i \in 1..Len(received) : Append(received, content)[i] = received[i]
  OBVIOUS
<1> QED BY <1>1

(* A frame already received stays the same, and so do its chunks.          *)
LEMMA StaysGenuine ==
  ASSUME received \in Seq(Contents),
         received' = received \/ \E content \in Contents : received' = Append(received, content),
         NEW c, Genuine(c)
  PROVE  Genuine(c)'
<1>1. DOMAIN received \subseteq DOMAIN received' /\ \A s \in DOMAIN received : received'[s] = received[s]
  BY ReceivedGrows
<1> QED BY <1>1 DEF Genuine

(* What is delivered from chunks of one frame is that frame.               *)
LEMMA DeliveredExact ==
  ASSUME received \in Seq(Contents), NEW chunks \in Seq(ChunkSet), DeliveredFrom(chunks),
         \A c \in Range(chunks) : Genuine(c),
         NEW s \in DOMAIN received, last'.from = {s}
  PROVE  last'.frame = IF received[s] \in TooLong THEN Malformed ELSE received[s]
<1> DEFINE content == received[s]
           frame == Encoded[content]
<1>1. content \in Contents
  OBVIOUS
<1>2. content \in Seq(Bytes) /\ frame = Encode(content)
  BY <1>1, KissAssumption DEF Encoded
<1>3. frame \in Seq(Bytes) /\ frame # <<>>
  BY <1>1, FrameTyped
<1>4. /\ chunks # <<>> /\ Reassembled(chunks) # Malformed
      /\ last'.from = {d.of : d \in Range(chunks)} /\ last'.frame = Decode(Reassembled(chunks))
  BY DEF DeliveredFrom
<1> HIDE DEF content, frame
<1>5. ASSUME NEW c \in Range(chunks) PROVE c.total = Total(frame) /\ c.part = Part(c.idx, frame)
  <2>1. c.of = s
    BY <1>4
  <2>2. c = Chunk(c.id, c.idx, frame, s)
    BY <2>1 DEF Genuine, frame, content
  <2>3. c = [id |-> c.id, idx |-> c.idx, total |-> Total(frame), part |-> Part(c.idx, frame), of |-> s]
    BY <2>2, ChunkFields, Zenon
  <2> DEFINE i == c.idx
             d == c.id
  <2>4. c = [id |-> d, idx |-> i, total |-> Total(frame), part |-> Part(i, frame), of |-> s]
    BY <2>3
  <2> HIDE DEF i, d
  <2>5. c.total = Total(frame) /\ c.part = Part(i, frame)
    BY <2>4
  <2> QED BY <2>5 DEF i
<1>6. Len(chunks) \in Nat \ {0} /\ DOMAIN chunks = 1..Len(chunks)
  BY <1>4, EmptySeq
<1>7. Reassembled(chunks) = frame
  BY <1>3, <1>4, <1>5, <1>6, ReassembledFrame
<1>8. Decode(frame) = IF Len(Escape(content)) > kKissMaxFrame THEN Malformed ELSE content
  BY <1>2, DecodeEncode
<1> QED BY <1>1, <1>4, <1>7, <1>8 DEF TooLong, content

(* Every operation keeps the invariant.                                    *)
LEMMA LinkInvStep ==
  ASSUME LinkInv, [KissNext]_kissVars
  PROVE  LinkInv'
<1>1. /\ LinkTyped /\ EntriesOwnChunks /\ received \in Seq(Contents)
      /\ \A c \in AllChunks : Genuine(c)
      /\ last.from \subseteq DOMAIN received
      /\ FrameExact
  BY DEF LinkInv, LinkTyped
<1>2. ASSUME last' = last, DOMAIN received \subseteq DOMAIN received',
             \A s \in DOMAIN received : received'[s] = received[s]
      PROVE  last'.from \subseteq DOMAIN received' /\ FrameExact'
  <2>1. last'.from \subseteq DOMAIN received'
    BY <1>1, <1>2
  <2>2. ASSUME NEW s \in DOMAIN received', last'.from = {s}
        PROVE  last'.frame = IF received'[s] \in TooLong THEN Malformed ELSE received'[s]
    <3>1. s \in DOMAIN received /\ received'[s] = received[s]
      BY <1>1, <1>2, <2>2
    <3> QED BY <1>1, <1>2, <2>2, <3>1 DEF FrameExact
  <2> QED BY <2>1, <2>2 DEF FrameExact
<1>3. ASSUME NEW content \in Contents, RxFrame(content) PROVE LinkInv'
  <2>1. LinkTyped' /\ EntriesOwnChunks' /\ received' = Append(received, content) /\ last' = last
    BY <1>1, <1>3, RxFrameStep
  <2>2. /\ DOMAIN received \subseteq DOMAIN received'
        /\ \A s \in DOMAIN received : received'[s] = received[s]
        /\ Len(received') \in DOMAIN received' /\ received'[Len(received')] = content
    BY <1>1, <2>1, ReceivedGrows
  <2>3. ASSUME NEW c \in AllChunks' PROVE Genuine(c)'
    <3>1. CASE c \in AllChunks
      BY <1>1, <2>1, <3>1, StaysGenuine
    <3>2. CASE c \notin AllChunks
      <4>1. NewChunk(c, content)
        BY <1>1, <1>3, <3>2, RxFrameStep DEF AllChunks
      <4> QED BY <2>2, <4>1 DEF NewChunk, Genuine
    <3> QED BY <3>1, <3>2
  <2> QED BY <1>2, <2>1, <2>2, <2>3 DEF LinkInv
<1>4. CASE ~(\E content \in Contents : RxFrame(content))
  <2>1. LinkTyped' /\ EntriesOwnChunks' /\ AllChunks' \subseteq AllChunks /\ received' = received
    BY <1>1, <1>4, TypedStep DEF NoNewChunk
  <2>2. \A c \in AllChunks' : Genuine(c)'
    BY <1>1, <2>1, StaysGenuine
  <2>3. CASE last' = last
    BY <1>2, <2>1, <2>2, <2>3 DEF LinkInv
  <2>4. CASE last' # last
    <3>1. Notified
      BY <1>4, <2>4 DEF KissNext, kissVars, SendChunk, Connect, Subscribe, Reset, Disconnect, WriteKiss, TakeKiss
    <3>2. PICK chunks \in Seq(ChunkSet) : DeliveredFrom(chunks) /\ Range(chunks) \subseteq SameId(Head(air))
      BY <1>1, <2>4, <3>1, NotifiedStep
    <3>3. \A c \in Range(chunks) : Genuine(c)
      BY <1>1, <3>2 DEF SameId
    <3>4. last'.from \subseteq DOMAIN received'
      <4>1. last'.from = {d.of : d \in Range(chunks)}
        BY <3>2 DEF DeliveredFrom
      <4> QED BY <2>1, <3>3, <4>1 DEF Genuine
    <3>5. FrameExact'
      <4> SUFFICES ASSUME NEW s \in DOMAIN received', last'.from = {s}
                   PROVE  last'.frame = IF received'[s] \in TooLong THEN Malformed ELSE received'[s]
        BY DEF FrameExact
      <4> QED BY <1>1, <2>1, <3>2, <3>3, DeliveredExact
    <3> QED BY <2>1, <2>2, <3>4, <3>5 DEF LinkInv
  <2> QED BY <2>3, <2>4
<1> QED BY <1>3, <1>4

(* The invariant holds when nothing has been received.                     *)
LEMMA LinkInvInit == KissInit => LinkInv
<1> SUFFICES ASSUME KissInit PROVE LinkInv
  OBVIOUS
<1>1. /\ kiss_rx_msg_id = 0 /\ connected = FALSE /\ sending = Idle /\ air = <<>>
      /\ subscribed = FALSE /\ rx_pending = <<>> /\ received = <<>> /\ boots = 0 /\ unbroken = FALSE
      /\ last = [from |-> {}, frame |-> None]
  BY DEF KissInit
<1>2. /\ <<>> \in Seq(ChunkSet) /\ Range(<<>>) = {} /\ IsTable(<<>>) /\ Len(<<>>) = 0 /\ <<>> \in Seq(Contents)
  BY EmptySeq DEF Range, IsTable
<1>3. sending \in [chunks : Seq(ChunkSet), all_sent : BOOLEAN, clean : BOOLEAN] /\ sending.chunks = <<>>
  BY <1>1, <1>2 DEF Idle
<1>4. 0 \in Ids
  BY Limits DEF Ids
<1>5. LinkTyped
  <2>1. /\ kiss_rx_msg_id \in Ids /\ air \in Seq(ChunkSet) /\ received \in Seq(Contents)
        /\ IsTable(rx_pending)
    BY <1>1, <1>2, <1>4
  <2>2. Len(rx_pending) <= MaxPending /\ Len(received) <= MaxFrames
    BY <1>1, <1>2, Limits
  <2>3. connected \in BOOLEAN /\ subscribed \in BOOLEAN /\ unbroken \in BOOLEAN
    BY <1>1, Zenon
  <2>4. boots \in 0..1
    BY <1>1
  <2> QED BY <1>3, <2>1, <2>2, <2>3, <2>4 DEF LinkTyped
<1>6. AllChunks = {} /\ EntriesOwnChunks
  BY <1>1, <1>2, <1>3 DEF AllChunks, EntriesOwnChunks
<1>7. last.from = {} /\ FrameExact
  BY <1>1 DEF FrameExact
<1> QED BY <1>5, <1>6, <1>7 DEF LinkInv

(* The chunks of every frame stay intact on their way through notify       *)
(* queue, air and reassembly table.                                        *)
THEOREM LinkCorrect == KissSpec => []LinkInv
BY LinkInvInit, LinkInvStep, PTL DEF KissSpec

(* FrameExact: a message that KissBridge puts together from the chunks of  *)
(* one frame is that frame, whatever is lost, interrupted or interleaved.  *)
THEOREM DeliversTheFrame == KissSpec => []FrameExact
<1>1. LinkInv => FrameExact
  BY DEF LinkInv
<1> QED BY <1>1, LinkCorrect, PTL

(* How many ids ago an id was used for the last time, at least.            *)
Age(k, id) == IF id <= k THEN k - id ELSE k - id + IdMod

(* Two frames whose ids may be the same: one and the same, or a full round *)
(* of the ids apart.                                                       *)
Apart(s, t) == s = t \/ s - t >= IdMod \/ t - s >= IdMod

(* The id that follows, after the last the first again.                    *)
LEMMA NextIdValue ==
  ASSUME kiss_rx_msg_id \in Ids
  PROVE  /\ NextId \in Ids
         /\ NextId = IF kiss_rx_msg_id = IdMod - 1 THEN 0 ELSE kiss_rx_msg_id + 1
<1> DEFINE k == kiss_rx_msg_id
<1>1. k \in Nat /\ k < IdMod /\ IdMod \in Nat /\ IdMod > 0
  BY Limits DEF Ids
<1> HIDE DEF k
<1>2. CASE k = IdMod - 1
  <2>1. (k + 1) % IdMod = 0
    <3>1. 1 \in Int /\ 0 \in Int /\ k + 1 \in Int /\ IdMod \in Int /\ k + 1 = 1 * IdMod + 0
      BY <1>1, <1>2
    <3> QED BY <1>1, <3>1, ModUnique
  <2> QED BY <1>1, <1>2, <2>1 DEF NextId, Ids, k
<1>3. CASE k # IdMod - 1
  <2>1. (k + 1) % IdMod = k + 1
    <3>1. k + 1 \in Int /\ IdMod \in Int /\ 0 <= k + 1 /\ k + 1 < IdMod
      BY <1>1, <1>3
    <3> QED BY <1>1, <3>1, ModSmall
  <2> QED BY <1>1, <1>3, <2>1 DEF NextId, Ids, k
<1> QED BY <1>2, <1>3

(* An id ages by one with every new id, and the one taken next is the      *)
(* oldest.                                                                 *)
LEMMA AgeNext ==
  ASSUME kiss_rx_msg_id \in Ids, NEW id \in Ids
  PROVE  /\ Age(NextId, id) <= Age(kiss_rx_msg_id, id) + 1
         /\ Age(NextId, NextId) = 0
         /\ id = NextId => Age(kiss_rx_msg_id, id) = IdMod - 1
         /\ Age(kiss_rx_msg_id, id) \in Nat /\ Age(NextId, id) \in Nat
<1> DEFINE k == kiss_rx_msg_id
           n == NextId
<1>1. /\ n = (IF k = IdMod - 1 THEN 0 ELSE k + 1) /\ n \in Nat
      /\ k \in Nat /\ k < IdMod /\ id \in Nat /\ id < IdMod /\ IdMod \in Nat /\ IdMod > 0
  BY NextIdValue, Limits DEF Ids
<1> HIDE DEF k, n
<1>2. /\ Age(n, id) <= Age(k, id) + 1 /\ Age(n, n) = 0
      /\ id = n => Age(k, id) = IdMod - 1
      /\ Age(k, id) \in Nat /\ Age(n, id) \in Nat
  BY <1>1 DEF Age
<1> QED BY <1>2 DEF k, n

(* The ages, and that two chunks with the same id are of one frame or of   *)
(* two that are a round of the ids apart.                                  *)
Ages == \A c \in AllChunks : Len(received) - c.of >= Age(kiss_rx_msg_id, c.id)

ChunksApart == \A c, d \in AllChunks : c.id = d.id => Apart(c.of, d.of)

(* The inductive invariant while the device has not been restarted: every  *)
(* chunk is as old as its id, two of the same id are apart, and so are the *)
(* frames a delivered message was put together from.                       *)
AgeInv == boots = 0 => Ages /\ ChunksApart /\ \A s, t \in last.from : Apart(s, t)

(* Every chunk has an id and the number of its frame.                      *)
LEMMA ChunkNumbers ==
  ASSUME LinkTyped, NEW c \in AllChunks
  PROVE  c \in ChunkSet /\ c.id \in Ids /\ c.of \in Nat
<1>1. /\ sending.chunks \in Seq(ChunkSet) /\ air \in Seq(ChunkSet)
      /\ rx_pending \in Seq(EntrySet)
  BY DEF LinkTyped, IsTable
<1>2. c \in ChunkSet
  <2>1. CASE c \in Range(sending.chunks)
    BY <1>1, <2>1, RangeSeq
  <2>2. CASE c \in Range(air)
    BY <1>1, <2>2, RangeSeq
  <2>3. ASSUME NEW p \in Range(rx_pending), c \in Range(p.chunks) PROVE c \in ChunkSet
    <3>1. p \in EntrySet
      BY <1>1, RangeSeq
    <3>2. p.chunks \in Seq(ChunkSet)
      BY <3>1 DEF EntrySet
    <3> QED BY <2>3, <3>2, RangeSeq
  <2> QED BY <2>1, <2>2, <2>3 DEF AllChunks
<1> QED BY <1>2 DEF ChunkSet

(* Every operation keeps it.                                               *)
LEMMA AgeInvStep ==
  ASSUME LinkInv, AgeInv, [KissNext]_kissVars
  PROVE  AgeInv'
<1> SUFFICES ASSUME boots' = 0
             PROVE  Ages' /\ ChunksApart' /\ \A s, t \in last'.from : Apart(s, t)
  BY DEF AgeInv
<1>1. LinkTyped /\ EntriesOwnChunks /\ kiss_rx_msg_id \in Ids /\ received \in Seq(Contents) /\ Len(received) \in Nat
  BY DEF LinkInv, LinkTyped
<1>2. \A c \in AllChunks : c.id \in Ids /\ c.of \in Nat
  BY <1>1, ChunkNumbers
<1>3. ASSUME NEW content \in Contents, RxFrame(content)
      PROVE  Ages' /\ ChunksApart' /\ \A s, t \in last'.from : Apart(s, t)
  <2>1. /\ Len(received') = Len(received) + 1 /\ boots' = boots /\ last' = last
        /\ IF connected
           THEN /\ kiss_rx_msg_id' = NextId
                /\ AllChunks' = Range(sending'.chunks) \cup Range(air)
                                  \cup UNION {Range(p.chunks) : p \in Range(rx_pending)}
                /\ \A c \in Range(sending'.chunks) : NewChunk(c, content)
           ELSE AllChunks' = AllChunks /\ UNCHANGED <<kiss_rx_msg_id, sending, unbroken>>
    BY <1>1, <1>3, RxFrameStep, Zenon
  <2>2. Ages /\ ChunksApart /\ \A s, t \in last.from : Apart(s, t)
    BY <2>1 DEF AgeInv
  <2>3. CASE connected
    <3>1. \A c \in AllChunks' : \/ c \in AllChunks
                                \/ c.id = NextId /\ c.of = Len(received) + 1
      BY <2>1, <2>3 DEF AllChunks, NewChunk
    <3>2. ASSUME NEW c \in AllChunks
          PROVE  /\ Len(received) - c.of >= Age(kiss_rx_msg_id, c.id)
                 /\ Age(NextId, c.id) <= Age(kiss_rx_msg_id, c.id) + 1
                 /\ c.id = NextId => Age(kiss_rx_msg_id, c.id) = IdMod - 1
                 /\ Age(kiss_rx_msg_id, c.id) \in Nat /\ Age(NextId, c.id) \in Nat
                 /\ c.of \in Nat
      BY <1>1, <1>2, <2>2, AgeNext DEF Ages
    <3>3. Age(NextId, NextId) = 0
      BY <1>1, AgeNext, NextIdValue
    <3>4. Ages'
      <4> SUFFICES ASSUME NEW c \in AllChunks'
                   PROVE  Len(received') - c.of >= Age(kiss_rx_msg_id', c.id)
        BY DEF Ages
      <4>1. CASE c \in AllChunks
        BY <1>1, <2>1, <2>3, <3>2, <4>1
      <4>2. CASE c.id = NextId /\ c.of = Len(received) + 1
        BY <1>1, <2>1, <2>3, <3>3, <4>2
      <4> QED BY <3>1, <4>1, <4>2
    <3>5. ASSUME NEW c \in AllChunks, c.id = NextId
          PROVE  Apart(c.of, Len(received) + 1) /\ Apart(Len(received) + 1, c.of)
      BY <1>1, <3>2, <3>5, Limits DEF Apart
    <3>6. ChunksApart'
      <4> SUFFICES ASSUME NEW c \in AllChunks', NEW d \in AllChunks', c.id = d.id
                   PROVE  Apart(c.of, d.of)
        BY DEF ChunksApart
      <4>1. CASE c \in AllChunks /\ d \in AllChunks
        BY <2>2, <4>1 DEF ChunksApart
      <4>2. CASE c \notin AllChunks /\ d \notin AllChunks
        BY <3>1, <4>2 DEF Apart
      <4>3. CASE c \in AllChunks /\ d \notin AllChunks
        BY <3>1, <3>5, <4>3
      <4>4. CASE c \notin AllChunks /\ d \in AllChunks
        BY <3>1, <3>5, <4>4
      <4> QED BY <4>1, <4>2, <4>3, <4>4
    <3> QED BY <2>1, <2>2, <3>4, <3>6
  <2>4. CASE ~connected
    <3>1. AllChunks' = AllChunks /\ kiss_rx_msg_id' = kiss_rx_msg_id
      BY <2>1, <2>4
    <3>2. Ages'
      <4> SUFFICES ASSUME NEW c \in AllChunks
                   PROVE  Len(received') - c.of >= Age(kiss_rx_msg_id, c.id)
        BY <3>1 DEF Ages
      <4>1. /\ Len(received) - c.of >= Age(kiss_rx_msg_id, c.id)
            /\ c.of \in Nat /\ Age(kiss_rx_msg_id, c.id) \in Nat
        BY <1>1, <1>2, <2>2, AgeNext DEF Ages
      <4> QED BY <1>1, <2>1, <4>1
    <3> QED BY <2>1, <2>2, <3>1, <3>2 DEF ChunksApart
  <2> QED BY <2>3, <2>4
<1>4. CASE ~(\E content \in Contents : RxFrame(content))
  <2>1. AllChunks' \subseteq AllChunks /\ received' = received
    BY <1>1, <1>4, TypedStep DEF NoNewChunk
  <2>2. ~Reset
    BY DEF Reset
  <2>3. boots' = boots /\ kiss_rx_msg_id' = kiss_rx_msg_id
    BY <1>4, <2>2 DEF KissNext, kissVars, device, SendChunk, Connect, Subscribe, Disconnect, Notified,
                      WriteKiss, TakeKiss
  <2>4. Ages /\ ChunksApart /\ \A s, t \in last.from : Apart(s, t)
    BY <2>3 DEF AgeInv
  <2>5. Ages' /\ ChunksApart'
    BY <2>1, <2>3, <2>4 DEF Ages, ChunksApart
  <2>6. CASE last' = last
    BY <2>4, <2>5, <2>6
  <2>7. CASE last' # last
    <3>1. Notified
      BY <1>4, <2>2, <2>7 DEF KissNext, kissVars, SendChunk, Connect, Subscribe, Disconnect, WriteKiss, TakeKiss
    <3>2. PICK chunks \in Seq(ChunkSet) : DeliveredFrom(chunks) /\ Range(chunks) \subseteq SameId(Head(air))
      BY <1>1, <2>7, <3>1, NotifiedStep
    <3>3. last'.from = {d.of : d \in Range(chunks)}
      BY <3>2 DEF DeliveredFrom
    <3>4. \A c, d \in Range(chunks) : Apart(c.of, d.of)
      BY <2>4, <3>2 DEF ChunksApart, SameId
    <3>5. \A s, t \in last'.from : Apart(s, t)
      BY <3>3, <3>4
    <3> QED BY <2>5, <3>5
  <2> QED BY <2>6, <2>7
<1> QED BY <1>3, <1>4

(* MixedOnlyAfterWrap: a message mixed from chunks of two frames needs a   *)
(* full round of the message ids between them, or a restart of the device. *)
THEOREM NoMixtureBeforeWrap == KissSpec => []MixedOnlyAfterWrap
<1>1. KissInit => AgeInv
  <2> SUFFICES ASSUME KissInit PROVE Ages /\ ChunksApart /\ \A s, t \in last.from : Apart(s, t)
    BY DEF AgeInv
  <2>1. sending = Idle /\ air = <<>> /\ rx_pending = <<>> /\ last = [from |-> {}, frame |-> None]
    BY DEF KissInit
  <2>2. Range(<<>>) = {} /\ Idle.chunks = <<>> /\ last.from = {}
    BY <2>1 DEF Range, Idle
  <2>3. AllChunks = {}
    BY <2>1, <2>2 DEF AllChunks
  <2> QED BY <2>2, <2>3 DEF Ages, ChunksApart
<1>2. AgeInv => MixedOnlyAfterWrap
  BY DEF AgeInv, Apart, MixedOnlyAfterWrap
<1> QED BY <1>1, <1>2, AgeInvStep, LinkCorrect, PTL DEF KissSpec

(* The frame that is being sent, and its chunks.                           *)
Current == Encoded[received[Len(received)]]

(* The i-th chunk of that frame.                                           *)
Mine(i) == Chunk(kiss_rx_msg_id, i - 1, Current, Len(received))

(* The entry p holds the first `came' chunks of the frame.                 *)
Holds(p, came) ==
  p.id = kiss_rx_msg_id /\ Len(p.chunks) = came /\ \A i \in 1..came : p.chunks[i] = Mine(i)

(* What `came' chunks with the client mean: none, and it knows nothing of  *)
(* the message; some, and an entry holds them; all, and it has delivered   *)
(* it.                                                                     *)
Arrived(came) ==
  /\ came = 0 => \A p \in Range(rx_pending) : p.id # kiss_rx_msg_id
  /\ came > 0 /\ came < Total(Current) => \E p \in Range(rx_pending) : Holds(p, came)
  /\ came = Total(Current) => last.from = {Len(received)}

(* How far it is: `gone' chunks of it have gone out and `came' of them are *)
(* with the client; `older' chunks of other frames are before it in the    *)
(* air.                                                                    *)
Progress(gone, older, came) ==
  /\ came <= gone /\ Len(sending.chunks) = Total(Current) - gone
  /\ Len(air) = older + (gone - came)
  /\ \A i \in 1..Len(sending.chunks) : sending.chunks[i] = Mine(gone + i)
  /\ \A i \in 1..older : air[i].id # kiss_rx_msg_id
  /\ \A i \in 1..(gone - came) : air[older + i] = Mine(came + i)
  /\ came > 0 => older = 0
  /\ Arrived(came)

(* The frame counts as sent on a connection that was not interrupted.      *)
Going == unbroken /\ sending.clean /\ sending.all_sent

(* The inductive invariant behind SuccessMeansReceived: the frame's chunks *)
(* are somewhere between the notify queue and the client, none lost and in *)
(* order.                                                                  *)
SuccessInv ==
  /\ unbroken => connected /\ subscribed
  /\ Going => received # <<>> /\ \E gone, older, came \in Nat : Progress(gone, older, came)

(* That frame is one received, with at least one chunk.                    *)
LEMMA CurrentTyped ==
  ASSUME LinkTyped, received # <<>>
  PROVE  /\ Current \in Seq(Bytes) /\ Current # <<>> /\ Total(Current) \in Nat \ {0}
         /\ received[Len(received)] \in Contents
<1>1. received[Len(received)] \in Contents
  BY EmptySeq DEF LinkTyped
<1>2. Current \in Seq(Bytes) /\ Current # <<>>
  BY <1>1, FrameTyped DEF Current
<1> QED BY <1>1, <1>2, TotalBounds

(* Its chunks, field by field.                                             *)
LEMMA MineFields ==
  ASSUME NEW i
  PROVE  /\ Mine(i).id = kiss_rx_msg_id /\ Mine(i).idx = i - 1 /\ Mine(i).total = Total(Current)
         /\ Mine(i).part = Part(i - 1, Current) /\ Mine(i).of = Len(received)
<1>1. Mine(i) = [id |-> kiss_rx_msg_id, idx |-> i - 1, total |-> Total(Current),
                 part |-> Part(i - 1, Current), of |-> Len(received)]
  BY ChunkFields, Zenon DEF Mine
<1> DEFINE t == Total(Current)
           p == Part(i - 1, Current)
<1>2. Mine(i) = [id |-> kiss_rx_msg_id, idx |-> i - 1, total |-> t, part |-> p, of |-> Len(received)]
  BY <1>1
<1> HIDE DEF t, p
<1>3. /\ Mine(i).id = kiss_rx_msg_id /\ Mine(i).idx = i - 1 /\ Mine(i).total = t
      /\ Mine(i).part = p /\ Mine(i).of = Len(received)
  BY <1>2
<1> QED BY <1>3 DEF t, p

(* All the chunks of the frame, in order, are delivered as that frame's.   *)
LEMMA WholeDelivered ==
  ASSUME LinkTyped, received # <<>>, NEW chunks \in Seq(ChunkSet),
         Len(chunks) = Total(Current), \A i \in 1..Total(Current) : chunks[i] = Mine(i),
         Deliver(chunks)
  PROVE  last'.from = {Len(received)}
<1> DEFINE N == Total(Current)
<1>1. Current \in Seq(Bytes) /\ Current # <<>> /\ N \in Nat \ {0}
  BY CurrentTyped
<1> HIDE DEF N
<1>2. Len(chunks) = N /\ DOMAIN chunks = 1..N /\ \A i \in 1..N : chunks[i] = Mine(i)
  BY DEF N
<1>3. \A c \in Range(chunks) : \E i \in 1..N : c = Mine(i)
  BY <1>2 DEF Range
<1>4. \A i \in 1..N : Mine(i) \in Range(chunks)
  BY <1>2 DEF Range
<1>5. ASSUME NEW c \in Range(chunks)
      PROVE  c.total = N /\ c.part = Part(c.idx, Current) /\ c.of = Len(received)
  <2>1. PICK i \in 1..N : c = Mine(i)
    BY <1>3
  <2> QED BY <2>1, MineFields DEF N
<1>6. chunks[1].total = N
  <2>1. 1 \in 1..N
    BY <1>1
  <2>2. chunks[1] = Mine(1)
    BY <1>2, <2>1
  <2> QED BY <2>2, MineFields DEF N
<1>7. ASSUME NEW i \in 0..(N - 1) PROVE \E c \in Range(chunks) : c.idx = i
  <2>1. i + 1 \in 1..N /\ i + 1 - 1 = i
    BY <1>1
  <2>2. Mine(i + 1).idx = i
    BY <2>1, MineFields
  <2> QED BY <1>4, <2>1, <2>2
<1>8. Reassembled(chunks) = Current
  BY <1>1, <1>2, <1>5, <1>6, <1>7, ReassembledWhole DEF N
<1>9. Current # Malformed
  BY <1>1, NotMalformed
<1>10. last'.from = {c.of : c \in Range(chunks)}
  BY <1>8, <1>9 DEF Deliver
<1>11. Mine(1) \in Range(chunks)
  BY <1>1, <1>4
<1> QED BY <1>5, <1>10, <1>11

(* The next chunk of the frame reaches a client that has those before.     *)
LEMMA NextArrives ==
  ASSUME LinkTyped, received # <<>>, Notified, subscribed,
         NEW came \in Nat, came < Total(Current), Arrived(came), Head(air) = Mine(came + 1)
  PROVE  /\ came + 1 < Total(Current) => \E p \in Range(rx_pending') : Holds(p, came + 1)
         /\ came + 1 = Total(Current) => last'.from = {Len(received)}
<1> DEFINE N == Total(Current)
           c == Head(air)
           table == Room(rx_pending, c.id)
           entry == CHOOSE p \in Range(table) : p.id = c.id
           chunks == Append(entry.chunks, c)
           new == [id |-> c.id, chunks |-> <<>>]
<1>0. air \in Seq(ChunkSet) /\ IsTable(rx_pending) /\ Len(rx_pending) <= MaxPending /\ air # <<>>
  BY DEF LinkTyped, Notified
<1>1. c \in ChunkSet /\ c.id \in Ids
  <2>1. c \in ChunkSet
    BY <1>0, RangeTail
  <2> QED BY <2>1 DEF ChunkSet
<1>2. c.id = kiss_rx_msg_id /\ c.idx = came /\ c.total = N /\ c.of = Len(received)
  <2>1. came + 1 - 1 = came
    OBVIOUS
  <2> QED BY <2>1, MineFields
<1>n. \/ c.total = 1 /\ c.idx = 0 /\ Deliver(<<c>>)
      \/ c.total > 1 /\ IsDuplicate(c, entry.chunks)
      \/ /\ c.total > 1
         /\ IF Len(chunks) = c.total THEN Deliver(chunks)
            ELSE rx_pending' = [i \in DOMAIN table |->
                       IF table[i].id = c.id THEN [table[i] EXCEPT !.chunks = chunks]
                       ELSE table[i]]
  BY Zenon DEF Notified
<1>N. N \in Nat \ {0} /\ came \in Nat /\ came < N
  BY CurrentTyped
<1> HIDE DEF N, c, table, entry, chunks
<1>3. CASE c.total = 1 /\ c.idx = 0 /\ Deliver(<<c>>)
  <2> DEFINE one == <<c>>
  <2>1. one \in Seq(ChunkSet) /\ Len(one) = N /\ \A i \in 1..N : one[i] = Mine(i)
    <3>1. N = 1 /\ came = 0 /\ came + 1 = 1
      BY <1>2, <1>3
    <3>2. c = Mine(1)
      BY <3>1 DEF c
    <3> QED BY <1>1, <3>1, <3>2
  <2>2. N = 1 /\ came = 0
    BY <1>2, <1>3
  <2> HIDE DEF one
  <2>3. Deliver(one)
    BY <1>3 DEF one
  <2>4. last'.from = {Len(received)}
    BY <2>1, <2>3, WholeDelivered DEF N
  <2> QED BY <2>2, <2>4 DEF N
<1>4. /\ IsTable(table)
      /\ (\E p \in Range(rx_pending) : p.id = c.id) => table = rx_pending
      /\ ~(\E p \in Range(rx_pending) : p.id = c.id) => new \in Range(table)
  BY <1>0, <1>1, RoomTable, Zenon DEF table
<1>5. ASSUME c.total > 1
      PROVE  \E e \in Range(table) : e.id = c.id /\ Len(e.chunks) = came /\ \A i \in 1..came : e.chunks[i] = Mine(i)
  <2>1. CASE came = 0
    <3>1. new \in Range(table)
      BY <1>2, <1>4, <2>1 DEF Arrived
    <3>2. new.id = c.id /\ Len(new.chunks) = 0 /\ \A i \in 1..came : new.chunks[i] = Mine(i)
      BY <2>1
    <3> QED BY <2>1, <3>1, <3>2, Zenon
  <2>2. CASE came # 0
    <3>1. PICK p \in Range(rx_pending) : Holds(p, came)
      BY <1>N, <2>2 DEF Arrived, N
    <3>2. p.id = c.id /\ Len(p.chunks) = came /\ \A i \in 1..came : p.chunks[i] = Mine(i)
      BY <1>2, <3>1, Zenon DEF Holds
    <3>3. p \in Range(table)
      BY <1>4, <3>2
    <3> QED BY <3>2, <3>3, Zenon
  <2> QED BY <2>1, <2>2
<1>6. CASE c.total > 1
  <2>1. PICK e \in Range(table) : e.id = c.id /\ Len(e.chunks) = came /\ \A i \in 1..came : e.chunks[i] = Mine(i)
    BY <1>5, <1>6, Zenon
  <2>2. entry = e
    <3>1. (CHOOSE p \in Range(table) : p.id = e.id) = e
      BY <1>4, EntryOf
    <3> QED BY <2>1, <3>1, Zenon DEF entry
  <2>3. e.chunks \in Seq(ChunkSet)
    <3>1. e \in EntrySet
      BY <1>4, RangeSeq DEF IsTable
    <3> QED BY <3>1 DEF EntrySet
  <2>4. ~IsDuplicate(c, entry.chunks)
    <3> SUFFICES ASSUME NEW d \in Range(e.chunks), d.idx = c.idx PROVE FALSE
      BY <2>2, Zenon DEF IsDuplicate
    <3>1. PICK i \in 1..came : d = Mine(i)
      BY <2>1, <2>3, RangeSeq
    <3>2. d.idx = i - 1
      BY <3>1, MineFields
    <3> QED BY <1>2, <3>2
  <2>5. chunks = Append(e.chunks, c)
    BY <2>2 DEF chunks
  <2>6. chunks \in Seq(ChunkSet) /\ Len(chunks) = came + 1 /\ \A i \in 1..(came + 1) : chunks[i] = Mine(i)
    <3> DEFINE s == e.chunks
    <3>1. s \in Seq(ChunkSet) /\ Len(s) = came /\ chunks = Append(s, c)
      BY <2>1, <2>3, <2>5
    <3> HIDE DEF s
    <3>2. /\ chunks \in Seq(ChunkSet) /\ Len(chunks) = came + 1
          /\ chunks[came + 1] = c /\ \A i \in 1..came : chunks[i] = s[i]
      BY <1>1, <3>1
    <3>3. \A i \in 1..came : s[i] = Mine(i)
      BY <2>1 DEF s
    <3>4. c = Mine(came + 1)
      BY DEF c
    <3>5. \A i \in 1..(came + 1) : i \in 1..came \/ i = came + 1
      OBVIOUS
    <3> QED BY <3>2, <3>3, <3>4, <3>5
  <2>7. CASE Len(chunks) = c.total
    <3>1. Deliver(chunks)
      BY <1>n, <1>6, <2>4, <2>7
    <3>2. came + 1 = N
      BY <1>2, <2>6, <2>7
    <3>3. last'.from = {Len(received)}
      BY <2>6, <3>1, <3>2, WholeDelivered DEF N
    <3> QED BY <1>N, <3>2, <3>3 DEF N
  <2>8. CASE Len(chunks) # c.total
    <3>1. Updated(rx_pending', table, e.id, chunks)
      <4>1. rx_pending' = [i \in DOMAIN table |->
                       IF table[i].id = c.id THEN [table[i] EXCEPT !.chunks = chunks]
                       ELSE table[i]]
        BY <1>n, <1>6, <2>4, <2>8
      <4> QED BY <2>1, <4>1, Zenon DEF Updated
    <3>2. [id |-> e.id, chunks |-> chunks] \in Range(rx_pending')
      BY <1>4, <2>6, <3>1, UpdatedTable, Zenon
    <3> DEFINE full == [id |-> e.id, chunks |-> chunks]
    <3>3. full.id = kiss_rx_msg_id /\ full.chunks = chunks
      BY <1>2, <2>1
    <3> HIDE DEF full
    <3>4. Holds(full, came + 1)
      BY <2>6, <3>3 DEF Holds
    <3>5. came + 1 # N
      BY <1>2, <2>6, <2>8
    <3>6. full \in Range(rx_pending')
      BY <3>2 DEF full
    <3> QED BY <3>4, <3>5, <3>6 DEF N
  <2> QED BY <2>7, <2>8
<1> QED BY <1>n, <1>3, <1>6

(* While no frame is received it stays the same one.                       *)
LEMMA SameFrame ==
  ASSUME UNCHANGED <<kiss_rx_msg_id, received>>
  PROVE  /\ Current' = Current /\ Total(Current)' = Total(Current)
         /\ \A i : Mine(i)' = Mine(i)
         /\ \A p, came : Holds(p, came)' <=> Holds(p, came)
<1>1. Current' = Current
  BY DEF Current
<1>2. ASSUME NEW i PROVE Mine(i)' = Mine(i)
  BY <1>1 DEF Mine
<1>3. Total(Current)' = Total(Current)
  BY <1>1
<1>4. ASSUME NEW p, NEW came PROVE Holds(p, came)' <=> Holds(p, came)
  BY <1>2 DEF Holds
<1> QED BY <1>1, <1>2, <1>3, <1>4

(* Nothing about the frame that is being sent changes.                     *)
LEMMA NothingHappens ==
  ASSUME SuccessInv,
         UNCHANGED <<kiss_rx_msg_id, connected, sending, air, subscribed, rx_pending, received, unbroken, last>>
  PROVE  SuccessInv'
<1>1. Going' => Going
  BY DEF Going
<1>2. ASSUME NEW gone, NEW older, NEW came, Progress(gone, older, came) PROVE Progress(gone, older, came)'
  <2>1. /\ Total(Current)' = Total(Current) /\ \A i : Mine(i)' = Mine(i)
        /\ \A p : Holds(p, came)' <=> Holds(p, came)
    BY SameFrame
  <2>2. Arrived(came)'
    BY <1>2, <2>1 DEF Progress, Arrived
  <2> QED BY <1>2, <2>1, <2>2 DEF Progress
<1>3. Going' => received' # <<>> /\ \E gone, older, came \in Nat : Progress(gone, older, came)'
  BY <1>1, <1>2 DEF SuccessInv
<1>4. unbroken' => connected' /\ subscribed'
  BY DEF SuccessInv
<1> QED BY <1>3, <1>4 DEF SuccessInv

(* One chunk sent, or its notification refused.                            *)
LEMMA SendingStep ==
  ASSUME LinkTyped, SuccessInv, NEW ok \in BOOLEAN, SendChunk(ok)
  PROVE  SuccessInv'
<1>1. /\ sending \in [chunks : Seq(ChunkSet), all_sent : BOOLEAN, clean : BOOLEAN]
      /\ air \in Seq(ChunkSet)
  BY DEF LinkTyped
<1>2. /\ sending.chunks # <<>>
      /\ UNCHANGED <<kiss_rx_msg_id, connected, subscribed, rx_pending, received, unbroken, last>>
      /\ sending'.chunks = Tail(sending.chunks) /\ sending'.clean = sending.clean
      /\ sending'.all_sent = (sending.all_sent /\ ok)
      /\ ok => air' = Append(air, Head(sending.chunks))
  BY <1>1 DEF SendChunk, bridge
<1>3. unbroken' => connected' /\ subscribed'
  BY <1>2 DEF SuccessInv
<1>4. ASSUME Going' PROVE received' # <<>> /\ \E gone, older, came \in Nat : Progress(gone, older, came)'
  <2>1. Going /\ ok /\ received # <<>>
    BY <1>2, <1>4 DEF Going, SuccessInv
  <2>2. PICK gone \in Nat, older \in Nat, came \in Nat : Progress(gone, older, came)
    BY <2>1 DEF SuccessInv
  <2> DEFINE N == Total(Current)
             s == sending.chunks
  <2>3. N \in Nat \ {0}
    BY <2>1, CurrentTyped
  <2>4. /\ Total(Current)' = N /\ \A i : Mine(i)' = Mine(i)
        /\ \A p : Holds(p, came)' <=> Holds(p, came)
    BY <1>2, SameFrame
  <2>5. /\ came <= gone /\ Len(s) = N - gone /\ Len(air) = older + (gone - came)
        /\ \A i \in 1..Len(s) : s[i] = Mine(gone + i)
        /\ \A i \in 1..older : air[i].id # kiss_rx_msg_id
        /\ \A i \in 1..(gone - came) : air[older + i] = Mine(came + i)
        /\ came > 0 => older = 0
        /\ Arrived(came)
    BY <2>2 DEF Progress
  <2> HIDE DEF N, s
  <2>6. /\ s \in Seq(ChunkSet) /\ s # <<>> /\ Len(s) \in Nat \ {0}
        /\ sending'.chunks = Tail(s) /\ Head(s) = s[1] /\ Len(Tail(s)) = Len(s) - 1
        /\ \A i \in 1..(Len(s) - 1) : Tail(s)[i] = s[i + 1]
        /\ Head(s) \in ChunkSet
    <3>1. s \in Seq(ChunkSet) /\ s # <<>> /\ sending'.chunks = Tail(s)
      BY <1>1, <1>2 DEF s
    <3> QED BY <3>1, RangeTail, EmptySeq
  <2>7. air' = Append(air, Mine(gone + 1))
    <3>1. s[1] = Mine(gone + 1)
      BY <2>5, <2>6
    <3>2. air' = Append(air, Head(s))
      BY <1>2, <2>1 DEF s
    <3> QED BY <2>6, <3>1, <3>2
  <2> DEFINE m == Mine(gone + 1)
  <2>8. m \in ChunkSet
    BY <2>5, <2>6
  <2> HIDE DEF m
  <2>9. /\ Len(air') = Len(air) + 1 /\ air'[Len(air) + 1] = m
        /\ \A i \in 1..Len(air) : air'[i] = air[i]
    <3>1. air' = Append(air, m)
      BY <2>7 DEF m
    <3> QED BY <1>1, <2>8, <3>1
  <2>10. Arrived(came)'
    BY <1>2, <2>4, <2>5 DEF Arrived, N
  <2>11. Progress(gone + 1, older, came)'
    <3>1. came <= gone + 1 /\ Len(sending'.chunks) = N - (gone + 1) /\ Len(air') = older + (gone + 1 - came)
      BY <2>3, <2>5, <2>6, <2>9
    <3>2. ASSUME NEW i \in 1..Len(sending'.chunks) PROVE sending'.chunks[i] = Mine(gone + 1 + i)'
      <4>1. i \in 1..(Len(s) - 1) /\ i + 1 \in 1..Len(s) /\ gone + (i + 1) = gone + 1 + i
        BY <2>6
      <4>2. sending'.chunks[i] = Mine(gone + (i + 1))
        BY <2>5, <2>6, <4>1
      <4> QED BY <2>4, <4>1, <4>2
    <3>3. ASSUME NEW i \in 1..older PROVE air'[i].id # kiss_rx_msg_id'
      <4>1. i \in 1..Len(air)
        BY <2>5
      <4> QED BY <1>2, <2>5, <2>9, <4>1
    <3>4. ASSUME NEW i \in 1..(gone + 1 - came) PROVE air'[older + i] = Mine(came + i)'
      <4>1. CASE i \in 1..(gone - came)
        <5>1. older + i \in 1..Len(air)
          BY <2>5, <4>1
        <5>2. air'[older + i] = Mine(came + i)
          BY <2>5, <2>9, <4>1, <5>1
        <5> QED BY <2>4, <5>2
      <4>2. CASE i \notin 1..(gone - came)
        <5> DEFINE d == gone - came
        <5>a. d \in Nat /\ Len(air) = older + d /\ gone + 1 - came = d + 1 /\ came + d = gone
          BY <2>5
        <5>b. i \in 1..(d + 1) /\ i \notin 1..d
          BY <4>2, <5>a
        <5> HIDE DEF d
        <5>c. i = d + 1
          BY <5>a, <5>b
        <5>1. i = gone + 1 - came /\ older + i = Len(air) + 1 /\ came + i = gone + 1
          BY <5>a, <5>c
        <5>2. air'[older + i] = Mine(came + i)
          BY <2>9, <5>1 DEF m
        <5> QED BY <2>4, <5>2
      <4> QED BY <4>1, <4>2
    <3>5. Total(Current') = N
      BY <2>4
    <3> QED BY <2>5, <2>10, <3>1, <3>2, <3>3, <3>4, <3>5 DEF Progress
  <2>12. gone + 1 \in Nat /\ received' # <<>>
    BY <1>2, <2>1
  <2> QED BY <2>11, <2>12
<1> QED BY <1>3, <1>4 DEF SuccessInv

(* The chunks of a frame, one by one.                                      *)
LEMMA ChunksInOrder ==
  ASSUME NEW content \in Contents, NEW id \in Ids, NEW s \in Nat
  PROVE  /\ Len(Chunks(id, Encoded[content], s)) = Total(Encoded[content])
         /\ \A i \in 1..Total(Encoded[content]) :
              Chunks(id, Encoded[content], s)[i] = Chunk(id, i - 1, Encoded[content], s)
BY ChunksTyped

(* A frame received while the previous one may still be in the air.        *)
LEMMA ReceptionStep ==
  ASSUME LinkTyped, EntriesOwnChunks, SuccessInv, NEW content \in Contents, RxFrame(content)
  PROVE  SuccessInv'
<1>1. /\ received' = Append(received, content) /\ received \in Seq(Contents)
      /\ UNCHANGED <<connected, air, rx_pending, subscribed>> /\ LinkTyped'
      /\ air \in Seq(ChunkSet) /\ rx_pending \in Seq(EntrySet)
  BY RxFrameStep DEF LinkTyped, IsTable
<1>2. CASE ~connected
  <2>1. ~unbroken' /\ ~Going'
    BY <1>2 DEF RxFrame, SuccessInv, Going
  <2> QED BY <2>1 DEF SuccessInv
<1>3. CASE connected
  <2> DEFINE frame == Encoded[content]
             n == Len(received')
             k == kiss_rx_msg_id'
             N == Total(frame)
  <2>1. /\ kiss_rx_msg_id' = NextId /\ unbroken' = subscribed
        /\ sending' = [chunks |-> Chunks(NextId, frame, n), all_sent |-> TRUE,
                       clean |-> NextId \notin IdsUnfinished]
    BY <1>3, Zenon DEF RxFrame
  <2>2. received'[n] = content /\ n \in Nat /\ received' # <<>>
    BY <1>1
  <2>3. Current' = frame
    BY <2>2 DEF Current
  <2>4. k \in Ids
    BY <1>1 DEF LinkTyped
  <2> HIDE DEF frame, n, k, N
  <2>5. /\ Len(Chunks(k, frame, n)) = N
        /\ \A i \in 1..N : Chunks(k, frame, n)[i] = Chunk(k, i - 1, frame, n)
    <3>1. /\ Len(Chunks(k, Encoded[content], n)) = Total(Encoded[content])
          /\ \A i \in 1..Total(Encoded[content]) :
               Chunks(k, Encoded[content], n)[i] = Chunk(k, i - 1, Encoded[content], n)
      <4>1. k \in Ids /\ n \in Nat /\ content \in Contents
        BY <2>2, <2>4
      <4> QED BY <4>1, ChunksInOrder, Zenon
    <3> QED BY <3>1, Zenon DEF frame, N
  <2>6. sending'.chunks = Chunks(k, frame, n)
    BY <2>1 DEF k
  <2>7. \A i : Mine(i)' = Chunk(k, i - 1, frame, n)
    <3> SUFFICES ASSUME NEW i PROVE Mine(i)' = Chunk(k, i - 1, frame, n)
      OBVIOUS
    <3> QED BY <2>3, Zenon DEF Mine, k, n
  <2>8. N \in Nat \ {0} /\ Total(Current') = N
    <3>1. frame \in Seq(Bytes) /\ frame # <<>>
      BY FrameTyped DEF frame
    <3> QED BY <2>3, <3>1, TotalBounds DEF N
  <2>9. ASSUME Going' PROVE \E gone, older, came \in Nat : Progress(gone, older, came)'
    <3>1. k \notin IdsUnfinished
      BY <2>1, <2>9 DEF Going, k
    <3>2. \A i \in 1..Len(air) : air[i].id # k
      <4>1. \A i \in 1..Len(air) : air[i] \in Range(air)
        BY <1>1, RangeSeq
      <4> QED BY <3>1, <4>1 DEF IdsUnfinished
    <3>3. \A p \in Range(rx_pending) : p.id # k
      BY <3>1 DEF IdsUnfinished
    <3>4. Len(air) \in Nat
      BY <1>1
    <3>m. PICK m \in Nat : m = Len(air)
      BY <3>4
    <3>5. Arrived(0)'
      BY <1>1, <2>8, <3>3 DEF Arrived, k
    <3>6. Progress(0, m, 0)'
      <4>1. Len(sending'.chunks) = N - 0 /\ Len(air') = m + (0 - 0) /\ m \in Nat
        BY <1>1, <2>5, <2>6, <2>8, <3>m
      <4>2. \A i \in 1..Len(sending'.chunks) : sending'.chunks[i] = Mine(0 + i)'
        <5> SUFFICES ASSUME NEW i \in 1..N PROVE sending'.chunks[i] = Mine(0 + i)'
          BY <2>5, <2>6
        <5>1. 0 + i = i
          BY <2>8
        <5>2. sending'.chunks[i] = Mine(i)'
          BY <2>5, <2>6, <2>7
        <5> QED BY <5>1, <5>2
      <4>3. \A i \in 1..m : air'[i].id # kiss_rx_msg_id'
        BY <1>1, <3>2, <3>m DEF k
      <4>4. \A i \in 1..(0 - 0) : air'[m + i] = Mine(0 + i)'
        OBVIOUS
      <4> QED BY <2>8, <3>5, <4>1, <4>2, <4>3, <4>4 DEF Progress
    <3> QED BY <3>6
  <2>10. unbroken' => connected' /\ subscribed'
    BY <1>1, <1>3, <2>1
  <2> QED BY <2>2, <2>9, <2>10 DEF SuccessInv, n
<1> QED BY <1>2, <1>3

(* A notification reaches the client.                                      *)
LEMMA ArrivalStep ==
  ASSUME LinkTyped, EntriesOwnChunks, SuccessInv, Notified
  PROVE  SuccessInv'
<1>1. /\ UNCHANGED <<kiss_rx_msg_id, connected, sending, subscribed, received, unbroken>>
      /\ air' = Tail(air) /\ air # <<>> /\ air \in Seq(ChunkSet)
  BY DEF Notified, device, LinkTyped
<1>2. unbroken' => connected' /\ subscribed'
  BY <1>1 DEF SuccessInv
<1>3. ASSUME Going' PROVE received' # <<>> /\ \E gone, older, came \in Nat : Progress(gone, older, came)'
  <2>1. Going /\ received # <<>> /\ subscribed
    BY <1>1, <1>3 DEF Going, SuccessInv
  <2>2. PICK gone \in Nat, older \in Nat, came \in Nat : Progress(gone, older, came)
    BY <2>1 DEF SuccessInv
  <2> DEFINE N == Total(Current)
  <2>3. N \in Nat \ {0}
    BY <2>1, CurrentTyped
  <2>4. /\ Total(Current') = N /\ \A i : Mine(i)' = Mine(i)
        /\ \A p, x : Holds(p, x)' <=> Holds(p, x)
    BY <1>1, SameFrame
  <2>5. /\ came <= gone /\ Len(sending.chunks) = N - gone /\ Len(air) = older + (gone - came)
        /\ \A i \in 1..Len(sending.chunks) : sending.chunks[i] = Mine(gone + i)
        /\ \A i \in 1..older : air[i].id # kiss_rx_msg_id
        /\ \A i \in 1..(gone - came) : air[older + i] = Mine(came + i)
        /\ came > 0 => older = 0
        /\ Arrived(came) /\ Len(sending.chunks) \in Nat
    <3>1. Len(sending.chunks) \in Nat
      BY DEF LinkTyped
    <3> QED BY <2>2, <3>1 DEF Progress
  <2> HIDE DEF N
  <2>6. /\ Head(air) = air[1] /\ Len(air') = Len(air) - 1 /\ Len(air) \in Nat \ {0}
        /\ \A i \in 1..(Len(air) - 1) : air'[i] = air[i + 1]
    BY <1>1, RangeTail, EmptySeq
  <2>7. \A i \in 1..Len(sending'.chunks) : sending'.chunks[i] = Mine(gone + i)'
    BY <1>1, <2>4, <2>5
  <2>8. CASE older > 0
    <3>1. came = 0 /\ older - 1 \in Nat
      BY <2>5, <2>8
    <3>2. Head(air).id # kiss_rx_msg_id
      BY <2>5, <2>6, <2>8
    <3>3. Arrived(0)'
      <4>1. \A p \in Range(rx_pending) : p.id # kiss_rx_msg_id
        BY <2>5, <3>1 DEF Arrived
      <4>2. \A p \in Range(rx_pending') : p.id # kiss_rx_msg_id'
        <5> SUFFICES ASSUME NEW p \in Range(rx_pending') PROVE p.id # kiss_rx_msg_id
          BY <1>1
        <5>1. p \in Range(rx_pending) \/ p.id = Head(air).id
          BY NotifiedStep
        <5> QED BY <3>2, <4>1, <5>1
      <4> QED BY <2>3, <2>4, <4>2 DEF Arrived
    <3>4. Progress(gone, older - 1, 0)'
      <4>1. Len(air') = older - 1 + (gone - 0)
        BY <2>5, <2>6, <3>1
      <4>2. ASSUME NEW i \in 1..(older - 1) PROVE air'[i].id # kiss_rx_msg_id'
        <5>1. i \in 1..(Len(air) - 1) /\ i + 1 \in 1..older
          BY <2>5, <3>1
        <5> QED BY <1>1, <2>5, <2>6, <5>1
      <4>3. ASSUME NEW i \in 1..(gone - 0) PROVE air'[older - 1 + i] = Mine(0 + i)'
        <5>1. /\ older - 1 + i \in 1..(Len(air) - 1) /\ older - 1 + i + 1 = older + i
              /\ i \in 1..(gone - came) /\ came + i = 0 + i
          BY <2>5, <3>1
        <5>2. air'[older - 1 + i] = air[older + i]
          BY <2>6, <5>1
        <5>3. air[older + i] = Mine(0 + i)
          BY <2>5, <5>1
        <5> QED BY <2>4, <5>2, <5>3
      <4>4. Len(sending'.chunks) = N - gone
        BY <1>1, <2>5
      <4>5. Total(Current)' = N /\ 0 <= gone
        BY <2>4
      <4>6. 0 > 0 => older - 1 = 0
        OBVIOUS
      <4>7. Len(sending'.chunks) = Total(Current)' - gone
        BY <4>4, <4>5
      <4> QED BY <2>7, <3>3, <4>1, <4>2, <4>3, <4>5, <4>6, <4>7, Zenon DEF Progress
    <3> QED BY <1>1, <2>1, <3>1, <3>4
  <2>9. CASE older = 0
    <3>1. came + 1 <= gone /\ came < N /\ gone - came \in Nat /\ 1 \in 1..(gone - came)
      BY <2>3, <2>5, <2>6, <2>9
    <3>2. Head(air) = Mine(came + 1)
      <4>1. older + 1 = 1
        BY <2>9
      <4> QED BY <2>5, <2>6, <3>1, <4>1
    <3>3. /\ came + 1 < N => \E p \in Range(rx_pending') : Holds(p, came + 1)
          /\ came + 1 = N => last'.from = {Len(received)}
      BY <2>1, <2>5, <3>1, <3>2, NextArrives DEF N
    <3>4. Arrived(came + 1)'
      <4>1. came + 1 # 0
        OBVIOUS
      <4> QED BY <1>1, <2>4, <3>3, <4>1 DEF Arrived
    <3>5. Progress(gone, 0, came + 1)'
      <4>1. Len(air') = 0 + (gone - (came + 1))
        BY <2>5, <2>6, <2>9
      <4>2. ASSUME NEW i \in 1..(gone - (came + 1)) PROVE air'[0 + i] = Mine(came + 1 + i)'
        <5>1. /\ i \in 1..(Len(air) - 1) /\ 0 + i = i /\ older + (i + 1) = i + 1
              /\ i + 1 \in 1..(gone - came) /\ came + (i + 1) = came + 1 + i
          BY <2>5, <2>9
        <5>2. air'[i] = air[i + 1]
          BY <2>6, <5>1
        <5>3. air[older + (i + 1)] = Mine(came + (i + 1))
          BY <2>5, <5>1
        <5>4. air'[0 + i] = Mine(came + 1 + i)
          BY <5>1, <5>2, <5>3
        <5> QED BY <2>4, <5>4
      <4>3. Len(sending'.chunks) = N - gone
        BY <1>1, <2>5
      <4>4. \A i \in 1..0 : air'[i].id # kiss_rx_msg_id'
        OBVIOUS
      <4> QED BY <2>4, <2>7, <3>1, <3>4, <4>1, <4>2, <4>3, <4>4 DEF Progress
    <3>6. came + 1 \in Nat /\ 0 \in Nat
      OBVIOUS
    <3> QED BY <1>1, <2>1, <3>5, <3>6
  <2> QED BY <2>8, <2>9
<1> QED BY <1>2, <1>3 DEF SuccessInv

(* Every operation keeps it.                                               *)
LEMMA SuccessInvStep ==
  ASSUME LinkInv, SuccessInv, [KissNext]_kissVars
  PROVE  SuccessInv'
<1>0. LinkTyped /\ EntriesOwnChunks
  BY DEF LinkInv
<1>1. ASSUME NEW content \in Contents, RxFrame(content) PROVE SuccessInv'
  BY <1>0, <1>1, ReceptionStep
<1>2. ASSUME NEW ok \in BOOLEAN, SendChunk(ok) PROVE SuccessInv'
  BY <1>0, <1>2, SendingStep
<1>3. CASE Notified
  BY <1>0, <1>3, ArrivalStep
<1>4. ASSUME ~unbroken' PROVE SuccessInv'
  BY <1>4 DEF SuccessInv, Going
<1>5. CASE Connect \/ Subscribe
  BY <1>4, <1>5 DEF Connect, Subscribe, device, SuccessInv
<1>6. CASE Reset \/ \E own \in BOOLEAN : Disconnect(own)
  BY <1>4, <1>6 DEF Reset, Disconnect
<1>7. CASE TakeKiss \/ (\E frame : WriteKiss(frame)) \/ UNCHANGED kissVars
  BY <1>7, NothingHappens DEF TakeKiss, WriteKiss, kissVars, device, bridge
<1> QED BY <1>1, <1>2, <1>3, <1>5, <1>6, <1>7 DEF KissNext

(* SuccessMeansReceived: when every chunk of a frame was accepted on an    *)
(* unbroken connection and none is left in the air, the client has         *)
(* delivered that frame.                                                   *)
THEOREM SuccessIsReception == KissSpec => []SuccessMeansReceived
<1>1. KissInit => SuccessInv
  BY DEF KissInit, SuccessInv, Going
<1>2. LinkInv /\ SuccessInv => SuccessMeansReceived
  <2> SUFFICES ASSUME LinkInv, SuccessInv, sending.chunks = <<>>, Going, air = <<>>
               PROVE  last.from = {Len(received)}
    BY DEF SuccessMeansReceived, Going
  <2>1. received # <<>>
    BY DEF SuccessInv
  <2>2. PICK gone \in Nat, older \in Nat, came \in Nat : Progress(gone, older, came)
    BY DEF SuccessInv
  <2>3. Total(Current) \in Nat \ {0}
    BY <2>1, CurrentTyped DEF LinkInv
  <2>4. 0 = Total(Current) - gone /\ 0 = older + (gone - came) /\ came <= gone /\ Arrived(came)
    BY <2>2 DEF Progress
  <2>5. came = Total(Current)
    BY <2>3, <2>4
  <2> QED BY <2>4, <2>5 DEF Arrived
<1> QED BY <1>1, <1>2, SuccessInvStep, LinkCorrect, PTL DEF KissSpec
================================================================================
