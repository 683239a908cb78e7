--------------------------- MODULE Ac97RingProofs ---------------------------
(***************************************************************************)
(* Proofs about Ac97Ring for every length of the descriptor list, every    *)
(* number of pages and every handler latency below one turn of the ring.   *)
(***************************************************************************)
EXTENDS Ac97Ring, TLAPS

\* Going round the ring: steps forward and back, and distances.
LEMMA RingArithmetic ==
    ASSUME NEW a \in Entry, NEW b \in Entry, NEW c \in Entry
    PROVE  /\ Succ(a) \in Entry /\ Pred(a) \in Entry
           /\ Dist(a, b) \in 0..(BDL_ENTRIES - 1)
           /\ Dist(a, a) = 0
           /\ Dist(a, Pred(a)) = BDL_ENTRIES - 1
           /\ Dist(a, b) = Dist(a, c) => b = c
           /\ Dist(a, b) < BDL_ENTRIES - 1 => Dist(a, Succ(b)) = Dist(a, b) + 1
           /\ Dist(a, b) <= Dist(a, c) => Dist(a, c) = Dist(a, b) + Dist(b, c)
BY RingAssumption DEF Entry, Succ, Pred, Dist

LEMMA DistType ==
    ASSUME NEW a \in Entry, NEW b \in Entry PROVE Dist(a, b) \in Nat
BY RingAssumption DEF Entry, Dist

LEMMA DistAdds ==
    ASSUME NEW a \in Entry, NEW b \in Entry, NEW c \in Entry, Dist(a, b) <= Dist(a, c)
    PROVE  Dist(a, c) = Dist(a, b) + Dist(b, c)
BY RingArithmetic

LEMMA PageType == ASSUME NEW i \in Entry PROVE Page(i) \in Pages
BY RingAssumption DEF Entry, Page, Pages

LEMMA CompletedType ==
    ASSUME NEW a \in Entry, NEW b \in Entry PROVE Completed(a, b) \in SUBSET Pages
BY PageType DEF Completed

\* The card stays within the window that the handler opened: it has not
\* passed the last valid index, which is one turn behind NEXT_DONE except
\* between the last two steps of the handler.
Window ==
    /\ halted => civ = lvi
    /\ hpc # "lvi" => lvi = Pred(NEXT_DONE)
    /\ Dist(NEXT_DONE, civ) <= Dist(NEXT_DONE, lvi)
    /\ hpc = "record" => Dist(NEXT_DONE, seen) <= Dist(NEXT_DONE, civ)
    /\ hpc = "lvi" => seen = NEXT_DONE
    /\ hpc \in {"record", "lvi"} =>
          /\ Dist(seen, civ) <= burst
          /\ halted => Dist(seen, civ) = 0 \/ Dist(seen, civ) < burst

IInv == TypeOK /\ LagIsExact /\ Window

LEMMA IInvInit == Init => IInv
<1> SUFFICES ASSUME Init PROVE IInv
  OBVIOUS
<1>1. 0 \in Entry /\ BDL_ENTRIES - 1 \in Entry /\ BDL_ENTRIES - 1 = Pred(0)
  BY RingAssumption DEF Entry, Pred
<1>2. Dist(0, 0) = 0 /\ Dist(0, BDL_ENTRIES - 1) \in Nat
  BY <1>1, RingArithmetic
<1>3. TypeOK
  <2>1. burst \in 0..Burst /\ lag \in Nat
    BY RingAssumption DEF Init
  <2> QED
    BY <1>1, <2>1 DEF Init, TypeOK
<1>4. LagIsExact
  BY <1>2 DEF Init, LagIsExact
<1>5. Window
  BY <1>1, <1>2 DEF Init, Window
<1> QED
  BY <1>3, <1>4, <1>5 DEF IInv

\* A completed buffer moves CIV within the window or halts the card.
LEMMA IInvComplete == IInv /\ Complete => IInv'
<1> SUFFICES ASSUME IInv, Complete PROVE IInv'
  OBVIOUS
<1> USE RingAssumption DEF IInv, Complete, handler
<1>0. /\ civ \in Entry /\ lvi \in Entry /\ NEXT_DONE \in Entry /\ seen \in Entry
      /\ lag \in Nat /\ burst \in Nat
  BY DEF TypeOK
<1>1. /\ Page(civ) \in Pages
      /\ Dist(NEXT_DONE, civ) \in 0..(BDL_ENTRIES - 1)
      /\ Dist(NEXT_DONE, lvi) \in 0..(BDL_ENTRIES - 1)
      /\ Dist(NEXT_DONE, seen) \in 0..(BDL_ENTRIES - 1)
      /\ Dist(seen, civ) \in 0..(BDL_ENTRIES - 1)
      /\ Succ(civ) \in Entry
  BY <1>0, PageType, RingArithmetic
<1>2. TypeOK'
  <2>1. burst' \in 0..Burst /\ lag' \in Nat
    BY <1>0 DEF TypeOK
  <2>3. status' \in SUBSET SR_INT_BITS
    BY DEF TypeOK, SR_INT_BITS
  <2>2. civ' \in Entry /\ halted' \in BOOLEAN
    BY <1>0, <1>1 DEF TypeOK
  <2> QED
    BY <1>1, <2>1, <2>2, <2>3 DEF TypeOK
<1>3. CASE civ = lvi
  <2>1. LagIsExact'
    BY <1>0, <1>1, <1>3 DEF LagIsExact
  <2>2. Window'
    BY <1>0, <1>1, <1>3 DEF Window
  <2> QED
    BY <1>2, <2>1, <2>2
<1>4. CASE civ # lvi
  <2>1. Dist(NEXT_DONE, civ) < Dist(NEXT_DONE, lvi)
    <3>1. Dist(NEXT_DONE, civ) # Dist(NEXT_DONE, lvi)
      BY <1>0, <1>4, RingArithmetic
    <3> QED
      BY <1>1, <3>1 DEF Window
  <2>2. Dist(NEXT_DONE, Succ(civ)) = Dist(NEXT_DONE, civ) + 1
    BY <1>0, <1>1, <2>1, RingArithmetic
  <2>3. hpc \in {"record", "lvi"} => Dist(seen, Succ(civ)) = Dist(seen, civ) + 1
    <3>1. ASSUME hpc \in {"record", "lvi"} PROVE Dist(seen, civ) < BDL_ENTRIES - 1
      BY <1>0, <1>1, <3>1 DEF Window, TypeOK
    <3> QED
      BY <1>0, <3>1, RingArithmetic
  <2>4. LagIsExact'
    BY <1>0, <1>1, <1>4, <2>2 DEF LagIsExact
  <2>5. Window'
    BY <1>0, <1>1, <1>4, <2>1, <2>2, <2>3 DEF Window
  <2> QED
    BY <1>2, <2>4, <2>5
<1> QED
  BY <1>3, <1>4

\* Reading and acknowledging the status leaves the window alone; the CIV that
\* is read lies in it.
LEMMA IInvRead == IInv /\ (ReadStatus \/ AckStatus \/ ReadCiv) => IInv'
<1> SUFFICES ASSUME IInv, ReadStatus \/ AckStatus \/ ReadCiv PROVE IInv'
  OBVIOUS
<1> USE RingAssumption DEF IInv, card, LagIsExact, Window
<1>1. CASE ReadStatus
  BY <1>1 DEF ReadStatus, TypeOK
<1>2. CASE AckStatus
  BY <1>2 DEF AckStatus, TypeOK
<1>3. CASE ReadCiv
  <2>1. Dist(civ, civ) = 0 /\ Dist(NEXT_DONE, civ) \in Nat
    BY RingArithmetic DEF TypeOK
  <2>2. TypeOK'
    BY <1>3 DEF ReadCiv, TypeOK
  <2> QED
    BY <1>3, <2>1, <2>2 DEF ReadCiv
<1> QED
  BY <1>1, <1>2, <1>3

\* Recording moves NEXT_DONE up to the CIV that was read.
LEMMA IInvRecord == IInv /\ Record => IInv'
<1> SUFFICES ASSUME IInv, Record PROVE IInv'
  OBVIOUS
<1> USE DEF IInv, Record, card
<1>0. /\ civ \in Entry /\ lvi \in Entry /\ NEXT_DONE \in Entry /\ seen \in Entry /\ lag \in Nat
  BY DEF TypeOK
<1>1. /\ Dist(NEXT_DONE, civ) \in Nat /\ Dist(NEXT_DONE, lvi) \in Nat
      /\ Dist(NEXT_DONE, seen) \in Nat /\ Dist(seen, civ) \in Nat /\ Dist(seen, lvi) \in Nat
  BY <1>0, DistType
<1>7. Completed(NEXT_DONE, seen) \in SUBSET Pages
  BY <1>0, CompletedType
<1>2. /\ Dist(NEXT_DONE, civ) = Dist(NEXT_DONE, seen) + Dist(seen, civ)
      /\ Dist(NEXT_DONE, lvi) = Dist(NEXT_DONE, seen) + Dist(seen, lvi)
  <2>1. Dist(NEXT_DONE, seen) <= Dist(NEXT_DONE, civ) /\ Dist(NEXT_DONE, seen) <= Dist(NEXT_DONE, lvi)
    BY <1>1 DEF Window
  <2>2. Dist(NEXT_DONE, civ) = Dist(NEXT_DONE, seen) + Dist(seen, civ)
    BY <1>0, <2>1, DistAdds
  <2>3. Dist(NEXT_DONE, lvi) = Dist(NEXT_DONE, seen) + Dist(seen, lvi)
    BY <1>0, <2>1, DistAdds
  <2> QED
    BY <2>2, <2>3
<1>3. LagIsExact'
  BY <1>0, <1>1, <1>2 DEF LagIsExact
<1>4. lag' \in Nat
  BY <1>0, <1>1, <1>2 DEF LagIsExact
<1>5. TypeOK'
  BY <1>4, <1>7 DEF TypeOK
<1>6. Window'
  BY <1>1, <1>2 DEF Window
<1> QED
  BY <1>3, <1>5, <1>6

\* The write of LVI opens the window a full turn; a halted card leaves the
\* descriptor it stood on, which becomes the one completion still to record.
LEMMA IInvWriteLvi == IInv /\ WriteLvi => IInv'
<1> SUFFICES ASSUME IInv, WriteLvi PROVE IInv'
  OBVIOUS
<1> USE RingAssumption DEF IInv, WriteLvi
<1>0. /\ civ \in Entry /\ NEXT_DONE \in Entry /\ seen \in Entry /\ burst \in 0..Burst
  BY DEF TypeOK
<1>1. /\ Dist(NEXT_DONE, civ) \in 0..(BDL_ENTRIES - 1)
      /\ Succ(civ) \in Entry /\ Pred(seen) \in Entry
      /\ Dist(NEXT_DONE, Pred(NEXT_DONE)) = BDL_ENTRIES - 1
  BY <1>0, RingArithmetic
<1>2. TypeOK'
  BY <1>1 DEF TypeOK
<1>3. seen = NEXT_DONE /\ lvi' = Pred(NEXT_DONE)
  BY DEF Window
<1>4. CASE halted
  <2>1. Dist(NEXT_DONE, civ) < BDL_ENTRIES - 1
    BY <1>0, <1>1, <1>3, <1>4 DEF Window
  <2>2. Dist(NEXT_DONE, Succ(civ)) = Dist(NEXT_DONE, civ) + 1
    BY <1>0, <2>1, RingArithmetic
  <2>3. LagIsExact'
    BY <1>4, <2>2 DEF LagIsExact
  <2>4. Window'
    BY <1>1, <1>3, <1>4, <2>1, <2>2 DEF Window
  <2> QED
    BY <1>2, <2>3, <2>4
<1>5. CASE ~halted
  <2>1. LagIsExact'
    BY <1>5 DEF LagIsExact
  <2>2. Window'
    BY <1>1, <1>3, <1>5 DEF Window
  <2> QED
    BY <1>2, <2>1, <2>2
<1> QED
  BY <1>4, <1>5

\* The synth task touches neither the card nor NEXT_DONE.
LEMMA IInvSynth == IInv /\ RunSynth => IInv'
BY DEF IInv, TypeOK, LagIsExact, Window, RunSynth, TakeMask, RefillPage, card, handler

\* The inductive invariant behind the accounting of the ring.
THEOREM InductiveInvariant == Spec => []IInv
<1>1. IInv /\ [Next]_vars => IInv'
  <2> SUFFICES ASSUME IInv, [Next]_vars PROVE IInv'
    OBVIOUS
  <2>1. CASE UNCHANGED vars
    BY <2>1 DEF vars, card, handler, IInv, TypeOK, LagIsExact, Window
  <2> QED
    BY <2>1, IInvComplete, IInvRead, IInvRecord, IInvWriteLvi, IInvSynth DEF Next, HandleIrq
<1> QED
  BY <1>1, IInvInit, PTL DEF Spec

\* Every variable of the ring keeps its type, in particular the indices stay
\* inside the descriptor list and the mask inside its pages.
THEOREM RingTypeCorrect == Spec => []TypeOK
BY InductiveInvariant, PTL DEF IInv

\* However the card and the handler interleave and wherever the indices wrap,
\* no completed descriptor is skipped or counted twice by handle_irq.
THEOREM CompletionsAreCounted == Spec => []LagIsExact
BY InductiveInvariant, PTL DEF IInv

----------------------------------------------------------------------------
(* Pages are not forgotten.                                                *)

\* One more completion adds the page that was played.
LEMMA CompletedGrows ==
    ASSUME NEW a \in Entry, NEW b \in Entry, Dist(a, b) < BDL_ENTRIES - 1
    PROVE  Completed(a, b) \cup {Page(b)} \subseteq Completed(a, Succ(b))
<1>1. Dist(a, Succ(b)) = Dist(a, b) + 1
  BY RingArithmetic
<1>2. \A j \in Entry : Dist(a, j) \in Nat
  BY DistType
<1>3. Completed(a, b) \subseteq Completed(a, Succ(b))
  BY <1>1, <1>2 DEF Completed
<1>4. Page(b) \in Completed(a, Succ(b))
  BY <1>1, <1>2 DEF Completed
<1> QED
  BY <1>3, <1>4

\* Recording up to a descriptor in between leaves the rest unrecorded.
LEMMA CompletedSplits ==
    ASSUME NEW a \in Entry, NEW b \in Entry, NEW c \in Entry, Dist(a, b) <= Dist(a, c)
    PROVE  Completed(a, c) \subseteq Completed(a, b) \cup Completed(b, c)
<1>1. ASSUME NEW j \in Entry, Dist(a, j) < Dist(a, c)
      PROVE  Dist(a, j) < Dist(a, b) \/ Dist(b, j) < Dist(b, c)
  <2>1. Dist(a, j) \in Nat /\ Dist(a, b) \in Nat /\ Dist(b, j) \in Nat /\ Dist(b, c) \in Nat
    BY DistType
  <2>2. Dist(a, c) = Dist(a, b) + Dist(b, c)
    BY DistAdds
  <2>3. CASE Dist(a, b) <= Dist(a, j)
    <3>1. Dist(a, j) = Dist(a, b) + Dist(b, j)
      BY <2>3, DistAdds
    <3> QED
      BY <1>1, <2>1, <2>2, <3>1
  <2> QED
    BY <2>1, <2>3
<1> QED
  BY <1>1 DEF Completed

\* However interrupts fall into the synth task's loop, a page that was played
\* since its last refill is unrecorded, in REFILL_MASK or being refilled.
THEOREM RefillsAreNotLost == Spec => []NoRefillLost
<1>1. Init => NoRefillLost
  BY DEF Init, NoRefillLost
<1>2. IInv /\ NoRefillLost /\ [Next]_vars => NoRefillLost'
  <2> SUFFICES ASSUME IInv, NoRefillLost, [Next]_vars PROVE NoRefillLost'
    OBVIOUS
  <2>0. civ \in Entry /\ lvi \in Entry /\ NEXT_DONE \in Entry /\ seen \in Entry
    BY DEF IInv, TypeOK
  <2>1. CASE Complete
    <3>1. CASE civ = lvi
      BY <2>1, <3>1 DEF Complete, NoRefillLost, handler
    <3>2. CASE civ # lvi
      <4>1. Dist(NEXT_DONE, civ) # Dist(NEXT_DONE, lvi)
        BY <2>0, <3>2, RingArithmetic
      <4>2. Dist(NEXT_DONE, civ) < BDL_ENTRIES - 1
        BY <2>0, <4>1, RingArithmetic, RingAssumption DEF IInv, Window
      <4>3. Completed(NEXT_DONE, civ) \cup {Page(civ)} \subseteq Completed(NEXT_DONE, Succ(civ))
        BY <2>0, <4>2, CompletedGrows
      <4> QED
        BY <2>1, <3>2, <4>3 DEF Complete, NoRefillLost, handler
    <3> QED
      BY <3>1, <3>2
  <2>2. CASE ReadStatus \/ AckStatus \/ ReadCiv
    BY <2>2 DEF ReadStatus, AckStatus, ReadCiv, NoRefillLost, card
  <2>3. CASE Record
    <3>1. Completed(NEXT_DONE, civ) \subseteq Completed(NEXT_DONE, seen) \cup Completed(seen, civ)
      BY <2>0, <2>3, CompletedSplits DEF IInv, Window, Record
    <3> QED
      BY <2>3, <3>1 DEF Record, NoRefillLost, card
  <2>4. CASE WriteLvi
    <3>1. CASE halted
      <4>1. Dist(NEXT_DONE, civ) < BDL_ENTRIES - 1
        <5>1. seen = NEXT_DONE /\ (Dist(NEXT_DONE, civ) = 0 \/ Dist(NEXT_DONE, civ) < burst)
          BY <2>4, <3>1 DEF WriteLvi, IInv, Window
        <5>2. Dist(NEXT_DONE, civ) \in Nat /\ burst \in 0..Burst
          BY <2>0, DistType DEF IInv, TypeOK
        <5> QED
          BY <5>1, <5>2, RingAssumption
      <4>2. Completed(NEXT_DONE, civ) \cup {Page(civ)} \subseteq Completed(NEXT_DONE, Succ(civ))
        BY <2>0, <4>1, CompletedGrows
      <4> QED
        BY <2>4, <3>1, <4>2 DEF WriteLvi, NoRefillLost
    <3>2. CASE ~halted
      BY <2>4, <3>2 DEF WriteLvi, NoRefillLost
    <3> QED
      BY <3>1, <3>2
  <2>5. CASE RunSynth
    BY <2>5 DEF RunSynth, TakeMask, RefillPage, NoRefillLost, card, handler
  <2>6. CASE UNCHANGED vars
    BY <2>6 DEF vars, card, NoRefillLost
  <2> QED
    BY <2>1, <2>2, <2>3, <2>4, <2>5, <2>6 DEF Next, HandleIrq
<1> QED
  BY <1>1, <1>2, InductiveInvariant, PTL DEF Spec

----------------------------------------------------------------------------
(* The line is low only when the handler is up to date.                    *)

\* A completion since the last acknowledgement leaves BCIS set; without one,
\* what the handler read of CIV is still true.
QuietInv ==
    /\ hpc \in {"out", "ack"} /\ "BCIS" \notin status => ~halted /\ lag = (IF resumed THEN 1 ELSE 0)
    /\ hpc \in {"record", "lvi"} /\ "BCIS" \notin status => seen = civ
    /\ resumed => Dist(NEXT_DONE, civ) > 0

LEMMA QuietNext == IInv /\ QuietInv /\ [Next]_vars => QuietInv'
<1> SUFFICES ASSUME IInv, QuietInv, [Next]_vars PROVE QuietInv'
  OBVIOUS
<1>0. /\ civ \in Entry /\ lvi \in Entry /\ NEXT_DONE \in Entry /\ seen \in Entry
      /\ Dist(NEXT_DONE, civ) \in Nat /\ Dist(NEXT_DONE, seen) \in Nat /\ lag \in Nat
      /\ resumed \in BOOLEAN /\ halted \in BOOLEAN
      /\ lag = Dist(NEXT_DONE, civ) + (IF halted THEN 1 ELSE 0)
  BY DistType DEF IInv, TypeOK, LagIsExact
<1>1. CASE Complete
  <2>0. "BCIS" \in status' /\ resumed' = resumed /\ NEXT_DONE' = NEXT_DONE
    BY <1>1 DEF Complete
  <2>1. CASE civ = lvi
    BY <1>1, <2>0, <2>1 DEF Complete, QuietInv
  <2>2. CASE civ # lvi
    <3>1. Dist(NEXT_DONE, civ) # Dist(NEXT_DONE, lvi)
      BY <1>0, <2>2, RingArithmetic
    <3>2. Dist(NEXT_DONE, civ) < BDL_ENTRIES - 1
      BY <1>0, <3>1, RingArithmetic, RingAssumption DEF IInv, Window
    <3>3. Dist(NEXT_DONE, Succ(civ)) = Dist(NEXT_DONE, civ) + 1
      BY <1>0, <3>2, RingArithmetic
    <3>4. Dist(NEXT_DONE, civ)' > 0
      BY <1>0, <1>1, <2>0, <2>2, <3>3 DEF Complete
    <3> QED
      BY <2>0, <3>4 DEF QuietInv
  <2> QED
    BY <2>1, <2>2
<1>2. CASE ReadStatus \/ AckStatus \/ ReadCiv
  BY <1>2 DEF ReadStatus, AckStatus, ReadCiv, QuietInv, card
<1>3. CASE Record
  <2>0. /\ NEXT_DONE' = seen /\ hpc = "record" /\ hpc' = "lvi"
        /\ resumed' = IF Dist(NEXT_DONE, seen) > 0 THEN FALSE ELSE resumed
        /\ UNCHANGED <<civ, status, seen>>
    BY <1>3 DEF Record, card
  <2>1. ASSUME resumed' PROVE Dist(NEXT_DONE, civ)' > 0
    <3>1. resumed /\ ~(Dist(NEXT_DONE, seen) > 0)
      <4>1. CASE Dist(NEXT_DONE, seen) > 0
        BY <2>0, <2>1, <4>1
      <4>2. CASE ~(Dist(NEXT_DONE, seen) > 0)
        BY <2>0, <2>1, <4>2
      <4> QED
        BY <4>1, <4>2
    <3>2. seen = NEXT_DONE
      BY <1>0, <3>1, RingArithmetic
    <3> QED
      BY <2>0, <3>1, <3>2 DEF QuietInv
  <2> QED
    BY <2>0, <2>1 DEF QuietInv
<1>4. CASE WriteLvi
  <2>0. /\ hpc = "lvi" /\ hpc' = "out" /\ halted' = FALSE /\ resumed' = (halted \/ resumed)
        /\ civ' = (IF halted THEN Succ(civ) ELSE civ) /\ seen = NEXT_DONE
        /\ UNCHANGED <<status, lag, NEXT_DONE>>
    BY <1>4 DEF WriteLvi, IInv, Window
  <2>1. resumed' => Dist(NEXT_DONE, civ)' > 0
    <3>1. CASE halted
      <4>1. /\ Dist(NEXT_DONE, civ) = 0 \/ Dist(NEXT_DONE, civ) < burst
            /\ burst \in 0..Burst
        BY <2>0, <3>1 DEF IInv, TypeOK, Window
      <4>2. Dist(NEXT_DONE, civ) < BDL_ENTRIES - 1
        BY <1>0, <4>1, RingAssumption
      <4>3. Dist(NEXT_DONE, Succ(civ)) = Dist(NEXT_DONE, civ) + 1
        BY <1>0, <4>2, RingArithmetic
      <4> QED
        BY <1>0, <2>0, <3>1, <4>3
    <3>2. CASE ~halted
      BY <2>0, <3>2 DEF QuietInv
    <3> QED
      BY <3>1, <3>2
  <2>2. ASSUME "BCIS" \notin status PROVE lag' = (IF resumed' THEN 1 ELSE 0)
    <3>1. Dist(NEXT_DONE, civ) = 0
      BY <1>0, <2>0, <2>2, RingArithmetic DEF QuietInv
    <3>2. ~resumed
      BY <3>1 DEF QuietInv
    <3> QED
      BY <1>0, <2>0, <3>1, <3>2
  <2> QED
    BY <2>0, <2>1, <2>2 DEF QuietInv
<1>5. CASE RunSynth \/ UNCHANGED vars
  BY <1>5 DEF RunSynth, TakeMask, RefillPage, QuietInv, vars, card, handler
<1> QED
  BY <1>1, <1>2, <1>3, <1>4, <1>5 DEF Next, HandleIrq

\* Because handle_irq acknowledges the status before it reads CIV, no completion
\* is left behind with the line low: the DMA runs, and at most the buffer on
\* which it had halted waits for the next interrupt.
THEOREM QuietRingIsUpToDate == Spec => []QuietIsUpToDate
<1>1. Init => QuietInv
  BY DEF Init, QuietInv
<1>2. IInv /\ QuietInv /\ [Next]_vars => QuietInv'
  BY QuietNext
<1>3. QuietInv => QuietIsUpToDate
  BY DEF QuietInv, QuietIsUpToDate
<1> QED
  BY <1>1, <1>2, <1>3, InductiveInvariant, PTL DEF Spec

=============================================================================
