------------------------------ MODULE Ac97Ring ------------------------------
(***************************************************************************)
(* The DMA ring of kernel/src/ac97.rs: the card plays the descriptors in   *)
(* order, handle_irq records which ones completed and moves the last valid *)
(* index, and the synth task refills the pages.  The card runs in parallel *)
(* with the CPU, so it may complete a buffer between any two register      *)
(* accesses of the handler; the handler itself is not interruptible and    *)
(* the synth task does not run during it.                                  *)
(***************************************************************************)
EXTENDS Naturals

CONSTANTS
    BDL_ENTRIES,  \* descriptors of the ring (32)
    BUFFERS,      \* pages the descriptors point at, round robin (4)
    Burst         \* bound: buffers completed between the read of CIV and the
                  \* write of LVI; a buffer lasts 21 ms, the handler microseconds

ASSUME RingAssumption ==
    /\ BDL_ENTRIES \in Nat /\ BDL_ENTRIES > 1
    /\ BUFFERS \in Nat \ {0} /\ BDL_ENTRIES % BUFFERS = 0
    /\ Burst \in Nat /\ Burst < BDL_ENTRIES

Entry == 0..(BDL_ENTRIES - 1)
Pages == 0..(BUFFERS - 1)

\* The bits of PO_SR that handle_irq looks at and the card sets here.  Only
\* BCIS raises the line: PO_CR enables no other interrupt source.
SR_INT_BITS == {"BCIS", "LVBCI"}

VARIABLES
    civ, lvi, status, halted,  \* PO_CIV, PO_LVI, PO_SR and "DMA halted"
    NEXT_DONE, REFILL_MASK,
    hpc,       \* where handle_irq is, "out" when it is not running
    acked,     \* the status bits it read and is about to write back
    seen,      \* the CIV it read
    todo,      \* pages run_synth took from the mask and has not refilled
    lag,       \* history: completions that handle_irq has not recorded
    burst,     \* history: completions since handle_irq read CIV
    resumed,   \* history: the last LVI write restarted a halted DMA
    stale      \* history: pages played since they were last refilled

card == <<civ, lvi, status, halted>>
handler == <<hpc, acked, seen>>
vars == <<card, NEXT_DONE, REFILL_MASK, handler, todo, lag, burst, resumed, stale>>

\* Mutant: (i - 1) without the + BDL_ENTRIES.
PredUnwrapped(i) == i - 1

\* (i + 1) % BDL_ENTRIES and (i + BDL_ENTRIES - 1) % BDL_ENTRIES.
Succ(i) == IF i = BDL_ENTRIES - 1 THEN 0 ELSE i + 1
Pred(i) == IF i = 0 THEN BDL_ENTRIES - 1 ELSE i - 1

\* How many descriptors lie between a and b, going round from a.
Dist(a, b) == IF a <= b THEN b - a ELSE b + BDL_ENTRIES - a

\* The page a descriptor of the list points at.
Page(i) == i % BUFFERS

----------------------------------------------------------------------------
\* The state init leaves behind: the ring runs, silent, over all entries.
Init ==
    /\ civ = 0 /\ lvi = BDL_ENTRIES - 1 /\ status = {} /\ halted = FALSE
    /\ NEXT_DONE = 0 /\ REFILL_MASK = {}
    /\ hpc = "out" /\ acked = {} /\ seen = 0
    /\ todo = {}
    /\ lag = 0 /\ burst = 0 /\ resumed = FALSE /\ stale = {}

----------------------------------------------------------------------------
(* The card.                                                               *)

\* The current buffer has been played.  The card goes on to the next
\* descriptor unless this was the last valid one; then it halts, and CIV
\* stays where it is.
Complete ==
    /\ ~halted
    /\ hpc \in {"record", "lvi"} => burst < Burst
    /\ IF civ = lvi
       THEN halted' = TRUE /\ status' = status \cup {"BCIS", "LVBCI"} /\ UNCHANGED civ
       ELSE civ' = Succ(civ) /\ status' = status \cup {"BCIS"} /\ UNCHANGED halted
    /\ lag' = lag + 1
    /\ burst' = IF hpc \in {"record", "lvi"} THEN burst + 1 ELSE 0
    /\ stale' = stale \cup {Page(civ)}
    /\ UNCHANGED <<lvi, NEXT_DONE, REFILL_MASK, handler, todo, resumed>>

----------------------------------------------------------------------------
(* handle_irq, one action per access to the card.                          *)

\* PO_SR is read.  Nothing happens if none of its bits is set: the interrupt
\* was another device's.
ReadStatus ==
    /\ hpc = "out"
    /\ status # {}
    /\ acked' = status
    /\ hpc' = "ack"
    /\ UNCHANGED <<card, NEXT_DONE, REFILL_MASK, seen, todo, lag, burst, resumed, stale>>

\* Writing the bits back clears them and drops the line.
AckStatus ==
    /\ hpc = "ack"
    /\ status' = status \ acked
    /\ hpc' = "civ"
    /\ UNCHANGED <<civ, lvi, halted, NEXT_DONE, REFILL_MASK, acked, seen, todo,
                   lag, burst, resumed, stale>>

ReadCiv ==
    /\ hpc = "civ"
    /\ seen' = civ
    /\ burst' = 0
    /\ hpc' = "record"
    /\ UNCHANGED <<card, NEXT_DONE, REFILL_MASK, acked, todo, lag, resumed, stale>>

\* Mutant: the loop stops one descriptor short.
CompletedShort(from, to) ==
    {Page(i) : i \in {j \in Entry : Dist(from, j) + 1 < Dist(from, to)}}

\* The loop from NEXT_DONE up to the CIV that was read.
Completed(from, to) == {Page(i) : i \in {j \in Entry : Dist(from, j) < Dist(from, to)}}

\* Mutant: the new index is not stored.
RecordUnstored ==
    /\ hpc = "record"
    /\ REFILL_MASK' = REFILL_MASK \cup Completed(NEXT_DONE, seen)
    /\ lag' = lag - Dist(NEXT_DONE, seen)
    /\ hpc' = "lvi"
    /\ UNCHANGED <<card, NEXT_DONE, acked, seen, todo, burst, resumed, stale>>

\* Mutant: store instead of fetch_or.
RecordOverwrites ==
    /\ hpc = "record"
    /\ REFILL_MASK' = Completed(NEXT_DONE, seen)
    /\ lag' = lag - Dist(NEXT_DONE, seen)
    /\ resumed' = IF Dist(NEXT_DONE, seen) > 0 THEN FALSE ELSE resumed
    /\ NEXT_DONE' = seen
    /\ hpc' = "lvi"
    /\ UNCHANGED <<card, acked, seen, todo, burst, stale>>

Record ==
    /\ hpc = "record"
    /\ REFILL_MASK' = REFILL_MASK \cup Completed(NEXT_DONE, seen)
    /\ lag' = lag - Dist(NEXT_DONE, seen)
    /\ resumed' = IF Dist(NEXT_DONE, seen) > 0 THEN FALSE ELSE resumed
    /\ NEXT_DONE' = seen
    /\ hpc' = "lvi"
    /\ UNCHANGED <<card, acked, seen, todo, burst, stale>>

\* Mutant: PO_LVI is not written.
LviUnwritten ==
    /\ hpc = "lvi"
    /\ hpc' = "out"
    /\ UNCHANGED <<card, NEXT_DONE, REFILL_MASK, acked, seen, todo, lag, burst, resumed, stale>>

\* Mutant: the status is acknowledged at the end, after CIV was read.
LateAck ==
    /\ hpc = "lvi"
    /\ lvi' = Pred(seen)
    /\ status' = status \ acked
    /\ halted' = FALSE
    /\ civ' = IF halted THEN Succ(civ) ELSE civ
    /\ resumed' = (halted \/ resumed)
    /\ hpc' = "out"
    /\ UNCHANGED <<NEXT_DONE, REFILL_MASK, acked, seen, todo, lag, burst, stale>>

\* The last valid index follows just behind; the write restarts a halted DMA
\* at the next descriptor.
WriteLvi ==
    /\ hpc = "lvi"
    /\ lvi' = Pred(seen)
    /\ halted' = FALSE
    /\ civ' = IF halted THEN Succ(civ) ELSE civ
    /\ resumed' = (halted \/ resumed)
    /\ hpc' = "out"
    /\ UNCHANGED <<status, NEXT_DONE, REFILL_MASK, acked, seen, todo, lag, burst, stale>>

HandleIrq == ReadStatus \/ AckStatus \/ ReadCiv \/ Record \/ WriteLvi

----------------------------------------------------------------------------
(* run_synth: Refill resolves with the mask, then page by page.            *)

TakeMask ==
    /\ hpc = "out"
    /\ todo = {}
    /\ REFILL_MASK # {}
    /\ todo' = REFILL_MASK
    /\ REFILL_MASK' = {}
    /\ UNCHANGED <<card, NEXT_DONE, handler, lag, burst, resumed, stale>>

RefillPage(p) ==
    /\ hpc = "out"
    /\ p \in todo
    /\ \A q \in todo : p <= q
    /\ todo' = todo \ {p}
    /\ stale' = stale \ {p}
    /\ UNCHANGED <<card, NEXT_DONE, REFILL_MASK, handler, lag, burst, resumed>>

RunSynth == TakeMask \/ \E p \in Pages : RefillPage(p)

----------------------------------------------------------------------------
Next == Complete \/ HandleIrq \/ RunSynth

Spec == Init /\ [][Next]_vars

\* The card keeps playing, a raised line is served, the handler is far
\* shorter than a buffer, and the synth task gets the CPU (AsyncKernel).
Fairness ==
    /\ WF_vars(Complete)
    /\ WF_vars("BCIS" \in status /\ ReadStatus)
    /\ WF_vars(AckStatus \/ ReadCiv \/ Record \/ WriteLvi)
    /\ SF_vars(RunSynth)

FairSpec == Spec /\ Fairness

----------------------------------------------------------------------------
(* Properties.                                                             *)

TypeOK ==
    /\ civ \in Entry /\ lvi \in Entry /\ status \in SUBSET SR_INT_BITS /\ halted \in BOOLEAN
    /\ NEXT_DONE \in Entry /\ REFILL_MASK \in SUBSET Pages
    /\ hpc \in {"out", "ack", "civ", "record", "lvi"}
    /\ acked \in SUBSET SR_INT_BITS /\ seen \in Entry
    /\ todo \in SUBSET Pages
    /\ lag \in Nat /\ burst \in 0..Burst /\ resumed \in BOOLEAN /\ stale \in SUBSET Pages

\* The wrap-around never hides a completion: the distance from NEXT_DONE to
\* CIV is the number of completed descriptors the handler has yet to record,
\* but for the one a halted card is still standing on.
LagIsExact == lag = Dist(NEXT_DONE, civ) + (IF halted THEN 1 ELSE 0)

\* Every page that was played since its last refill will be refilled: it is
\* unrecorded, in the mask or in the synth task's hands.
NoRefillLost ==
    stale \subseteq Completed(NEXT_DONE, civ) \cup REFILL_MASK \cup todo
                    \cup (IF halted THEN {Page(civ)} ELSE {})

\* When the card's line is low, the DMA runs and the handler is up to date,
\* except that the buffer on which a halted DMA stood is recorded one
\* interrupt late.
QuietIsUpToDate ==
    hpc = "out" /\ "BCIS" \notin status => ~halted /\ lag = (IF resumed THEN 1 ELSE 0)

\* The ring is endless: a DMA that ran into its last valid index is restarted.
DmaRestarts == halted ~> ~halted

\* A page that was played is eventually refilled.
PagesAreRefilled == \A p \in Pages : p \in stale ~> p \notin stale

=============================================================================
