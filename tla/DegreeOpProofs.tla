--------------------------- MODULE DegreeOpProofs ---------------------------
(***************************************************************************)
(* Proofs about the table of degrees: a melody of any length, played in    *)
(* any octave, is heard with the operations it was rendered from.          *)
(***************************************************************************)
EXTENDS DegreeOp, TLAPS

Final == {"Re", "Mi", "Fa", "Sol"}

----------------------------------------------------------------------------
(* The modes.                                                              *)

LEMMA Modes ==
    /\ FromFinal("Re", FALSE) = "Dorian" /\ FromFinal("Re", TRUE) = "Hypodorian"
    /\ FromFinal("Mi", FALSE) = "Phrygian" /\ FromFinal("Mi", TRUE) = "Hypophrygian"
    /\ FromFinal("Fa", FALSE) = "Lydian" /\ FromFinal("Fa", TRUE) = "Hypolydian"
    /\ FromFinal("Sol", FALSE) = "Mixolydian" /\ FromFinal("Sol", TRUE) = "Hypomixolydian"
    /\ DOMAIN ModesOf = Final
BY DEF FromFinal, ModesOf, Final

\* A mode is that of its final, authentic or plagal.
LEMMA ModeOfFinal ==
    ASSUME NEW f \in Final, NEW p \in BOOLEAN
    PROVE  /\ FinalOf(FromFinal(f, p)) = f
           /\ IsPlagal(FromFinal(f, p)) <=> p
<1> DEFINE m == FromFinal(f, p)
           Of(g) == m \in {FromFinal(g, FALSE), FromFinal(g, TRUE)}
<1>1. \A g \in Final : Of(g) <=> g = f
  BY Modes DEF Final
<1>2. FinalOf(m) = CHOOSE g \in Final : Of(g)
  BY Modes DEF FinalOf
<1>3. FinalOf(m) = f
  <2> HIDE DEF Of, m
  <2> QED BY <1>1, <1>2
<1>4. IsPlagal(m) <=> m = FromFinal(f, TRUE)
  BY <1>3 DEF IsPlagal
<1>5. m = FromFinal(f, TRUE) <=> p
  BY Modes DEF Final
<1> QED BY <1>3, <1>4, <1>5

LEMMA EveryMode ==
    ASSUME NEW m \in Mode
    PROVE  \E f \in Final, p \in BOOLEAN : m = FromFinal(f, p)
BY Modes DEF Mode, Final

----------------------------------------------------------------------------
(* The degrees.                                                            *)

\* The scale of a final: it rises from the final to the octave.
LEMMA ScaleRises ==
    ASSUME NEW f \in Final
    PROVE  /\ \A d \in 1..8 : Scale[f][d] \in 0..12
           /\ \A d, e \in 1..8 : d < e => Scale[f][d] < Scale[f][e]
           /\ Scale[f][1] = 0 /\ Scale[f][6] > 7 /\ Scale[f][8] = 12 /\ Scale[f][7] < 12
<1>1. CASE f = "Re"
  BY <1>1 DEF Scale
<1>2. CASE f = "Mi"
  BY <1>2 DEF Scale
<1>3. CASE f = "Fa"
  BY <1>3 DEF Scale
<1>4. CASE f = "Sol"
  BY <1>4 DEF Scale
<1> QED BY <1>1, <1>2, <1>3, <1>4 DEF Final

LEMMA OffsetOf ==
    ASSUME NEW f \in Final, NEW p \in BOOLEAN, NEW d \in 1..8
    PROVE  DegreeOffset(FromFinal(f, p), d) =
               IF ~p THEN Scale[f][d]
               ELSE IF d \in {6, 7} THEN Scale[f][d] - 12
               ELSE IF d = 8 THEN -5 ELSE Scale[f][d]
BY ModeOfFinal DEF DegreeOffset

\* No two degrees of a mode have the same pitch, the first is the final, and
\* only a plagal mode has degrees below it: the upper three.
LEMMA Offsets ==
    ASSUME NEW f \in Final, NEW p \in BOOLEAN
    PROVE  /\ \A d \in 1..8 : DegreeOffset(FromFinal(f, p), d) \in Int
           /\ DegreeOffset(FromFinal(f, p), 1) = 0
           /\ \A d, e \in 1..8 : DegreeOffset(FromFinal(f, p), d) = DegreeOffset(FromFinal(f, p), e) => d = e
           /\ \A d \in 1..8 : DegreeOffset(FromFinal(f, p), d) < 0 <=> p /\ d \in 6..8
           /\ \A d \in 1..5 : DegreeOffset(FromFinal(f, p), d) = DegreeOffset(FromFinal(f, FALSE), d)
<1> DEFINE O(d) == DegreeOffset(FromFinal(f, p), d)
           S(d) == Scale[f][d]
<1>1. \A d \in 1..8 : O(d) = IF ~p THEN S(d) ELSE IF d \in {6, 7} THEN S(d) - 12 ELSE IF d = 8 THEN -5 ELSE S(d)
  BY OffsetOf
<1>2. \A d \in 1..8 : DegreeOffset(FromFinal(f, FALSE), d) = S(d)
  BY OffsetOf
<1>3. /\ \A d \in 1..8 : S(d) \in 0..12
      /\ \A d, e \in 1..8 : d < e => S(d) < S(e)
      /\ S(1) = 0 /\ S(6) > 7 /\ S(8) = 12 /\ S(7) < 12
  BY ScaleRises
<1> HIDE DEF O, S
<1>4. \A d \in 1..8 : O(d) \in Int
  BY <1>1, <1>3
<1>5. O(1) = 0
  BY <1>1, <1>3
<1>6. \A d \in 1..8 : O(d) < 0 <=> p /\ d \in 6..8
  <2>1. S(6) < S(7)
    BY <1>3
  <2> QED BY <1>1, <1>3, <2>1
<1>7. \A d, e \in 1..8 : O(d) = O(e) => d = e
  <2>1. ASSUME NEW d \in 1..8, NEW e \in 1..8, d < e PROVE O(d) # O(e)
    <3>1. S(d) < S(e) /\ S(d) \in 0..12 /\ S(e) \in 0..12
      BY <1>3, <2>1
    <3>2. CASE ~p
      BY <1>1, <3>1, <3>2
    <3>3. CASE p /\ e \in 1..5
      BY <1>1, <2>1, <3>1, <3>3
    <3>4. CASE p /\ e \in 6..8 /\ d \in 1..5
      <4>1. O(e) < 0 /\ ~(O(d) < 0)
        BY <1>6, <3>4
      <4> QED BY <4>1
    <3>5. CASE p /\ e \in 6..8 /\ d \in 6..8
      <4>1. d = 6 \/ d = 7
        BY <2>1, <3>5
      <4>2. S(6) < S(7) /\ S(6) \in Int /\ S(7) \in Int
        BY <1>3
      <4>3. O(6) = S(6) - 12 /\ O(7) = S(7) - 12 /\ O(8) = -5
        BY <1>1, <3>5
      <4>4. O(6) < O(7) /\ O(8) < O(6) /\ O(6) \in Int /\ O(7) \in Int /\ O(8) \in Int
        BY <1>3, <4>2, <4>3
      <4>5. (d = 6 /\ e = 7) \/ (d = 6 /\ e = 8) \/ (d = 7 /\ e = 8)
        BY <2>1, <3>5, <4>1
      <4> QED BY <4>4, <4>5
    <3> QED BY <2>1, <3>2, <3>3, <3>4, <3>5
  <2> QED BY <2>1
<1>8. \A d \in 1..5 : O(d) = DegreeOffset(FromFinal(f, FALSE), d)
  <2> SUFFICES ASSUME NEW d \in 1..5 PROVE O(d) = DegreeOffset(FromFinal(f, FALSE), d)
    OBVIOUS
  <2>1. d \in 1..8 /\ d \notin {6, 7} /\ d # 8
    OBVIOUS
  <2>2. O(d) = S(d)
    BY <1>1, <2>1
  <2> QED BY <1>2, <2>1, <2>2
<1> QED BY <1>4, <1>5, <1>6, <1>7, <1>8 DEF O

\* Every operation has a degree, which is read back as the operation; of a
\* plagal mode, read as the authentic one, the lower five as Mistaken says.
LEMMA DegreesReadBack ==
    ASSUME NEW f \in Final, NEW p \in BOOLEAN, NEW op \in RenderOp
    PROVE  /\ Degree(FromFinal(f, p), op) \in 1..8
           /\ OpOfDegree(FromFinal(f, p), Degree(FromFinal(f, p), op)) = op
           /\ Degree(FromFinal(f, p), "Cadence") = 1
           /\ p => OpOfDegree(FromFinal(f, FALSE), Degree(FromFinal(f, p), op)) = Mistaken(op)
<1> DEFINE m == FromFinal(f, p)
           a == FromFinal(f, FALSE)
<1>1. (IsPlagal(m) <=> p) /\ ~IsPlagal(a)
  BY ModeOfFinal
<1> HIDE DEF m, a
<1>2. Degree(m, op) \in 1..8
  BY <1>1 DEF Degree, RenderOp
<1>3. OpOfDegree(m, Degree(m, op)) = op
  BY <1>1 DEF Degree, RenderOp, OpOfDegree
<1>4. p => OpOfDegree(a, Degree(m, op)) = Mistaken(op)
  BY <1>1 DEF Degree, RenderOp, OpOfDegree, Mistaken
<1>5. Degree(m, "Cadence") = 1
  BY DEF Degree
<1> QED BY <1>2, <1>3, <1>4, <1>5 DEF m, a

\* The pitch of a final, in any octave, is that of no other final.
LEMMA FinalsDiffer ==
    ASSUME NEW f \in Final, NEW k \in Int
    PROVE  FinalPitch[f] \in Int /\ FinalsOf(FinalPitch[f] + 12 * k) = {f}
<1>1. DOMAIN FinalPitch = Final /\ FinalPitch["Re"] = 62 /\ FinalPitch["Mi"] = 64
      /\ FinalPitch["Fa"] = 65 /\ FinalPitch["Sol"] = 67
  BY DEF FinalPitch, Final
<1>2. /\ (62 + 12 * k) % 12 = 2 /\ (64 + 12 * k) % 12 = 4
      /\ (65 + 12 * k) % 12 = 5 /\ (67 + 12 * k) % 12 = 7
  OBVIOUS
<1>3. 62 % 12 = 2 /\ 64 % 12 = 4 /\ 65 % 12 = 5 /\ 67 % 12 = 7
  OBVIOUS
<1>4. \A g \in Final : FinalPitch[g] % 12 = (FinalPitch[f] + 12 * k) % 12 <=> g = f
  BY <1>1, <1>2, <1>3 DEF Final
<1> QED BY <1>1, <1>4 DEF FinalsOf, Final

----------------------------------------------------------------------------
(* The theorem.                                                            *)

\* What is heard when every note is a degree of the mode that is heard.
LEMMA HearDegrees ==
    ASSUME NEW f \in Final, NEW q \in BOOLEAN, NEW n \in Nat, n >= 1, NEW pitches \in [1..n -> Int],
           NEW k \in Int, pitches[n] = FinalPitch[f] + 12 * k, Last(pitches) = pitches[n],
           pitches # <<>>, NEW degree \in [1..n -> 1..8],
           q <=> \E i \in 1..n : pitches[i] < pitches[n],
           \A i \in 1..n : pitches[i] - pitches[n] = DegreeOffset(FromFinal(f, q), degree[i])
    PROVE  Hear(pitches) = [err |-> "none", mode |-> FromFinal(f, q),
                            ops |-> [i \in 1..n |-> OpOfDegree(FromFinal(f, q), degree[i])]]
<1> DEFINE m == FromFinal(f, q)
           At(i) == DegreesAt(m, pitches[i] - pitches[n])
<1>1. FinalsOf(Last(pitches)) = {f} /\ DOMAIN pitches = 1..n
  BY FinalsDiffer
<1>2. (CHOOSE g \in {f} : TRUE) = f
  OBVIOUS
<1>3. HeardMode(pitches) = FromFinal(f, \E i \in 1..n : pitches[i] < pitches[n])
  BY <1>1, <1>2 DEF HeardMode
<1>4. HeardMode(pitches) = m
  BY <1>3
<1>5. \A i \in 1..n : At(i) = {degree[i]}
  <2> SUFFICES ASSUME NEW i \in 1..n PROVE At(i) = {degree[i]}
    OBVIOUS
  <2>1. pitches[i] - pitches[n] = DegreeOffset(m, degree[i]) /\ degree[i] \in 1..8
    OBVIOUS
  <2>2. \A d, e \in 1..8 : DegreeOffset(m, d) = DegreeOffset(m, e) => d = e
    BY Offsets
  <2> HIDE DEF m
  <2>3. \A d \in 1..8 : DegreeOffset(m, d) = DegreeOffset(m, degree[i]) <=> d = degree[i]
    BY <2>1, <2>2
  <2> QED BY <2>1, <2>3 DEF DegreesAt
<1> HIDE DEF At
<1>6. \A i \in 1..n : At(i) # {} /\ Min(At(i)) = degree[i]
  <2> SUFFICES ASSUME NEW i \in 1..n PROVE At(i) # {} /\ Min(At(i)) = degree[i]
    OBVIOUS
  <2>1. degree[i] \in 1..8
    OBVIOUS
  <2>2. At(i) = {degree[i]}
    BY <1>5
  <2>3. Min({degree[i]}) = degree[i]
    <3>1. degree[i] <= degree[i]
      BY <2>1
    <3> QED BY <3>1 DEF Min
  <2> QED BY <2>2, <2>3
<1>7. Hear(pitches) = [err |-> "none", mode |-> m,
                       ops |-> [i \in 1..n |-> OpOfDegree(m, Min(At(i)))]]
  BY <1>1, <1>4, <1>6 DEF Hear, At
<1> QED BY <1>6, <1>7

\* What was rendered is heard: a melody of operations of any length that ends
\* in a cadence, sung in any of the eight modes and played in any octave, is
\* transcribed with its mode and its operations; only a plagal melody that
\* never dips below its final is taken for the authentic mode, with ask and
\* pure exchanged.
THEOREM MelodiesAreHeardBack ==
    ASSUME NEW mode \in Mode, NEW ops \in Seq(RenderOp), NEW octave \in Int,
           ops # <<>>, Last(ops) = "Cadence"
    PROVE  HeardBack(mode, ops, octave)
<1>1. PICK f \in Final, p \in BOOLEAN : mode = FromFinal(f, p)
  BY EveryMode
<1> DEFINE n == Len(ops)
           pitches == Played(mode, ops, octave)
           degree == [i \in 1..n |-> Degree(mode, ops[i])]
           a == FromFinal(f, FALSE)
           dips == \E i \in 1..n : pitches[i] < pitches[n]
<1>2. n \in Nat /\ n >= 1 /\ DOMAIN ops = 1..n /\ ops[n] = "Cadence" /\ \A i \in 1..n : ops[i] \in RenderOp
  BY DEF Last
<1>3. FinalOf(mode) = f /\ (IsPlagal(mode) <=> p)
  BY <1>1, ModeOfFinal
<1>4. degree \in [1..n -> 1..8] /\ degree[n] = 1
  <2>1. \A i \in 1..n : Degree(mode, ops[i]) \in 1..8
    BY <1>1, <1>2, DegreesReadBack
  <2>2. Degree(mode, "Cadence") = 1
    BY DEF Degree
  <2> QED BY <1>2, <2>1, <2>2
<1>5. FinalPitch[f] \in Int
  BY FinalsDiffer
<1>6. pitches = [i \in 1..n |-> FinalPitch[f] + DegreeOffset(mode, degree[i]) + 12 * octave]
  BY <1>2, <1>3 DEF Played, DegreePitch
<1> HIDE DEF pitches, degree, n
<1>7. \A i \in 1..n : DegreeOffset(mode, degree[i]) \in Int
  BY <1>1, <1>4, Offsets
<1>8. pitches \in [1..n -> Int] /\ pitches[n] = FinalPitch[f] + 12 * octave
  <2>1. DegreeOffset(mode, degree[n]) = 0
    BY <1>1, <1>4, Offsets
  <2> QED BY <1>2, <1>5, <1>6, <1>7, <2>1
<1>9. \A i \in 1..n : pitches[i] - pitches[n] = DegreeOffset(mode, degree[i])
  BY <1>5, <1>6, <1>7, <1>8
<1>10. pitches # <<>> /\ Len(pitches) = n /\ Last(pitches) = pitches[n] /\ DOMAIN pitches = 1..n
  <2>1. pitches \in Seq(Int) /\ Len(pitches) = n
    BY <1>2, <1>8
  <2> QED BY <1>2, <1>8, <2>1 DEF Last
<1>11. \A i \in 1..n : pitches[i] < pitches[n] <=> p /\ degree[i] \in 6..8
  <2>1. \A i \in 1..n : DegreeOffset(mode, degree[i]) < 0 <=> p /\ degree[i] \in 6..8
    BY <1>1, <1>4, Offsets
  <2>2. \A i \in 1..n : pitches[i] \in Int /\ pitches[n] \in Int
    BY <1>2, <1>8
  <2> QED BY <1>9, <2>1, <2>2
<1>12. ShowsItsMode(mode, pitches) <=> (p => dips)
  BY <1>3, <1>10 DEF ShowsItsMode
<1>13. CASE p => dips
  <2>1. p <=> dips
    BY <1>11, <1>13
  <2>2. Hear(pitches) = [err |-> "none", mode |-> FromFinal(f, p),
                         ops |-> [i \in 1..n |-> OpOfDegree(FromFinal(f, p), degree[i])]]
    BY <1>1, <1>2, <1>4, <1>8, <1>9, <1>10, <2>1, HearDegrees
  <2>3. \A i \in 1..n : OpOfDegree(mode, degree[i]) = ops[i]
    BY <1>1, <1>2, DegreesReadBack DEF degree
  <2>4. ops = [i \in 1..n |-> ops[i]]
    BY <1>2
  <2>5. Hear(pitches) = [err |-> "none", mode |-> mode, ops |-> ops]
    BY <1>1, <2>2, <2>3, <2>4
  <2> QED BY <1>12, <1>13, <2>5 DEF HeardBack, pitches
<1>14. CASE p /\ ~dips
  <2>1. \A i \in 1..n : degree[i] \in 1..5
    BY <1>4, <1>11, <1>14
  <2>2. \A i \in 1..n : pitches[i] - pitches[n] = DegreeOffset(a, degree[i])
    BY <1>1, <1>9, <2>1, Offsets
  <2>3. Hear(pitches) = [err |-> "none", mode |-> a,
                         ops |-> [i \in 1..n |-> OpOfDegree(a, degree[i])]]
    BY <1>2, <1>4, <1>8, <1>10, <1>14, <2>2, HearDegrees
  <2>4. \A i \in 1..n : OpOfDegree(a, degree[i]) = Mistaken(ops[i])
    BY <1>1, <1>2, <1>14, DegreesReadBack DEF degree
  <2>5. Hear(pitches) = [err |-> "none", mode |-> FromFinal(FinalOf(mode), FALSE),
                         ops |-> [i \in DOMAIN ops |-> Mistaken(ops[i])]]
    BY <1>2, <1>3, <2>3, <2>4
  <2> QED BY <1>12, <1>14, <2>5 DEF HeardBack, pitches
<1> QED BY <1>13, <1>14

=============================================================================
