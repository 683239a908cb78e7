-------------------------- MODULE ParserReference --------------------------
(***************************************************************************)
(* How a program is written down: the plain form with as few parentheses   *)
(* as the grammar allows, and the sung form.  What parse should read back. *)
(***************************************************************************)
EXTENDS Parser

\* How tightly an expression binds: 1 a sum, 2 a product, 3 an application,
\* 4 an atom, 0 one that only fits between parentheses or at the end.
IsCall2(e, names) == e.op = "App" /\ e.f.op = "App" /\ e.f.f.op = "Var" /\ e.f.f.x \in names
IsMinus(e) == IsCall2(e, {"sub"}) /\ e.f.a = Lit(Num(0))
Tightness(e) ==
    CASE e.op = "Lam" -> 0
      [] IsCall2(e, {"add", "sub"}) -> IF IsMinus(e) THEN 4 ELSE 1
      [] IsCall2(e, {"mul", "div"}) -> 2
      [] e.op = "App" /\ ~IsCall2(e, {"add", "sub", "mul", "div"}) -> 3
      [] OTHER -> 4
Sign == [add |-> "+", sub |-> "-", mul |-> "*", div |-> "/"]
NumberOf(n) == CHOOSE w \in DOMAIN Numbers : Numbers[w] = n

\* An argument may not start with a word that ends applications.
RECURSIVE Written(_)
Bracketed(e) == <<"(">> \o Written(e) \o <<")">>
At1(e, tightness) == IF Tightness(e) >= tightness THEN Written(e) ELSE Bracketed(e)
Operand(e) == IF Tightness(e) = 4 /\ Head(Written(e)) \notin Stops \cup {"-"} THEN Written(e) ELSE Bracketed(e)

Written(e) ==
    CASE e.op = "Lit" -> <<CASE e.v.ty = "num" -> NumberOf(e.v.num)
                             [] e.v.ty = "str" -> e.v.str
                             [] e.v.ty = "bool" -> IF e.v.bool THEN "verum" ELSE "falsum">>
      [] e.op = "Var" -> <<e.x>>
      [] e.op = "Arg" -> <<"arg">>
      [] e.op = "Lege" -> <<"lege">>
      [] e.op = "Ask" -> <<"ask", e.x>>
      [] e.op = "Resolve" -> <<"resolve", e.x>> \o At1(e.g, 4)
      [] e.op = "Pure" -> <<"pure">> \o At1(e.e, 4)
      [] e.op = "Lift" -> <<"leva">> \o At1(e.e, 4)
      [] e.op = "Pone" -> <<"pone">> \o At1(e.e, 4)
      [] e.op = "Lam" -> <<"\\", e.x, "->">> \o Written(e.e)
      [] e.op = "App" ->
            IF IsMinus(e) THEN <<"-">> \o At1(e.a, 4)
            ELSE IF Tightness(e) = 3 THEN At1(e.f, 3) \o Operand(e.a)
            ELSE At1(e.f.a, Tightness(e)) \o <<Sign[e.f.f.x]>> \o At1(e.a, Tightness(e) + 1)

\* The lines of a verse, and the verse in its braces.
RECURSIVE Lines(_)
Lines(e) ==
    CASE e.op = "Bind" ->
            <<CASE e.m.op \in {"Pone", "Mitte"} /\ e.x = "_" ->
                     <<IF e.m.op = "Pone" THEN "pone" ELSE "mitte">> \o Written(e.m.e)
                [] OTHER -> <<e.x, "<-">> \o Written(e.m)>> \o Lines(e.k)
      [] e.op = "If" ->
            <<<<"si">> \o Written(e.c) \o <<"tunc", "{">>>> \o Lines(e.t)
              \o <<<<"}", "aliter", "{">>>> \o Lines(e.e) \o <<<<"}">>>>
      [] e.op = "Nihil" -> <<<<"nihil">>>>
      [] e.op = "Return" -> <<<<"amen">> \o Written(e.e)>>
      [] e.op = "Clama" -> <<<<"clama">> \o Written(e.e)>>
      [] e.op = "Perage" -> <<<<"perage">> \o Written(e.e)>>

Joined2(lines) == FoldLeft(LAMBDA s, l : s \o <<"NL">> \o l, <<>>, lines)
ModeName(mode) ==
    CHOOSE w \in DOMAIN Finals : FromFinal(Finals[w][1], Finals[w][2]) = mode
Verse(v, lines) == <<"versus", v.name, "in", ModeName(v.mode), "{">> \o Joined2(lines) \o <<"NL", "}", "NL">>
Plain(v) == Verse(v, Lines(v.body))

\* The sung form labels the i-th of the statements; a line that only closes or
\* opens a block goes unlabelled.
IsStatement(l) == l[1] # "}"
Sung(v) ==
    LET lines == Lines(v.body)
        nth(i) == Len(SelectSeq(SubSeq(lines, 1, i), IsStatement))
    IN Verse(v, [i \in DOMAIN lines |->
                    IF IsStatement(lines[i]) THEN <<v.rhymes[nth(i)], "'laus'", ";">> \o lines[i] ELSE lines[i]])

MemberLine(list, m) ==
    CASE list = "pedals" -> <<"pedale", m.key, "=">> \o Written(Lit(m.val))
      [] list = "subject" -> <<"subiectum", m.key[1], "(", m.key[2], ")", "=">> \o Written(m.val)
      [] list = "real" -> <<"reale", m.key[1], "@", m.key[2], "=">> \o Written(m.val)
      [] list = "tonal" -> <<"tonale", m.key[1], "@", m.key[2], "=">> \o Written(m.val)
      [] list = "contra" -> <<"contra">> \o Written(m.val)
FugueText(f) ==
    LET lines(list) == [i \in DOMAIN f[list] |-> MemberLine(list, f[list][i])]
    IN <<"fuga", f.name, "in", f.final, "{">>
         \o Joined2(lines("pedals") \o lines("subject") \o lines("real") \o lines("tonal") \o lines("contra"))
         \o <<"NL", "}", "NL">>

\* A whole program: verses with rhymes are sung.
Text(prog) ==
    FoldLeft(LAMBDA s, f : s \o FugueText(f), <<>>, prog.fugues)
      \o FoldLeft(LAMBDA s, v : s \o (IF v.rhymes = <<>> THEN Plain(v) ELSE Sung(v)), <<>>, prog.verses)
=============================================================================
