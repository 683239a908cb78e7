------------------------------ MODULE MCParser ------------------------------
(* The parser over families of programs, written down by the reference, and *)
(* over all short token strings.                                            *)
EXTENDS ParserReference

NoF64(op, ns) == <<op, ns>>
NoHolds(op, ns) == FALSE

CONSTANT Scores  \* families of texts to parse: [src, meant], meant is <<>> if unknown

VARIABLES score, out
vars == <<score, out>>

Unread == [ok |-> FALSE, read |-> FALSE]
Init == (\E i \in DOMAIN Scores : score \in Scores[i]) /\ out = Unread
Read == out = Unread /\ out' = Parse(score.src) /\ UNCHANGED score
Next == Read
Spec == Init /\ [][Next]_vars

IsRead == out # Unread

\* A program that is written down, with only the parentheses it needs, is read
\* back as itself: precedence, associativity, branches, fugues and the sung
\* form, whose verse is that of the plain form (parser.rs).
ReadsBack ==
    IsRead /\ score.meant # <<>> => out = score.meant[1]

Insert(s, k, t) == SubSeq(s, 1, k) \o t \o SubSeq(s, k + 1, Len(s))

\* A comment at the end of a line never matters (lexer.rs).
CommentsAreInert ==
    IsRead => \A k \in DOMAIN score.src :
                 score.src[k] = "NL" => Parse(Insert(score.src, k - 1, <<";", "B", "'laus'", "{">>)) = out

Count(s, w) == Len(SelectSeq(s, LAMBDA x : x = w))
Shallow(text) == Count(text, "(") + Count(text, "\\") < MAX_EXPR_DEPTH

InParens(s, k) == Count(SubSeq(s, 1, k), "(") > Count(SubSeq(s, 1, k), ")")

\* In the expressions of a verse "inside parentheses newlines are
\* insignificant" (parser.rs): one may be put anywhere between them.
NewlinesInParens ==
    IsRead /\ out.ok /\ out.prog.fugues = <<>> =>
              \A k \in DOMAIN score.src :
                 InParens(score.src, k) => Parse(Insert(score.src, k, <<"NL">>)) = out

\* Layout carries no meaning: comments anywhere, newlines in parentheses.
LayoutIsInert == CommentsAreInert /\ NewlinesInParens

\* How deep lambdas nest in an expression.
RECURSIVE Nesting(_)
Nesting(e) ==
    CASE e.op = "Lam" -> 1 + Nesting(e.e)
      [] e.op \in {"Pure", "Lift", "Pone"} -> Nesting(e.e)
      [] e.op = "Resolve" -> Nesting(e.g)
      [] e.op = "App" -> Max({Nesting(e.f), Nesting(e.a)})
      [] OTHER -> 0

Sounded(body) == IF body.op = "Return" THEN {body.e} ELSE {}

\* Lambdas within lambdas are refused beyond MAX_EXPR_DEPTH, however they are
\* mixed with parentheses, operators and prefixes.
LambdasAreCounted ==
    IsRead /\ out.ok =>
        \A i \in DOMAIN out.prog.verses : \A e \in Sounded(out.prog.verses[i].body) :
            Nesting(e) < MAX_EXPR_DEPTH

\* Every text that is accepted, whatever it looks like, is accepted as a
\* program that can be written down and read back, unless its parentheses
\* make it too deep, and whose lambdas are within the limit: no keyword or
\* newline leaks into a program that the grammar does not describe.
AcceptsOnlyPrograms ==
    IsRead /\ out.ok =>
        /\ Shallow(Text(out.prog)) => Parse(Text(out.prog)) = out
        /\ LambdasAreCounted

----------------------------------------------------------------------------
MCNumbers == "0" :> 0 @@ "1" :> 1
MCTexts == {"'laus'", "'s'"}

\* Expressions, two levels over a name and a number.
Grown(E) ==
    E \cup {App(f, a) : f, a \in E} \cup {Call2(op, a, b) : op \in DOMAIN Sign, a, b \in E}
      \cup {Lam("x", e) : e \in E} \cup {Pure(e) : e \in E} \cup {Lift(e) : e \in E}
      \cup {Pone(e) : e \in E} \cup {Resolve("g", e) : e \in E}
Leaves == {Var("x"), Lit(Num(1))}
OtherLeaves == {Lit(Str("'s'")), Lit(Bool(TRUE)), Arg, Lege, Ask("g"), Ask("'s'"), Var("tunc")}

PlainVerse(body) == [name |-> "v", mode |-> "Dorian", body |-> body, rhymes |-> <<>>]
Meant(prog) == <<[ok |-> TRUE, prog |-> prog]>>
Score(prog) == [src |-> Text(prog), meant |-> Meant(prog)]
OneVerse(body) == Score([fugues |-> <<>>, verses |-> <<PlainVerse(body)>>])

\* Bodies: statements before a cadence or a branch.
Ends == {Nihil, Return(Arg), Clama(Var("x")), Perage(App(Var("x"), Arg))}
Stmt(k) == {BindE(Pone(Var("x")), "_", k), BindE(Mitte(Var("x")), "_", k), BindE(Lege, "y", k)}
Bodies1 == Ends \cup UNION {Stmt(k) : k \in Ends}
Bodies2 == Bodies1 \cup {If(Var("x"), t, e) : t, e \in Bodies1}
Bodies3 == UNION {Stmt(k) : k \in Bodies2} \cup {If(Arg, t, e) : t \in Ends, e \in Bodies2 \ Bodies1}

Fugues ==
    [name : {"f"}, final : {"Mi"},
     pedals : {<<>>, <<[key |-> "g", val |-> Num(1)], [key |-> "g", val |-> Bool(FALSE)]>>},
     subject : {<<>>, <<[key |-> <<"s", "x">>, val |-> Lam("y", Var("x"))]>>},
     real : {<<>>, <<[key |-> <<"g", "h">>, val |-> Pure(Arg)]>>},
     tonal : {<<>>, <<[key |-> <<"g", "h">>, val |-> Call2("sub", Arg, Arg)]>>},
     contra : {<<>>, <<[key |-> "", val |-> Var("x")]>>}]
Programs == {Score([fugues |-> <<f, g>>, verses |-> <<PlainVerse(Nihil)>>]) : f, g \in Fugues}

MCWritten ==
    {OneVerse(Return(e)) : e \in Grown(Grown(Leaves)) \cup Grown(OtherLeaves)}
      \cup {OneVerse(b) : b \in Bodies2 \cup Bodies3}
MCWhole == MCWritten \cup Programs

\* All strings of up to five tokens (a lambda with its parameter is one), as
\* the cadence of a verse.
MCTokens == {<<"x">>, <<"1">>, <<"(">>, <<")">>, <<"\\", "x", "->">>, <<"-">>, <<"pure">>, <<"tunc">>, <<"NL">>}
Strings(n) == {FlattenSeq(s) : s \in UNION {[1..m -> MCTokens] : m \in 0..n}}
AmenOf(s) == [src |-> <<"versus", "v", "in", "Re", "{", "amen">> \o s \o <<"}">>, meant |-> <<>>]
MCStrings == {AmenOf(s) : s \in Strings(5)}

\* Descents of up to eight levels, by lambda, parenthesis and minus.
Descents == UNION {[1..n -> {<<"\\", "x", "->">>, <<"(">>, <<"-">>}] : n \in 0..8}
Closing(s) == [i \in 1..Count(s, "(") |-> ")"]
MCDescents == {AmenOf(s \o <<"x">> \o Closing(s)) : s \in {FlattenSeq(d) : d \in Descents}}

\* Verses of eight statements, plain and branching, sung to every scheme.
Song(k) == BindE(Lege, "y", BindE(Pone(Var("y")), "_", BindE(Ask("g"), "A", k)))
BranchingSongs == {Song(If(Var("y"), BindE(Arg, "z", Nihil), BindE(Pone(Arg), "_", Return(Arg))))}
Songs == BranchingSongs \cup {Song(Song(BindE(Arg, "z", Return(Var("z")))))}
Sings(body, rhymes) ==
    LET verse == [PlainVerse(body) EXCEPT !.rhymes = rhymes]
        answered == \A i \in 1..8 : \E j \in 1..8 \ {i} : rhymes[i] = rhymes[j]
    IN [src |-> Sung(verse),
        meant |-> IF rhymes[7] = rhymes[8] /\ answered
                  THEN Meant([fugues |-> <<>>, verses |-> <<verse>>]) ELSE <<Error>>]
MCSung ==
    {Sings(b, r) : b \in Songs, r \in [1..8 -> {"A", "B"}]}
      \cup {Sings(b, r) : b \in BranchingSongs, r \in [1..8 -> {"A", "B", "C"}]}

MCScores == <<MCWhole, MCStrings, MCDescents, MCSung>>
=============================================================================
