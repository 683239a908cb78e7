------------------------------- MODULE Parser -------------------------------
(***************************************************************************)
(* officium-parse: the line structure of the lexer (lexer.rs) and the      *)
(* recursive descent to the Core IR (parser.rs).  A lexeme is its text,    *)
(* "NL" a newline and ";" a semicolon; identifiers are the words that are  *)
(* neither punctuation, number nor string.  i is the parser's pos, p its   *)
(* paren_depth and d its expr_depth.                                       *)
(***************************************************************************)
EXTENDS Officium

CONSTANTS
    MAX_EXPR_DEPTH,  \* 96
    Numbers,         \* number lexemes and what they denote, a function
    Texts            \* string lexemes

Punctuation ==
    {"{", "}", "(", ")", "=", "@", "->", "<-", "\\", "+", "-", "*", "/", ";", "NL", "EOF"}
RhymeLabel == {"A", "B", "C", "D"}
IsIdent(w) == w \notin Punctuation \cup DOMAIN Numbers \cup Texts

----------------------------------------------------------------------------
(* lexer.rs.                                                               *)

IsSung(head) == Len(head) = 2 /\ head[1] \in RhymeLabel /\ head[2] \in Texts

\* A token, and the tokens since the last newline.
Emit(s, w) ==
    CASE w # "NL" -> [s EXCEPT !.toks = Append(@, w), !.head = Append(@, w)]
      [] w = "NL" /\ s.head = <<>> -> [s EXCEPT !.comment = FALSE]
      [] w = "NL" /\ s.head # <<>> -> [toks |-> Append(s.toks, w), head |-> <<>>, comment |-> FALSE]

\* One lexeme: runs of newlines collapse, and a semicolon starts a comment
\* unless it ends the head of a sung line.
LexOne(s, w) ==
    CASE s.comment /\ w # "NL" -> s
      [] w = ";" /\ ~s.comment /\ ~IsSung(s.head) -> [s EXCEPT !.comment = TRUE]
      [] OTHER -> Emit(s, w)

RECURSIVE LexFrom(_, _, _)
LexFrom(src, i, s) == IF i > Len(src) THEN s.toks ELSE LexFrom(src, i + 1, LexOne(s, src[i]))
Lex(src) == LexFrom(src, 1, [toks |-> <<>>, head |-> <<>>, comment |-> FALSE])

----------------------------------------------------------------------------
(* The token stream.                                                       *)

\* A parse is either a result and the position after it, or an error.
Parsed(e, i) == [ok |-> TRUE, e |-> e, pos |-> i]
Error == [ok |-> FALSE]

At(t, i) == IF i <= Len(t) THEN t[i] ELSE "EOF"

RECURSIVE SkipNewlines(_, _)
SkipNewlines(t, i) == IF At(t, i) = "NL" THEN SkipNewlines(t, i + 1) ELSE i

\* Mutant: a newline always ends an expression.
PeekPlain(t, i, p) == i

\* peek: inside parentheses newlines are just whitespace.
Peek(t, i, p) == IF p > 0 THEN SkipNewlines(t, i) ELSE i

\* expect, after a part that was parsed: it ends with this token.
Expect(t, r, p, want) ==
    IF ~r.ok \/ At(t, Peek(t, r.pos, p)) # want THEN Error ELSE Parsed(r.e, Peek(t, r.pos, p) + 1)

Ident(t, i, p) ==
    LET j == Peek(t, i, p) IN IF IsIdent(At(t, j)) THEN Parsed(t[j], j + 1) ELSE Error
NameArg(t, i, p) ==
    LET j == Peek(t, i, p)
    IN IF IsIdent(At(t, j)) \/ At(t, j) \in Texts THEN Parsed(t[j], j + 1) ELSE Error

----------------------------------------------------------------------------
(* Expressions.                                                            *)

Call2(name, a, b) == App(App(Var(name), a), b)

Stops ==
    {"tunc", "aliter", "amen", "nihil", "clama", "perage", "si", "pone", "mitte", "fuga",
     "versus", "in", "pedale", "subiectum", "reale", "tonale", "contra"}
StartsAtom(w) ==
    w \in DOMAIN Numbers \cup Texts \cup {"(", "\\"} \/ (IsIdent(w) /\ w \notin Stops)

\* additive is level 1, multiplicative level 2, over application.
Infix == <<"+" :> "add" @@ "-" :> "sub", "*" :> "mul" @@ "/" :> "div">>

RECURSIVE Expr(_, _, _, _), Binary(_, _, _, _, _), Operands(_, _, _, _, _)
RECURSIVE Arguments(_, _, _, _), Atom(_, _, _, _)

Expr(t, i, p, d) == IF d + 1 > MAX_EXPR_DEPTH THEN Error ELSE Binary(1, t, i, p, d + 1)

Binary(level, t, i, p, d) ==
    IF level = 3 THEN Arguments(t, Atom(t, i, p, d), p, d)
    ELSE Operands(level, t, Binary(level + 1, t, i, p, d), p, d)

\* An operator between two operands.
Between(op, lhs, rhs) == IF rhs.ok THEN Parsed(Call2(op, lhs.e, rhs.e), rhs.pos) ELSE Error

\* Mutant: operators associate to the right.
OperandsRight(level, t, lhs, p, d) ==
    LET j == Peek(t, lhs.pos, p)
    IN CASE ~lhs.ok -> Error
         [] lhs.ok /\ At(t, j) \notin DOMAIN Infix[level] -> Parsed(lhs.e, j)
         [] OTHER -> Between(Infix[level][t[j]], lhs, Binary(level, t, j + 1, p, d))

\* The loop over further operands, to the left.
Operands(level, t, lhs, p, d) ==
    LET j == Peek(t, lhs.pos, p)
    IN CASE ~lhs.ok -> Error
         [] lhs.ok /\ At(t, j) \notin DOMAIN Infix[level] -> Parsed(lhs.e, j)
         [] OTHER -> Operands(level, t, Between(Infix[level][t[j]], lhs, Binary(level + 1, t, j + 1, p, d)), p, d)

\* The loop of application.
Applied(f, a) == IF a.ok THEN Parsed(App(f.e, a.e), a.pos) ELSE Error
Arguments(t, f, p, d) ==
    LET j == Peek(t, f.pos, p)
    IN CASE ~f.ok -> Error
         [] f.ok /\ ~StartsAtom(At(t, j)) -> Parsed(f.e, j)
         [] OTHER -> Arguments(t, Applied(f, Atom(t, j, p, d)), p, d)

\* Mutant: a prefix takes a whole application.
PrefixArgGreedy(t, i, p, d) == Binary(3, t, i, p, d)
PrefixArg(t, i, p, d) == Atom(t, i, p, d)

\* What a prefix word makes of the atom after it.
Prefixed(w, r) ==
    IF ~r.ok THEN Error
    ELSE Parsed(CASE w = "-" -> Call2("sub", Lit(Num(0)), r.e)
                  [] w = "pure" -> Pure(r.e)
                  [] w = "leva" -> Lift(r.e)
                  [] w = "pone" -> Pone(r.e), r.pos)

\* \ param -> body
Abstracted(x, body) == IF body.ok THEN Parsed(Lam(x, body.e), body.pos) ELSE Error
Lambda(t, param, p, d) == IF param.ok THEN Abstracted(param.e, Expr(t, param.pos, p, d)) ELSE Error

Asked(name) == IF name.ok THEN Parsed(Ask(name.e), name.pos) ELSE Error
OfGenus(name, genus) == IF genus.ok THEN Parsed(Resolve(name, genus.e), genus.pos) ELSE Error
Resolved(t, name, p, d) == IF name.ok THEN OfGenus(name.e, PrefixArg(t, name.pos, p, d)) ELSE Error

PrefixWords == {"-", "pure", "leva", "pone"}
Reserved == PrefixWords \cup {"arg", "lege", "verum", "falsum", "ask", "resolve"}

Atom(t, i, p, d) ==
    LET j == Peek(t, i, p)
        w == At(t, j)
    IN CASE w \in DOMAIN Numbers -> Parsed(Lit(Num(Numbers[w])), j + 1)
         [] w \in Texts -> Parsed(Lit(Str(w)), j + 1)
         [] w = "(" -> Expect(t, Expr(t, j + 1, p + 1, d), p, ")")
         [] w = "\\" -> Lambda(t, Expect(t, Ident(t, j + 1, p), p, "->"), p, d)
         [] w \in PrefixWords -> Prefixed(w, PrefixArg(t, j + 1, p, d))
         [] w = "arg" -> Parsed(Arg, j + 1)
         [] w = "lege" -> Parsed(Lege, j + 1)
         [] w \in {"verum", "falsum"} -> Parsed(Lit(Bool(w = "verum")), j + 1)
         [] w = "ask" -> Asked(NameArg(t, j + 1, p))
         [] w = "resolve" -> Resolved(t, NameArg(t, j + 1, p), p, d)
         [] IsIdent(w) /\ w \notin Reserved -> Parsed(Var(w), j + 1)
         [] OTHER -> Error

----------------------------------------------------------------------------
(* Statements: a bind chain that ends in a cadence, or in a branch whose   *)
(* arms do.  Parentheses are closed and expr_depth is 0 between them.      *)

Keyword(t, i, w) == At(t, i) = w
Close(t, r) == IF r.ok THEN Expect(t, [r EXCEPT !.pos = SkipNewlines(t, @)], 0, "}") ELSE Error

Cadences == {"amen", "clama", "perage"}
Cadence(w, r) ==
    IF ~r.ok THEN Error
    ELSE Parsed(CASE w = "amen" -> Return(r.e) [] w = "clama" -> Clama(r.e) [] w = "perage" -> Perage(r.e),
                r.pos)

\* A keyword and an opening brace, with newlines before each.
Opened(t, i, w) ==
    LET j == SkipNewlines(t, i)
        k == SkipNewlines(t, j + 1)
    IN IF Keyword(t, j, w) /\ At(t, k) = "{" THEN Parsed(Unit, k + 1) ELSE Error

RECURSIVE Stmts(_, _)

\* si cond tunc { ... } aliter { ... }, and the end of the block around it.
Else(t, c, then, else) == IF else.ok THEN Close(t, Parsed(If(c, then, else.e), else.pos)) ELSE Error
Aliter(t, c, then, open) == IF open.ok THEN Else(t, c, then, Stmts(t, open.pos)) ELSE Error
Then(t, c, then) == IF then.ok THEN Aliter(t, c, then.e, Opened(t, then.pos, "aliter")) ELSE Error
Tunc(t, c, open) == IF open.ok THEN Then(t, c, Stmts(t, open.pos)) ELSE Error
Branch(t, cond) ==
    IF cond.ok /\ Keyword(t, cond.pos, "tunc") THEN Tunc(t, cond.e, Opened(t, cond.pos, "tunc")) ELSE Error

\* A statement, bound to its name, and the statements after it.
Spliced(m, name, rest) == IF rest.ok THEN Parsed(BindE(m, name, rest.e), rest.pos) ELSE Error
Chain(t, m, name) == IF m.ok THEN Spliced(m.e, name, Stmts(t, m.pos)) ELSE Error
Sent(w, r) == IF ~r.ok THEN Error ELSE Parsed(IF w = "pone" THEN Pone(r.e) ELSE Mitte(r.e), r.pos)
BindStmt(t, name) == IF name.ok THEN Chain(t, Expr(t, name.pos, 0, 0), name.e) ELSE Error

Stmts(t, i) ==
    LET j == SkipNewlines(t, i)
        w == At(t, j)
    IN CASE w \in Cadences -> Close(t, Cadence(w, Expr(t, j + 1, 0, 0)))
         [] w = "nihil" -> Close(t, Parsed(Nihil, j + 1))
         [] w = "si" -> Branch(t, Expr(t, j + 1, 0, 0))
         [] w \in {"pone", "mitte"} -> Chain(t, Sent(w, Expr(t, j + 1, 0, 0)), "_")
         [] OTHER -> BindStmt(t, Expect(t, Ident(t, j, 0), 0, "<-"))

----------------------------------------------------------------------------
(* The sung form.                                                          *)

OpensSung(t, i) == LET j == SkipNewlines(t, i) IN At(t, j) \in RhymeLabel /\ At(t, j + 1) \in Texts

SungHere(t, j, start) == start /\ At(t, j) \in RhymeLabel /\ At(t, j + 1) \in Texts

\* The walk over the verse's tokens: labels, texts and separators at the start
\* of a line go, the labels are kept.
RECURSIVE Strip(_, _, _, _, _)

Strip(t, j, depth, start, rhymes) ==
    LET w == At(t, j)
    IN CASE w = "EOF" \/ (w = "}" /\ depth = 1) -> [ok |-> TRUE, toks |-> t, rhymes |-> rhymes]
         [] w = "NL" -> Strip(t, j + 1, depth, TRUE, rhymes)
         [] SungHere(t, j, start) ->
               IF At(t, j + 2) # ";" THEN [ok |-> FALSE]
               ELSE Strip(SubSeq(t, 1, j - 1) \o SubSeq(t, j + 3, Len(t)), j, depth, FALSE, Append(rhymes, w))
         [] OTHER -> Strip(t, j + 1, CASE w = "{" -> depth + 1 [] w = "}" -> depth - 1 [] OTHER -> depth,
                           FALSE, rhymes)

\* Eight lines, a rhyming couplet, and every rhyme answered.
Scheme(rhymes) ==
    /\ Len(rhymes) = 8
    /\ rhymes[7] = rhymes[8]
    /\ \A i \in 1..8 : \E j \in 1..8 : i # j /\ rhymes[i] = rhymes[j]

InScheme(r) == IF r.ok /\ Scheme(r.rhymes) THEN r ELSE [ok |-> FALSE]
LiturgicalStrip(t, i) ==
    IF OpensSung(t, i) THEN InScheme(Strip(t, SkipNewlines(t, i), 1, TRUE, <<>>))
    ELSE [ok |-> TRUE, toks |-> t, rhymes |-> <<>>]

----------------------------------------------------------------------------
(* Program structure.                                                      *)

Finals == [Re |-> <<"Re", FALSE>>, Mi |-> <<"Mi", FALSE>>, Fa |-> <<"Fa", FALSE>>, Sol |-> <<"Sol", FALSE>>,
           re |-> <<"Re", TRUE>>, mi |-> <<"Mi", TRUE>>, fa |-> <<"Fa", TRUE>>, sol |-> <<"Sol", TRUE>>]

\* name in final {, with newlines before the brace.
Header(t, i) ==
    LET brace == SkipNewlines(t, i + 3)
    IN IF /\ IsIdent(At(t, i)) /\ Keyword(t, i + 1, "in")
          /\ At(t, i + 2) \in DOMAIN Finals /\ At(t, brace) = "{"
       THEN Parsed([name |-> t[i], final |-> Finals[t[i + 2]][1], plagal |-> Finals[t[i + 2]][2]], brace + 1)
       ELSE Error

Literal(t, i) ==
    LET w == At(t, i)
    IN CASE w \in DOMAIN Numbers -> Parsed(Num(Numbers[w]), i + 1)
         [] w = "-" /\ At(t, i + 1) \in DOMAIN Numbers ->
               Parsed(Num(F64("neg", <<Numbers[t[i + 1]]>>)), i + 2)
         [] w \in Texts -> Parsed(Str(w), i + 1)
         [] w \in {"verum", "falsum"} -> Parsed(Bool(w = "verum"), i + 1)
         [] OTHER -> Error

\* A member of a fugue, as what it adds to which list.
Member(list, key, r) == IF r.ok THEN Parsed([list |-> list, key |-> key, val |-> r.e], r.pos) ELSE Error

Pedal(t, i) ==
    IF IsIdent(At(t, i)) /\ At(t, i + 1) = "=" THEN Member("pedals", t[i], Literal(t, i + 2)) ELSE Error

\* The parameter is read inside parentheses, the closing one outside.
SubjectOf(t, name, param) ==
    IF param.ok /\ At(t, param.pos) = "="
    THEN Member("subject", <<name, param.e>>, Expr(t, param.pos + 1, 0, 0)) ELSE Error
Subject(t, i) ==
    IF IsIdent(At(t, i)) /\ At(t, i + 1) = "("
    THEN SubjectOf(t, t[i], Expect(t, Ident(t, i + 2, 1), 0, ")")) ELSE Error

Overload(t, i, list) ==
    IF IsIdent(At(t, i)) /\ At(t, i + 1) = "@" /\ IsIdent(At(t, i + 2)) /\ At(t, i + 3) = "="
    THEN Member(list, <<t[i], t[i + 2]>>, Expr(t, i + 4, 0, 0)) ELSE Error

MemberAt(t, i) ==
    CASE Keyword(t, i, "pedale") -> Pedal(t, i + 1)
      [] Keyword(t, i, "subiectum") -> Subject(t, i + 1)
      [] Keyword(t, i, "reale") -> Overload(t, i + 1, "real")
      [] Keyword(t, i, "tonale") -> Overload(t, i + 1, "tonal")
      [] Keyword(t, i, "contra") -> Member("contra", "", Expr(t, i + 1, 0, 0))
      [] OTHER -> Error

\* A second subject replaces the first; the other lists grow.
Joined(fugue, mem) ==
    LET entry == [key |-> mem.key, val |-> mem.val]
    IN [fugue EXCEPT ![mem.list] = IF mem.list = "subject" THEN <<entry>> ELSE Append(@, entry)]

RECURSIVE Members(_, _, _)
Joining(t, fugue, mem) == IF mem.ok THEN Members(t, mem.pos, Joined(fugue, mem.e)) ELSE Error
Members(t, i, fugue) ==
    LET j == SkipNewlines(t, i)
    IN IF At(t, j) = "}" THEN Parsed(fugue, j + 1) ELSE Joining(t, fugue, MemberAt(t, j))

NewFugue(h) ==
    [name |-> h.name, final |-> h.final,
     pedals |-> <<>>, subject |-> <<>>, real |-> <<>>, tonal |-> <<>>, contra |-> <<>>]
FugueAt(t, h) == IF h.ok THEN Members(t, h.pos, NewFugue(h.e)) ELSE Error

\* The sung lines are stripped from the tokens, so the rest of the program is
\* read from what strip leaves.
VerseOf(h, s, body) ==
    IF ~body.ok THEN Error
    ELSE [ok |-> TRUE, toks |-> s.toks, pos |-> body.pos,
          e |-> [name |-> h.name, mode |-> FromFinal(h.final, h.plagal), body |-> body.e, rhymes |-> s.rhymes]]
Stripped(h, s) == IF s.ok THEN VerseOf(h.e, s, Stmts(s.toks, h.pos)) ELSE Error
VersusAt(t, h) == IF h.ok THEN Stripped(h, LiturgicalStrip(t, h.pos)) ELSE Error

RECURSIVE ProgramAt(_, _, _)
AddFugue(t, prog, f) ==
    IF f.ok THEN ProgramAt(t, f.pos, [prog EXCEPT !.fugues = Append(@, f.e)]) ELSE Error
AddVerse(prog, v) ==
    IF v.ok THEN ProgramAt(v.toks, v.pos, [prog EXCEPT !.verses = Append(@, v.e)]) ELSE Error
ProgramAt(t, i, prog) ==
    LET j == SkipNewlines(t, i)
    IN CASE At(t, j) = "EOF" -> [ok |-> TRUE, prog |-> prog]
         [] Keyword(t, j, "fuga") -> AddFugue(t, prog, FugueAt(t, Header(t, j + 1)))
         [] Keyword(t, j, "versus") -> AddVerse(prog, VersusAt(t, Header(t, j + 1)))
         [] OTHER -> Error

Parse(src) == ProgramAt(Lex(src), 1, [fugues |-> <<>>, verses |-> <<>>])

=============================================================================
