----------------------------- MODULE SourceText -----------------------------
(***************************************************************************)
(* Source texts for model checking.  A text is written as a phrase: the    *)
(* words of an Elm construct, the nodes its syntax tree has (the interval  *)
(* of words each one spans) and how deep its sub-expressions nest.  A      *)
(* phrase is laid out as a token stream on a grid of columns, so that a    *)
(* comment or a newline may be put into any gap without moving a word to   *)
(* another column.                                                         *)
(***************************************************************************)
EXTENDS Integers, Sequences
LOCAL INSTANCE FiniteSetsExt
LOCAL INSTANCE FiniteSets

Stride == 20   \* columns from one word to the next, more than word and comment take

(* A word: br is the column of a word that starts a line (0: it does not), *)
(* glued a word that touches the one before.                               *)
WordOf(kind, op) == [t |-> <<[kind |-> kind, op |-> op, br |-> 0, glued |-> FALSE]>>,
                     s |-> {}, d |-> 0]
W(kind) == WordOf(kind, "")
Op(op) == IF op = "-" THEN WordOf("-", "-") ELSE WordOf("op", op)
Glue(a) == [a EXCEPT !.t[1].glued = TRUE]
On(col, a) == [a EXCEPT !.t[1].br = col]

Beside(a, b) == [t |-> a.t \o b.t,
                 s |-> a.s \cup {<<x[1] + Len(a.t), x[2] + Len(a.t)>> : x \in b.s},
                 d |-> Max({a.d, b.d})]
Cat(as) == LET F[i \in 1..Len(as)] == IF i = 1 THEN as[1] ELSE Beside(F[i - 1], as[i])
           IN  F[Len(as)]
Nd(a) == [a EXCEPT !.s = @ \cup {<<1, Len(a.t)>>}]
Deeper(a) == [a EXCEPT !.d = @ + 1]
Commas(as) == [i \in 1..(2 * Len(as) - 1) |-> IF i % 2 = 1 THEN as[(i + 1) \div 2] ELSE W(",")]

(* Expressions and patterns.                                               *)
Name == Nd(W("lower"))
Num == Nd(W("number"))
Ctor == Nd(W("upper"))
Qual(k) == Nd(Cat(<<W("upper"), Glue(W(".")), Glue(W(k))>>))
App(as) == Nd(Cat(as))
Bin(a, op, b) == Nd(Cat(<<a, Op(op), b>>))
Neg(a) == Nd(Cat(<<W("-"), Glue(a)>>))
Dot(a) == Nd(Cat(<<a, Glue(W(".")), Glue(W("lower"))>>))
Accessor == Nd(Cat(<<W("."), Glue(W("lower"))>>))
Pair(open, close) == Nd(Cat(<<W(open), W(close)>>))
Prefix(op) == Nd(Cat(<<W("("), Op(op), W(")")>>))
Par(a) == Nd(Cat(<<W("("), Deeper(a), W(")")>>))
ParNeg(a) == Nd(Cat(<<W("("), a, W(")")>>))
Tup(as) == Nd(Deeper(Cat(<<W("(")>> \o Commas(as) \o <<W(")")>>)))
Lst(as) == Nd(Deeper(Cat(<<W("[")>> \o Commas(as) \o <<W("]")>>)))
Set(a) == Nd(Cat(<<W("lower"), W("="), a>>))
Rec(as) == Nd(Deeper(Cat(<<W("{")>> \o Commas(as) \o <<W("}")>>)))
Upd(as) == Nd(Deeper(Cat(<<W("{"), W("lower"), W("|")>> \o Commas(as) \o <<W("}")>>)))
If(a, b, c) == Nd(Cat(<<W("if"), Deeper(a), W("then"), Deeper(b), W("else"), Deeper(c)>>))
ElseIf(a, b, c) == Nd(Cat(<<W("if"), Deeper(a), W("then"), Deeper(b), W("else"), c>>))
Branch(pat, a) == Cat(<<pat, W("->"), Deeper(a)>>)
Case(a, bs) == Nd(Cat(<<W("case"), Deeper(a), W("of")>> \o bs))
Def(args, a) == Nd(Cat(<<W("lower")>> \o args \o <<W("="), Deeper(a)>>))
Sig(type) == Nd(Cat(<<W("lower"), W(":"), type>>))
SigDef(sig, def) == Nd(Cat(<<sig, def>>))
Destr(pat, a) == Nd(Cat(<<pat, W("="), Deeper(a)>>))
Let(ds, a) == Nd(Cat(<<W("let")>> \o ds \o <<W("in"), Deeper(a)>>))
Lam(args, a) == Nd(Cat(<<W("\\")>> \o args \o <<W("->"), Deeper(a)>>))
Wild == Nd(W("_"))
PTup(as) == Nd(Cat(<<W("(")>> \o Commas(as) \o <<W(")")>>))
PLst(as) == Nd(Cat(<<W("[")>> \o Commas(as) \o <<W("]")>>))
PRec(as) == Nd(Cat(<<W("{")>> \o Commas(as) \o <<W("}")>>))
As(a) == Nd(Cat(<<a, W("as"), W("lower")>>))
NoTree(a) == [a EXCEPT !.s = {}]

(* Types.  Parentheses are a node of their own around a function type only. *)
Arrow(a, b) == Nd(Cat(<<a, W("->"), b>>))
TPar(a) == Cat(<<W("("), a, W(")")>>)
TRec(fs) == Nd(Cat(<<W("{")>> \o Commas(fs) \o <<W("}")>>))
TUpd(fs) == Nd(Cat(<<W("{"), W("lower"), W("|")>> \o Commas(fs) \o <<W("}")>>))
-----------------------------------------------------------------------------
(* Layout.  Trivia is a set of [at, what]: what to put before word `at`.   *)

Whats == {"nl", "block", "line", "own", "ownBlock", "pair"}

Width(kind) == CASE kind \in {"if", "of", "in", "as", "->", "op"} -> 2
                 [] kind \in {"let", "doc"} -> 3
                 [] kind \in {"then", "else", "case"} -> 4
                 [] OTHER -> 1

(* The raw tokens of the trivia: "n" a newline, "b" a block comment, "m" a *)
(* block comment of two lines, "l" a line comment.                         *)
Raw(what) == CASE what = "nl" -> <<"n">>
               [] what = "block" -> <<"b">>
               [] what = "line" -> <<"l", "n">>
               [] what = "own" -> <<"n", "l", "n">>
               [] what = "ownBlock" -> <<"n", "m", "n">>
               [] what = "pair" -> <<"b", "n", "l", "n">>
               [] OTHER -> <<>>

At(ins, i) == LET here == {x \in ins : x.at = i}
              IN  IF here = {} THEN "" ELSE (CHOOSE x \in here : TRUE).what

(* A word with a line of its own has a newline before it in any case.      *)
RawBefore(word, ins, i) ==
  LET r == Raw(At(ins, i))
  IN  IF word.br > 0 /\ (r = <<>> \/ r[Len(r)] # "n") THEN Append(r, "n") ELSE r

CountOf(r, k) == Cardinality({j \in 1..Len(r) : r[j] = k})
LineAfter(line, r) == line + CountOf(r, "n") + CountOf(r, "m")

CommentsOf(r, ix, line) ==
  LET found == {j \in 1..Len(r) : r[j] \in {"b", "m", "l"}}
      One(j) == LET here == LineAfter(line, SubSeq(r, 1, j - 1))
                IN  [ix |-> ix + j - 1, line |-> here, block |-> r[j] # "l",
                     end |-> IF r[j] = "m" THEN here + 1 ELSE here]
  IN  [k \in 1..Cardinality(found) |-> One(CHOOSE j \in found : Cardinality({i \in found : i <= j}) = k)]

(* The next token of a stream laid out so far.  A word is on the grid of   *)
(* its line, however many lines the trivia before it takes.                *)
NextToken(word, r, ts) ==
  LET first == ts = <<>>
      prev == ts[Len(ts)]
      after == IF first THEN 1 ELSE prev.col + Width(prev.kind)
      ix == IF first THEN 1 ELSE prev.ix + 1
      line == IF first THEN 1 ELSE prev.end
      last == LineAfter(line, r)
      col == CASE word.br > 0 -> word.br
               [] word.br = 0 /\ first -> 1
               [] word.br = 0 /\ word.glued -> after
               [] OTHER -> prev.col + Stride
  IN  [kind |-> word.kind, op |-> word.op, ix |-> ix + Len(r), tix |-> ix,
       line |-> last, end |-> last, col |-> col,
       tcol |-> CASE r = <<>> -> col
                  [] r # <<>> /\ r[1] = "n" -> after
                  [] OTHER -> after + 1,
       gap |-> CASE r # <<>> -> "trivia" [] word.glued -> "none" [] OTHER -> "space",
       before |-> CommentsOf(r, ix, line)]

LayOut(ws, ins) ==
  LET F[i \in 0..Len(ws)] ==
        IF i = 0 THEN <<>>
        ELSE LET ts == F[i - 1]
             IN  Append(ts, NextToken(ws[i], RawBefore(ws[i], ins, i), ts))
  IN  F[Len(ws)]

Eof == [kind |-> "eof", op |-> "", br |-> 1, glued |-> FALSE]

Text(a, ins) == LayOut(Append(a.t, Eof), ins)

(* Where trivia may go, and every way to put at most k (<= 2) of them.      *)
Gaps(a) == {i \in 1..(Len(a.t) + 1) : i = Len(a.t) + 1 \/ ~a.t[i].glued}

Insertions(a, whats, k) ==
  LET Places == [at : Gaps(a), what : whats]
      Two == {{x[1], x[2]} : x \in {y \in Places \X Places : y[1].at < y[2].at}}
  IN  {{}} \cup {{x} : x \in IF k >= 1 THEN Places ELSE {}} \cup (IF k >= 2 THEN Two ELSE {})

(* A sample: a text, and the spans of the nodes it was written with.       *)
Sample(a, ins) ==
  LET ts == Text(a, ins)
  IN  [toks |-> ts, sub |-> a.s, depth |-> a.d]

Samples(as, whats, k) == UNION {{Sample(a, ins) : ins \in Insertions(a, whats, k)} : a \in as}

(* A text broken in one place: a word left out, or another in its stead,   *)
(* with a comment where the word was.                                      *)
Without(a, i) == [a EXCEPT !.t = SubSeq(@, 1, i - 1) \o SubSeq(@, i + 1, Len(@))]

Instead(a, i, kind) ==
  [a EXCEPT !.t[i].kind = kind,
            !.t[i].op = CASE kind = "op" -> "+" [] kind = "-" -> "-" [] OTHER -> ""]

Broken(as, kinds) ==
  UNION {{Text(Without(a, i), {}) : i \in 1..Len(a.t)}
         \cup {Text(Without(a, i), {[at |-> i, what |-> "line"]}) : i \in {j \in 1..Len(a.t) : j + 1 \in Gaps(a)}}
         \cup {Text(Instead(a, i, kind), {}) : i \in 1..Len(a.t), kind \in kinds} : a \in as}
=============================================================================
