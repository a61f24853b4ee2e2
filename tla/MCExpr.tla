------------------------------- MODULE MCExpr -------------------------------
(***************************************************************************)
(* The expression parser on texts written from syntax trees, with comments *)
(* and newlines put into their gaps, and on texts broken in one place.     *)
(***************************************************************************)
EXTENDS ExprSafety, SourceText, CoreOperators

CONSTANT Topic   \* which texts this run reads

-----------------------------------------------------------------------------
f == Name
x == Name
fx == App(<<Name, Name>>)
Typed(type, a) == SigDef(On(5, Sig(type)), On(5, Def(<<>>, a)))

(* One tree or more for each form of expression, nested in the ways that   *)
(* matter for layout: applications before siblings, blocks inside brackets. *)
OperatorTrees == {
  Bin(Bin(fx, "+", x), "<|", Num),
  Bin(Neg(fx), "-", Neg(x)),
  App(<<f, Neg(x), Par(x)>>),
  Bin(Dot(f), "::", Accessor),
  App(<<Qual("lower"), Qual("upper"), Prefix("+")>>),
  ParNeg(Bin(Neg(fx), "+", x)) }

BracketTrees == {
  Bin(Par(fx), "+", Dot(Dot(Par(x)))),
  App(<<f, Tup(<<x, fx, Num>>), Pair("(", ")")>>),
  Lst(<<fx, Lst(<<x>>), Pair("[", "]")>>),
  Lst(<<App(<<f, On(5, x)>>), On(3, Name)>>),
  Bin(Rec(<<Set(fx), Set(Num)>>), "==", Pair("{", "}")),
  Upd(<<Set(x), Set(Rec(<<Set(x)>>))>>) }

BlockTrees == {
  App(<<f, If(x, fx, ElseIf(x, Par(x), If(x, x, Num)))>>),
  Case(fx, <<On(5, Branch(Name, fx)), On(5, Branch(Wild, fx))>>),
  Tup(<<Case(x, <<On(5, Branch(Num, x)), On(5, Branch(Name, x))>>), x>>),
  Let(<<On(5, Def(<<Name>>, fx)), Typed(Arrow(Name, Ctor), fx)>>, fx),
  Lst(<<Let(<<Destr(PTup(<<Name, Wild>>), fx)>>, Case(x, <<Branch(Name, x)>>))>>),
  App(<<f, Lam(<<Name, Wild>>, Bin(x, "+", Lam(<<Name>>, x)))>>) }

PatternTrees == {
  Case(x, <<On(5, Branch(Nd(Cat(<<W("upper"), Name, Nd(Cat(<<W("-"), W("number")>>))>>)), x)),
            On(5, Branch(As(Nd(Cat(<<Name, Op("::"), Name>>))), x)),
            On(5, Branch(PTup(<<Name, Par(Wild)>>), x)) >>),
  Lam(<<PRec(<<NoTree(Name), NoTree(Name)>>), PLst(<<Name, Name>>), Pair("[", "]"), Pair("{", "}"),
        Pair("(", ")"), PLst(<<Ctor>>)>>, x) }

TypeTrees == {
  Let(<<Typed(type, x)>>, x) : type \in {
    Arrow(Name, Arrow(Nd(Cat(<<W("upper"), Name, Ctor>>)), Ctor)),
    Arrow(Nd(TPar(Arrow(Name, Name))), TPar(Name)),
    TRec(<<Sig(Name), Sig(Nd(Cat(<<W("upper"), Name>>)))>>),
    TUpd(<<Sig(Pair("{", "}")), Sig(Pair("(", ")"))>>),
    PTup(<<Name, Arrow(Name, Name), Nd(Cat(<<NoTree(Qual("upper")), Qual("upper")>>))>>) } }

AllTrees == OperatorTrees \cup BracketTrees \cup BlockTrees \cup PatternTrees \cup TypeTrees

(* Nesting on both sides of a limit of 4, through one box or several.      *)
DeepTrees == {
  Par(Par(Par(Par(x)))), Par(Par(Par(Par(Par(x))))),
  ElseIf(x, x, ElseIf(x, x, If(x, x, Par(Par(Par(x)))))),
  ElseIf(x, x, ElseIf(x, x, If(x, x, Par(Par(Par(Par(x))))))),
  App(<<f, Lst(<<x, Lst(<<Rec(<<Set(Rec(<<Set(x)>>))>>)>>)>>), Lst(<<x, Rec(<<Set(Par(Rec(<<Set(Par(x))>>)))>>)>>)>>),
  Lam(<<Name>>, Lam(<<Name>>, Bin(Bin(x, "+", Par(x)), "+", Par(Par(x))))),
  Lam(<<Name>>, Par(Let(<<On(5, Def(<<>>, Case(x, <<On(9, Branch(Wild, Par(x)))>>)))>>, x))) }

(* Operators grouped by the table of Elm's core library, which the comment *)
(* on operator_info quotes: the loosest one is the root, the last of equals *)
(* if they associate to the left, the first if to the right.               *)
RootOf(ops) ==
  LET loosest == {i \in 1..Len(ops) : \A j \in 1..Len(ops) : Table[ops[i]][1] <= Table[ops[j]][1]}
      right == \A i \in loosest : Table[ops[i]][2] = "right"
  IN  CHOOSE i \in loosest : \A j \in loosest : IF right THEN i <= j ELSE i >= j

RECURSIVE Grouped(_)
Grouped(ops) ==
  IF ops = <<>> THEN Name
  ELSE LET i == RootOf(ops)
       IN  Bin(Grouped(SubSeq(ops, 1, i - 1)), ops[i], Grouped(SubSeq(ops, i + 1, Len(ops))))

(* Elm refuses a chain of operators of one precedence that do not agree    *)
(* how to associate.                                                       *)
Agrees(ops) ==
  \A i, j \in 1..Len(ops) :
    i # j /\ Table[ops[i]][1] = Table[ops[j]][1] =>
      Table[ops[i]][2] = Table[ops[j]][2] /\ Table[ops[i]][2] # "none"

Chains == {ops \in [1..3 -> DOMAIN Table] : Agrees(ops)}

(* Arguments left of their function, but inside brackets.                  *)
DedentedTrees == {Par(App(<<f, On(1, x)>>)), Tup(<<App(<<f, On(9, x), On(2, x)>>), x>>)}

RecordInLet == Let(<<On(5, Def(<<>>, Rec(<<Set(x)>>)))>>, x)

SmallTrees == {Lst(<<x, fx>>), Rec(<<Set(x), Set(x)>>), Tup(<<x, Neg(x)>>), If(x, x, x),
               Case(x, <<On(5, Branch(Num, x)), On(5, Branch(Wild, fx))>>),
               Let(<<Def(<<>>, x), On(21, Def(<<Name>>, Bin(x, "+", x)))>>, x)}

Written ==
  CASE Topic = "forms" -> Samples(AllTrees, {"nl", "line", "ownBlock"}, 1)
                          \cup {Sample(Grouped(ops), {}) : ops \in Chains}
                          \cup Samples(DeepTrees, {"nl"}, 1)
                          \cup Samples(BracketTrees \cup BlockTrees \cup TypeTrees, {"block", "pair"}, 1)
                          \cup Samples(SmallTrees, {"block", "own"}, 2)
    [] Topic = "broken" -> {}
    [] Topic = "dedented" -> Samples(DedentedTrees, {}, 0)
    [] Topic = "setters" -> Samples({Rec(<<Set(x), Set(x), Set(x)>>)}, {"own"}, 1)
    [] Topic = "reread" -> Samples({RecordInLet}, {"block"}, 1)

MCSources ==
  IF Topic = "broken"
  THEN Broken(AllTrees, {",", "=", "->", "lower", "upper", ")", "doc", "-", "op", ".", "("})
  ELSE {s.toks : s \in Written}
-----------------------------------------------------------------------------
(* A text parses to the tree it was written from, wherever comments and    *)
(* newlines stand in it: the nodes of the result span the same words.  It  *)
(* is refused if, and only if, its sub-expressions nest deeper than        *)
(* MaxExprDepth.                                                           *)
Spans == {<<WordAt(s[1]), WordAt(s[2])>> : s \in val.sub}

ParsesAsWritten ==
  ctl \in {"ok", "error"} =>
    \E s \in Written : /\ s.toks = toks
                       /\ ctl = "ok" <=> s.depth <= MaxExprDepth
                       /\ ctl = "ok" => s.sub = Spans

(* Inside parentheses, brackets and braces `any column is valid`: an       *)
(* argument of an application there may stand left of its function         *)
(* (application_loop), and the text parses as it was written.              *)
AnyColumnInBrackets == ParsesAsWritten
=============================================================================
