------------------------------ MODULE MCPrinter ------------------------------
(***************************************************************************)
(* Printing an expression and reading the text back: the printer and the   *)
(* expression parser composed.  The trees nest every form of expression in *)
(* every position, with parentheses where the parser would have needed     *)
(* them, or, for trees built by a program, with none.                      *)
(***************************************************************************)
EXTENDS ExprSafety, CoreOperators, TLC, FiniteSets

CONSTANTS Topic,        \* which trees this run prints
          IndentWidth   \* PrintConfig::indent_width

ElmFormat == INSTANCE Printer WITH Style <- "ElmFormat"
Compact == INSTANCE Printer WITH Style <- "Compact"

ASSUME PrintConfigAssumption == IndentWidth \in Nat \ {0}

VARIABLE written   \* the tree, and what Printed makes of it

-----------------------------------------------------------------------------
F(k) == ElmFormat!Form(k)
One(k, e) == F(k) @@ [e |-> e]
All(k, es) == F(k) @@ [es |-> es]
Of(op, l, r) == F("op") @@ [op |-> op, l |-> l, r |-> r]
Setter(e) == One("set", e)

V == F("var")
Fx == All("app", <<V, V>>)
IfOf(c, t, e) == F("if") @@ [c |-> c, t |-> t, e |-> e]
CaseOf(e, bs) == F("case") @@ [e |-> e, bs |-> bs]
BranchOf(pat, e) == [cs |-> <<>>, pat |-> pat, e |-> e]
LetOf(ds, e) == F("let") @@ [ds |-> ds, e |-> e]
Def(args, e) == One("def", e) @@ [args |-> args, sig |-> <<>>]
Lam(e) == One("lam", e) @@ [ps |-> <<[k |-> "pvar"], [k |-> "wild"]>>]

Pair == [k |-> "ctor", es |-> <<[k |-> "pvar"], [k |-> "ctor", es |-> <<[k |-> "wild"]>>]>>]
Cons == [k |-> "cons", l |-> Pair, r |-> [k |-> "pvar"]]
Destr(e) == One("destr", e) @@ [pat |-> [k |-> "ptuple", es |-> <<[k |-> "as", e |-> Pair], Cons>>]]
Signed(e) == [Def(<<>>, e) EXCEPT !.sig = <<[k |-> "fun", l |-> [k |-> "fun", l |-> [k |-> "tvar"], r |-> [k |-> "tunit"]],
                                            r |-> [k |-> "typed", es |-> <<[k |-> "typed", es |-> <<[k |-> "tvar"]>>]>>]]>>]

(* Where the parser would not have read k without its parentheses.         *)
RECURSIVE EndsOpen(_)
EndsOpen(k) == CASE k.k \in ElmFormat!Blocks -> TRUE
                 [] k.k = "op" -> EndsOpen(k.r)
                 [] k.k = "neg" -> EndsOpen(k.e)
                 [] OTHER -> FALSE

Par(k) == One("par", k)
Atomic(k) == IF ElmFormat!IsNaturallyAtomic(k) THEN k ELSE Par(k)

(* What the printer is known to get wrong: in pretty style a negation of a *)
(* negation; in compact style a block where a `case` or an `if` wants a    *)
(* subject, and what follows a text of several lines inside a block.  The  *)
(* topics "negations", "subjects" and "texts" show it, the others leave    *)
(* out the first and the last and put parentheses around the second.       *)
Unary(k, style) == CASE k.k = "op" \/ (k.k = "neg" /\ (Topic = "negations" \/ style = "Compact")) -> Par(k)
              [] k.k = "neg" /\ Topic # "negations" /\ style # "Compact" -> V
              [] OTHER -> k
Subject(k, style) == IF style = "Compact" /\ Topic # "subjects" /\ k.k \in ElmFormat!Blocks THEN Par(k) ELSE k

(* Only functions are applied, and only records have fields.               *)
Typed(k, leaves) ==
  IF k.k \in leaves \cup ElmFormat!Blocks \cup {"op", "app"} /\ ~ElmFormat!EndsInText(k) THEN k ELSE V

Left(k, op) == IF EndsOpen(k) \/ (k.k = "op" /\ ~Groups(k.op, op, "left")) THEN Par(k) ELSE k
Right(k, op) == IF k.k = "op" /\ ~Groups(k.op, op, "right") THEN Par(k) ELSE k
-----------------------------------------------------------------------------
(* Every form, and every position.                                         *)

Kids == {V, F("num"), F("text"), F("short"), F("unit"), F("prefix"), F("accessor"), F("qualified"), F("glsl"),
         Fx, All("app", <<V, F("text")>>), One("neg", V), Par(V), Par(Of("+", V, V)),
         All("tuple", <<V, V>>), All("list", <<V, V>>), All("list", <<>>), All("list", <<F("text")>>),
         All("record", <<Setter(V), Setter(V)>>), All("record", <<>>), All("update", <<Setter(V), Setter(V)>>),
         One("dot", V),
         IfOf(V, V, V), IfOf(V, V, IfOf(V, V, IfOf(V, V, V))),
         CaseOf(V, <<BranchOf(Cons, V), BranchOf([k |-> "wild"], V)>>),
         LetOf(<<Def(<<Pair>>, V), Destr(V), Signed(V)>>, V), Lam(V)}
        \cup {Of(op, V, V) : op \in DOMAIN Table}

Positions == {"arg", "fun", "twoArgs", "neg", "par", "tuple", "list", "listHead", "record", "recordHead", "update", "dot",
              "cond", "then", "else", "elseCond", "elseThen", "subject", "branch", "branch1", "def", "def1", "destr", "body", "lam"}

At(pos, k, style) ==
  CASE pos = "arg" -> All("app", <<V, Atomic(k), V>>)
    [] pos = "fun" -> All("app", <<Atomic(Typed(k, {"var", "qualified", "prefix", "accessor", "dot"})), V>>)
    [] pos = "twoArgs" -> All("app", <<V, Atomic(k), Atomic(k)>>)
    [] pos = "neg" -> One("neg", Unary(k, style))
    [] pos = "par" -> Par(k)
    [] pos = "tuple" -> All("tuple", <<V, k>>)
    [] pos = "list" -> All("list", <<V, k>>)
    [] pos = "listHead" -> All("list", <<k, V>>)
    [] pos = "record" -> All("record", <<Setter(V), Setter(k)>>)
    [] pos = "recordHead" -> All("record", <<Setter(k), Setter(V)>>)
    [] pos = "update" -> All("update", <<Setter(k), Setter(k)>>)
    [] pos = "dot" -> One("dot", Atomic(Typed(k, {"var", "qualified", "record", "update", "dot"})))
    [] pos = "cond" -> IfOf(Subject(k, style), V, V)
    [] pos = "then" -> IfOf(V, k, V)
    [] pos = "else" -> IfOf(V, V, k)
    [] pos = "elseCond" -> IfOf(V, V, IfOf(Subject(k, style), V, V))
    [] pos = "elseThen" -> IfOf(V, V, IfOf(V, k, V))
    [] pos = "subject" -> CaseOf(Subject(k, style), <<BranchOf([k |-> "wild"], V)>>)
    [] pos = "branch" -> CaseOf(V, <<BranchOf(Cons, k), BranchOf([k |-> "pnum"], V)>>)
    [] pos = "branch1" -> CaseOf(V, <<BranchOf([k |-> "wild"], k)>>)
    [] pos = "def" -> LetOf(<<Def(<<>>, k), Def(<<>>, V)>>, V)
    [] pos = "def1" -> LetOf(<<Signed(k)>>, V)
    [] pos = "destr" -> LetOf(<<Destr(k), Def(<<>>, V)>>, V)
    [] pos = "body" -> LetOf(<<Def(<<>>, V)>>, k)
    [] pos = "lam" -> Lam(k)

OpPositions == {"left", "right"} \X {"|>", "<|", "::", "+", "&&", "==", ">>"}

AtOp(where, k) == IF where[1] = "left" THEN Of(where[2], Left(k, where[2]), V)
                  ELSE Of(where[2], V, Right(k, where[2]))

Around(S, positions, ops, style) == {At(pos, k, style) : pos \in positions, k \in S}
                                    \cup {AtOp(where, k) : where \in ops, k \in S}

Forms(style) == Kids \cup Around(Kids, Positions, OpPositions, style)

(* Positions that lay their part out themselves, twice around.             *)
Layouts == {"arg", "par", "listHead", "recordHead", "cond", "then", "elseCond", "subject",
            "branch", "def1", "body", "lam"}
OpLayouts == {<<"left", "|>">>, <<"right", "<|">>, <<"right", "+">>}

Twice(S, style) == Around(Around(S, Layouts, OpLayouts, style), Layouts, OpLayouts, style)

Tall == {CaseOf(V, <<BranchOf(Cons, V), BranchOf([k |-> "wild"], V)>>), LetOf(<<Def(<<Pair>>, V)>>, V),
         Of("|>", V, V), Of("<|", V, Lam(V))}
TallText == All("app", <<V, F("text")>>)

Deep(style) == Twice(IF style = "Compact" THEN Tall ELSE Tall \cup {TallText}, style)

(* Parts that stood on lines of their own.                                 *)
Split(e) == [e EXCEPT !.split = TRUE]

Splits(style) ==
  LET wide == {Split(k) : k \in {j \in Kids : j.k \in {"app", "op", "list", "tuple", "record", "update", "lam"}}}
      within == Around(wide, Layouts, OpLayouts, style)
  IN  {Split(k) : k \in Around({V}, Positions, OpPositions, style) \cup within} \cup within

(* Two operators, with parentheses if need be, on one line or on lines of  *)
(* their own; or an operand takes several lines.                           *)
Pairs(L(_, _), R(_, _), ops, operands) ==
  UNION {{Of(second, L(Of(first, L(x[1], first), R(x[2], first)), second), R(x[3], second)),
          Of(first, L(x[1], first), R(Of(second, L(x[2], second), R(x[3], second)), first))} :
           first \in ops, second \in ops, x \in operands}

OnOneLine == {<<V, V, V>>}
OneTall == {<<IfOf(V, V, V), V, V>>, <<V, IfOf(V, V, V), V>>, <<V, V, IfOf(V, V, V)>>}
OneOfEach == {"|>", "<|", "&&", "==", "::", "+", ">>"}

Chained == Pairs(Left, Right, DOMAIN Table, OnOneLine)
           \cup {Split(t) : t \in Pairs(Left, Right, DOMAIN Table, OnOneLine)}
           \cup Pairs(Left, Right, OneOfEach, OneTall)

Bare(k, op) == k
Unchained == Pairs(Bare, Bare, DOMAIN Table, OnOneLine)

Subjects == Around({CaseOf(V, <<BranchOf(Cons, V), BranchOf([k |-> "wild"], V)>>)}, {"subject"}, {}, "Compact")
Texts == Around(Around({TallText}, {}, {<<"left", "|>">>}, "Compact"), {"branch"}, {}, "Compact")
Negations == Around({One("neg", V)}, {"neg"}, {}, "ElmFormat")

(* One comment in each place of an expression that the parser attaches     *)
(* comments to (Lead, WithPre, Inline, Trailing and Hold of ExprParser).   *)
(* Operands get line comments only, and never the leftmost one.            *)
Marked(e, c) == [e EXCEPT !.cs = <<c>>]
MarkedIn(s, c) == {[s EXCEPT ![i] = Marked(@, c)] : i \in 1..Len(s)}
After(s, c) == {[s EXCEPT ![i].after = <<c>>] : i \in 1..Len(s)}
Values(s, c) == {[s EXCEPT ![i].e = Marked(@, c)] : i \in 1..Len(s)}

Sites(e, c) ==
  LET Site(at, trees) == {[at |-> at, tree |-> t, c |-> c] : t \in trees}
      Parts(at, parts) == Site(at, {[e EXCEPT !.es = es] : es \in parts})
      ending == [e EXCEPT !.trail = <<c>>]
      value == [e EXCEPT !.e = Marked(@, c)]
      Where(condition, sites) == IF condition THEN sites ELSE {}
  IN  CASE e.k = "app" -> Site("argument", {[e EXCEPT !.es[i] = Marked(@, c)] : i \in 2..Len(e.es)})
        [] e.k = "tuple" -> Parts("element", MarkedIn(e.es, c))
        [] e.k = "list" /\ e.es # <<>> ->
             Parts("element", MarkedIn(e.es, c)) \cup Parts("listEnd", After(e.es, c)) \cup Site("listEnd", {ending})
        [] e.k \in {"record", "update"} ->
             Site("setter", {[e EXCEPT !.es[i] = Marked(@, c)] : i \in (IF e.k = "record" THEN 1 ELSE 2)..Len(e.es)})
             \cup Parts("value", Values(e.es, c)) \cup Parts("setterEnd", After(e.es, c))
        [] e.k = "par" -> Site("inside", {value}) \cup Site("parEnd", {ending})
        [] e.k = "op" /\ c = "line" ->
             Where(e.r.k # "op", Site("operand", {[e EXCEPT !.r = Marked(@, c)]}))
             \cup Where(e.l.k = "op", Site("operand", {[e EXCEPT !.l.r = Marked(@, c)]}))
             \cup Where(e.r.k = "op", Site("head", {[e EXCEPT !.r.l = Marked(@, c)]})
                                      \cup Site("rest", {[e EXCEPT !.r.r = Marked(@, c)]}))
        [] e.k = "lam" -> Site("body", {value})
        [] e.k = "if" -> Site("condition", {[e EXCEPT !.c = Marked(@, c)]})
                         \cup Site("body", {[e EXCEPT !.t = Marked(@, c)], ending})
                         \cup Where(e.e.k # "if", Site("body", {value}))
        [] e.k = "case" -> Site("body", {[e EXCEPT !.bs = bs] : bs \in MarkedIn(e.bs, c) \cup Values(e.bs, c)})
        [] e.k = "let" -> Site("body", {value, ending} \cup {[e EXCEPT !.ds = ds] : ds \in MarkedIn(e.ds, c) \cup Values(e.ds, c)})
        [] OTHER -> {}

(* What is known to be lost: comments on what parentheses hold; all of     *)
(* conditions, elements, setters and before `)` in compact style; in       *)
(* pretty style those before a setter, but for line comments after the     *)
(* first field of a record, and block comments of elements on one line;    *)
(* the first operand of a chain, if it is laid out over lines inside an    *)
(* operand; and every one of a chain below `<|`.                           *)
HasChain(op) == op \in {"::", ">>", "<<"} \cup ElmFormat!Logic \cup ElmFormat!Sums
OneChain(op, inner) == \/ op = inner
                       \/ {op, inner} \subseteq ElmFormat!Logic
                       \/ {op, inner} \subseteq ElmFormat!Sums \cup ElmFormat!Compares

Lost(s, style) ==
  LET e == s.tree
      pretty == style # "Compact"
      OverLines(k) == IF pretty THEN ElmFormat!Multiline(k) ELSE Compact!Multiline(k)
      loneText == Len(e.es) = 1 /\ ElmFormat!EndsInText(e.es[1])
      belowPipe == e.op = "<|" /\ HasChain(e.r.op) /\ OverLines(IF pretty THEN e ELSE e.r)
  IN  CASE s.at = "inside" -> TRUE
        [] s.at \in {"condition", "value", "setterEnd", "parEnd"} -> ~pretty
        [] s.at = "setter" -> ~(pretty /\ e.k = "record" /\ s.c = "line" /\ e.es[1].cs = <<>>)
        [] s.at = "element" -> ~pretty \/ loneText \/ (s.c = "block" /\ ~OverLines(e))
        [] s.at = "listEnd" -> pretty /\ loneText
        [] s.at = "head" -> belowPipe \/ (pretty /\ HasChain(e.r.op) /\ OverLines(e.r) /\ ~OneChain(e.op, e.r.op))
        [] s.at = "rest" -> belowPipe
        [] OTHER -> FALSE

Hosts ==
  Kids \cup {Split(k) : k \in {j \in Kids : j.k \in {"app", "list", "tuple", "record", "update", "lam"}}}
  \cup {All("app", <<V, Par(IfOf(V, V, V)), V>>), All("list", <<V, CaseOf(V, <<BranchOf([k |-> "wild"], V)>>)>>),
        All("tuple", <<IfOf(V, V, V), V>>), All("record", <<Setter(V), Setter(IfOf(V, V, V))>>)}
  \cup {Par(k) : k \in {One("neg", V), Fx, IfOf(V, V, V)}}

OpHosts == LET pairs == Pairs(Left, Right, OneOfEach \cup {"||", "*"}, OnOneLine)
           IN  pairs \cup {Split(t) : t \in pairs} \cup {[t EXCEPT !.r = Split(@)] : t \in {u \in pairs : u.r.k = "op"}}
               \cup Pairs(Left, Right, {"|>", "<|", "==", "::", "+"}, OneTall \cup {<<V, V, CaseOf(V, <<BranchOf([k |-> "wild"], V)>>)>>})

SitesOf(trees) == UNION {Sites(k, c) : k \in trees, c \in {"line", "block"}}

Kept(trees, style) == {s \in SitesOf(trees) : ~Lost(s, style)}

(* What stood before `)` goes with the parentheses of the right side of a  *)
(* definition, or of `<|`.                                                 *)
Commented(style) ==
  {s.tree : s \in {t \in Kept(Hosts \cup OpHosts, style) : t.at # "parEnd"}}
  \cup Around({s.tree : s \in Kept(Hosts, style)}, {"par", "arg", "body", "lam"}, {<<"right", "|>">>, <<"left", "+">>}, style)

Forgotten(style) == {s.tree : s \in {t \in SitesOf(Hosts \cup OpHosts) : Lost(t, style) \/ t.at = "parEnd"}}

(* What to print: in which style, and how many comments the trees have.    *)
Jobs(styles, n, trees) == [style : styles, comments : {n}, tree : trees]

Printout(job) == job @@ (IF job.style = "Compact" THEN Compact!Printed(job.tree) ELSE ElmFormat!Printed(job.tree))

Written ==
  {Printout(job) : job \in
     CASE Topic = "forms" -> Jobs({"ElmFormat"}, 0, Forms("ElmFormat"))
                             \cup Jobs({"ElmFormat"}, 0, Deep("ElmFormat"))
                             \cup Jobs({"ElmFormat"}, 0, Splits("ElmFormat"))
                             \cup Jobs({"ElmFormat"}, 0, Chained)
                             \cup Jobs({"ElmFormat"}, 1, Commented("ElmFormat"))
                             \cup Jobs({"Compact"}, 0, Forms("Compact"))
                             \cup Jobs({"Compact"}, 0, Deep("Compact"))
                             \cup Jobs({"Compact"}, 1, Commented("Compact"))
       [] Topic = "built" -> Jobs({"Compact"}, 0, Unchained)
       [] Topic = "builtTall" -> Jobs({"ElmFormat"}, 0, {Of("*", Of("+", V, IfOf(V, V, V)), V)})
       [] Topic = "subjects" -> Jobs({"Compact"}, 0, Subjects)
       [] Topic = "texts" -> Jobs({"Compact"}, 0, Texts)
       [] Topic = "negations" -> Jobs({"ElmFormat"}, 0, Negations)
       [] Topic = "attached" -> Jobs({"ElmFormat"}, 1, Forgotten("ElmFormat"))
                                \cup Jobs({"Compact"}, 1, Forgotten("Compact"))}

MCSources == {w.toks : w \in Written}

PrintInit == \E w \in Written : toks = w.toks /\ written = w /\ ExprInit
PrintSpec == PrintInit /\ [][ExprStep /\ UNCHANGED written]_<<vars, written>>
-----------------------------------------------------------------------------
Spans == {<<WordAt(s[1]), WordAt(s[2])>> : s \in val.sub}

(* What is printed reads back as the tree it was printed from: the parser  *)
(* takes the whole text, and finds in it exactly the nodes the printer     *)
(* wrote it for, whichever parentheses, line breaks and indentation it     *)
(* chose (write_expr and below; the precedence tables of both sides).      *)
ReadsBack == /\ ctl # "error"
             /\ ctl = "ok" => toks[p.pos].kind = "eof" /\ Spans = written.sub

(* The comment that the parser has attached to an expression is in the     *)
(* text, once, whatever layout the comment itself or the tree around it    *)
(* leads to (write_leading_comments and each function that writes comments *)
(* of its own); the places of Lost excepted.                               *)
CommentsPrinted == Cardinality(UNION {Elements(toks[i].before) : i \in 1..Len(toks)}) = written.comments

(* `print(parse(print(parse(src)))) == print(parse(src))`: what is printed *)
(* must at least read back.                                                *)
PrintParsePrints == ReadsBack

(* `Write an operator operand, adding parens for precedence`: so a tree    *)
(* built without parentheses is printed with those it needs.               *)
BuiltTreesReadBack == ReadsBack

(* The leading comments of a node `enable round-tripping of comments       *)
(* inside expressions`: none is lost (each tree of Forgotten loses one).   *)
AttachedPrinted == CommentsPrinted
=============================================================================
