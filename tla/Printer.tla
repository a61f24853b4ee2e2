------------------------------ MODULE Printer ------------------------------
(***************************************************************************)
(* Printing expressions, patterns and types: src/src/print/mod.rs, with    *)
(* the operator chains of print/pipeline_layout.rs.                        *)
(*                                                                         *)
(* A tree is a record whose field k names its form:                        *)
(*   one   e, an operand, element or body;   all  es, several of them;     *)
(*   op    the operator with its operands l and r.                         *)
(* Every expression has the comments before it (cs, each "line" or         *)
(* "block"), those before its closing token (trail), one after it on its   *)
(* line (after), and `split`: its parts stand on lines of their own in the *)
(* source.  Spans are those of synthesized trees: dummies, or, for `split`, *)
(* each part on its own line.                                              *)
(***************************************************************************)
EXTENDS Layout, FiniteSets

CONSTANT Style   \* PrintStyle: "Compact", or "ElmFormat"

(* is_pretty.                                                              *)
Pretty == Style # "Compact"
-----------------------------------------------------------------------------
(* Trees.                                                                  *)

Form(k) == [k |-> k, cs |-> <<>>, trail |-> <<>>, after |-> <<>>, split |-> FALSE]

Leaves == {"var", "num", "short", "text", "unit", "prefix", "accessor", "qualified", "glsl"}
Blocks == {"if", "case", "let", "lam"}

Some(s, Test(_)) == \E i \in 1..Len(s) : Test(s[i])

HasLine(cs) == Some(cs, LAMBDA c : c = "line")
Commented(e) == e.cs # <<>>
LineBefore(e) == HasLine(e.cs)

(* The steps for each place of s, one after the other.                     *)
Each(s, At(_)) ==
  LET F[i \in 0..Len(s)] == IF i = 0 THEN <<>> ELSE F[i - 1] \o At(i) IN F[Len(s)]
-----------------------------------------------------------------------------
(* is_multiline: whether an expression will take several lines.            *)

RECURSIVE Multiline(_)
Multiline(e) ==
  CASE e.k = "if" -> Pretty \/ Some(<<e.c, e.t, e.e>>, Multiline)
    [] e.k \in {"case", "let", "text"} -> TRUE
    [] e.k = "lam" -> Multiline(e.e) \/ (Pretty /\ (Commented(e.e) \/ e.split))
    [] e.k = "app" -> \/ Some(e.es, Multiline)
                      \/ Pretty /\ (e.split \/ Some(e.es, LineBefore))
    [] e.k = "list" -> \/ Some(e.es, Multiline)
                       \/ Pretty /\ e.split
                       \/ e.trail # <<>>
                       \/ Some(e.es, LAMBDA x : x.after # <<>>)
    [] e.k = "tuple" -> Some(e.es, Multiline) \/ (Pretty /\ e.split)
    [] e.k \in {"record", "update"} ->
         Some(e.es, LAMBDA s : Multiline(s.e)) \/ (Pretty /\ e.split)
    [] e.k = "op" -> Multiline(e.l) \/ Multiline(e.r) \/ (Pretty /\ e.split)
    [] e.k = "par" -> Multiline(e.e) \/ e.trail # <<>>
    [] e.k = "neg" -> Multiline(e.e)
    [] OTHER -> FALSE

(* unwrap_parens, unwrap_parens_non_block.                                 *)
UnwrapParens(e) == IF e.k = "par" THEN e.e ELSE e

UnwrapParensNonBlock(e) ==
  IF e.k = "par" /\ e.trail = <<>> /\ e.e.k \notin Blocks \cup {"op"} THEN e.e ELSE e

Stripped(e) == IF Pretty THEN UnwrapParensNonBlock(e) ELSE e

IsNaturallyAtomic(e) == e.k \in Leaves \cup {"par", "tuple", "list", "record", "update", "dot"}

(* expr_ends_with_triple_string.                                           *)
RECURSIVE EndsInText(_)
EndsInText(e) ==
  LET x == UnwrapParensNonBlock(e)
  IN  \/ x.k = "text"
      \/ x.k = "app" /\ EndsInText(Last(x.es))
      \/ x.k = "list" /\ Len(x.es) = 1 /\ EndsInText(x.es[1])
-----------------------------------------------------------------------------
(* op_precedence and is_right_assoc: the printer's own table.              *)

OpPrecedence(o) ==
  CASE o \in {"<|", "|>"} -> 0
    [] o = "||" -> 2
    [] o = "&&" -> 3
    [] o = "==" -> 4
    [] o = "::" -> 5
    [] o \in {"+", "-"} -> 6
    [] o = "*" -> 7
    [] o = "^" -> 8
    [] OTHER -> 9

IsRightAssoc(o) == o \in {"<|", "||", "&&", "::", "^", ">>"}

NeedsParens(child, parent, left) ==
  \/ OpPrecedence(child) < OpPrecedence(parent)
  \/ OpPrecedence(child) = OpPrecedence(parent) /\ (left <=> IsRightAssoc(parent))

(* The chains: the first operand, each operator with the one after it, and *)
(* the operands that each operator of the tree groups, numbered from 0.    *)
(* flatten_mixed_pipe_chain looks left, flatten_right_assoc_chain and      *)
(* flatten_mixed_cons_append_chain right, flatten_mixed_bidir_chain both.  *)
Alone(e) == [head |-> e, rest |-> <<>>, groups |-> {}]

RECURSIVE Flat(_, _, _)
Flat(e, ops, sides) ==
  IF e.k # "op" \/ (e.k = "op" /\ e.op \notin ops) THEN Alone(e)
  ELSE LET Side(x, side) == IF side \in sides THEN Flat(x, ops, sides) ELSE Alone(x)
           l == Side(e.l, "left")
           r == Side(e.r, "right")
           before == Len(l.rest) + 1
       IN  [head |-> l.head,
            rest |-> l.rest \o <<[op |-> e.op, e |-> r.head]>> \o r.rest,
            groups |-> {<<0, before + Len(r.rest)>>} \cup l.groups
                       \cup {<<g[1] + before, g[2] + before>> : g \in r.groups}]

Pipes == {"|>", "?"}
Compares == {"=="}
Sums == {"+", "-", "*"}
Logic == {"&&", "||"}
Both == {"left", "right"}

(* flatten_as_chain.                                                       *)
AsChain(e) ==
  CASE e.k = "op" /\ e.op = "::" -> Flat(e, {"::"}, {"right"})
    [] e.k = "op" /\ e.op \in Logic -> Flat(e, Logic, Both)
    [] e.k = "op" /\ e.op \in Sums -> Flat(e, Sums, Both)
    [] e.k = "op" /\ e.op \in {">>", "<<"} -> Flat(e, {e.op}, {"right"})
    [] OTHER -> Alone(e)

(* A chain of pipes whose head is a chain itself is one chain.             *)
PipeChain(e) ==
  LET pipes == Flat(e, Pipes, {"left"})
      head == AsChain(pipes.head)
      n == Len(head.rest)
  IN  [head |-> head.head, rest |-> head.rest \o pipes.rest,
       groups |-> head.groups \cup {<<0, g[2] + n>> : g \in pipes.groups}]

(* The chains write_expr_inner tries for an operator, in its order.        *)
Chains(e) ==
  LET mixed == Flat(e, Compares \cup Sums, Both)
      Has(ops) == Some(mixed.rest, LAMBDA x : x.op \in ops)
  IN  (IF Has(Compares) /\ Has(Sums) THEN <<mixed>> ELSE <<>>)
      \o (IF AsChain(e).rest # <<>> THEN <<AsChain(e)>> ELSE <<>>)

InChain(chain, Test(_)) == Test(chain.head) \/ Some(chain.rest, LAMBDA x : Test(x.e))

GoesVertical(e, chain) == \/ Pretty /\ (InChain(chain, Multiline) \/ e.split)
                          \/ Some(chain.rest, LAMBDA x : LineBefore(x.e))
-----------------------------------------------------------------------------
(* write_pattern and what it calls.                                        *)

Parens(steps) == Node(T("(") \o steps \o T(")"))

CommaSeparated(s, Write(_)) ==
  Each(s, LAMBDA i : (IF i > 1 THEN T(",") \o Sp ELSE <<>>) \o Write(s[i]))

Between(open, s, close, Write(_)) ==
  Node(T(open) \o Sp \o CommaSeparated(s, Write) \o Sp \o T(close))

ConstructorWithArgs(pat) == pat.k = "ctor" /\ pat.es # <<>>

ParensInPretty(pat, steps) == IF Pretty /\ ConstructorWithArgs(pat) THEN Parens(steps) ELSE steps

RECURSIVE WritePatternAs(_, _)

Pattern(pat) == WritePatternAs("pattern", pat)
PatternCons(pat) == WritePatternAs("cons", pat)
PatternApp(pat) == WritePatternAs("application", pat)
PatternAtomic(pat) == WritePatternAs("atom", pat)

WritePatternAtomic(pat) ==
  CASE pat.k = "pvar" -> Node(T("lower"))
    [] pat.k = "wild" -> Node(T("_"))
    [] pat.k = "pnum" -> Node(T("number"))
    [] pat.k = "punit" -> Node(T("(") \o T(")"))
    [] pat.k = "ctor" /\ pat.es = <<>> -> Node(T("upper"))
    [] pat.k = "ptuple" -> Between("(", pat.es, ")", Pattern)
    [] pat.k = "precord" -> Between("{", pat.es, "}", LAMBDA f : T("lower"))
    [] pat.k = "plist" /\ pat.es = <<>> -> Node(T("[") \o T("]"))
    [] pat.k = "plist" /\ pat.es # <<>> -> Between("[", pat.es, "]", Pattern)
    [] pat.k = "ppar" -> Parens(Pattern(pat.e))
    [] ConstructorWithArgs(pat) \/ pat.k \in {"cons", "as"} -> Parens(Pattern(pat))

WritePatternApp(pat) ==
  IF ConstructorWithArgs(pat)
  THEN Node(T("upper") \o Each(pat.es, LAMBDA i : Sp \o PatternAtomic(pat.es[i])))
  ELSE PatternAtomic(pat)

WritePatternCons(pat) ==
  IF pat.k = "cons"
  THEN Node(ParensInPretty(pat.l, PatternApp(pat.l)) \o Sp \o TOp("::") \o Sp \o PatternCons(pat.r))
  ELSE PatternApp(pat)

WritePattern(pat) ==
  IF pat.k = "as"
  THEN Node(ParensInPretty(pat.e, PatternCons(pat.e)) \o Sp \o T("as") \o Sp \o T("lower"))
  ELSE PatternCons(pat)

WritePatternAs(what, pat) ==
  CASE what = "pattern" -> WritePattern(pat)
    [] what = "cons" -> WritePatternCons(pat)
    [] what = "application" -> WritePatternApp(pat)
    [] what = "atom" -> WritePatternAtomic(pat)

(* write_type and what it calls, for a type on one line.  The parser keeps *)
(* parentheses around function types only.                                 *)
RECURSIVE WriteTypeAs(_, _)

Type(t) == WriteTypeAs("type", t)
TypeAtomic(t) == WriteTypeAs("atom", t)

WriteField(t) == Node(T("lower") \o Sp \o T(":") \o Sp \o Type(t))

WriteTypeNonArrow(t) ==
  CASE t.k = "fun" -> Parens(Type(t))
    [] t.k = "typed" -> Node(T("upper") \o Each(t.es, LAMBDA i : Sp \o TypeAtomic(t.es[i])))
    [] OTHER -> TypeAtomic(t)

WriteTypeAtomic(t) ==
  CASE t.k = "tvar" -> Node(T("lower"))
    [] t.k = "tunit" -> Node(T("(") \o T(")"))
    [] t.k = "typed" /\ t.es = <<>> -> Node(T("upper"))
    [] t.k = "typed" /\ t.es # <<>> -> T("(") \o Type(t) \o T(")")
    [] t.k = "fun" -> Parens(Type(t))
    [] t.k = "ttuple" -> Between("(", t.es, ")", Type)
    [] t.k = "trecord" /\ t.es = <<>> -> Node(T("{") \o T("}"))
    [] t.k = "trecord" /\ t.es # <<>> -> Between("{", t.es, "}", WriteField)
    [] t.k = "tgeneric" ->
         Node(T("{") \o Sp \o T("lower") \o Sp \o T("|") \o Sp
              \o CommaSeparated(t.es, WriteField) \o Sp \o T("}"))

WriteType(t) ==
  IF t.k = "fun"
  THEN Node(WriteTypeNonArrow(t.l) \o Sp \o T("->") \o Sp \o Type(t.r))
  ELSE WriteTypeNonArrow(t)

WriteTypeAs(what, t) ==
  CASE what = "type" -> WriteType(t)
    [] what = "atom" -> WriteTypeAtomic(t)
-----------------------------------------------------------------------------
(* Comments, where the printer writes them: write_leading_comments, those  *)
(* before an operand of a chain, and those trailing a branch or a let.     *)

Leading(cs) == Each(cs, LAMBDA i : Cm(cs[i]) \o NL)

(* Mutant of OnLinesOfTheirOwn: block comments are left out. *)
OnlyLinesOfTheirOwn(cs) == Each(cs, LAMBDA i : IF cs[i] = "line" THEN NL \o Cm("line") ELSE <<>>)

OnLinesOfTheirOwn(cs) == Each(cs, LAMBDA i : NL \o Cm(cs[i]))
LinesOf(cs) == Each(cs, LAMBDA i : IF cs[i] = "line" THEN NL \o Cm("line") ELSE <<>>)
BlocksOf(cs) == SelectSeq(cs, LAMBDA c : c = "block")
OnItsLine(cs) == Each(cs, LAMBDA i : Sp \o Cm(cs[i]))

(* The functions that write expressions call one another through WriteAs:  *)
(* its cases are the entry points.  ch is in_vertical_chain.               *)
RECURSIVE WriteAs(_, _, _)

Expr(e, ch) == WriteAs("expression", e, ch)
App(e) == WriteAs("application", e, FALSE)
Atomic(e) == WriteAs("atom", e, FALSE)
ElseTail(e, ch) == WriteAs("else", e, ch)

(* The body of a branch or a declaration, on a line of its own.            *)
Body(e, ch) == In \o NL \o Leading(e.cs) \o Expr(e, ch) \o Out

(* write_expr_operand.                                                     *)
WriteOperand(operand, parent, left, ch) ==
  LET e == Stripped(operand)
  IN  CASE e.k = "op" /\ NeedsParens(e.op, parent, left) -> Parens(Expr(e, FALSE))
        [] e.k = "op" /\ ~NeedsParens(e.op, parent, left) -> Expr(e, ch)
        [] OTHER -> App(e)

(* A chain, one operator to a line.                                        *)
Grouped(chain, i, steps) ==
  LET Count(end) == {g \in chain.groups : g[end] = i}
      Times(S, step) == Each([k \in 1..Cardinality(S) |-> k], LAMBDA k : step)
  IN  Times(Count(1), Step("open")) \o steps \o Times(Count(2), Step("close"))

ChainHead(chain, parent, ch) == Grouped(chain, 0, WriteOperand(chain.head, parent, TRUE, ch))

ChainRest(chain, Before(_)) ==
  Each(chain.rest, LAMBDA i : LET x == chain.rest[i]
                              IN  Before(x.e.cs) \o NL \o TOp(x.op) \o Sp
                                  \o Grouped(chain, i, WriteOperand(x.e, x.op, FALSE, TRUE)))

Bumped(ch, steps) == IF ch THEN steps ELSE In \o steps \o Out

NoComment(cs) == <<>>

(* The right side of `<|` loses its parentheses, but around a pipe.        *)
RightOfPipe(e) ==
  IF Pretty /\ e.op = "<|" /\ ~(UnwrapParens(e.r).k = "op" /\ UnwrapParens(e.r).op \in Pipes)
  THEN UnwrapParens(e.r) ELSE e.r

(* `<|` ends its line, and what it applies to goes below.                  *)
WriteLeftPipe(e, right) ==
  LET chain == AsChain(right)
  IN  (IF Pretty /\ Multiline(e.l) THEN NL ELSE Sp) \o TOp("<|")
      \o In \o NL \o Leading(e.r.cs)
      \o (IF chain.rest # <<>>
           THEN ChainHead(chain, chain.rest[1].op, FALSE) \o In \o ChainRest(chain, NoComment) \o Out
           ELSE Expr(right, FALSE))
      \o Out

WriteInline(e, ch) ==
  LET right == RightOfPipe(e)
      lineBefore == e.op \in Pipes /\ LineBefore(e.r)
      vertical == \/ lineBefore
                  \/ Multiline(right)
                  \/ Pretty /\ (Multiline(e.l) \/ e.split)
      Operand == WriteOperand(e.r, e.op, FALSE, ch)
  IN  Node(
        Leading(e.l.cs) \o WriteOperand(e.l, e.op, TRUE, ch)
        \o CASE vertical /\ e.op = "<|" -> WriteLeftPipe(e, right)
             [] vertical /\ e.op # "<|" ->
                  Bumped(ch, (IF lineBefore THEN LinesOf(e.r.cs) ELSE <<>>) \o NL \o TOp(e.op) \o Sp
                             \o (IF lineBefore THEN <<>> ELSE Leading(e.r.cs)) \o Operand)
             [] ~vertical ->
                  Sp \o TOp(e.op) \o Sp \o Leading(e.r.cs)
                  \o (IF e.op = "<|" THEN Expr(right, ch) ELSE Operand))

WriteBinary(e, ch) ==
  LET pipes == PipeChain(e)
      vertical == SelectSeq(Chains(e), LAMBDA c : GoesVertical(e, c))
  IN  CASE e.op \in Pipes /\ Pretty /\ GoesVertical(e, Flat(e, Pipes, {"left"})) ->
             Hold \o ChainHead(pipes, pipes.rest[1].op, ch)
             \o (IF ch THEN <<>> ELSE ToHeld \o In)
             \o ChainRest(pipes, OnLinesOfTheirOwn) \o Back
        [] e.op \notin Pipes /\ vertical # <<>> ->
             ChainHead(vertical[1], e.op, ch) \o Bumped(ch, ChainRest(vertical[1], LinesOf))
        [] OTHER -> WriteInline(e, ch)
-----------------------------------------------------------------------------
(* write_expr_app, write_app_arg, write_application_vertical.              *)

VerticalApplication(e) ==
  LET ends == EndsInText(Last(e.es))
      tall == {i \in 2..Len(e.es) : Multiline(e.es[i])}
  IN  \/ tall \ (IF Pretty /\ ends THEN {Len(e.es)} ELSE {}) # {}
      \/ Pretty /\ e.split
      \/ Some(e.es, LineBefore)

WriteArg(e) ==
  Each(e.cs, LAMBDA i : Cm(e.cs[i]) \o (IF e.cs[i] = "block" THEN Sp ELSE NL))
  \o (IF e.k = "neg" THEN App(e) ELSE Atomic(e))

WriteApp(e) ==
  LET Args(gap) == Each(Tail(e.es), LAMBDA i : gap \o WriteArg(e.es[i + 1]))
  IN  CASE e.k = "app" /\ VerticalApplication(e) ->
             Node(Hold \o Atomic(e.es[1]) \o ToHeld \o In \o Args(NL) \o Back)
        [] e.k = "app" /\ ~VerticalApplication(e) ->
             Node(Atomic(e.es[1]) \o Args(Sp))
        [] e.k = "neg" -> Node(T("-") \o Atomic(e.e))
        [] OTHER -> Atomic(e)

(* Parentheses indented from their own column, in pretty style.            *)
WriteTallParens(e, trail, always) ==
  Node(T("(") \o Here \o Expr(e, FALSE)
       \o Each(trail, LAMBDA i : Step("align") \o Cm(trail[i]))
       \o Step(IF always \/ trail # <<>> THEN "alignOut" ELSE "alignOutIfBroken")
       \o Back \o T(")"))

WriteParenthesized(e) ==
  LET bare == Pretty /\ e.trail = <<>>
      needless == bare /\ (e.e.k = "neg" \/ IsNaturallyAtomic(e.e))
  IN  CASE needless -> App(e.e)
        [] ~needless /\ Pretty /\ Multiline(e) -> WriteTallParens(e.e, e.trail, e.e.k \notin Blocks)
        [] OTHER -> Parens(Expr(e.e, FALSE))

-----------------------------------------------------------------------------
(* write_comma_sep_inner: the elements of a list or a tuple.               *)

TallElement(e, i) ==
  LET x == e.es[i]
      beside == i = 1 \/ e.split
      above == IF beside \/ x.cs = <<>> THEN <<>>
               ELSE Newline \o Each(x.cs, LAMBDA c : Align \o Cm(x.cs[c]))
  IN  (IF i = 1 THEN Sp ELSE above \o Align \o T(",") \o Sp)
      \o (IF beside THEN Each(x.cs, LAMBDA c : Cm(x.cs[c]) \o AlignIn) ELSE <<>>)
      \o Element(Expr(x, FALSE)) \o OnItsLine(x.after)

WriteList(open, e, close) ==
  LET text == Pretty /\ Len(e.es) = 1 /\ EndsInText(e.es[1])
      tall == ~text /\ \/ Some(e.es, Multiline)
                       \/ Pretty /\ (e.split \/ Some(e.es, LineBefore))
                       \/ e.trail # <<>>
                       \/ Some(e.es, LAMBDA x : x.after # <<>>)
      Row(i) == NL \o (IF i = 1 THEN Sp ELSE T(",")) \o Sp \o Expr(e.es[i], FALSE)
                \o OnItsLine(e.es[i].after)
  IN  Node(CASE tall /\ Pretty ->
                  Hold \o T(open) \o Each(e.es, LAMBDA i : TallElement(e, i))
                  \o Each(e.trail, LAMBDA i : Align \o Cm(e.trail[i])) \o Align \o T(close) \o Back
             [] tall /\ ~Pretty ->
                  T(open) \o In \o Each(e.es, Row) \o OnLinesOfTheirOwn(e.trail) \o NL \o T(close) \o Out
             [] OTHER ->
                  T(open) \o Sp \o CommaSeparated(e.es, LAMBDA x : Expr(x, FALSE)) \o Sp \o T(close))

(* Records.  Comments before a field are written in pretty style, and only *)
(* if one of them is a line comment.                                       *)
WriteSetter(s) ==
  LET below == Multiline(s.e) \/ (Pretty /\ (s.split \/ Commented(s.e)))
      value == Expr(s.e, FALSE)
  IN  Node(T("lower") \o Sp \o T("=")
           \o (IF below THEN In \o NL \o (IF Pretty THEN Leading(s.e.cs) ELSE <<>>) \o value \o Out
               ELSE Sp \o value)
           \o (IF Pretty THEN OnItsLine(s.after) ELSE <<>>))

WriteRecord(e) ==
  LET tall == \/ Some(e.es, LAMBDA s : Multiline(s.e))
              \/ Pretty /\ \/ e.split
                           \/ Some(e.es, LAMBDA s : s.after # <<>> \/ Commented(s.e))
                           \/ Some(Tail(e.es), Commented)
      line == IF Pretty THEN Align ELSE NL
      Lines(s) == line \o (IF Pretty /\ LineBefore(s)
                           THEN Each(s.cs, LAMBDA i : Cm(s.cs[i]) \o line) ELSE <<>>)
      Setter(i) == (IF i = 1 THEN T("{") ELSE (IF tall THEN Lines(e.es[i]) ELSE <<>>) \o T(","))
                   \o Sp \o WriteSetter(e.es[i])
  IN  Node(Hold \o Each(e.es, Setter) \o (IF tall THEN line ELSE Sp) \o T("}") \o Back)

WriteUpdate(e) ==
  LET tall == \/ Some(e.es, LAMBDA s : Multiline(s.e))
              \/ Pretty /\ (e.split \/ Some(e.es, LAMBDA s : s.after # <<>>))
      Mark(i) == CASE i = 1 -> (IF tall THEN NL ELSE Sp) \o T("|")
                   [] i > 1 -> (IF tall THEN NL ELSE <<>>) \o T(",")
      Setter(i) == Mark(i) \o Sp \o WriteSetter(e.es[i])
  IN  Node(T("{") \o Sp \o T("lower") \o In \o Each(e.es, Setter) \o Out
           \o (IF tall THEN NL ELSE Sp) \o T("}"))
-----------------------------------------------------------------------------
(* write_if_condition, write_if_expr, write_if_else_tail.                  *)

WriteCondition(c, ch) ==
  IF Pretty /\ (Multiline(c) \/ Commented(c))
  THEN T("if") \o In \o NL \o Leading(c.cs) \o Expr(c, ch) \o Out \o NL \o T("then")
  ELSE T("if") \o Sp \o Expr(c, ch) \o Sp \o T("then")

(* route_ifbranch_pipeline_block_comments: by their dummy offsets, block   *)
(* comments after a pipeline belong between its operands.                  *)
Routes(e) == e.t.k = "op" /\ e.t.op \in Pipes /\ ~e.split

Routed(e) ==
  LET routed == IF Routes(e) THEN BlocksOf(e.trail) ELSE <<>>
  IN  IF routed = <<>> THEN e
      ELSE [e EXCEPT !.t.r.cs = routed \o @, !.trail = SelectSeq(@, LAMBDA c : c = "line")]

WriteThen(branch, ch) ==
  LET e == Routed(branch)
  IN  In \o NL \o Leading(e.t.cs) \o Expr(e.t, ch) \o OnLinesOfTheirOwn(e.trail) \o Out
      \o Newline \o NL

WriteElseTail(x, ch) ==
  T("else")
  \o (IF x.k = "if" THEN Sp \o Node(T("if") \o Sp \o Expr(x.c, ch) \o Sp \o T("then")
                                   \o WriteThen(x, ch) \o ElseTail(x.e, ch))
      ELSE Body(x, ch))

WriteIf(e, ch) ==
  LET simple == ~Multiline(e) /\ ~Commented(e.t) /\ e.trail = <<>> /\ ~Commented(e.e)
      tall == WriteCondition(e.c, ch) \o WriteThen(e, ch) 
      else == IF e.e.k = "if"
              THEN T("else") \o Sp \o Node(WriteCondition(e.e.c, ch) \o WriteThen(e.e, ch)
                                           \o ElseTail(e.e.e, ch))
              ELSE T("else") \o Body(e.e, ch)
  IN  Node(CASE Pretty -> Here \o tall \o else \o Back
             [] ~Pretty /\ simple ->
                  WriteCondition(e.c, ch) \o Sp \o Expr(e.t, ch)
                  \o Sp \o T("else") \o Sp \o Expr(e.e, ch)
             [] OTHER -> tall \o T("else") \o Body(e.e, ch))

(* write_case_expr.                                                        *)

WriteCase(e, ch) ==
  LET hanging == Pretty /\ (e.e.k \in {"if", "let", "case"} \/ Multiline(e.e))
      subject == IF hanging THEN In \o NL \o Expr(e.e, ch) \o Out \o NL
                 ELSE Sp \o Expr(e.e, ch) \o Sp
      Branch(i) == LET b == e.bs[i]
                   IN  (IF Pretty /\ i > 1 THEN Newline ELSE <<>>)
                       \o NL \o Leading(b.cs) \o Pattern(b.pat) \o Sp \o T("->") \o Body(b.e, ch)
      steps == T("case") \o subject \o T("of") \o In \o Each(e.bs, Branch) \o Out
  IN  Node(IF Pretty THEN Here \o steps \o Back ELSE steps)

(* write_let_expr, write_let_declaration, write_signature and              *)
(* write_function_impl.                                                    *)
Arguments(ps) == Each(ps, LAMBDA i : Sp \o PatternAtomic(ps[i]))

WriteImplementation(d, ch) ==
  LET e == IF Pretty THEN UnwrapParens(d.e) ELSE d.e
  IN  Node(T("lower") \o Arguments(d.args) \o Sp \o T("=")
           \o In \o NL \o Leading(d.e.cs) \o Expr(e, ch) \o Out)

WriteLetDeclaration(d, ch) ==
  CASE d.k = "destr" -> Node(Pattern(d.pat) \o Sp \o T("=") \o Body(d.e, ch))
    [] d.k = "def" /\ d.sig = <<>> -> Node(WriteImplementation(d, ch))
    [] d.k = "def" /\ d.sig # <<>> -> Node(WriteField(d.sig[1]) \o NL \o WriteImplementation(d, ch))

WriteLet(e, ch) ==
  LET blank == IF Pretty THEN Newline ELSE <<>>
      Declaration(i) == (IF i > 1 THEN blank ELSE <<>>)
                        \o NL \o Leading(e.ds[i].cs) \o WriteLetDeclaration(e.ds[i], ch)
      trailing == IF e.trail = <<>> THEN <<>> ELSE blank \o OnLinesOfTheirOwn(e.trail)
      steps == T("let") \o In \o Each(e.ds, Declaration) \o trailing \o Out
               \o NL \o T("in") \o NL \o Leading(e.e.cs) \o Expr(e.e, ch)
  IN  Node(IF Pretty THEN Here \o steps \o Back ELSE steps)

(* write_lambda.                                                           *)
WriteLambda(e, ch) ==
  Node(T("\\") \o PatternAtomic(e.ps[1]) \o Arguments(Tail(e.ps)) \o Sp \o T("->")
       \o (IF Multiline(e.e) \/ (Pretty /\ e.split) \/ Commented(e.e) THEN Body(e.e, ch)
           ELSE Sp \o Expr(e.e, ch)))
-----------------------------------------------------------------------------
(* write_expr_atomic.                                                      *)
WriteAtomic(e) ==
  CASE e.k = "var" -> Node(T("lower"))
    [] e.k = "num" -> Node(T("number"))
    [] e.k \in {"short", "text", "glsl"} -> Node(T(e.k))
    [] e.k = "unit" -> Node(T("(") \o T(")"))
    [] e.k = "prefix" -> Node(T("(") \o TOp("+") \o T(")"))
    [] e.k = "accessor" -> Node(T(".") \o T("lower"))
    [] e.k = "qualified" -> Node(T("upper") \o T(".") \o T("lower"))
    [] e.k = "dot" -> Node(Atomic(e.e) \o T(".") \o T("lower"))
    [] e.k = "par" -> WriteParenthesized(e)
    [] e.k = "tuple" -> WriteList("(", e, ")")
    [] e.k = "list" -> IF e.es = <<>> THEN Node(T("[") \o T("]")) ELSE WriteList("[", e, "]")
    [] e.k = "record" -> IF e.es = <<>> THEN Node(T("{") \o T("}")) ELSE WriteRecord(e)
    [] e.k = "update" -> WriteUpdate(e)
    [] e.k \in {"op", "app", "neg"} -> Parens(Expr(e, FALSE))
    [] e.k \in Blocks -> IF Pretty THEN WriteTallParens(e, <<>>, FALSE) ELSE Parens(Expr(e, FALSE))
(* write_expr_inner.                                                       *)
WriteExpr(expr, ch) ==
  LET e == Stripped(expr)
  IN  CASE e.k = "op" -> WriteBinary(e, ch)
        [] e.k = "if" -> WriteIf(e, ch)
        [] e.k = "case" -> WriteCase(e, ch)
        [] e.k = "let" -> WriteLet(e, ch)
        [] e.k = "lam" -> WriteLambda(e, ch)
        [] OTHER -> App(e)

(* The entry points.                                                       *)
WriteAs(what, e, ch) ==
  CASE what = "expression" -> WriteExpr(e, ch)
    [] what = "application" -> WriteApp(e)
    [] what = "atom" -> WriteAtomic(e)
    [] what = "else" -> WriteElseTail(e, ch)

(* The right side of a definition.                                         *)
Printed(e) == Play(Leading(e.cs) \o Expr(IF Pretty THEN UnwrapParens(e) ELSE e, FALSE))
=============================================================================
