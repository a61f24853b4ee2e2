----------------------------- MODULE ExprParser -----------------------------
(***************************************************************************)
(* Expressions: src/src/parse/expr.rs.  A compound form that needs a       *)
(* sub-expression returns Step::NeedExpr(closure); the trampoline boxes    *)
(* the closure with everything wrapped around it (Need), parses the        *)
(* sub-expression from an empty call stack, and reopens the box with the   *)
(* result (Resume).  There is one action per function, and one for each    *)
(* closure a sub-expression is handed to.                                  *)
(***************************************************************************)
EXTENDS PatternParser, TypeParser

AtomStarts == {"number", "text", "lower", "upper", "(", "{", "[", ".", "glsl", "if", "case",
               "let", "\\"}
-----------------------------------------------------------------------------
(* The trampoline of parse_expr.                                           *)

(* Mutant of Need: the limit is one too high. *)
NeedDeeper(q, cs) ==
  \/ /\ Len(conts) <= MaxExprDepth
     /\ p' = q
     /\ conts' = Append(conts, cs)
     /\ calls' = <<>>
     /\ ctl' = "expr"
     /\ UNCHANGED <<toks, val>>
  \/ /\ Len(conts) > MaxExprDepth
     /\ Fail(q)

Need(q, cs) ==
  \/ /\ Len(conts) < MaxExprDepth
     /\ p' = q
     /\ conts' = Append(conts, cs)
     /\ calls' = <<>>
     /\ ctl' = "expr"
     /\ UNCHANGED <<toks, val>>
  \/ /\ Len(conts) >= MaxExprDepth
     /\ Fail(q)

(* Mutant of Resume: the box is reopened but not removed. *)
ResumeAgain == /\ ctl = "done" /\ calls = <<>> /\ conts # <<>>
               /\ calls' = conts[Len(conts)]
               /\ UNCHANGED <<toks, p, conts, ctl, val>>

Resume == /\ ctl = "done" /\ calls = <<>> /\ conts # <<>>
          /\ calls' = conts[Len(conts)]
          /\ conts' = SubSeq(conts, 1, Len(conts) - 1)
          /\ UNCHANGED <<toks, p, ctl, val>>
-----------------------------------------------------------------------------
(* Binary operators: an iterative Pratt parser.                            *)

Precedence(op) ==
  CASE op \in {"<|", "|>"} -> 0
    [] op = "||" -> 2
    [] op = "&&" -> 3
    [] op = "==" -> 4
    [] op = "::" -> 5
    [] op \in {"+", "-"} -> 6
    [] op = "*" -> 7
    [] op = "^" -> 8
    [] OTHER -> 9

RightAssociative(op) == op \in {"<|", "||", "&&", "::", "^", ">>"}

LeftPower(op) == 2 * Precedence(op)

(* Mutant of RightPower: every operator associates to the right. *)
EqualPowers(op) == 2 * Precedence(op)

RightPower(op) == IF RightAssociative(op) THEN 2 * Precedence(op) ELSE 2 * Precedence(op) + 1

ParseBinary == /\ ctl = "expr"
               /\ Goto(p, Append(calls, New("binary", 0)), "unary")

(* The operand of a step gets the comments claimed for that step.          *)
AfterOperand ==
  /\ Resumes("binary")
  /\ GotoWith(p, Swap([Top EXCEPT !.lead = <<>>]), "binary", Lead(val, Top.lead))

(* binary_loop, to the operator: own-line comments before it are claimed.  *)
BinaryLoop ==
  /\ ctl = "binary"
  /\ LET q == Skip(p)
         own == {c \in Between(q, val.to, Here(q)) : ~c.block /\ c.line > val.end}
     IN  \/ /\ Peek(q) \in {"op", "-"}
            /\ Goto(Unclaimed(q, 0, own), Swap([Top EXCEPT !.lead = Claimed(q, 0, own)]), "reduce")
         \/ /\ Peek(q) \notin {"op", "-"}
            /\ Goto(q, calls, "fold")

Combine(op, right) ==
  [from |-> op.left.from, to |-> right.to, end |-> right.end, arrow |-> FALSE, cs |-> <<>>,
   kept |-> Carried(op.left) \o Carried(right),
   sub |-> op.left.sub \cup right.sub \cup {<<op.left.from, right.to>>}]

ReduceLast(c) == GotoWith(p, Swap([Top EXCEPT !.ops = SubSeq(@, 1, Len(@) - 1)]), c,
                          Combine(Top.ops[Len(Top.ops)], val))

(* Fold the pending operators that bind tighter, then shift this one.      *)
Reduce ==
  /\ ctl = "reduce"
  /\ LET op == toks[p.pos].op
         tighter == Top.ops # <<>> /\ Top.ops[Len(Top.ops)].rbp > LeftPower(op)
     IN  \/ /\ tighter
            /\ ReduceLast("reduce")
         \/ /\ ~tighter
            /\ Goto(Advance(p),
                    Swap([Top EXCEPT !.ops = Append(@, [left |-> val, rbp |-> RightPower(op)])]),
                    "unary")

FoldRest == /\ ctl = "fold"
            /\ \/ Top.ops # <<>> /\ ReduceLast("fold")
               \/ Top.ops = <<>> /\ Return(p, Pop, val)
-----------------------------------------------------------------------------
(* Negation and application.                                               *)

ParseUnary ==
  /\ ctl = "unary"
  /\ LET q == Skip(p)
     IN  \/ /\ Peek(q) = "-"
            /\ Goto(Advance(q), Append(calls, New("neg", Here(q))), "app")
         \/ /\ Peek(q) # "-"
            /\ Goto(q, calls, "app")

AfterNegated == /\ Resumes("neg")
                /\ Return(p, Pop, Close(AddPart(Top, val), p))

(* Mutant of ParseApplication: the context column is not taken. *)
PeekContext ==
  /\ ctl = "app"
  /\ Goto(p, Append(calls, [New("app", Here(p)) EXCEPT !.col = HereCol(p), !.ctx = p.ctx,
                                                      !.line = toks[p.pos].line]), "atom")

(* parse_application_cps takes app_context_col for itself alone.           *)
ParseApplication ==
  /\ ctl = "app"
  /\ Goto([p EXCEPT !.ctx = 0],
          Append(calls, [New("app", Here(p)) EXCEPT !.col = HereCol(p), !.ctx = p.ctx,
                                                    !.line = toks[p.pos].line]), "atom")

(* application_loop: is there another argument, and which comments lead    *)
(* it?  A `-` is a negated argument when blanks precede it and none follow. *)
ApplicationLoop ==
  /\ ctl = "args"
  /\ LET q == Skip(p)
         negated == /\ Peek(q) = "-" /\ ~Glued(q.pos)
                    /\ q.pos < Len(toks) /\ Glued(q.pos + 1)
                    /\ toks[q.pos + 1].kind \in AtomStarts
         ref == IF Top.ctx > 0 THEN Top.ctx ELSE Top.col
         dedented == toks[q.pos].line # Top.line /\ HereCol(q) <= ref
         more == (Peek(q) \in AtomStarts \/ negated) /\ ~dedented
         own == {c \in Elements(q.pending) :
                   \/ c.block /\ c.line = Top.last.end /\ c.end = Top.last.end
                   \/ c.line > Top.last.end}
         r == Unclaimed(q, Snapshot(p), own)
         cs == Swap([Top EXCEPT !.lead = Claimed(q, Snapshot(p), own)])
     IN  \/ /\ more /\ ~negated
            /\ Goto(r, cs, "atom")
         \/ /\ more /\ negated
            /\ Goto(Advance(r), Append(cs, New("neg", Here(q))), "atom")
         \/ /\ ~more /\ Top.n = 1
            /\ Return(q, Pop, Top.last)
         \/ /\ ~more /\ Top.n > 1
            /\ Return(q, Pop, Close(Top, q))

AfterArgument ==
  /\ Resumes("app")
  /\ Goto(p, Swap([AddPart(Top, Lead(val, Top.lead)) EXCEPT !.lead = <<>>]), "args")
-----------------------------------------------------------------------------
(* Atomic expressions: parse_atomic_expr_cps by the token it starts with,  *)
(* then the chain of `.field` accesses glued to the result.                *)

Compound(fr) == calls \o <<New("access", 0), fr>>

SimpleAtom ==
  /\ ctl = "atom"
  /\ LET q == Skip(p)
         r == Advance(q)
     IN  /\ Peek(q) \in {"number", "text", "lower", "glsl"}
         /\ GotoWith(r, calls, "access", Leaf(Here(q), r))

(* parse_qualified_value: the loop over `.name`.                           *)
QualifiedAtom ==
  /\ ctl = "atom"
  /\ LET q == Skip(p)
     IN  /\ Peek(q) = "upper"
         /\ GotoWith(Advance(q), calls, "valueName", Leaf(Here(q), Advance(q)))

QualifyValue ==
  /\ ctl = "valueName"
  /\ LET next == Advance(p)
         dotted == Peek(p) = "." /\ NextKind(p) \in {"upper", "lower"} /\ Peek(next) \in {"upper", "lower"}
         name == Leaf(val.from, Advance(next))
     IN  \/ /\ dotted /\ Peek(next) = "upper"
            /\ GotoWith(Advance(next), calls, "valueName", name)
         \/ /\ dotted /\ Peek(next) = "lower"
            /\ GotoWith(Advance(next), calls, "access", name)
         \/ /\ ~dotted
            /\ Goto(p, calls, "access")

AccessorAtom ==
  /\ ctl = "atom"
  /\ LET q == Skip(p)
         r == Advance(q)
     IN  /\ Peek(q) = "."
         /\ \/ /\ Peek(r) = "lower"
               /\ GotoWith(Advance(r), calls, "access", Leaf(Here(q), Advance(r)))
            \/ /\ Peek(r) # "lower"
               /\ Fail(r)

NotAnAtom ==
  /\ ctl = "atom"
  /\ Peek(Skip(p)) \notin AtomStarts
  /\ Fail(Skip(p))

(* parse_record_access_chain.                                              *)
AccessChain ==
  /\ ctl = "access"
  /\ LET dot == Peek(p) = "." /\ Glued(p.pos)
         r == Advance(p)
     IN  \/ /\ dot /\ Peek(r) = "lower"
            /\ GotoWith(Advance(r), calls, "access",
                        SpanNode(val.from, Advance(r), Carried(val), val.sub))
         \/ /\ dot /\ Peek(r) # "lower"
            /\ Fail(r)
         \/ /\ ~dot
            /\ Return(p, calls, val)

AfterCompound == /\ Resumes("access")
                 /\ Goto(p, Pop, "access")
-----------------------------------------------------------------------------
(* Parentheses, tuples, prefix operators and unit.                         *)

ParenAtom ==
  /\ ctl = "atom"
  /\ LET q == Skip(p)
         open == Advance(q)
         r == Skip(open)
         s == Skip(Advance(r))
         unit == Peek(r) = ")"
         prefix == Peek(r) \in {"op", "-"} /\ Peek(s) = ")"
     IN  /\ Peek(q) = "("
         /\ \/ /\ unit
               /\ GotoWith(Advance(r), calls, "access", Leaf(Here(q), Advance(r)))
            \/ /\ prefix
               /\ GotoWith(Advance(s), calls, "access", Leaf(Here(q), Advance(s)))
            \/ /\ Peek(r) = "op" /\ ~prefix
               /\ Fail(s)
            \/ /\ Peek(r) = "-" /\ ~prefix
               /\ Goto(s, Compound([New("parenNeg", Here(q)) EXCEPT !.mark = Here(r)]), "app")
            \/ /\ Peek(r) \notin {")", "op", "-"}
               /\ Need(r, Compound([New("paren", Here(q)) EXCEPT !.snap = Snapshot(open)]))

(* paren_neg_after_app: the negated application is the first operand of a  *)
(* binary expression.  The code takes the snapshot after the first round of *)
(* binary_loop; it claims nothing whenever it is taken, as every comment   *)
(* before the `-` was pending by then.                                     *)
AfterParenNegated ==
  /\ Resumes("parenNeg")
  /\ LET neg == [val EXCEPT !.from = Top.mark, !.cs = <<>>, !.kept = Carried(val),
                            !.sub = @ \cup {<<Top.mark, val.to>>}]
     IN  GotoWith(p, Pop \o <<[New("paren", Top.from) EXCEPT !.snap = Snapshot(p)], New("binary", 0)>>,
                  "binary", neg)

AfterParenFirst ==
  /\ Resumes("paren")
  /\ LET fr == AddPart(Top, WithPre(p, val, Top.snap))
         q == Skip(AfterPre(p, val, Top.snap))
         gap == Between(q, val.to, Here(q))
         r == Advance(q)
         s == Advance(Unclaimed(q, 0, gap))
     IN  \/ /\ Peek(q) = ","
            /\ Need(r, Swap([fr EXCEPT !.fn = "tuple", !.snap = Snapshot(r)]))
         \/ /\ Peek(q) = ")"
            /\ Return(s, Pop, Close(Hold(fr, Claimed(q, 0, gap)), s))
         \/ /\ Peek(q) \notin {",", ")"}
            /\ Fail(q)

AfterTupleElement ==
  /\ Resumes("tuple")
  /\ LET fr == AddPart(Top, WithPre(p, val, Top.snap))
         q == Skip(AfterPre(p, val, Top.snap))
         r == Advance(q)
     IN  \/ Peek(q) = "," /\ Need(r, Swap(fr))
         \/ Peek(q) = ")" /\ Return(r, Pop, Close(fr, r))
         \/ Peek(q) \notin {",", ")"} /\ Fail(q)
-----------------------------------------------------------------------------
(* Lists and records set the application context column for each element:  *)
(* arguments may then stand anywhere right of the bracket.                 *)

ListAtom ==
  /\ ctl = "atom"
  /\ LET q == Skip(p)
         open == Advance(q)
         r == Skip(open)
         col == HereCol(q)
     IN  /\ Peek(q) = "["
         /\ \/ /\ Peek(r) = "]"
               /\ GotoWith(Advance(r), calls, "access", Leaf(Here(q), Advance(r)))
            \/ /\ Peek(r) # "]"
               /\ Need([r EXCEPT !.ctx = col],
                       Compound([New("list", Here(q)) EXCEPT !.col = col, !.snap = Snapshot(open)]))

AfterListElement ==
  /\ Resumes("list")
  /\ LET body == WithPre(p, val, Top.snap)
         q == AfterPre(p, val, Top.snap)
         fr == Hold(AddPart(Top, body), Inline(q, body))
         r == Skip(DropInline(q, body))
         trailing == {c \in Elements(r.pending) : c.line > body.end /\ c.end < toks[r.pos].line}
         s == Unclaimed(r, 0, trailing)
         last == Hold(fr, Claimed(r, 0, trailing))
     IN  \/ /\ Peek(r) = ","
            /\ Need([Advance(r) EXCEPT !.ctx = Top.col], Swap(fr))
         \/ /\ Peek(r) = "]"
            /\ Return(Advance(s), Pop, Close(last, Advance(s)))
         \/ /\ Peek(r) \notin {",", "]"}
            /\ Fail(s)

(* As for record types, a failed look for `{ name |` puts the position     *)
(* back but not the comments it read.  lim is prev_boundary_offset.        *)
RecordAtom ==
  /\ ctl = "atom"
  /\ LET q == Skip(p)
         r == Skip(Advance(q))
         s == Skip(Advance(r))
         back == [s EXCEPT !.pos = r.pos, !.raw = FALSE]
         Setters(lim) == Compound([New("record", Here(q)) EXCEPT !.col = HereCol(q), !.lim = lim])
     IN  /\ Peek(q) = "{"
         /\ \/ /\ Peek(r) = "}"
               /\ GotoWith(Advance(r), calls, "access", Leaf(Here(q), Advance(r)))
            \/ /\ Peek(r) = "lower" /\ Peek(s) = "|"
               /\ Goto(Advance(s), Setters(Here(s)), "setter")
            \/ /\ Peek(r) = "lower" /\ Peek(s) # "|"
               /\ Goto(back, Setters(Here(q)), "setter")
            \/ /\ Peek(r) \notin {"lower", "}"}
               /\ Goto(r, Setters(Here(q)), "setter")

(* record_parse_setter: mark is setter_start, taken before any skipping.   *)
ParseSetter ==
  /\ ctl = "setter"
  /\ LET q == Skip(p)
         r == Skip(Advance(q))
     IN  \/ /\ Peek(q) # "lower"
            /\ Fail(q)
         \/ /\ Peek(q) = "lower" /\ Peek(r) # "="
            /\ Fail(r)
         \/ /\ Peek(q) = "lower" /\ Peek(r) = "="
            /\ Need([Advance(r) EXCEPT !.ctx = Top.col], Swap([Top EXCEPT !.mark = Here(p)]))

(* record_after_value: a comment trailing the value, then the comments     *)
(* between the boundary and the setter, then those before the value.       *)
AfterSetterValue ==
  /\ Resumes("record")
  /\ LET a == DropTrailing(p, val)
         leading == Between(a, Top.lim, Top.mark)
         b == Unclaimed(a, 0, leading)
         inner == Between(b, Top.mark - 1, val.from)
         c == Unclaimed(b, 0, inner)
         value == Lead(val, Claimed(b, 0, inner))
         setter == SpanNode(Top.mark, c, Carried(value) \o Trailing(p, val), val.sub)
         fr == [AddPart(Top, Lead(setter, Claimed(a, 0, leading))) EXCEPT !.lim = val.to]
         q == Skip(c)
         r == Advance(q)
     IN  \/ Peek(q) = "," /\ Goto(r, Swap(fr), "setter")
         \/ Peek(q) = "}" /\ Return(r, Pop, Close(fr, r))
         \/ Peek(q) \notin {",", "}"} /\ Fail(q)
-----------------------------------------------------------------------------
(* if ... then ... else, with its `else if` chain flattened: chain holds   *)
(* the start of each `if`, and the nested nodes are built at the end.      *)

IfAtom ==
  /\ ctl = "atom"
  /\ LET q == Skip(p)
         r == Advance(q)
     IN  /\ Peek(q) = "if"
         /\ Need(r, Compound([New("ifCond", Here(q)) EXCEPT !.snap = Snapshot(r),
                                                            !.chain = <<Here(q)>>]))

(* if_after_condition.  Only the first condition of a chain takes the      *)
(* comments before it.                                                     *)
AfterCondition ==
  /\ \/ Resumes("ifCond") \/ Resumes("elifCond")
  /\ LET first == Top.fn = "ifCond"
         cond == IF first THEN WithPre(p, val, Top.snap) ELSE val
         q == Skip(IF first THEN AfterPre(p, val, Top.snap) ELSE p)
         r == Advance(q)
     IN  \/ /\ Peek(q) = "then"
            /\ Need(Skip(r), Swap([AddPart(Top, cond) EXCEPT !.fn = "then", !.snap = Snapshot(r)]))
         \/ /\ Peek(q) # "then"
            /\ Fail(q)

(* if_after_then: the comments left before `else` trail the branch.        *)
AfterThen ==
  /\ Resumes("then")
  /\ LET q == Skip(AfterPre(p, val, Top.snap))
         r == Advance(q)
         s == DropSince(r, Top.snap)
         t == Skip(s)
         fr == Hold(AddPart(Top, WithPre(p, val, Top.snap)), Since(r, Top.snap))
     IN  \/ /\ Peek(q) # "else"
            /\ Fail(q)
         \/ /\ Peek(q) = "else" /\ Peek(t) = "if"
            /\ Need(Advance(t), Swap([fr EXCEPT !.fn = "elifCond", !.chain = Append(@, Here(t))]))
         \/ /\ Peek(q) = "else" /\ Peek(t) # "if"
            /\ Need(t, Swap([fr EXCEPT !.fn = "else", !.snap = Snapshot(s)]))

AfterElse ==
  /\ Resumes("else")
  /\ LET q == AfterPre(p, val, Top.snap)
         ifs == Close(AddPart(Top, WithPre(p, val, Top.snap)), q)
     IN  Return(q, Pop, [ifs EXCEPT !.sub = @ \cup {<<start, ifs.to>> : start \in Elements(Top.chain)}])
-----------------------------------------------------------------------------
(* case ... of.  col is the column of `case`, ref that of the first branch. *)

CaseAtom ==
  /\ ctl = "atom"
  /\ LET q == Skip(p)
     IN  /\ Peek(q) = "case"
         /\ Need(Advance(q), Compound([New("caseSubject", Here(q)) EXCEPT !.col = HereCol(q),
                                                                          !.snap = Snapshot(q)]))

AfterCaseSubject ==
  /\ Resumes("caseSubject")
  /\ LET q == Skip(p)
         r == Skip(Advance(q))
         fr == [AddPart(Top, val) EXCEPT !.fn = "casePattern", !.n = 0, !.ref = HereCol(r)]
     IN  \/ Peek(q) = "of" /\ Goto(r, Swap(fr), "branch")
         \/ Peek(q) # "of" /\ Fail(q)

(* case_should_continue.                                                   *)
AnotherBranch(q) ==
  /\ ~AtEof(q)
  /\ IF InParens(q)
     THEN Top.n > 0 => HereCol(q) = Top.ref
     ELSE /\ HereCol(q) >= Top.ref
          /\ Top.n > 0 => HereCol(q) > Top.col
  /\ Peek(q) \in PatternStarts

(* case_next_branch: all comments since `case` go to the branch's pattern. *)
NextBranch ==
  /\ ctl = "branch"
  /\ LET q == Skip(p)
     IN  \/ /\ AnotherBranch(q)
            /\ Goto(DropSince(q, Top.snap), Swap([Top EXCEPT !.lead = Since(q, Top.snap)]), "pattern")
         \/ /\ ~AnotherBranch(q) /\ Top.n = 0
            /\ Fail(q)
         \/ /\ ~AnotherBranch(q) /\ Top.n > 0
            /\ Return(q, Pop, Close(Top, q))

AfterBranchPattern ==
  /\ Resumes("casePattern")
  /\ LET pat == IF Top.lead = <<>> THEN val ELSE [val EXCEPT !.cs = Top.lead]
         fr == Hold([Top EXCEPT !.sub = @ \cup val.sub, !.lead = <<>>], Carried(pat))
         q == Skip(p)
         r == [Advance(q) EXCEPT !.ctx = 0]
     IN  \/ /\ Peek(q) = "->"
            /\ Need(r, Swap([fr EXCEPT !.fn = "caseBody", !.body = Snapshot(r)]))
         \/ /\ Peek(q) # "->"
            /\ Fail(q)

AfterBranchBody ==
  /\ Resumes("caseBody")
  /\ Goto(AfterPre(p, val, Top.body),
          Swap([AddPart(Top, WithPre(p, val, Top.body)) EXCEPT !.fn = "casePattern"]), "branch")
-----------------------------------------------------------------------------
(* let ... in.  col is the column of `let`, ref that of its declarations.  *)

LetAtom ==
  /\ ctl = "atom"
  /\ LET q == Skip(p)
         r == Skip(Advance(q))
     IN  /\ Peek(q) = "let"
         /\ Goto(r, Compound([New("let", Here(q)) EXCEPT !.col = HereCol(q), !.ref = HereCol(r),
                                                         !.snap = Snapshot(q)]), "letNext")

(* let_next_decl.  The block ends at `in`, at the end of the input, or at  *)
(* a token left of the declarations; its last comments trail it.           *)
LetEnds(q) == \/ AtEof(q)
              \/ Peek(q) = "in"
              \/ ~InParens(q) /\ (HereCol(q) < Top.ref \/ HereCol(q) <= Top.col)

EndOfLet ==
  /\ ctl = "letNext"
  /\ LET q == Skip(p)
         r == DropSince(q, Top.snap)
         s == [Advance(r) EXCEPT !.ctx = 0]
         fr == Hold(Top, Since(q, Top.snap))
     IN  /\ LetEnds(q)
         /\ \/ Peek(r) = "in" /\ Need(s, Swap([fr EXCEPT !.fn = "letBody", !.body = Snapshot(s)]))
            \/ Peek(r) # "in" /\ Fail(r)

NextLetDecl ==
  /\ ctl = "letNext"
  /\ LET q == Skip(p)
         r == DropSince(q, Top.snap)
         fr == [Top EXCEPT !.lead = Since(q, Top.snap), !.mark = Here(q)]
     IN  /\ ~LetEnds(q)
         /\ \/ /\ Peek(q) = "lower" /\ NextKind(q) = ":"
               /\ Goto(r, Swap([fr EXCEPT !.fn = "letSig"]), "signature")
            \/ /\ Peek(q) = "lower" /\ NextKind(q) # ":"
               /\ Goto(r, Swap([fr EXCEPT !.fn = "letArgs", !.lim = Here(q)]), "letName")
            \/ /\ Peek(q) # "lower"
               /\ Goto(r, Swap([fr EXCEPT !.fn = "letPattern"]), "pattern")

(* A signature is followed by an implementation, whatever its name.        *)
AfterLetSignature ==
  /\ Resumes("letSig")
  /\ LET q == Skip(p)
         fr == Hold([Top EXCEPT !.sub = @ \cup val.sub], Carried(val))
     IN  Goto(q, Swap([fr EXCEPT !.fn = "letArgs", !.lim = Here(q)]), "letName")

LetName ==
  /\ ctl = "letName"
  /\ LET q == Skip(p)
     IN  \/ Peek(q) = "lower" /\ Goto(Advance(q), calls, "letArgs")
         \/ Peek(q) # "lower" /\ Fail(q)

(* The declaration's value, between `=` and the next declaration.          *)
NeedLetValue(q, fr) ==
  LET r == [Advance(q) EXCEPT !.ctx = 0]
  IN  \/ Peek(q) = "=" /\ Need(r, Swap([fr EXCEPT !.fn = "letValue", !.body = Snapshot(r)]))
      \/ Peek(q) # "=" /\ Fail(q)

LetArguments ==
  /\ ctl = "letArgs"
  /\ LET q == Skip(p)
     IN  \/ Peek(q) \in PatternStarts /\ Goto(q, calls, "pattern")
         \/ Peek(q) \notin PatternStarts /\ NeedLetValue(q, Top)

AfterLetArgument ==
  /\ Resumes("letArgs")
  /\ Goto(p, Swap(Hold([Top EXCEPT !.sub = @ \cup val.sub], Carried(val))), "letArgs")

AfterLetPattern ==
  /\ Resumes("letPattern")
  /\ NeedLetValue(Skip(p), Hold([Top EXCEPT !.sub = @ \cup val.sub, !.lim = 0], Carried(val)))

(* lim is the start of a function's implementation, 0 for a destructuring. *)
AfterLetValue ==
  /\ Resumes("letValue")
  /\ LET q == AfterPre(p, val, Top.body)
         body == WithPre(p, val, Top.body)
         impl == IF Top.lim = 0 THEN {} ELSE SpanNode(Top.lim, q, <<>>, {}).sub
         decl == SpanNode(Top.mark, q, Carried(body), val.sub \cup impl)
     IN  Goto(q, Swap([AddPart(Top, Lead(decl, Top.lead)) EXCEPT !.fn = "let", !.lead = <<>>]),
              "letNext")

AfterLetBody ==
  /\ Resumes("letBody")
  /\ LET q == AfterPre(p, val, Top.body)
     IN  Return(q, Pop, Close(AddPart(Top, WithPre(p, val, Top.body)), q))
-----------------------------------------------------------------------------
(* Lambdas.                                                                *)

LambdaAtom ==
  /\ ctl = "atom"
  /\ LET q == Skip(p)
     IN  /\ Peek(q) = "\\"
         /\ Goto(Advance(q), Compound(New("lambda", Here(q))), "lambdaArgs")

LambdaArguments ==
  /\ ctl = "lambdaArgs"
  /\ LET q == Skip(p)
         r == Advance(q)
     IN  \/ /\ Peek(q) # "->"
            /\ Goto(q, calls, "pattern")
         \/ /\ Peek(q) = "->" /\ Top.n = 0
            /\ Fail(q)
         \/ /\ Peek(q) = "->" /\ Top.n > 0
            /\ Need(r, Swap([Top EXCEPT !.fn = "lambdaBody", !.body = Snapshot(r)]))

AfterLambdaArgument == /\ Resumes("lambda")
                       /\ Goto(p, Swap(AddPart(Top, val)), "lambdaArgs")

AfterLambdaBody ==
  /\ Resumes("lambdaBody")
  /\ LET q == AfterPre(p, val, Top.body)
     IN  Return(q, Pop, Close(AddPart(Top, WithPre(p, val, Top.body)), q))
-----------------------------------------------------------------------------
ExprNext ==
  \/ Resume
  \/ ParseBinary \/ AfterOperand \/ BinaryLoop \/ Reduce \/ FoldRest
  \/ ParseUnary \/ AfterNegated
  \/ ParseApplication \/ ApplicationLoop \/ AfterArgument
  \/ SimpleAtom \/ QualifiedAtom \/ QualifyValue \/ AccessorAtom \/ NotAnAtom
  \/ AccessChain \/ AfterCompound
  \/ ParenAtom \/ AfterParenNegated \/ AfterParenFirst \/ AfterTupleElement
  \/ ListAtom \/ AfterListElement
  \/ RecordAtom \/ ParseSetter \/ AfterSetterValue
  \/ IfAtom \/ AfterCondition \/ AfterThen \/ AfterElse
  \/ CaseAtom \/ AfterCaseSubject \/ NextBranch \/ AfterBranchPattern \/ AfterBranchBody
  \/ LetAtom \/ EndOfLet \/ NextLetDecl \/ AfterLetSignature \/ LetName \/ LetArguments
  \/ AfterLetArgument \/ AfterLetPattern \/ AfterLetValue \/ AfterLetBody
  \/ LambdaAtom \/ LambdaArguments \/ AfterLambdaArgument \/ AfterLambdaBody
  \/ PatternNext
  \/ TypeNext
-----------------------------------------------------------------------------
(* parse_expr on its own, from a new parser to its result.                 *)

ExprInit == /\ toks \in Sources
            /\ p = Start
            /\ conts = <<>>
            /\ calls = <<>>
            /\ ctl = "expr"
            /\ val = NoNode

Finish == /\ ctl = "done" /\ calls = <<>> /\ conts = <<>>
          /\ Goto(p, calls, "ok")

ExprStep == ExprNext \/ Finish

ExprSpec == ExprInit /\ [][ExprStep]_vars

(* The parser is a function call: it runs until it returns.                *)
FairExprSpec == ExprSpec /\ WF_vars(ExprStep)
=============================================================================
