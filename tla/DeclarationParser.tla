-------------------------- MODULE DeclarationParser --------------------------
(***************************************************************************)
(* Top-level declarations: src/src/parse/declaration.rs.  These functions  *)
(* call parse_expr, parse_pattern and parse_type, each on an empty stack,  *)
(* so they are kept beside that machine and wait for it:                   *)
(*                                                                         *)
(*   outer  the frames of the module-level functions in progress;          *)
(*   at     which of them runs, or waits for the machine to return;        *)
(*   doc    the doc comment a declaration was opened with (its place in    *)
(*          the text, 0 for None);                                         *)
(*   decls  the declarations so far;                                       *)
(*   want   the tokens a row of `expect`s still waits for, a set of kinds  *)
(*          for each.                                                      *)
(*                                                                         *)
(* The machine idles in ctl "ok".  An error unwinds it to ctl "error",     *)
(* whichever function raised it.                                           *)
(***************************************************************************)
EXTENDS ExprParser

VARIABLES outer, at, doc, decls, want

Declared == [node : Node, doc : Nat]

Outer == outer[Len(outer)]

OuterPop == SubSeq(outer, 1, Len(outer) - 1)

OuterSwap(fr) == Append(OuterPop, fr)

(* A module-level function runs; or it is given what it called for.        *)
Runs(a) == ctl = "ok" /\ at = a /\ want = <<>>

Given(a) == ctl = "done" /\ calls = <<>> /\ conts = <<>> /\ at = a

(* Go on at a with the cursor q and the frames fs: at once, after a row of *)
(* `expect`s, or when the machine, called at c, returns.                   *)
Call(q, fs, a, c) == /\ Goto(q, <<>>, c)
                     /\ outer' = fs /\ at' = a /\ want' = <<>>
                     /\ UNCHANGED decls

Proceed(q, fs, a) == Call(q, fs, a, "ok")

Expect(row, q, fs, a) == /\ Goto(q, <<>>, "ok")
                         /\ outer' = fs /\ at' = a /\ want' = row
                         /\ UNCHANGED decls

(* `?`: what was built of the declaration goes with it.                    *)
Raise(q) == /\ Fail(q)
            /\ want' = <<>>
            /\ UNCHANGED <<outer, at, decls>>

ExpectedToken ==
  /\ ctl = "ok" /\ want # <<>>
  /\ LET q == Skip(p)
     IN  \/ /\ Peek(q) \in want[1]
            /\ Expect(Tail(want), Advance(q), outer, at)
         \/ /\ Peek(q) \notin want[1]
            /\ Raise(q)
  /\ UNCHANGED doc

(* The declaration is complete.                                            *)
EndDeclaration(q, node, d) == /\ Goto(q, <<>>, "ok")
                              /\ outer' = <<>>
                              /\ at' = "declarations" /\ want' = <<>>
                              /\ decls' = Append(decls, [node |-> node, doc |-> d])
                              /\ doc' = 0
-----------------------------------------------------------------------------
(* parse_declaration: a doc comment, then one arm of the match.            *)

Documented(q) == Peek(q) = "doc"

(* The cursor past the doc comment; Arm(c) opens the arm for the token c.  *)
PastDoc(q) == IF Documented(q) THEN Skip(Advance(q)) ELSE q

Arm(kinds) == /\ Runs("declaration")
              /\ Peek(PastDoc(Skip(p))) \in kinds
              /\ doc' = IF Documented(Skip(p)) THEN toks[Skip(p).pos].ix ELSE 0

Opened == New("declaration", Here(p))

TypeArm ==
  /\ Arm({"type"})
  /\ LET q == Skip(Advance(PastDoc(Skip(p))))
     IN  \/ Peek(q) = "alias" /\ Proceed(Advance(q), <<Opened>>, "aliasName")
         \/ Peek(q) # "alias" /\ Proceed(q, <<Opened>>, "typeName")

PortArm == /\ Arm({"port"})
           /\ Call(Skip(Advance(PastDoc(Skip(p)))), <<Opened>>, "port", "signature")

InfixArm == /\ Arm({"infix"})
            /\ Expect(<<{"left"}, {"number"}, {"("}, {"op", "-"}, {")"}, {"="}, {"lower"}>>,
                      Advance(PastDoc(Skip(p))), <<Opened>>, "infix")

FunctionArm ==
  /\ Arm({"lower"})
  /\ LET q == PastDoc(Skip(p))
     IN  \/ NextKind(q) = ":" /\ Call(q, <<Opened>>, "signature", "signature")
         \/ NextKind(q) # ":" /\ Expect(<<{"lower"}>>, q, <<[Opened EXCEPT !.mark = Here(q)]>>, "arguments")

DestructuringArm == /\ Arm(PatternStarts \ {"lower"})
                    /\ Call(PastDoc(Skip(p)), <<Opened>>, "pattern", "pattern")

NoDeclaration == /\ Arm(Kinds \ (PatternStarts \cup {"type", "port", "infix"}))
                 /\ Raise(PastDoc(Skip(p)))
-----------------------------------------------------------------------------
(* Functions, with and without a signature: mark is impl_start.            *)

(* Mutant of AfterSignature: impl_start is taken before the signature.     *)
EarlyStart ==
  /\ Given("signature")
  /\ LET q == Skip(p)
         fr == Hold([Outer EXCEPT !.sub = @ \cup val.sub, !.mark = val.from], Carried(val))
     IN  Expect(<<{"lower"}>>, q, OuterSwap(fr), "arguments")
  /\ UNCHANGED doc

AfterSignature ==
  /\ Given("signature")
  /\ LET q == Skip(p)
         fr == Hold([Outer EXCEPT !.sub = @ \cup val.sub, !.mark = Here(q)], Carried(val))
     IN  Expect(<<{"lower"}>>, q, OuterSwap(fr), "arguments")
  /\ UNCHANGED doc

FunctionArguments ==
  /\ Runs("arguments")
  /\ LET q == Skip(p)
         r == Advance(q)
     IN  \/ /\ Peek(q) \in PatternStarts
            /\ Call(q, outer, "arguments", "pattern")
         \/ /\ Peek(q) = "="
            /\ Call(r, OuterSwap([Outer EXCEPT !.body = Snapshot(r)]), "body", "expr")
         \/ /\ Peek(q) \notin PatternStarts \cup {"="}
            /\ Raise(q)
  /\ UNCHANGED doc

AfterFunctionArgument ==
  /\ Given("arguments")
  /\ Proceed(p, OuterSwap(AddPart(Outer, val)), "arguments")
  /\ UNCHANGED doc

AfterFunctionBody ==
  /\ Given("body")
  /\ LET q == AfterPre(p, val, Outer.body)
         fr == AddPart(Outer, WithPre(p, val, Outer.body))
         implementation == SpanNode(Outer.mark, q, <<>>, {})
     IN  EndDeclaration(q, Close([fr EXCEPT !.sub = @ \cup implementation.sub], q), doc)

(* A destructuring keeps no doc comment, and the comments before its body  *)
(* stay pending.                                                           *)
AfterDestructured ==
  /\ Given("pattern")
  /\ Expect(<<{"="}>>, p, OuterSwap(AddPart(Outer, val)), "destructured")
  /\ UNCHANGED doc

DestructuredBody == /\ Runs("destructured")
                    /\ Call(p, outer, "destructured", "expr")
                    /\ UNCHANGED doc

AfterDestructuredBody == /\ Given("destructured")
                         /\ EndDeclaration(p, Close(AddPart(Outer, val), p), 0)

(* A port is its signature's value; neither it nor an infix declaration    *)
(* has a place for a doc comment.                                          *)
AfterPortSignature ==
  /\ Given("port")
  /\ LET value == [val EXCEPT !.sub = @ \ {<<val.from, val.to>>}]
     IN  EndDeclaration(p, Close(AddPart(Outer, value), p), 0)

InfixDeclaration == /\ Runs("infix")
                    /\ EndDeclaration(p, Close(Outer, p), 0)
-----------------------------------------------------------------------------
(* Type aliases and custom types: mark and line are those of the last word *)
(* of the header, header_end_offset and header_end_line.                   *)

Heading(q, a) == Proceed(Advance(q), OuterSwap([Outer EXCEPT !.mark = toks[q.pos].ix,
                                                             !.line = toks[q.pos].line]), a)

TypeName ==
  /\ at \in {"aliasName", "typeName"} /\ Runs(at)
  /\ LET q == Skip(p)
     IN  \/ Peek(q) = "upper" /\ Heading(q, IF at = "aliasName" THEN "aliasGenerics" ELSE "typeGenerics")
         \/ Peek(q) # "upper" /\ Raise(q)
  /\ UNCHANGED doc

Generic == /\ at \in {"aliasGenerics", "typeGenerics"} /\ Runs(at)
           /\ Peek(Skip(p)) = "lower"
           /\ Heading(Skip(p), at)
           /\ UNCHANGED doc

AliasEquals ==
  /\ Runs("aliasGenerics")
  /\ LET q == Skip(p)
     IN  \/ Peek(q) = "=" /\ Call(Advance(q), outer, "alias", "type")
         \/ Peek(q) \notin {"=", "lower"} /\ Raise(q)
  /\ UNCHANGED doc

AfterAliasedType == /\ Given("alias")
                    /\ EndDeclaration(p, Close(AddPart(Outer, val), p), doc)

(* The line comments below the header and before `=` belong to the type.   *)
CustomEquals ==
  /\ Runs("typeGenerics")
  /\ LET q == Skip(p)
         gap == {c \in Between(q, Outer.mark, Here(q)) : c.line > Outer.line /\ ~c.block}
         r == Unclaimed(q, 0, gap)
         s == Advance(r)
         fr == [Hold(Outer, Claimed(q, 0, gap)) EXCEPT !.snap = Snapshot(s)]
     IN  \/ Peek(q) = "=" /\ Proceed(s, OuterSwap(fr), "constructor")
         \/ Peek(q) \notin {"=", "lower"} /\ Raise(r)
  /\ UNCHANGED doc

(* parse_value_constructor: mark is the start of the name, lim the end of  *)
(* the name or of the last argument.                                       *)
Constructor ==
  /\ Runs("constructor")
  /\ LET q == Skip(p)
         name == toks[q.pos]
         fr == [New("constructor", Here(p)) EXCEPT !.mark = name.ix, !.lim = name.ix,
                                                   !.col = name.col, !.line = name.line]
     IN  \/ Peek(q) = "upper" /\ Proceed(Advance(q), Append(outer, fr), "fields")
         \/ Peek(q) # "upper" /\ Raise(q)
  /\ UNCHANGED doc

(* Mutant of AnotherField: columns are not compared. *)
AnyField(q) == Peek(q) \in TypeStarts

AnotherField(q) ==
  /\ Peek(q) \in TypeStarts
  /\ InParens(q) \/ HereCol(q) > Outer.col \/ toks[q.pos].line = Outer.line

(* body is next_start_offset.                                              *)
ConstructorField ==
  /\ Runs("fields")
  /\ LET q == Skip(p)
     IN  /\ AnotherField(q)
         /\ Call(q, OuterSwap([Outer EXCEPT !.snap = Snapshot(p), !.body = Here(q)]), "fields", "atomType")
  /\ UNCHANGED doc

AfterConstructorField ==
  /\ Given("fields")
  /\ LET gap == Between(p, Outer.lim, Outer.body)
         field == Lead(val, Claimed(p, Outer.snap, gap))
     IN  Proceed(Unclaimed(p, Outer.snap, gap),
                 OuterSwap([AddPart(Outer, field) EXCEPT !.lim = field.to]), "fields")
  /\ UNCHANGED doc

(* A last pending line comment on the line the constructor ends on.        *)
LineTrail(q, line) ==
  LET last == q.pending[Len(q.pending)]
  IN  IF q.pending # <<>> /\ last.line = line /\ ~last.block THEN <<last>> ELSE <<>>

DropLineTrail(q, line) == IF LineTrail(q, line) = <<>> THEN q
                          ELSE [q EXCEPT !.pending = SubSeq(@, 1, Len(@) - 1)]

(* Mutant of Separated: only what stands before the `|`. *)
SeparatedAtPipe(q, ty, ctor) ==
  IF ty.n = 0 THEN [lead |-> Before(q, ctor.mark), inline |-> {}]
  ELSE [lead |-> Between(q, ty.last.to, ctor.mark) \cap Before(q, ty.lim), inline |-> {}]

(* The comments since the type's `=` that belong to a constructor: before  *)
(* the first one; from the second on, between the previous one and its     *)
(* name, on either side of the `|` (at lim).                               *)
Separated(q, ty, ctor) ==
  IF ty.n = 0 THEN [lead |-> Before(q, ctor.mark), inline |-> {}]
  ELSE [lead |-> Between(q, ty.last.to, ctor.mark) \cap Before(q, ty.lim),
        inline |-> Between(q, ty.last.to, ctor.mark) \ Before(q, ty.lim)]

EndConstructor ==
  /\ Runs("fields")
  /\ LET ctor == Outer
         ty == outer[1]
         line == IF ctor.n > 0 THEN ctor.last.end ELSE ctor.line
         q == Skip(p)
         r == DropLineTrail(q, line)
         cs == Separated(r, ty, ctor)
         s == Unclaimed(r, ty.snap, cs.lead \cup cs.inline)
         held == Hold(ctor, LineTrail(q, line) \o Claimed(r, ty.snap, cs.inline))
         fr == AddPart(ty, Lead(Close(held, r), Claimed(r, ty.snap, cs.lead)))
     IN  /\ ~AnotherField(q)
         /\ \/ /\ Peek(s) = "|"
               /\ Proceed(Advance(s), <<[fr EXCEPT !.lim = Here(s)]>>, "constructor")
               /\ UNCHANGED doc
            \/ /\ Peek(s) # "|"
               /\ EndDeclaration(s, Close(fr, s), doc)
-----------------------------------------------------------------------------
DeclarationNext ==
  \/ ExpectedToken
  \/ TypeArm \/ PortArm \/ InfixArm \/ FunctionArm \/ DestructuringArm \/ NoDeclaration
  \/ AfterSignature \/ FunctionArguments \/ AfterFunctionArgument \/ AfterFunctionBody
  \/ AfterDestructured \/ DestructuredBody \/ AfterDestructuredBody \/ AfterPortSignature \/ InfixDeclaration
  \/ TypeName \/ Generic \/ AliasEquals \/ AfterAliasedType
  \/ CustomEquals \/ Constructor \/ ConstructorField \/ AfterConstructorField \/ EndConstructor
=============================================================================
