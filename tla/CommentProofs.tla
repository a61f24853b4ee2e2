--------------------------- MODULE CommentProofs ---------------------------
(***************************************************************************)
(* Every action of the parser of expressions, patterns and types is Sound: *)
(* it moves comments between the pending buffer and what holds them, and   *)
(* loses or copies none; but for those read twice, each is in one place.   *)
(***************************************************************************)
EXTENDS TallyProofs
LOCAL INSTANCE FiniteSetTheorems
LOCAL INSTANCE SequenceTheorems
LOCAL INSTANCE Functions
LOCAL INSTANCE SequencesExt
-----------------------------------------------------------------------------
(* Binary operators.                                                       *)

LEMMA CombineLoad ==
  ASSUME NEW op \in PendingOp, NEW right \in Node, NEW c
  PROVE  Load(c, Combine(op, right)) = Load(c, op.left) + Load(c, right)
<1> DEFINE a == Carried(op.left)
           b == Carried(right)
<1>1. op.left \in Node
  BY DEF PendingOp
<1>2. a \in Seq(Comment) /\ b \in Seq(Comment)
  BY <1>1, NodeParts
<1>3. Carried(Combine(op, right)) = <<>> \o (a \o b)
  BY DEF Carried, Combine
<1> HIDE DEF a, b
<1>4. <<>> \o (a \o b) = a \o b
  <2>1. a \o b \in Seq(Comment)
    BY <1>2
  <2> QED BY <2>1, ConcatEmptySeq
<1>5. Times(c, a \o b) = Times(c, a) + Times(c, b)
  BY <1>2, TimesConcat
<1> QED BY <1>3, <1>4, <1>5 DEF Load, a, b

(* One operator folded: its left operand goes into the node.               *)
LEMMA ReduceLastSound ==
  ASSUME IInv, Tidy, Fair, IInv', ctl \in {"reduce", "fold"}, Top.ops # <<>>, ReduceLast(ctl), NEW c
  PROVE  Sound(c)
<1> DEFINE rest == SubSeq(Top.ops, 1, Len(Top.ops) - 1)
           op == Top.ops[Len(Top.ops)]
           fr == [Top EXCEPT !.ops = rest]
           v == Combine(op, val)
<1>1. ctl \in DOMAIN Owners /\ Owners[ctl] = "binary" /\ ctl \in Passing
  BY OwnersAre DEF Passing
<1>2. /\ calls # <<>> /\ Top \in Frame /\ Top.fn = "binary" /\ Pop \in Seq(Frame) /\ val \in Node
      /\ Neat(Top) /\ Meets(Top, ctl, p, val)
      /\ Tally(p, c, Base(c) + Holds(c, Top) + Load(c, val))
      /\ Base(c) \in Nat /\ Load(c, val) \in Nat /\ Times(c, Top.kept) \in Nat
      /\ Times(c, Top.lead) \in Nat
      /\ Holds(c, Top) = Times(c, Top.lead) + Times(c, Top.kept) + OpsLoad(c, Top.ops)
  BY <1>1, Running
<1>3. Free(Pop)
  BY <1>2, TopNeat DEF PatternFrames, TypeFrames
<1>4. op \in PendingOp /\ rest \in Seq(PendingOp)
  BY <1>2, OpsType
<1>5. Top.ops = Append(rest, op)
  <2> DEFINE t == Top.ops
             m == Len(t) - 1
             u == Append(rest, op)
  <2>1. t \in Seq(PendingOp) /\ Len(t) \in Nat \ {0} /\ t # <<>>
    BY <1>2, FrameParts, EmptySeq
  <2>2. /\ u \in Seq(PendingOp) /\ Len(u) = Len(rest) + 1 /\ u[Len(rest) + 1] = op
        /\ \A i \in 1..Len(rest) : u[i] = rest[i]
    <3> HIDE DEF rest, op
    <3> QED BY <1>4, AppendProperties
  <2>3. Len(rest) = m /\ \A i \in 1..m : rest[i] = t[i]
    <3>1. m \in Nat /\ m <= Len(t)
      BY <2>1
    <3> QED BY <2>1, <3>1, SubSeqProperties
  <2> HIDE DEF rest, u
  <2>4. op = t[Len(t)]
    OBVIOUS
  <2> HIDE DEF op, t
  <2>5. Len(u) = Len(t) /\ \A i \in 1..Len(t) : u[i] = t[i]
    BY <2>1, <2>2, <2>3, <2>4
  <2>6. u = t
    BY <2>1, <2>2, <2>5, SeqEqual
  <2> QED BY <2>6 DEF t, u
<1>6. OpsLoad(c, Top.ops) = OpsLoad(c, rest) + Load(c, op.left) /\ OpsLoad(c, rest) \in Nat
  <2> HIDE DEF rest, op
  <2>1. OpsLoad(c, Append(rest, op)) = OpsLoad(c, rest) + Load(c, op.left) /\ OpsLoad(c, rest) \in Nat
    BY <1>4, OpsLoads
  <2> QED BY <1>5, <2>1
<1>7. Load(c, v) = Load(c, op.left) + Load(c, val) /\ Load(c, op.left) \in Nat
  <2>1. op.left \in Node
    BY <1>4 DEF PendingOp
  <2>2. Load(c, op.left) \in Nat
    <3>1. Carried(op.left) \in Seq(Comment)
      BY <2>1, NodeParts
    <3> QED BY <3>1, TimesAre, Zenon DEF Load
  <2> HIDE DEF op
  <2> QED BY <1>2, <1>4, <2>2, CombineLoad
<1> HIDE DEF rest, op
<1>8. fr.fn = "binary" /\ fr.lead = Top.lead /\ fr.kept = Top.kept /\ fr.ops = rest
  BY <1>2, LeadEdits
<1> HIDE DEF fr, v
<1>9. Neat(fr)
  BY <1>2, <1>8 DEF Neat, Bare, Leading
<1>10. Holds(c, fr) = Times(c, Top.lead) + Times(c, Top.kept) + OpsLoad(c, rest)
  BY <1>8 DEF Holds
<1>11. Passes(c, ctl, v) = Load(c, v)
  BY <1>1 DEF Passes
<1>12. Base(c) + Holds(c, Top) + Load(c, val) = Base(c) + Holds(c, fr) + Passes(c, ctl, v)
  BY <1>2, <1>6, <1>7, <1>10, <1>11
<1>13. Fit(fr, ctl, p, v)
  <2>1. ctl = "fold" => fr.lead = <<>>
    BY <1>2, <1>8 DEF Meets
  <2>2. ctl = "reduce" => ~p.raw
    BY DEF Tidy, Plainly
  <2> QED BY <1>8, <2>1, <2>2 DEF Fit, Plainly, PatternFrames, TypeFrames
<1>14. Goes(p, Swap(fr), ctl, v)
  BY DEF ReduceLast, Goes, fr, v, rest, op
<1> QED BY <1>2, <1>3, <1>9, <1>12, <1>13, <1>14, SwapSound

LEMMA OperatorsSound ==
  ASSUME IInv, Ordered, Tidy, Fair, IInv', OperatorNext, NEW c
  PROVE  Sound(c)
<1> USE State
<1>a. Gapped
  BY DEF Tidy
<1>1. CASE ParseBinary
  <2>1. ctl \notin Passing \cup PatternControls \cup TypeControls \cup {"branch", "error"}
    BY <1>1 DEF ParseBinary, Passing, PatternControls, TypeControls
  <2>2. Free(calls) /\ Tally(p, c, Boxes(c) + Sum(c, calls))
    BY SMTT(30), <2>1, Begin
  <2>3. Empty(New("binary", 0)) /\ New("binary", 0).fn = "binary"
    BY NewEmpty
  <2>4. "unary" \notin Passing /\ "binary" \notin Branching \cup TypeFrames
    BY DEF Passing, Branching, PatternFrames, TypeFrames
  <2> QED BY <1>1, <2>2, <2>3, <2>4, StartSound DEF ParseBinary
<1>2. CASE AfterOperand
  <2> DEFINE none == <<>>
             fr == [Top EXCEPT !.lead = none]
             v == Lead(val, Top.lead)
  <2>1. /\ calls # <<>> /\ Top \in Frame /\ Top.fn = "binary" /\ val \in Node
        /\ Neat(Top) /\ Tally(p, c, Base(c) + Holds(c, Top) + Load(c, val))
        /\ Base(c) \in Nat /\ Load(c, val) \in Nat /\ Times(c, Top.kept) \in Nat
        /\ Times(c, Top.lead) \in Nat /\ OpsLoad(c, Top.ops) \in Nat
        /\ Holds(c, Top) = Times(c, Top.lead) + Times(c, Top.kept) + OpsLoad(c, Top.ops)
    BY <1>2, Given DEF AfterOperand
  <2>2. Free(Pop)
    BY <2>1, TopNeat DEF PatternFrames, TypeFrames
  <2>3. Load(c, v) = Load(c, val) + Times(c, Top.lead)
    BY <2>1, FrameParts, LeadLoad
  <2>4. fr.fn = "binary" /\ fr.lead = <<>> /\ fr.kept = Top.kept /\ fr.ops = Top.ops
    BY <2>1, LeadEdits
  <2> HIDE DEF fr, v
  <2>5. Neat(fr)
    BY <2>1, <2>4 DEF Neat, Bare, Leading
  <2>6. Holds(c, fr) = 0 + Times(c, Top.kept) + OpsLoad(c, Top.ops)
    BY <2>4, TimesNone DEF Holds
  <2>7. Passes(c, "binary", v) = Load(c, v)
    BY DEF Passes, Passing
  <2>8. Base(c) + Holds(c, Top) + Load(c, val) = Base(c) + Holds(c, fr) + Passes(c, "binary", v)
    BY <2>1, <2>3, <2>6, <2>7
  <2>9. Fit(fr, "binary", p, v)
    BY <2>4 DEF Fit, Plainly, PatternFrames, TypeFrames
  <2>10. Goes(p, Swap(fr), "binary", v)
    BY <1>2 DEF AfterOperand, Goes, fr, v
  <2> QED BY <2>1, <2>2, <2>5, <2>8, <2>9, <2>10, SwapSound
<1>3. CASE BinaryLoop
  <2> DEFINE q == Skip(p)
             own == {k \in Between(q, val.to, Here(q)) : ~k.block /\ k.line > val.end}
             lead == Claimed(q, 0, own)
             r == Unclaimed(q, 0, own)
             fr == [Top EXCEPT !.lead = lead]
             n == Base(c) + Holds(c, Top) + Load(c, val)
  <2>1. ctl \in DOMAIN Owners /\ Owners[ctl] = "binary" /\ ctl = "binary" /\ ctl \in Passing
    BY <1>3, OwnersAre DEF BinaryLoop, Passing
  <2>2. /\ calls # <<>> /\ Top \in Frame /\ Top.fn = "binary" /\ val \in Node
        /\ Neat(Top) /\ Meets(Top, ctl, p, val) /\ Tally(p, c, n)
        /\ Base(c) \in Nat /\ Load(c, val) \in Nat /\ Times(c, Top.kept) \in Nat
        /\ OpsLoad(c, Top.ops) \in Nat
        /\ Holds(c, Top) = Times(c, Top.lead) + Times(c, Top.kept) + OpsLoad(c, Top.ops)
        /\ Top.lead = <<>> => Times(c, Top.lead) = 0
    BY <2>1, Running
  <2>3. Free(Pop)
    BY <2>2, TopNeat DEF PatternFrames, TypeFrames
  <2>4. Top.lead = <<>> /\ Times(c, Top.lead) = 0
    BY <2>1, <2>2 DEF Meets
  <2>5. Tally(q, c, n) /\ ~q.raw
    BY <2>2, SkipTally
  <2> HIDE DEF q, own, n
  <2>6. Tally(r, c, n + Times(c, lead)) /\ Times(c, lead) \in Nat /\ ~r.raw
    BY <2>5, ClaimTally
  <2> HIDE DEF lead, r
  <2>7. fr.fn = "binary" /\ fr.lead = lead /\ fr.kept = Top.kept /\ fr.ops = Top.ops
    BY <2>2, LeadEdits
  <2> HIDE DEF fr
  <2>8. CASE Goto(r, Swap(fr), "reduce")
    <3>1. Neat(fr)
      BY <2>2, <2>7 DEF Neat, Bare, Leading
    <3>2. Holds(c, fr) = Times(c, lead) + Times(c, Top.kept) + OpsLoad(c, Top.ops)
      BY <2>7 DEF Holds
    <3>3. Passes(c, "reduce", val) = Load(c, val)
      BY DEF Passes, Passing
    <3>4. n + Times(c, lead) = Base(c) + Holds(c, fr) + Passes(c, "reduce", val)
      BY <2>2, <2>4, <2>6, <3>2, <3>3 DEF n
    <3>5. Fit(fr, "reduce", r, val)
      BY <2>6, <2>7 DEF Fit, Plainly, PatternFrames, TypeFrames
    <3>6. Goes(r, Swap(fr), "reduce", val)
      BY <2>8 DEF Goes
    <3> QED BY <2>2, <2>3, <2>6, <3>1, <3>4, <3>5, <3>6, SwapSound
  <2>9. CASE Goto(q, calls, "fold")
    <3>1. Passes(c, "fold", val) = Load(c, val)
      BY DEF Passes, Passing
    <3>2. n = Base(c) + Holds(c, Top) + Passes(c, "fold", val)
      BY <3>1 DEF n
    <3>3. Fit(Top, "fold", q, val)
      BY <2>2, <2>4 DEF Fit, Plainly, PatternFrames, TypeFrames
    <3>4. Goes(q, Swap(Top), "fold", val)
      BY <2>2, <2>9, TopAgain DEF Goes, Swap
    <3> QED BY <2>2, <2>3, <2>5, <3>2, <3>3, <3>4, SwapSound
  <2> QED BY <1>3, <2>8, <2>9 DEF BinaryLoop, q, own, lead, r, fr
<1>4. CASE Reduce
  <2> DEFINE op == toks[p.pos].op
             shifted == [left |-> val, rbp |-> RightPower(op)]
             ops == Append(Top.ops, shifted)
             fr == [Top EXCEPT !.ops = ops]
             n == Base(c) + Holds(c, Top) + Load(c, val)
  <2>1. ctl \in DOMAIN Owners /\ Owners[ctl] = "binary" /\ ctl = "reduce" /\ ctl \in Passing
    BY <1>4, OwnersAre DEF Reduce, Passing
  <2>2. /\ calls # <<>> /\ Top \in Frame /\ Top.fn = "binary" /\ val \in Node
        /\ Neat(Top) /\ Tally(p, c, n)
        /\ Base(c) \in Nat /\ Load(c, val) \in Nat /\ Times(c, Top.kept) \in Nat
        /\ Times(c, Top.lead) \in Nat /\ OpsLoad(c, Top.ops) \in Nat
        /\ Holds(c, Top) = Times(c, Top.lead) + Times(c, Top.kept) + OpsLoad(c, Top.ops)
    BY <2>1, Running
  <2>3. Free(Pop)
    BY <2>2, TopNeat DEF PatternFrames, TypeFrames
  <2>4. RightPower(op) \in Nat
    <3>1. Precedence(op) \in Nat
      BY DEF Precedence
    <3> QED BY <3>1 DEF RightPower
  <2>5. shifted \in PendingOp /\ shifted.left = val
    BY <2>2, <2>4 DEF PendingOp
  <2> HIDE DEF shifted
  <2>6. OpsLoad(c, ops) = OpsLoad(c, Top.ops) + Load(c, val)
    <3>1. Top.ops \in Seq(PendingOp)
      BY <2>2, FrameParts
    <3>2. OpsLoad(c, Append(Top.ops, shifted)) = OpsLoad(c, Top.ops) + Load(c, shifted.left)
      BY <2>5, <3>1, OpsLoads
    <3> QED BY <2>5, <3>2
  <2> HIDE DEF ops, n
  <2>7. fr.fn = "binary" /\ fr.lead = Top.lead /\ fr.kept = Top.kept /\ fr.ops = ops
    BY <2>2, LeadEdits
  <2> HIDE DEF fr
  <2>8. CASE Top.ops # <<>> /\ ReduceLast("reduce")
    BY <2>1, <2>8, ReduceLastSound
  <2>9. CASE Goto(Advance(p), Swap(fr), "unary")
    <3>1. Tally(Advance(p), c, n)
      <4>1. ~p.raw
        BY <2>1 DEF Tidy, Plainly
      <4>2. toks[p.pos].kind # "trivia"
        <5>1. toks[p.pos].kind \in Kinds
          BY TokenAt DEF OK, Token
        <5> QED BY <5>1 DEF Kinds
      <4>3. Peek(p) # "trivia"
        BY <4>1, <4>2, Zenon DEF Peek, OnTrivia
      <4> QED BY <1>a, <2>2, <4>3, AdvanceTally
    <3>2. Neat(fr)
      BY <2>2, <2>7 DEF Neat, Bare, Leading
    <3>3. Holds(c, fr) = Times(c, Top.lead) + Times(c, Top.kept) + OpsLoad(c, ops)
      BY <2>7 DEF Holds
    <3>4. Passes(c, "unary", val) = 0
      BY DEF Passes, Passing
    <3>5. n = Base(c) + Holds(c, fr) + Passes(c, "unary", val)
      BY <2>2, <2>6, <3>3, <3>4 DEF n
    <3>6. Fit(fr, "unary", Advance(p), val)
      BY <2>7 DEF Fit, Plainly, PatternFrames, TypeFrames
    <3>7. Goes(Advance(p), Swap(fr), "unary", val)
      BY <2>9 DEF Goes
    <3> QED BY <2>2, <2>3, <3>1, <3>2, <3>5, <3>6, <3>7, SwapSound
  <2> QED BY <1>4, <2>8, <2>9 DEF Reduce, fr, ops, shifted
<1>5. CASE FoldRest
  <2>1. ctl \in DOMAIN Owners /\ Owners[ctl] = "binary" /\ ctl = "fold" /\ ctl \in Passing
    BY <1>5, OwnersAre DEF FoldRest, Passing
  <2>2. CASE Top.ops # <<>> /\ ReduceLast("fold")
    BY <2>1, <2>2, ReduceLastSound
  <2>3. CASE Top.ops = <<>> /\ Return(p, Pop, val)
    <3>1. /\ calls # <<>> /\ Top.fn = "binary"
          /\ Neat(Top) /\ Meets(Top, ctl, p, val) /\ Tally(p, c, Base(c) + Holds(c, Top) + Load(c, val))
          /\ Base(c) \in Nat /\ Load(c, val) \in Nat
          /\ Holds(c, Top) = Times(c, Top.lead) + Times(c, Top.kept) + OpsLoad(c, Top.ops)
          /\ Top.lead = <<>> => Times(c, Top.lead) = 0
          /\ Top.kept = <<>> => Times(c, Top.kept) = 0
          /\ Top.ops = <<>> => OpsLoad(c, Top.ops) = 0
      BY <2>1, Running
    <3>2. Free(Pop)
      BY <3>1, TopNeat DEF PatternFrames, TypeFrames
    <3>3. Top.lead = <<>> /\ Top.kept = <<>>
      BY <2>1, <3>1 DEF Meets, Neat, Bare
    <3>4. Base(c) + Holds(c, Top) + Load(c, val) = Base(c) + Load(c, val)
      BY <2>3, <3>1, <3>3
    <3> QED BY <2>3, <3>1, <3>2, <3>4, RestSound
  <2> QED BY <1>5, <2>2, <2>3 DEF FoldRest
<1> QED BY <1>1, <1>2, <1>3, <1>4, <1>5 DEF OperatorNext
-----------------------------------------------------------------------------
(* Negation and application.                                               *)

(* A part more, and comments more, for a function that holds no others.    *)
LEMMA Taken ==
  ASSUME NEW g \in Frame, NEW v \in Node, NEW c
  PROVE  /\ AddPart(g, v) \in Frame /\ AddPart(g, v).fn = g.fn /\ (Quiet(g) => Quiet(AddPart(g, v)))
         /\ AddPart(g, v).lead = g.lead /\ AddPart(g, v).ops = g.ops
         /\ Times(c, AddPart(g, v).kept) = Times(c, g.kept) + Load(c, v)
         /\ Times(c, g.kept) \in Nat /\ Load(c, v) \in Nat
         /\ AddPart(g, v).n = g.n + 1 /\ AddPart(g, v).last = v /\ AddPart(g, v).kept = g.kept \o Carried(v)
<1>1. AddPart(g, v) \in Frame /\ AddPart(g, v).fn = g.fn
  BY AddPartType
<1>2. /\ AddPart(g, v).lead = g.lead /\ AddPart(g, v).ops = g.ops
      /\ Times(c, AddPart(g, v).kept) = Times(c, g.kept) + Load(c, v) /\ Load(c, v) \in Nat
  BY AddPartBill
<1>3. Times(c, g.kept) \in Nat
  BY Bills
<1>4. AddPart(g, v).n = g.n + 1 /\ AddPart(g, v).last = v /\ AddPart(g, v).kept = g.kept \o Carried(v)
  BY DEF AddPart, Frame
<1>5. Quiet(g) => Quiet(AddPart(g, v))
  BY <1>2 DEF Quiet
<1> QED BY <1>1, <1>2, <1>3, <1>4, <1>5

LEMMA Kept ==
  ASSUME NEW g \in Frame, NEW cs \in Seq(Comment), NEW c
  PROVE  /\ Hold(g, cs) \in Frame /\ Hold(g, cs).fn = g.fn /\ (Quiet(g) => Quiet(Hold(g, cs)))
         /\ Hold(g, cs).lead = g.lead /\ Hold(g, cs).ops = g.ops
         /\ Times(c, Hold(g, cs).kept) = Times(c, g.kept) + Times(c, cs)
         /\ Times(c, g.kept) \in Nat /\ Times(c, cs) \in Nat
<1>1. Hold(g, cs) \in Frame /\ Hold(g, cs).fn = g.fn
  BY HoldType
<1>2. /\ Hold(g, cs).lead = g.lead /\ Hold(g, cs).ops = g.ops
      /\ Times(c, Hold(g, cs).kept) = Times(c, g.kept) + Times(c, cs) /\ Times(c, cs) \in Nat
  BY HoldBill
<1>3. Times(c, g.kept) \in Nat
  BY Bills
<1>4. Quiet(g) => Quiet(Hold(g, cs))
  BY <1>2 DEF Quiet
<1> QED BY <1>1, <1>2, <1>3, <1>4

(* A function completes its node with what it holds.                       *)
LEMMA CloseSound ==
  ASSUME IInv, Tidy, IInv', calls # <<>>, Free(Pop), NEW c, NEW q, NEW fr \in Frame, NEW r,
         Tally(q, c, Base(c) + Times(c, fr.kept)), Return(q, Pop, Close(fr, r))
  PROVE  Sound(c)
<1>1. Load(c, Close(fr, r)) = Times(c, fr.kept)
  BY CloseLoad
<1> DEFINE v == Close(fr, r)
<1>2. Tally(q, c, Base(c) + Load(c, v)) /\ Return(q, Pop, v)
  BY <1>1
<1> HIDE DEF v
<1> QED BY <1>2, RestSound

LEMMA SameToken ==
  ASSUME NEW q, NEW r, r.pos = q.pos, r.raw = q.raw
  PROVE  Peek(r) = Peek(q)
BY DEF Peek, OnTrivia

LEMMA ApplicationsSound ==
  ASSUME IInv, Ordered, Tidy, Fair, IInv', ApplicationNext, NEW c
  PROVE  Sound(c)
<1> USE State
<1>a. Gapped
  BY DEF Tidy
<1>1. CASE ParseUnary
  <2> DEFINE q == Skip(p)
             n == Boxes(c) + Sum(c, calls)
             new == New("neg", Here(q))
  <2>1. ctl \notin Passing \cup PatternControls \cup TypeControls \cup {"branch", "error"}
    BY <1>1 DEF ParseUnary, Passing, PatternControls, TypeControls
  <2>2. /\ Free(calls) /\ Tally(p, c, n) /\ calls \in Seq(Frame)
        /\ Boxes(c) \in Nat /\ Sum(c, calls) \in Nat
    BY <2>1, Begin
  <2>3. Tally(q, c, n)
    BY SMTT(30), <2>2, SkipTally
  <2>4. Empty(new) /\ new.fn = "neg"
    BY NewEmpty
  <2>5. "app" \notin Passing /\ "neg" \notin Branching \cup TypeFrames
    BY DEF Passing, Branching, PatternFrames, TypeFrames
  <2> HIDE DEF q, new
  <2>6. CASE Peek(q) = "-" /\ Goto(Advance(q), Append(calls, new), "app")
    <3>1. Peek(q) # "trivia"
      BY <2>6, Zenon
    <3>2. Tally(Advance(q), c, n)
      BY <1>a, <2>3, <3>1, AdvanceTally
    <3> QED BY <2>2, <2>4, <2>5, <2>6, <3>2, StartSound
  <2>7. CASE Goto(q, calls, "app")
    <3>1. Passes(c, "app", val) = 0
      BY <2>5 DEF Passes
    <3>2. n = Boxes(c) + Sum(c, calls) + Passes(c, "app", val)
      BY <2>2, <3>1
    <3>3. Goes(q, calls, "app", val) /\ Plainly("app", q, val)
      BY <2>7 DEF Goes, Plainly
    <3> HIDE DEF n
    <3> QED BY <2>2, <2>3, <3>2, <3>3, CarrySound
  <2> QED BY <1>1, <2>6, <2>7 DEF ParseUnary, q, new
<1>2. CASE AfterNegated
  <2> DEFINE fr == AddPart(Top, val)
             n == Base(c) + Times(c, Top.kept) + Load(c, val)
  <2>1. "neg" \notin PatternFrames \cup TypeFrames /\ "neg" \notin Leading
    BY DEF PatternFrames, TypeFrames, Leading
  <2>2. /\ calls # <<>> /\ Top \in Frame /\ val \in Node /\ Free(Pop) /\ Tally(p, c, n)
        /\ Base(c) \in Nat /\ Load(c, val) \in Nat /\ Times(c, Top.kept) \in Nat
    BY <1>2, <2>1, Given DEF AfterNegated
  <2>3. fr \in Frame /\ Times(c, fr.kept) = Times(c, Top.kept) + Load(c, val)
    BY <2>2, Taken
  <2> HIDE DEF fr
  <2>4. Tally(p, c, Base(c) + Times(c, fr.kept))
    <3>1. n = Base(c) + Times(c, fr.kept)
      BY <2>2, <2>3
    <3> QED BY <2>2, <3>1
  <2> QED BY <1>2, <2>2, <2>3, <2>4, CloseSound DEF AfterNegated, fr
<1>3. CASE ParseApplication
  <2> DEFINE q == [p EXCEPT !.ctx = 0]
             col == HereCol(p)
             ctx == p.ctx
             line == toks[p.pos].line
             new == [New("app", Here(p)) EXCEPT !.col = col, !.ctx = ctx, !.line = line]
             n == Boxes(c) + Sum(c, calls)
  <2>1. ctl \notin Passing \cup PatternControls \cup TypeControls \cup {"branch", "error"}
    BY <1>3 DEF ParseApplication, Passing, PatternControls, TypeControls
  <2>2. Free(calls) /\ Tally(p, c, n)
    BY <2>1, Begin
  <2>3. Tally(q, c, n)
    BY <2>2, ContextTally
  <2> HIDE DEF col, ctx, line
  <2>4. Empty(new) /\ new.fn = "app" /\ new.n = 0
    BY DEF New, Empty, Quiet
  <2>5. "atom" \notin Passing /\ "app" \notin Branching \cup TypeFrames
    BY DEF Passing, Branching, PatternFrames, TypeFrames
  <2>6. Goto(q, Append(calls, new), "atom")
    BY <1>3 DEF ParseApplication, col, ctx, line
  <2> HIDE DEF q, new
  <2> QED BY <2>2, <2>3, <2>4, <2>5, <2>6, StartSound
<1>4. CASE ApplicationLoop
  <2> DEFINE q == Skip(p)
             own == {k \in Elements(q.pending) :
                       \/ k.block /\ k.line = Top.last.end /\ k.end = Top.last.end
                       \/ k.line > Top.last.end}
             lead == Claimed(q, Snapshot(p), own)
             r == Unclaimed(q, Snapshot(p), own)
             fr == [Top EXCEPT !.lead = lead]
             cs == Swap(fr)
             neg == New("neg", Here(q))
             n == Base(c) + Holds(c, Top)
  <2>1. ctl \in DOMAIN Owners /\ Owners[ctl] = "app" /\ ctl = "args" /\ ctl \notin Passing /\ "app" # "binary"
    BY <1>4, OwnersAre DEF ApplicationLoop, Passing
  <2>2. /\ calls # <<>> /\ Top \in Frame /\ Top.fn = "app" /\ Pop \in Seq(Frame)
        /\ Neat(Top) /\ Meets(Top, ctl, p, val) /\ Tally(p, c, n)
        /\ Base(c) \in Nat /\ Times(c, Top.kept) \in Nat
        /\ Top.ops = <<>> /\ OpsLoad(c, Top.ops) = 0
        /\ Holds(c, Top) = Times(c, Top.lead) + Times(c, Top.kept) + OpsLoad(c, Top.ops)
        /\ Top.lead = <<>> => Times(c, Top.lead) = 0
    BY <2>1, Running
  <2>3. Free(Pop)
    BY <2>2, TopNeat DEF PatternFrames, TypeFrames
  <2>4. Top.lead = <<>> /\ n = Base(c) + Times(c, Top.kept)
    BY <2>1, <2>2 DEF Meets
  <2>5. Tally(q, c, n) /\ ~q.raw /\ Snapshot(p) \in Nat
    BY <2>2, SkipTally, PendingType
  <2> HIDE DEF q, own, n
  <2>6. /\ Tally(r, c, n + Times(c, lead)) /\ Times(c, lead) \in Nat /\ r.raw = q.raw /\ r.pos = q.pos
        /\ lead \in Seq(Comment)
    <3>1. OK(q)
      BY <2>5 DEF Tally
    <3> QED BY <2>5, <3>1, ClaimTally, ClaimedType
  <2> HIDE DEF lead, r
  <2>7. /\ fr.fn = "app" /\ fr.lead = lead /\ fr.kept = Top.kept /\ fr.ops = <<>> /\ fr \in Frame
        /\ fr.n = Top.n /\ fr.last = Top.last
    BY <2>2, <2>6, LeadEdits DEF Frame
  <2> HIDE DEF fr
  <2>8. Neat(fr)
    BY <2>2, <2>7 DEF Neat, Bare, Leading
  <2>9. Holds(c, fr) = Times(c, lead) + Times(c, Top.kept) + 0
    BY <2>2, <2>7 DEF Holds
  <2>10. CASE Goto(r, cs, "atom")
    <3>1. Passes(c, "atom", val) = 0
      BY DEF Passes, Passing
    <3>2. n + Times(c, lead) = Base(c) + Holds(c, fr) + Passes(c, "atom", val)
      BY <2>2, <2>4, <2>6, <2>9, <3>1
    <3>3. Fit(fr, "atom", r, val)
      BY <2>7 DEF Fit, Plainly, PatternFrames, TypeFrames
    <3>4. Goes(r, Swap(fr), "atom", val)
      BY <2>10 DEF Goes
    <3> QED BY <2>2, <2>3, <2>6, <2>8, <3>2, <3>3, <3>4, SwapSound
  <2>11. CASE Peek(q) = "-" /\ Goto(Advance(r), Append(cs, neg), "atom")
    <3>1. Peek(r) # "trivia"
      BY <2>6, <2>11, SameToken, Zenon
    <3>2. Tally(Advance(r), c, n + Times(c, lead))
      BY <1>a, <2>6, <3>1, AdvanceTally
    <3>3. Free(cs) /\ cs \in Seq(Frame)
      BY SMTT(30), <2>2, <2>3, <2>7, <2>8, FreePush DEF Swap, PatternFrames, TypeFrames
    <3>4. Sum(c, cs) = Sum(c, Pop) + Holds(c, fr) /\ Sum(c, Pop) \in Nat
      BY ZenonT(60), <2>2, <2>7, SumOf, Bills DEF Swap, Holds
    <3> HIDE DEF cs
    <3>5. Empty(neg) /\ neg.fn = "neg"
      BY NewEmpty
    <3> HIDE DEF neg
    <3>6. Holds(c, neg) = 0 /\ Neat(neg)
      BY <3>5, EmptyHolds
    <3>7. Passes(c, "atom", val) = 0
      BY DEF Passes, Passing
    <3>8. n + Times(c, lead) = Boxes(c) + Sum(c, cs) + Holds(c, neg) + Passes(c, "atom", val)
      <4>1. Boxes(c) \in Nat
        BY TotalIs
      <4> QED BY SMTT(30), <2>2, <2>4, <2>6, <2>9, <3>4, <3>6, <3>7, <4>1 DEF Base
    <3>9. Fit(neg, "atom", Advance(r), val)
      BY <3>5 DEF Fit, Plainly, PatternFrames, TypeFrames
    <3>10. Goes(Advance(r), Append(cs, neg), "atom", val)
      BY <2>11 DEF Goes
    <3> QED BY <3>2, <3>3, <3>6, <3>8, <3>9, <3>10, PushSound
  <2>12. CASE Top.n = 1 /\ Return(q, Pop, Top.last)
    <3>1. Top.kept = Carried(Top.last)
      BY <2>2, <2>12 DEF Neat
    <3>2. n = Base(c) + Load(c, Top.last)
      BY <2>4, <3>1 DEF Load
    <3> QED BY <2>2, <2>3, <2>5, <2>12, <3>2, RestSound
  <2>13. CASE Return(q, Pop, Close(Top, q))
    BY <2>2, <2>3, <2>4, <2>5, <2>13, CloseSound
  <2> QED BY <1>4, <2>10, <2>11, <2>12, <2>13 DEF ApplicationLoop, q, own, lead, r, fr
<1>5. CASE AfterArgument
  <2> DEFINE none == <<>>
             v == Lead(val, Top.lead)
             g == AddPart(Top, v)
             fr == [g EXCEPT !.lead = none]
             n == Base(c) + Holds(c, Top) + Load(c, val)
  <2>1. /\ calls # <<>> /\ Top \in Frame /\ Top.fn = "app" /\ val \in Node
        /\ Neat(Top) /\ Tally(p, c, n)
        /\ Base(c) \in Nat /\ Load(c, val) \in Nat /\ Times(c, Top.kept) \in Nat
        /\ Times(c, Top.lead) \in Nat /\ Top.ops = <<>> /\ OpsLoad(c, Top.ops) = 0
        /\ Holds(c, Top) = Times(c, Top.lead) + Times(c, Top.kept) + OpsLoad(c, Top.ops)
    <3>1. "app" # "binary"
      OBVIOUS
    <3> QED BY <1>5, <3>1, Given DEF AfterArgument
  <2>2. Free(Pop)
    BY <2>1, TopNeat DEF PatternFrames, TypeFrames
  <2>3. Load(c, v) = Load(c, val) + Times(c, Top.lead) /\ v \in Node
    BY <2>1, FrameParts, LeadLoad, LeadType
  <2> HIDE DEF v, n
  <2>4. /\ g \in Frame /\ g.fn = "app" /\ g.ops = <<>> /\ g.n = Top.n + 1 /\ g.last = v
        /\ Times(c, g.kept) = Times(c, Top.kept) + Load(c, v) /\ g.kept = Top.kept \o Carried(v)
    <3>1. /\ AddPart(Top, v) \in Frame /\ AddPart(Top, v).fn = Top.fn /\ AddPart(Top, v).ops = Top.ops
          /\ AddPart(Top, v).n = Top.n + 1 /\ AddPart(Top, v).last = v
          /\ Times(c, AddPart(Top, v).kept) = Times(c, Top.kept) + Load(c, v)
          /\ AddPart(Top, v).kept = Top.kept \o Carried(v)
      <4>1. Top \in Frame
        BY <2>1
      <4>2. v \in Node
        BY <2>3
      <4> HIDE State
      <4> HIDE DEF g, fr
      <4> QED BY <4>1, <4>2, Taken, ZenonT(60)
    <3> QED BY <2>1, <3>1
  <2> HIDE DEF g
  <2>5. /\ fr.fn = "app" /\ fr.lead = <<>> /\ fr.kept = g.kept /\ fr.ops = <<>>
        /\ fr.n = g.n /\ fr.last = g.last
    BY <2>4, LeadEdits
  <2> HIDE DEF fr
  <2>6. Neat(fr)
    <3>1. Top.n \in Nat
      BY <2>1, FrameParts
    <3>2. fr.n # 0
      BY <2>4, <2>5, <3>1
    <3>3. fr.n = 1 => fr.kept = Carried(fr.last)
      <4> SUFFICES ASSUME fr.n = 1 PROVE fr.kept = Carried(fr.last)
        OBVIOUS
      <4>1. Top.n = 0
        BY <2>4, <2>5, <3>1
      <4>2. Top.kept = <<>>
        BY <2>1, <4>1 DEF Neat
      <4>3. Carried(v) \in Seq(Comment)
        BY <2>3, NodeParts
      <4>4. <<>> \o Carried(v) = Carried(v)
        BY <4>3, ConcatEmptySeq
      <4>5. g.kept = Carried(v)
        BY <2>4, <4>2, <4>4, Zenon
      <4> QED BY <2>4, <2>5, <4>5, Zenon
    <3> QED BY <2>5, <3>2, <3>3 DEF Neat, Bare
  <2>7. Holds(c, fr) = 0 + Times(c, g.kept) + 0
    <3>1. OpsLoad(c, <<>>) = 0
      BY <2>1
    <3> QED BY <2>5, <3>1, TimesNone DEF Holds
  <2>8. Passes(c, "args", val) = 0
    BY DEF Passes, Passing
  <2>9. n = Base(c) + Holds(c, fr) + Passes(c, "args", val)
    BY <2>1, <2>3, <2>4, <2>7, <2>8 DEF n
  <2>10. Fit(fr, "args", p, val)
    BY <2>5 DEF Fit, Plainly, PatternFrames, TypeFrames
  <2>11. Goes(p, Swap(fr), "args", val)
    BY <1>5 DEF AfterArgument, Goes, fr, g, v
  <2> QED BY <2>1, <2>2, <2>6, <2>9, <2>10, <2>11, SwapSound
<1> QED BY <1>1, <1>2, <1>3, <1>4, <1>5 DEF ApplicationNext
-----------------------------------------------------------------------------
(* Atoms.                                                                  *)

(* Where an atom starts, and past its first token.                         *)
LEMMA AtAtom ==
  ASSUME IInv, Ordered, Tidy, Fair, ctl = "atom", NEW c
  PROVE  /\ Free(calls) /\ calls \in Seq(Frame) /\ Boxes(c) \in Nat /\ Sum(c, calls) \in Nat
         /\ Tally(p, c, Boxes(c) + Sum(c, calls)) /\ Tally(Skip(p), c, Boxes(c) + Sum(c, calls))
         /\ ~Skip(p).raw
         /\ Peek(Skip(p)) # "trivia" => Tally(Advance(Skip(p)), c, Boxes(c) + Sum(c, calls))
<1> USE State
<1>a. Gapped
  BY DEF Tidy
<1> DEFINE q == Skip(p)
           n == Boxes(c) + Sum(c, calls)
<1>1. ctl \notin Passing \cup PatternControls \cup TypeControls \cup {"branch", "error"}
  BY DEF Passing, PatternControls, TypeControls
<1>2. /\ Free(calls) /\ Tally(p, c, n) /\ calls \in Seq(Frame)
      /\ Boxes(c) \in Nat /\ Sum(c, calls) \in Nat
  BY <1>1, Begin
<1>3. Tally(q, c, n) /\ ~q.raw
  BY <1>2, SkipTally
<1> HIDE DEF q, n
<1>4. Peek(q) # "trivia" => Tally(Advance(q), c, n)
  BY <1>a, <1>3, AdvanceTally
<1> QED BY <1>2, <1>3, <1>4 DEF q, n

(* A node without comments goes to the chain of field accesses.            *)
LEMMA LeafSound ==
  ASSUME IInv, Tidy, IInv', Free(calls), NEW c, NEW n, NEW q, Tally(q, c, n), n = Boxes(c) + Sum(c, calls),
         NEW x \in {"access", "valueName"}, NEW from, NEW r, GotoWith(q, calls, x, Leaf(from, r))
  PROVE  Sound(c)
<1> DEFINE v == Leaf(from, r)
<1>1. Load(c, v) = 0
  BY LeafLoad
<1>2. v.cs = <<>> /\ v.kept = <<>>
  BY DEF Leaf, SpanNode
<1>3. Goes(q, calls, x, v)
  BY DEF Goes
<1> HIDE DEF v
<1>4. Passes(c, x, v) = 0
  BY <1>1 DEF Passes
<1>5. Plainly(x, q, v)
  BY <1>2 DEF Plainly
<1>6. Boxes(c) \in Nat /\ Sum(c, calls) \in Nat /\ calls \in Seq(Frame)
  BY TotalIs, State
<1>7. n = Boxes(c) + Sum(c, calls) + Passes(c, x, v)
  BY <1>4, <1>6
<1>8. x \notin {"binary", "fold", "args", "branch", "letNext"}
  OBVIOUS
<1> QED BY <1>3, <1>5, <1>6, <1>7, <1>8, CarrySound

LEMMA AtomsSound ==
  ASSUME IInv, Ordered, Tidy, Fair, IInv', AtomNext, NEW c
  PROVE  Sound(c)
<1> USE State
<1>a. Gapped
  BY DEF Tidy
<1> DEFINE n == Boxes(c) + Sum(c, calls)
<1>b. ctl = "atom" => /\ Free(calls) /\ Tally(Skip(p), c, n)
                      /\ Peek(Skip(p)) # "trivia" => Tally(Advance(Skip(p)), c, n)
  BY AtAtom
<1>c. ctl \in {"access", "valueName"} => /\ Free(calls) /\ calls \in Seq(Frame) /\ val \in Node
                                         /\ Tally(p, c, n + Load(c, val)) /\ n \in Nat /\ Load(c, val) \in Nat
  <2> SUFFICES ASSUME ctl \in {"access", "valueName"}
               PROVE  /\ Free(calls) /\ calls \in Seq(Frame) /\ val \in Node
                      /\ Tally(p, c, n + Load(c, val)) /\ n \in Nat /\ Load(c, val) \in Nat
    OBVIOUS
  <2>1. ctl \notin PatternControls \cup TypeControls \cup {"done", "branch"} /\ ctl # "error" /\ ctl \in Passing
    BY DEF PatternControls, TypeControls, Passing
  <2>2. Free(calls)
    BY <2>1, FreeCalls
  <2>3. Passes(c, ctl, val) = Load(c, val)
    BY <2>1 DEF Passes
  <2>4. /\ Tally(p, c, Boxes(c) + Sum(c, calls) + Passes(c, ctl, val))
        /\ Boxes(c) \in Nat /\ Sum(c, calls) \in Nat /\ Load(c, val) \in Nat
    BY <2>1, Opening
  <2> QED BY <2>2, <2>3, <2>4
<1>1. CASE SimpleAtom
  <2> DEFINE q == Skip(p)
             r == Advance(q)
  <2>1. Peek(q) # "trivia" /\ GotoWith(r, calls, "access", Leaf(Here(q), r)) /\ ctl = "atom"
    BY <1>1 DEF SimpleAtom
  <2>2. Free(calls) /\ Tally(r, c, n)
    BY <1>b, <2>1
  <2> HIDE DEF q, r, n
  <2> QED BY <2>1, <2>2, LeafSound DEF n
<1>2. CASE QualifiedAtom
  <2> DEFINE q == Skip(p)
             r == Advance(q)
  <2>1. Peek(q) # "trivia" /\ GotoWith(r, calls, "valueName", Leaf(Here(q), r)) /\ ctl = "atom"
    BY <1>2 DEF QualifiedAtom
  <2>2. Free(calls) /\ Tally(r, c, n)
    BY <1>b, <2>1
  <2> HIDE DEF q, r, n
  <2> QED BY <2>1, <2>2, LeafSound DEF n
<1>3. CASE QualifyValue
  <2> DEFINE r == Advance(p)
             s == Advance(r)
             l == Leaf(val.from, s)
  <2>1. ctl = "valueName"
    BY <1>3 DEF QualifyValue
  <2>2. Free(calls) /\ calls \in Seq(Frame) /\ Tally(p, c, n + Load(c, val)) /\ n \in Nat /\ val \in Node
    BY <1>c, <2>1
  <2>3. Load(c, val) = 0
    <3>1. Carried(val) = <<>> \o <<>>
      BY <2>1 DEF Tidy, Plainly, Carried
    <3>2. <<>> \o <<>> = <<>>
      OBVIOUS
    <3>3. Carried(val) = <<>>
      BY <3>1, <3>2, Zenon
    <3> QED BY <3>3, TimesNone, Zenon DEF Load
  <2>4. n + Load(c, val) = n
    BY <2>2, <2>3
  <2>5. Tally(p, c, n)
    BY <2>2, <2>4
  <2> HIDE DEF r, n
  <2>6. CASE /\ Peek(p) = "." /\ Peek(r) \in {"upper", "lower"}
             /\ \E x \in {"access", "valueName"} : GotoWith(s, calls, x, l)
    <3>1. Tally(r, c, n)
      BY <1>a, <2>5, <2>6, AdvanceTally DEF r
    <3>2. Tally(s, c, n)
      BY <1>a, <2>6, <3>1, AdvanceTally
    <3> HIDE DEF s
    <3> QED BY <2>2, <2>6, <3>2, LeafSound DEF n
  <2>7. CASE Goto(p, calls, "access")
    <3>1. Passes(c, "access", val) = 0
      BY <2>3 DEF Passes
    <3>2. n = Boxes(c) + Sum(c, calls) + Passes(c, "access", val)
      BY <2>2, <3>1 DEF n
    <3>3. Goes(p, calls, "access", val) /\ Plainly("access", p, val)
      BY <2>7 DEF Goes, Plainly
    <3> QED BY <2>2, <2>5, <3>2, <3>3, CarrySound
  <2> QED BY <1>3, <2>6, <2>7, Zenon DEF QualifyValue, r
<1>4. CASE AccessorAtom
  <2> DEFINE q == Skip(p)
             r == Advance(q)
             s == Advance(r)
  <2>1. Peek(q) # "trivia" /\ ctl = "atom"
    BY <1>4 DEF AccessorAtom
  <2>2. Free(calls) /\ Tally(r, c, n)
    BY <1>b, <2>1
  <2> HIDE DEF q, r, n
  <2>3. CASE Peek(r) = "lower" /\ GotoWith(s, calls, "access", Leaf(Here(q), s))
    <3>1. Tally(s, c, n)
      BY <1>a, <2>2, <2>3, AdvanceTally
    <3> HIDE DEF s
    <3> QED BY <2>2, <2>3, <3>1, LeafSound DEF n
  <2>4. CASE Fail(r)
    BY <2>4, FailSound
  <2> QED BY <1>4, <2>3, <2>4 DEF AccessorAtom, q, r
<1>5. CASE NotAnAtom
  BY <1>5, FailSound DEF NotAnAtom
<1>6. CASE AccessChain
  <2> DEFINE r == Advance(p)
             s == Advance(r)
             v == SpanNode(val.from, s, Carried(val), val.sub)
             m == n + Load(c, val)
  <2>1. /\ Free(calls) /\ calls \in Seq(Frame) /\ Tally(p, c, m) /\ val \in Node
        /\ n \in Nat /\ Load(c, val) \in Nat
    BY <1>6, <1>c DEF AccessChain
  <2> HIDE DEF r, m
  <2>2. CASE Peek(p) = "." /\ Peek(r) = "lower" /\ GotoWith(s, calls, "access", v)
    <3>1. Tally(r, c, m)
      BY <1>a, <2>1, <2>2, AdvanceTally DEF r
    <3>2. Tally(s, c, m)
      BY <1>a, <2>2, <3>1, AdvanceTally
    <3>3. Load(c, v) = Load(c, val)
      <4>1. Carried(val) \in Seq(Comment)
        BY <2>1, NodeParts
      <4> QED BY <4>1, SpanNodeLoad DEF Load
    <3> HIDE DEF s, v
    <3>4. Passes(c, "access", v) = Load(c, val)
      BY <3>3 DEF Passes, Passing
    <3>5. m = Boxes(c) + Sum(c, calls) + Passes(c, "access", v)
      BY <3>4 DEF m
    <3>6. Goes(s, calls, "access", v) /\ Plainly("access", s, v)
      BY <2>2 DEF Goes, Plainly
    <3> QED BY <2>1, <3>2, <3>5, <3>6, CarrySound
  <2>3. CASE Fail(r)
    BY <2>3, FailSound
  <2>4. CASE Return(p, calls, val)
    <3>1. Passes(c, "done", val) = Load(c, val)
      BY DEF Passes, Passing
    <3>2. m = Boxes(c) + Sum(c, calls) + Passes(c, "done", val)
      BY <3>1 DEF m
    <3>3. Goes(p, calls, "done", val) /\ Plainly("done", p, val)
      BY <2>4 DEF Return, Goes, Plainly
    <3> QED BY <2>1, <3>2, <3>3, CarrySound
  <2> QED BY <1>6, <2>2, <2>3, <2>4 DEF AccessChain, r
<1>7. CASE AfterCompound
  <2> DEFINE m == Base(c) + Holds(c, Top) + Load(c, val)
  <2>1. "access" \notin PatternFrames \cup TypeFrames /\ "access" \notin Leading /\ "access" \in Bare
    BY DEF PatternFrames, TypeFrames, Leading, Bare
  <2>2. /\ calls # <<>> /\ Top \in Frame /\ Top.fn = "access" /\ Pop \in Seq(Frame) /\ Neat(Top) /\ Free(Pop)
        /\ Tally(p, c, m) /\ Quiet(Top) /\ Base(c) \in Nat /\ Load(c, val) \in Nat
    BY <1>7, <2>1, Given DEF AfterCompound
  <2>3. Holds(c, Top) = 0
    BY <2>1, <2>2, EmptyHolds DEF Neat, Empty
  <2>4. Passes(c, "access", val) = Load(c, val)
    BY DEF Passes, Passing
  <2>5. m = Base(c) + Passes(c, "access", val)
    BY <2>2, <2>3, <2>4
  <2>6. Goes(p, Pop, "access", val) /\ Plainly("access", p, val)
    BY <1>7 DEF AfterCompound, Goes, Plainly
  <2> HIDE DEF m
  <2> QED BY <2>2, <2>5, <2>6, CarrySound DEF Base
<1> QED BY <1>1, <1>2, <1>3, <1>4, <1>5, <1>6, <1>7 DEF AtomNext
-----------------------------------------------------------------------------
(* Compound expressions.                                                   *)

LEMMA QuietNeat ==
  ASSUME NEW fr, Quiet(fr), fr.fn \notin Bare \cup {"app"}
  PROVE  Neat(fr)
BY DEF Quiet, Neat

LEMMA KinQuiet ==
  ASSUME NEW f, NEW g, Kin(g, f), Quiet(f), NEW c, Times(c, f.kept) \in Nat
  PROVE  Quiet(g) /\ Holds(c, g) = Times(c, f.kept)
<1>1. Quiet(g) /\ Times(c, g.kept) = Times(c, f.kept)
  BY Zenon DEF Kin, Quiet
<1> QED BY <1>1, QuietHolds

(* A sub-expression is needed by a function that holds what fr does.       *)
LEMMA NeedPartSound ==
  ASSUME IInv, Tidy, IInv', calls # <<>>, Free(Pop), NEW c, NEW q, NEW fr, Quiet(fr), Times(c, fr.kept) \in Nat,
         Tally(q, c, Base(c) + Times(c, fr.kept)),
         NEW g, Kin(g, fr), g.fn \notin Bare \cup {"app"} \cup Branching \cup TypeFrames, Need(q, Swap(g))
  PROVE  Sound(c)
<1>1. Quiet(g) /\ Holds(c, g) = Times(c, fr.kept)
  BY KinQuiet
<1>2. Neat(g)
  BY <1>1, QuietNeat
<1> DEFINE n == Base(c) + Times(c, fr.kept)
<1>3. Tally(q, c, n) /\ n = Base(c) + Holds(c, g)
  BY <1>1
<1> HIDE DEF n
<1> QED BY <1>2, <1>3, NeedNextSound

(* The function goes on, as a function that holds what fr does.            *)
LEMMA SwapPartSound ==
  ASSUME IInv, Tidy, IInv', calls # <<>>, Free(Pop), NEW c, NEW q, NEW fr, Quiet(fr), Times(c, fr.kept) \in Nat,
         Base(c) \in Nat, Tally(q, c, Base(c) + Times(c, fr.kept)),
         NEW g, Kin(g, fr), g.fn \notin Bare \cup {"app"} \cup PatternFrames \cup TypeFrames,
         NEW x, x \notin Passing, g.fn = "casePattern" => x \in {"branch", "pattern"}, Goto(q, Swap(g), x)
  PROVE  Sound(c)
<1>1. Quiet(g) /\ Holds(c, g) = Times(c, fr.kept)
  BY KinQuiet
<1>2. Neat(g)
  BY <1>1, QuietNeat
<1> DEFINE n == Base(c) + Times(c, fr.kept)
<1>3. x # "reduce" /\ x # "valueName"
  BY DEF Passing
<1>4. Fit(g, x, q, val)
  BY <1>1, <1>3 DEF Fit, Plainly, Quiet
<1>5. Passes(c, x, val) = 0
  BY DEF Passes
<1>6. Tally(q, c, n) /\ n = Base(c) + Holds(c, g) + Passes(c, x, val)
  BY <1>1, <1>5
<1>7. Goes(q, Swap(g), x, val)
  BY DEF Goes
<1> HIDE DEF n
<1> QED BY <1>2, <1>4, <1>6, <1>7, SwapSound

(* A part comes back and takes the comments before it.                     *)
LEMMA GivenPre ==
  ASSUME IInv, Ordered, Tidy, Fair, NEW fn, Resumes(fn), NEW snap \in Nat, NEW c,
         fn \notin Leading \cup PatternFrames \cup TypeFrames
  PROVE  LET q == AfterPre(p, val, snap)
             fr == AddPart(Top, WithPre(p, val, snap))
             n == Base(c) + Times(c, fr.kept)
         IN  /\ calls # <<>> /\ Free(Pop) /\ Top \in Frame /\ Top.fn = fn
             /\ fr \in Frame /\ fr.fn = fn /\ Quiet(fr) /\ Times(c, fr.kept) \in Nat /\ Base(c) \in Nat
             /\ Tally(q, c, n) /\ Tally(Skip(q), c, n) /\ ~Skip(q).raw
             /\ Peek(Skip(q)) # "trivia" => Tally(Advance(Skip(q)), c, n)
<1> USE State
<1>a. Gapped
  BY DEF Tidy
<1> DEFINE q == AfterPre(p, val, snap)
           v == WithPre(p, val, snap)
           fr == AddPart(Top, v)
           n == Base(c) + Times(c, fr.kept)
           m == Base(c) + Times(c, Top.kept)
<1>1. /\ calls # <<>> /\ Top \in Frame /\ Top.fn = fn /\ val \in Node /\ Free(Pop) /\ Quiet(Top)
      /\ Tally(p, c, m + Load(c, val)) /\ Base(c) \in Nat /\ Times(c, Top.kept) \in Nat
  BY Given
<1>2. m \in Nat
  BY <1>1
<1> HIDE DEF m
<1>3. Tally(q, c, m + Load(c, v)) /\ Load(c, v) \in Nat /\ v \in Node
  BY <1>1, <1>2, PreTally
<1> HIDE DEF v, q
<1>4. fr \in Frame /\ fr.fn = fn /\ Quiet(fr) /\ Times(c, fr.kept) = Times(c, Top.kept) + Load(c, v)
  <2>1. /\ AddPart(Top, v) \in Frame /\ AddPart(Top, v).fn = Top.fn
        /\ Quiet(Top) => Quiet(AddPart(Top, v))
        /\ Times(c, AddPart(Top, v).kept) = Times(c, Top.kept) + Load(c, v)
    <3>1. Top \in Frame
      BY <1>1
    <3> QED BY <1>3, <3>1, Taken
  <2> QED BY <1>1, <2>1
<1> HIDE DEF fr
<1>5. m + Load(c, v) = n /\ Times(c, fr.kept) \in Nat
  BY <1>1, <1>3, <1>4 DEF m
<1> HIDE DEF n
<1>6. Tally(q, c, n)
  BY <1>3, <1>5
<1>7. Tally(Skip(q), c, n) /\ ~Skip(q).raw
  BY <1>6, SkipTally
<1> DEFINE r == Skip(q)
<1>8. Tally(r, c, n)
  BY <1>7
<1> HIDE DEF r
<1>9. Peek(r) # "trivia" => Tally(Advance(r), c, n)
  BY <1>a, <1>8, AdvanceTally
<1> QED BY <1>1, <1>4, <1>5, <1>6, <1>7, <1>9 DEF r, q, v, fr, n

LEMMA ParenAtomSound ==
  ASSUME IInv, Ordered, Tidy, Fair, IInv', ParenAtom, NEW c
  PROVE  Sound(c)
<1> USE State
<1>a. Gapped
  BY DEF Tidy
<1> DEFINE n == Boxes(c) + Sum(c, calls)
           q == Skip(p)
           open == Advance(q)
           r == Skip(open)
           t == Advance(r)
           s == Skip(t)
           new == New("parenNeg", Here(q))
           neg == [new EXCEPT !.mark = Here(r)]
           par == [New("paren", Here(q)) EXCEPT !.snap = Snapshot(open)]
<1>1. ctl = "atom" /\ Peek(q) = "("
  BY DEF ParenAtom
<1>2. Free(calls) /\ Tally(open, c, n)
  BY <1>1, AtAtom
<1> HIDE DEF n, q, open
<1>3. Empty(neg) /\ neg.fn = "parenNeg" /\ Empty(par) /\ par.fn = "paren"
  BY DEF New, Empty, Quiet
<1> HIDE DEF neg, par
<1>4. Tally(r, c, n)
  BY <1>2, SkipTally
<1> HIDE DEF r
<1>5. CASE Peek(r) = ")" /\ GotoWith(Advance(r), calls, "access", Leaf(Here(q), Advance(r)))
  <2>1. Tally(t, c, n)
    BY <1>a, <1>4, <1>5, AdvanceTally
  <2> HIDE DEF t
  <2> QED BY <1>2, <1>5, <2>1, LeafSound DEF n, t
<1>6. CASE Peek(r) \in {"op", "-"} /\ Peek(s) = ")" /\ GotoWith(Advance(s), calls, "access", Leaf(Here(q), Advance(s)))
  <2>1. Tally(t, c, n)
    BY <1>a, <1>4, <1>6, AdvanceTally
  <2>2. Tally(s, c, n)
    BY <2>1, SkipTally
  <2> HIDE DEF s
  <2> DEFINE u == Advance(s)
  <2>3. Tally(u, c, n)
    BY <1>a, <1>6, <2>2, AdvanceTally
  <2> HIDE DEF u
  <2> QED BY <1>2, <1>6, <2>3, LeafSound DEF n, u
<1>7. CASE Fail(s)
  BY <1>7, FailSound
<1>8. CASE Peek(r) = "-" /\ Goto(s, Compound(neg), "app")
  <2>1. Tally(t, c, n)
    BY <1>a, <1>4, <1>8, AdvanceTally
  <2>2. Tally(s, c, n)
    BY <2>1, SkipTally
  <2> HIDE DEF s
  <2>3. neg.fn # "app" /\ neg.fn \notin Branching \cup TypeFrames /\ "app" \notin Passing
    BY <1>3 DEF Branching, PatternFrames, TypeFrames, Passing
  <2> QED BY <1>2, <1>3, <1>8, <2>2, <2>3, CompoundSound DEF n
<1>9. CASE Need(r, Compound(par))
  <2>1. par.fn # "app" /\ par.fn \notin Branching \cup TypeFrames
    BY <1>3 DEF Branching, PatternFrames, TypeFrames
  <2> QED BY <1>2, <1>3, <1>4, <1>9, <2>1, CompoundSound DEF n
<1> QED BY <1>5, <1>6, <1>7, <1>8, <1>9 DEF ParenAtom, q, open, r, t, s, neg, par

LEMMA ParenNegatedSound ==
  ASSUME IInv, Ordered, Tidy, Fair, IInv', AfterParenNegated, NEW c
  PROVE  Sound(c)
<1> USE State
<1> DEFINE n == Base(c) + Times(c, Top.kept) + Load(c, val)
           k == Snapshot(p)
           kept == Carried(val)
           none == <<>>
           m == Top.mark
           sub == val.sub \cup {<<m, val.to>>}
           neg == [val EXCEPT !.from = m, !.cs = none, !.kept = kept, !.sub = sub]
           par == New("paren", Top.from)
           paren == [par EXCEPT !.snap = k]
           binary == New("binary", 0)
<1>1. "parenNeg" \notin PatternFrames \cup TypeFrames \cup Leading /\ "parenNeg" \in Bare
  BY DEF PatternFrames, TypeFrames, Leading, Bare
<1>2. /\ calls # <<>> /\ Top \in Frame /\ Top.fn = "parenNeg" /\ Free(Pop) /\ Pop \in Seq(Frame) /\ val \in Node
      /\ Neat(Top) /\ Tally(p, c, n) /\ Base(c) \in Nat /\ Load(c, val) \in Nat
  BY <1>1, Given DEF AfterParenNegated
<1>3. Times(c, Top.kept) = 0
  BY <1>1, <1>2, TimesNone DEF Neat
<1>4. Empty(paren) /\ paren.fn = "paren" /\ Empty(binary) /\ binary.fn = "binary"
  BY DEF New, Empty, Quiet
<1>5. par \in Frame /\ k \in Nat /\ binary \in Frame
  <2>1. Top.from \in Nat
    BY <1>2, FrameParts
  <2>2. "paren" \in FrameNames /\ "binary" \in FrameNames
    BY DEF FrameNames
  <2> QED BY <2>1, <2>2, NewType, PendingType
<1> HIDE DEF par, k, binary
<1>6. paren \in Frame
  BY <1>5 DEF Frame
<1> HIDE DEF paren
<1> DEFINE cs == Append(Pop, paren)
<1>7. Neat(paren) /\ Neat(binary) /\ Holds(c, paren) = 0 /\ Holds(c, binary) = 0
  BY <1>4, EmptyHolds
<1>8. Free(cs)
  BY <1>2, <1>4, <1>7, FreePush DEF PatternFrames, TypeFrames
<1>9. Pop \o <<paren, binary>> = Append(cs, binary) /\ cs \in Seq(Frame)
  BY <1>2, <1>5, <1>6
<1>10. Sum(c, cs) = Sum(c, Pop)
  <2>1. Bill(c, paren) = Holds(c, paren)
    BY <1>6, Bills DEF Holds
  <2>2. Sum(c, cs) = Sum(c, Pop) + Bill(c, paren) /\ Sum(c, Pop) \in Nat
    BY <1>2, <1>6, SumOf
  <2> QED BY <1>7, <2>1, <2>2
<1> HIDE DEF cs, kept, none, sub, m
<1>11. neg.cs = none /\ neg.kept = kept
  BY <1>2 DEF Node
<1> HIDE DEF neg
<1>12. Load(c, neg) = Load(c, val)
  <2>1. kept \in Seq(Comment)
    BY <1>2, NodeParts DEF kept
  <2>2. <<>> \o kept = kept
    BY <2>1, ConcatEmptySeq
  <2>3. Carried(neg) = Carried(val)
    BY <1>11, <2>2, Zenon DEF Carried, kept, none
  <2> QED BY <2>3, Zenon DEF Load
<1>13. Passes(c, "binary", neg) = Load(c, val)
  BY <1>12 DEF Passes, Passing
<1>14. n = Boxes(c) + Sum(c, cs) + Holds(c, binary) + Passes(c, "binary", neg)
  <2>1. Boxes(c) \in Nat /\ Sum(c, Pop) \in Nat
    BY <1>2, TotalIs, SumOf
  <2> QED BY <1>2, <1>3, <1>7, <1>10, <1>13, <2>1 DEF Base
<1>15. Fit(binary, "binary", p, neg)
  BY <1>4 DEF Fit, Plainly, PatternFrames, TypeFrames, Empty, Quiet
<1>16. Goes(p, Append(cs, binary), "binary", neg)
  BY <1>9 DEF AfterParenNegated, Goes, neg, m, none, kept, sub, paren, par, k, binary
<1> HIDE DEF n
<1> QED BY <1>2, <1>7, <1>8, <1>9, <1>14, <1>15, <1>16, PushSound

LEMMA ParenFirstSound ==
  ASSUME IInv, Ordered, Tidy, Fair, IInv', AfterParenFirst \/ AfterTupleElement, NEW c
  PROVE  Sound(c)
<1> USE State
<1>a. Gapped
  BY DEF Tidy
<1> DEFINE snap == Top.snap
           v == WithPre(p, val, snap)
           fr == AddPart(Top, v)
           q == Skip(AfterPre(p, val, snap))
           gap == Between(q, val.to, Here(q))
           r == Advance(q)
           u == Unclaimed(q, 0, gap)
           k == Claimed(q, 0, gap)
           s == Advance(u)
           held == Hold(fr, k)
           m == Times(c, fr.kept)
           n == Base(c) + m
           tuple == [fr EXCEPT !.fn = "tuple", !.snap = Snapshot(r)]
<1>1. \A fn \in {"paren", "tuple"} : fn \notin Leading \cup PatternFrames \cup TypeFrames
  BY DEF Leading, PatternFrames, TypeFrames
<1>2. PICK fn \in {"paren", "tuple"} : Resumes(fn)
  BY DEF AfterParenFirst, AfterTupleElement
<1>3. snap \in Nat
  <2>1. Top \in Frame
    BY <1>1, <1>2, Given
  <2> QED BY <2>1, FrameParts
<1> HIDE DEF snap
<1>4. /\ calls # <<>> /\ Free(Pop) /\ Top.fn = fn
      /\ fr \in Frame /\ fr.fn = fn /\ Quiet(fr) /\ m \in Nat /\ Base(c) \in Nat
      /\ Tally(q, c, n) /\ (Peek(q) # "trivia" => Tally(r, c, n))
  BY <1>1, <1>2, <1>3, GivenPre, Zenon
<1> HIDE DEF v, fr, q, n
<1>5. fr.fn \notin Bare \cup {"app"} \cup Branching \cup TypeFrames
  BY <1>4 DEF Bare, Branching, PatternFrames, TypeFrames
<1>6. Tally(q, c, Base(c) + Times(c, fr.kept)) /\ (Peek(q) # "trivia" => Tally(r, c, Base(c) + Times(c, fr.kept)))
  BY <1>4 DEF n
<1>7. CASE Fail(q)
  BY <1>7, FailSound
<1>8. CASE Peek(q) = "," /\ Need(r, Swap(tuple))
  <2> HIDE DEF r
  <2>1. Kin(tuple, fr) /\ tuple.fn = "tuple"
    BY <1>4 DEF Kin, Frame
  <2>2. "tuple" \notin Bare \cup {"app"} \cup Branching \cup TypeFrames
    BY DEF Bare, Branching, PatternFrames, TypeFrames
  <2> HIDE DEF r, tuple
  <2> QED BY <1>4, <1>6, <1>8, <2>1, <2>2, NeedPartSound
<1>9. CASE Peek(q) = "," /\ Need(r, Swap(fr))
  <2>1. Kin(fr, fr)
    BY DEF Kin
  <2> HIDE DEF r
  <2> QED BY <1>4, <1>5, <1>6, <1>9, <2>1, NeedPartSound
<1>10. CASE Peek(q) = ")" /\ Return(r, Pop, Close(fr, r))
  <2> HIDE DEF r
  <2> QED BY <1>4, <1>6, <1>10, CloseSound
<1>11. CASE Peek(q) = ")" /\ Return(s, Pop, Close(held, s))
  <2>1. OK(q)
    BY <1>4 DEF Tally
  <2>2. /\ Tally(u, c, n + Times(c, k)) /\ Times(c, k) \in Nat /\ u.pos = q.pos /\ u.raw = q.raw
        /\ k \in Seq(Comment)
    BY <1>4, <2>1, ClaimTally, ClaimedType
  <2> HIDE DEF u, k
  <2>3. held \in Frame /\ Times(c, held.kept) = m + Times(c, k)
    <3>1. /\ Hold(fr, k) \in Frame
          /\ Times(c, Hold(fr, k).kept) = Times(c, fr.kept) + Times(c, k)
      BY <1>4, <2>2, Kept
    <3> QED BY <3>1
  <2> HIDE DEF held
  <2>4. Peek(u) # "trivia"
    BY <1>11, <2>2, SameToken, Zenon
  <2>5. Tally(s, c, n + Times(c, k))
    BY <1>a, <2>2, <2>4, AdvanceTally
  <2>6. n + Times(c, k) = Base(c) + Times(c, held.kept)
    BY <1>4, <2>2, <2>3 DEF n
  <2> HIDE DEF s
  <2>7. Tally(s, c, Base(c) + Times(c, held.kept))
    BY <2>5, <2>6
  <2> QED BY <1>4, <1>11, <2>3, <2>7, CloseSound
<1> QED BY <1>7, <1>8, <1>9, <1>10, <1>11, Zenon
        DEF AfterParenFirst, AfterTupleElement, snap, v, fr, q, gap, r, u, k, s, held, tuple

LEMMA ListAtomSound ==
  ASSUME IInv, Ordered, Tidy, Fair, IInv', ListAtom, NEW c
  PROVE  Sound(c)
<1> USE State
<1>a. Gapped
  BY DEF Tidy
<1> DEFINE n == Boxes(c) + Sum(c, calls)
           q == Skip(p)
           open == Advance(q)
           r == Skip(open)
           t == Advance(r)
           col == HereCol(q)
           k == Snapshot(open)
           from == Here(q)
           list == [New("list", from) EXCEPT !.col = col, !.snap = k]
           e == [r EXCEPT !.ctx = col]
<1>1. ctl = "atom" /\ Peek(q) = "["
  BY DEF ListAtom
<1>2. Free(calls) /\ Tally(open, c, n) /\ OK(q)
  BY <1>1, AtAtom DEF Tally
<1>3. col \in Nat
  BY <1>2, HereType
<1> HIDE DEF n, q, open, col, k, from
<1>4. Empty(list) /\ list.fn = "list"
  BY DEF New, Empty, Quiet
<1> HIDE DEF list
<1>5. Tally(r, c, n)
  BY <1>2, SkipTally
<1> HIDE DEF r
<1>6. CASE Peek(r) = "]" /\ GotoWith(t, calls, "access", Leaf(from, t))
  <2>1. Tally(t, c, n)
    BY <1>a, <1>5, <1>6, AdvanceTally
  <2> HIDE DEF t
  <2> QED BY <1>2, <1>6, <2>1, LeafSound DEF n
<1>7. CASE Need(e, Compound(list))
  <2>1. list.fn # "app" /\ list.fn \notin Branching \cup TypeFrames
    BY <1>4 DEF Branching, PatternFrames, TypeFrames
  <2>2. Tally(e, c, n)
    BY <1>3, <1>5, ContextTally
  <2> HIDE DEF e
  <2> QED BY <1>2, <1>4, <1>7, <2>1, <2>2, CompoundSound DEF n
<1> QED BY <1>6, <1>7 DEF ListAtom, q, open, r, t, e, list, col, k, from

LEMMA ListElementSound ==
  ASSUME IInv, Ordered, Tidy, Fair, IInv', AfterListElement, NEW c
  PROVE  Sound(c)
<1> USE State
<1>a. Gapped
  BY DEF Tidy
<1> DEFINE snap == Top.snap
           body == WithPre(p, val, snap)
           q == AfterPre(p, val, snap)
           part == AddPart(Top, body)
           in == Inline(q, body)
           fr == Hold(part, in)
           d == DropInline(q, body)
           r == Skip(d)
           trailing == {k \in Elements(r.pending) : k.line > body.end /\ k.end < toks[r.pos].line}
           s == Unclaimed(r, 0, trailing)
           rest == Claimed(r, 0, trailing)
           last == Hold(fr, rest)
           col == Top.col
           next == Advance(r)
           e == [next EXCEPT !.ctx = col]
           t == Advance(s)
           b == Base(c)
           i == Times(c, part.kept)
           j == Times(c, in)
           k == Times(c, rest)
<1>1. "list" \notin Leading \cup PatternFrames \cup TypeFrames
  BY DEF Leading, PatternFrames, TypeFrames
<1>2. Resumes("list")
  BY DEF AfterListElement
<1>3. snap \in Nat /\ col \in Nat
  <2>1. Top \in Frame
    BY <1>1, <1>2, Given
  <2> QED BY <2>1, FrameParts
<1> HIDE DEF snap, col
<1>4. /\ calls # <<>> /\ Free(Pop)
      /\ part \in Frame /\ part.fn = "list" /\ Quiet(part) /\ i \in Nat /\ b \in Nat
      /\ Tally(q, c, b + i)
  BY <1>1, <1>2, <1>3, GivenPre, Zenon
<1> HIDE DEF body, q, part
<1>5. Tally(d, c, (b + i) + j) /\ j \in Nat /\ in \in Seq(Comment)
  <2>1. OK(q)
    BY <1>4 DEF Tally
  <2> HIDE DEF i, b
  <2> QED BY <1>4, <2>1, InlineTally, InlineType
<1> HIDE DEF d, in
<1>6. fr \in Frame /\ fr.fn = "list" /\ Quiet(fr) /\ Times(c, fr.kept) = i + j
  <2>1. /\ Hold(part, in) \in Frame /\ Hold(part, in).fn = part.fn
        /\ Quiet(part) => Quiet(Hold(part, in))
        /\ Times(c, Hold(part, in).kept) = Times(c, part.kept) + Times(c, in)
    BY ZenonT(60), <1>4, <1>5, Kept
  <2> QED BY <1>4, <2>1
<1> HIDE DEF fr
<1>7. b + Times(c, fr.kept) = (b + i) + j /\ Times(c, fr.kept) \in Nat /\ (b + i) + j \in Nat
  BY <1>4, <1>5, <1>6
<1> DEFINE n == (b + i) + j
<1> HIDE DEF i, j, b
<1>8. Tally(r, c, n)
  BY <1>5, SkipTally
<1> HIDE DEF r, n
<1>9. Tally(s, c, n + k) /\ k \in Nat /\ s.pos = r.pos /\ s.raw = r.raw /\ rest \in Seq(Comment)
  <2>1. OK(r)
    BY <1>8 DEF Tally
  <2> QED BY <1>8, <2>1, ClaimTally, ClaimedType
<1> HIDE DEF s, rest
<1>10. last \in Frame /\ Times(c, last.kept) = Times(c, fr.kept) + k
  <2>1. /\ Hold(fr, rest) \in Frame
        /\ Times(c, Hold(fr, rest).kept) = Times(c, fr.kept) + Times(c, rest)
    BY <1>6, <1>9, Kept
  <2> QED BY <2>1
<1> HIDE DEF last
<1>11. CASE Peek(r) = "," /\ Need(e, Swap(fr))
  <2>1. Tally(next, c, n)
    BY <1>a, <1>8, <1>11, AdvanceTally
  <2> HIDE DEF next
  <2>2. Tally(e, c, n)
    BY <1>3, <2>1, ContextTally
  <2> HIDE DEF e
  <2>3. Kin(fr, fr) /\ fr.fn \notin Bare \cup {"app"} \cup Branching \cup TypeFrames
    BY <1>6 DEF Kin, Bare, Branching, PatternFrames, TypeFrames
  <2>4. Tally(e, c, Base(c) + Times(c, fr.kept))
    BY <1>7, <2>2 DEF n, b
  <2> QED BY <1>4, <1>6, <1>7, <1>11, <2>3, <2>4, NeedPartSound
<1>12. CASE Peek(r) = "]" /\ Return(t, Pop, Close(last, t))
  <2>1. Peek(s) # "trivia"
    BY <1>9, <1>12, SameToken, Zenon
  <2>2. Tally(t, c, n + k)
    BY <1>a, <1>9, <2>1, AdvanceTally
  <2> HIDE DEF t
  <2>3. n + k = Base(c) + Times(c, last.kept)
    <3>1. b + (Times(c, fr.kept) + k) = (b + Times(c, fr.kept)) + k
      BY <1>4, <1>7, <1>9
    <3> QED BY <1>7, <1>10, <3>1 DEF n, b
  <2>4. Tally(t, c, Base(c) + Times(c, last.kept))
    BY <2>2, <2>3
  <2> QED BY <1>4, <1>10, <1>12, <2>4, CloseSound
<1>13. CASE Fail(s)
  BY <1>13, FailSound
<1> QED BY <1>11, <1>12, <1>13, Zenon
        DEF AfterListElement, snap, body, q, part, in, fr, d, r, trailing, s, rest, last, col, next, e, t

LEMMA RecordAtomSound ==
  ASSUME IInv, Ordered, Tidy, Fair, IInv', RecordAtom, NEW c
  PROVE  Sound(c)
<1> USE State
<1>a. Gapped
  BY DEF Tidy
<1> DEFINE n == Boxes(c) + Sum(c, calls)
           q == Skip(p)
           r == Skip(Advance(q))
           t == Advance(r)
           s == Skip(t)
           u == Advance(s)
           from == Here(q)
           col == HereCol(q)
           back == [s EXCEPT !.pos = r.pos, !.raw = FALSE]
           Record(lim) == [New("record", from) EXCEPT !.col = col, !.lim = lim]
<1>1. ctl = "atom" /\ Peek(q) = "{" /\ AtRecord(q)
  BY DEF RecordAtom, AtRecord
<1>2. Free(calls) /\ Tally(Advance(q), c, n) /\ OK(q)
  BY <1>1, AtAtom DEF Tally
<1>3. Tally(r, c, n)
  BY <1>2, SkipTally
<1> HIDE DEF n, q, from, col
<1>4. ASSUME NEW lim
      PROVE  /\ Empty(Record(lim)) /\ Record(lim).fn # "app" /\ Record(lim).fn \notin Branching \cup TypeFrames
             /\ "setter" \notin Passing
  <2>1. Empty(Record(lim)) /\ Record(lim).fn = "record"
    BY DEF New, Empty, Quiet
  <2> HIDE DEF Record
  <2> QED BY <2>1 DEF Branching, PatternFrames, TypeFrames, Passing
<1> HIDE DEF Record
<1>5. Peek(r) # "trivia" => Tally(t, c, n) /\ Tally(s, c, n)
  <2>1. Peek(r) # "trivia" => Tally(t, c, n)
    BY <1>a, <1>3, AdvanceTally
  <2> HIDE DEF t
  <2> QED BY <2>1, SkipTally
<1>6. CASE Peek(r) = "}" /\ GotoWith(t, calls, "access", Leaf(from, t))
  <2> HIDE DEF t
  <2> QED BY <1>2, <1>5, <1>6, LeafSound DEF n
<1>7. CASE Peek(r) = "lower" /\ Peek(s) = "|" /\ Goto(u, Compound(Record(Here(s))), "setter")
  <2> HIDE DEF s
  <2>1. Tally(u, c, n)
    BY <1>a, <1>5, <1>7, AdvanceTally
  <2> HIDE DEF u
  <2> DEFINE fr == Record(Here(s))
  <2>2. /\ Empty(fr) /\ fr.fn # "app" /\ fr.fn \notin Branching \cup TypeFrames /\ "setter" \notin Passing
        /\ Goto(u, Compound(fr), "setter")
    BY <1>4, <1>7
  <2> HIDE DEF fr
  <2> QED BY <1>2, <2>1, <2>2, CompoundSound DEF n
<1>8. CASE Peek(r) = "lower" /\ Goto(back, Compound(Record(from)), "setter")
  <2>1. back = Back(r)
    BY DEF Back
  <2> HIDE DEF back
  <2>2. Tally(Back(r), c, n)
    BY <1>1, <1>2, <1>3, <1>8, BackTally
  <2>3. Tally(back, c, n)
    BY <2>1, <2>2
  <2> DEFINE fr == Record(from)
  <2>4. /\ Empty(fr) /\ fr.fn # "app" /\ fr.fn \notin Branching \cup TypeFrames /\ "setter" \notin Passing
        /\ Goto(back, Compound(fr), "setter")
    BY <1>4, <1>8
  <2> HIDE DEF fr
  <2> QED BY <1>2, <2>3, <2>4, CompoundSound DEF n
<1>9. CASE Goto(r, Compound(Record(from)), "setter")
  <2> DEFINE fr == Record(from)
  <2>1. /\ Empty(fr) /\ fr.fn # "app" /\ fr.fn \notin Branching \cup TypeFrames /\ "setter" \notin Passing
        /\ Goto(r, Compound(fr), "setter")
    BY <1>4, <1>9
  <2> HIDE DEF fr, r
  <2> QED BY <1>2, <1>3, <2>1, CompoundSound DEF n
<1> QED BY <1>6, <1>7, <1>8, <1>9, Zenon DEF RecordAtom, q, r, t, s, u, from, col, back, Record

LEMMA SetterSound ==
  ASSUME IInv, Ordered, Tidy, Fair, IInv', ParseSetter, NEW c
  PROVE  Sound(c)
<1> USE State
<1>a. Gapped
  BY DEF Tidy
<1> DEFINE q == Skip(p)
           t == Advance(q)
           r == Skip(t)
           u == Advance(r)
           col == Top.col
           e == [u EXCEPT !.ctx = col]
           at == Here(p)
           fr == [Top EXCEPT !.mark = at]
           n == Base(c) + Holds(c, Top)
<1>1. ctl \in DOMAIN Owners /\ Owners[ctl] = "record" /\ ctl \notin Passing
  BY OwnersAre DEF ParseSetter, Passing
<1>2. "record" \notin PatternFrames \cup TypeFrames \cup Leading
  BY DEF PatternFrames, TypeFrames, Leading
<1>3. /\ calls # <<>> /\ Top \in Frame /\ Top.fn = "record" /\ Free(Pop) /\ Tally(p, c, n)
      /\ Base(c) \in Nat /\ Times(c, Top.kept) \in Nat /\ Quiet(Top)
  BY <1>1, <1>2, Running
<1>4. n = Base(c) + Times(c, Top.kept) /\ col \in Nat
  BY <1>3, QuietHolds, FrameParts
<1> HIDE DEF n, col, at
<1>5. Tally(q, c, n)
  BY <1>3, SkipTally
<1> HIDE DEF q
<1>6. CASE Fail(q)
  BY <1>6, FailSound
<1>7. CASE Fail(r)
  BY <1>7, FailSound
<1>8. CASE Peek(q) = "lower" /\ Peek(r) = "=" /\ Need(e, Swap(fr))
  <2>1. Tally(t, c, n)
    BY <1>a, <1>5, <1>8, AdvanceTally
  <2>2. Tally(r, c, n)
    BY <2>1, SkipTally
  <2> HIDE DEF r
  <2>3. Tally(u, c, n)
    BY <1>a, <1>8, <2>2, AdvanceTally
  <2> HIDE DEF u
  <2>4. Tally(e, c, n)
    BY <1>4, <2>3, ContextTally
  <2> HIDE DEF e
  <2>5. Kin(fr, Top) /\ fr.fn = "record"
    BY <1>3 DEF Kin, Frame
  <2>6. "record" \notin Bare \cup {"app"} \cup Branching \cup TypeFrames
    BY DEF Bare, Branching, PatternFrames, TypeFrames
  <2> HIDE DEF fr
  <2> QED BY <1>3, <1>4, <1>8, <2>4, <2>5, <2>6, NeedPartSound
<1> QED BY <1>6, <1>7, <1>8, Zenon DEF ParseSetter, q, t, r, u, col, e, at, fr

LEMMA SetterValueSound ==
  ASSUME IInv, Ordered, Tidy, Fair, IInv', AfterSetterValue, NEW c
  PROVE  Sound(c)
<1> USE State
<1>a. Gapped
  BY DEF Tidy
<1> DEFINE a == DropTrailing(p, val)
           trail == Trailing(p, val)
           leading == Between(a, Top.lim, Top.mark)
           lead == Claimed(a, 0, leading)
           b == Unclaimed(a, 0, leading)
           inner == Between(b, Top.mark - 1, val.from)
           in == Claimed(b, 0, inner)
           d == Unclaimed(b, 0, inner)
           value == Lead(val, in)
           kept == Carried(value) \o trail
           setter == SpanNode(Top.mark, d, kept, val.sub)
           whole == Lead(setter, lead)
           part == AddPart(Top, whole)
           l == val.to
           fr == [part EXCEPT !.lim = l]
           q == Skip(d)
           r == Advance(q)
           i == Times(c, trail)
           j == Times(c, lead)
           k == Times(c, in)
           x == Base(c)
           y == Times(c, Top.kept)
           z == Load(c, val)
           n == ((x + y + z + i) + j) + k
<1>1. "record" \notin PatternFrames \cup TypeFrames \cup Leading
  BY DEF PatternFrames, TypeFrames, Leading
<1>2. /\ calls # <<>> /\ Top \in Frame /\ Top.fn = "record" /\ Free(Pop) /\ Tally(p, c, x + y + z)
      /\ val \in Node /\ x \in Nat /\ y \in Nat /\ z \in Nat /\ Quiet(Top)
  BY <1>1, Given DEF AfterSetterValue
<1> HIDE DEF x, y, z
<1>3. Tally(a, c, x + y + z + i) /\ i \in Nat /\ trail \in Seq(Comment) /\ OK(a)
  <2>1. Tally(a, c, x + y + z + i) /\ i \in Nat
    BY <1>2, TrailingTally
  <2> QED BY <2>1, TrailingType
<1> HIDE DEF a, trail, leading
<1>4. Tally(b, c, (x + y + z + i) + j) /\ j \in Nat /\ lead \in Seq(Comment) /\ OK(b)
  <2>1. Tally(b, c, (x + y + z + i) + j) /\ j \in Nat
    BY <1>3, ClaimTally
  <2> QED BY <1>3, <2>1, ClaimedType
<1> HIDE DEF b, lead, inner, i
<1>5. Tally(d, c, n) /\ k \in Nat /\ in \in Seq(Comment) /\ OK(d)
  <2>1. Tally(d, c, n) /\ k \in Nat
    <3> HIDE DEF j
    <3> QED BY <1>4, ClaimTally
  <2> QED BY <1>4, <2>1, ClaimedType
<1> HIDE DEF d, in, j
<1>6. Load(c, value) = z + k /\ value \in Node
  BY <1>2, <1>5, LeadLoad, LeadType DEF z
<1> HIDE DEF value, k
<1>7. kept \in Seq(Comment) /\ Times(c, kept) = (z + k) + i
  <2>1. Carried(value) \in Seq(Comment)
    BY <1>6, NodeParts
  <2>2. kept \in Seq(Comment)
    BY <1>3, <2>1
  <2>3. Times(c, kept) = Times(c, Carried(value)) + Times(c, trail)
    BY <1>3, <2>1, TimesConcat
  <2> QED BY <1>6, <2>2, <2>3 DEF Load, i
<1> HIDE DEF kept
<1>8. setter \in Node /\ Load(c, setter) = (z + k) + i
  <2>1. Top.mark \in Nat /\ val.sub \in SUBSET Span
    BY <1>2, FrameParts, NodeParts
  <2> QED BY <1>5, <1>7, <2>1, SpanNodeType, SpanNodeLoad
<1> HIDE DEF setter
<1>9. whole \in Node /\ Load(c, whole) = (z + k) + i + j
  BY <1>4, <1>8, LeadLoad, LeadType DEF j
<1> HIDE DEF whole
<1>10. part \in Frame /\ part.fn = "record" /\ Quiet(part) /\ Times(c, part.kept) = y + ((z + k) + i + j)
  <2>1. /\ AddPart(Top, whole) \in Frame /\ AddPart(Top, whole).fn = Top.fn
        /\ Quiet(Top) => Quiet(AddPart(Top, whole))
        /\ Times(c, AddPart(Top, whole).kept) = Times(c, Top.kept) + Load(c, whole)
    <3>1. Top \in Frame
      BY <1>2
    <3> QED BY <1>9, <3>1, Taken
  <2> QED BY <1>2, <1>9, <2>1 DEF y
<1> HIDE DEF part, l
<1>11. Kin(fr, part) /\ fr.fn = "record" /\ fr.kept = part.kept
  BY <1>10 DEF Kin, Frame
<1>12. n = x + Times(c, part.kept) /\ Times(c, part.kept) \in Nat
  BY SMTT(30), <1>2, <1>3, <1>4, <1>5, <1>10 DEF i, j, k
<1> HIDE DEF n
<1>13. Tally(q, c, n)
  BY <1>5, SkipTally
<1> HIDE DEF q
<1>14. Peek(q) # "trivia" => Tally(r, c, x + Times(c, part.kept))
  BY <1>a, <1>12, <1>13, AdvanceTally
<1> HIDE DEF r
<1>15. CASE Peek(q) = "," /\ Goto(r, Swap(fr), "setter")
  <2>1. "record" \notin Bare \cup {"app"} \cup PatternFrames \cup TypeFrames /\ "setter" \notin Passing
    BY DEF Bare, PatternFrames, TypeFrames, Passing
  <2> HIDE DEF fr
  <2> QED BY <1>2, <1>10, <1>11, <1>12, <1>14, <1>15, <2>1, SwapPartSound DEF x
<1>16. CASE Peek(q) = "}" /\ Return(r, Pop, Close(fr, r))
  <2>1. fr \in Frame
    <3>1. l \in Nat
      BY <1>2, NodeParts DEF l
    <3> QED BY <1>10, <3>1 DEF Frame
  <2> HIDE DEF fr
  <2>2. Tally(r, c, Base(c) + Times(c, fr.kept))
    <3>1. Peek(q) # "trivia"
      BY <1>16, Zenon
    <3> QED BY <1>11, <1>14, <3>1 DEF x
  <2> QED BY <1>2, <1>16, <2>1, <2>2, CloseSound
<1>17. CASE Fail(q)
  BY <1>17, FailSound
<1> QED BY <1>15, <1>16, <1>17, Zenon
        DEF AfterSetterValue, a, trail, leading, lead, b, inner, in, d, value, kept, setter, whole, part, l, fr, q, r

LEMMA BracketsSound ==
  ASSUME IInv, Ordered, Tidy, Fair, IInv', BracketNext, NEW c
  PROVE  Sound(c)
BY ParenAtomSound, ParenNegatedSound, ParenFirstSound, ListAtomSound, ListElementSound,
   RecordAtomSound, SetterSound, SetterValueSound, Zenon DEF BracketNext
-----------------------------------------------------------------------------
(* Conditionals and case expressions.                                      *)

(* A part comes back and is added as it is.                                *)
LEMMA GivenPart ==
  ASSUME IInv, Ordered, Tidy, Fair, NEW fn, Resumes(fn), NEW c,
         fn \notin Leading \cup PatternFrames \cup TypeFrames
  PROVE  LET q == Skip(p)
             fr == AddPart(Top, val)
             n == Base(c) + Times(c, fr.kept)
         IN  /\ calls # <<>> /\ Free(Pop) /\ Top \in Frame /\ Top.fn = fn
             /\ fr \in Frame /\ fr.fn = fn /\ Quiet(fr) /\ Times(c, fr.kept) \in Nat /\ Base(c) \in Nat
             /\ Tally(p, c, n) /\ Tally(q, c, n) /\ ~q.raw
             /\ Peek(q) # "trivia" => Tally(Advance(q), c, n)
<1> USE State
<1>a. Gapped
  BY DEF Tidy
<1> DEFINE q == Skip(p)
           fr == AddPart(Top, val)
           n == Base(c) + Times(c, fr.kept)
           m == Base(c) + Times(c, Top.kept) + Load(c, val)
<1>1. /\ calls # <<>> /\ Top \in Frame /\ Top.fn = fn /\ val \in Node /\ Free(Pop) /\ Quiet(Top)
      /\ Tally(p, c, m) /\ Base(c) \in Nat /\ Times(c, Top.kept) \in Nat
  BY Given
<1>2. fr \in Frame /\ fr.fn = fn /\ Quiet(fr) /\ Times(c, fr.kept) = Times(c, Top.kept) + Load(c, val) /\ Load(c, val) \in Nat
  <2>1. /\ AddPart(Top, val) \in Frame /\ AddPart(Top, val).fn = Top.fn
        /\ Quiet(Top) => Quiet(AddPart(Top, val))
        /\ Times(c, AddPart(Top, val).kept) = Times(c, Top.kept) + Load(c, val) /\ Load(c, val) \in Nat
    <3>1. Top \in Frame
      BY <1>1
    <3> QED BY <3>1, Taken
  <2> QED BY <1>1, <2>1
<1> HIDE DEF fr
<1>3. m = n /\ Times(c, fr.kept) \in Nat
  BY <1>1, <1>2
<1> HIDE DEF n, m
<1>4. Tally(p, c, n)
  BY <1>1, <1>3
<1>5. Tally(q, c, n) /\ ~q.raw
  BY <1>4, SkipTally
<1> HIDE DEF q
<1>6. Peek(q) # "trivia" => Tally(Advance(q), c, n)
  BY <1>a, <1>5, AdvanceTally
<1> QED BY <1>1, <1>2, <1>3, <1>4, <1>5, <1>6 DEF q, fr, n

LEMMA IfSound ==
  ASSUME IInv, Ordered, Tidy, Fair, IInv', IfAtom \/ CaseAtom, NEW c
  PROVE  Sound(c)
<1> USE State
<1> DEFINE n == Boxes(c) + Sum(c, calls)
           q == Skip(p)
           r == Advance(q)
           k == Snapshot(r)
           m == Snapshot(q)
           from == Here(q)
           col == HereCol(q)
           chain == <<from>>
           if == [New("ifCond", from) EXCEPT !.snap = k, !.chain = chain]
           case == [New("caseSubject", from) EXCEPT !.col = col, !.snap = m]
<1>1. ctl = "atom" /\ Peek(q) # "trivia"
  BY DEF IfAtom, CaseAtom
<1>2. Free(calls) /\ Tally(r, c, n)
  BY <1>1, AtAtom
<1> HIDE DEF n, r, k, m, from, col, chain
<1>3. Empty(if) /\ if.fn = "ifCond" /\ Empty(case) /\ case.fn = "caseSubject"
  BY DEF New, Empty, Quiet
<1> HIDE DEF if, case
<1>4. \A x \in {"ifCond", "caseSubject"} : x # "app" /\ x \notin Branching \cup TypeFrames
  BY DEF Branching, PatternFrames, TypeFrames
<1>5. CASE Need(r, Compound(if))
  BY <1>2, <1>3, <1>4, <1>5, CompoundSound DEF n
<1>6. CASE Need(r, Compound(case))
  BY <1>2, <1>3, <1>4, <1>6, CompoundSound DEF n
<1> QED BY <1>5, <1>6, Zenon DEF IfAtom, CaseAtom, q, r, k, m, from, col, chain, if, case

LEMMA ConditionSound ==
  ASSUME IInv, Ordered, Tidy, Fair, IInv', AfterCondition, NEW c
  PROVE  Sound(c)
<1> USE State
<1> DEFINE first == Top.fn = "ifCond"
           snap == Top.snap
           cond == IF first THEN WithPre(p, val, snap) ELSE val
           q == Skip(IF first THEN AfterPre(p, val, snap) ELSE p)
           r == Advance(q)
           e == Skip(r)
           k == Snapshot(r)
           fr == AddPart(Top, cond)
           g == [fr EXCEPT !.fn = "then", !.snap = k]
           n == Base(c) + Times(c, fr.kept)
<1>1. \A fn \in {"ifCond", "elifCond"} : fn \notin Leading \cup PatternFrames \cup TypeFrames
  BY DEF Leading, PatternFrames, TypeFrames
<1>2. PICK fn \in {"ifCond", "elifCond"} : Resumes(fn)
  BY DEF AfterCondition
<1>3. snap \in Nat /\ Top.fn = fn
  <2>1. Top \in Frame /\ Top.fn = fn
    BY <1>1, <1>2, Given
  <2> QED BY <2>1, FrameParts
<1> HIDE DEF snap
<1>4. /\ calls # <<>> /\ Free(Pop) /\ fr \in Frame /\ Quiet(fr)
      /\ Times(c, fr.kept) \in Nat /\ Base(c) \in Nat
      /\ Tally(q, c, n) /\ (Peek(q) # "trivia" => Tally(r, c, n))
  <2>1. CASE first
    <3>1. fr = AddPart(Top, WithPre(p, val, snap)) /\ q = Skip(AfterPre(p, val, snap))
      BY <2>1, Zenon
    <3>2. LET w == AddPart(Top, WithPre(p, val, snap))
              u == Skip(AfterPre(p, val, snap))
              l == Base(c) + Times(c, w.kept)
          IN  /\ calls # <<>> /\ Free(Pop) /\ w \in Frame /\ Quiet(w)
              /\ Times(c, w.kept) \in Nat /\ Base(c) \in Nat
              /\ Tally(u, c, l) /\ (Peek(u) # "trivia" => Tally(Advance(u), c, l))
      BY <1>1, <1>2, <1>3, GivenPre, Zenon
    <3> QED BY <3>1, <3>2, Zenon
  <2>2. CASE ~first
    <3>1. fr = AddPart(Top, val) /\ q = Skip(p)
      BY <2>2, Zenon
    <3>2. LET w == AddPart(Top, val)
              u == Skip(p)
              l == Base(c) + Times(c, w.kept)
          IN  /\ calls # <<>> /\ Free(Pop) /\ w \in Frame /\ Quiet(w)
              /\ Times(c, w.kept) \in Nat /\ Base(c) \in Nat
              /\ Tally(u, c, l) /\ (Peek(u) # "trivia" => Tally(Advance(u), c, l))
      BY <1>1, <1>2, GivenPart, Zenon
    <3> QED BY <3>1, <3>2, Zenon
  <2> QED BY <2>1, <2>2
<1> HIDE DEF q, cond, fr, n
<1>5. CASE Fail(q)
  BY <1>5, FailSound
<1>6. CASE Peek(q) = "then" /\ Need(e, Swap(g))
  <2>1. Peek(q) # "trivia"
    BY <1>6, Zenon
  <2>2. Tally(r, c, n)
    BY <1>4, <2>1
  <2> HIDE DEF r, k
  <2>3. Tally(e, c, Base(c) + Times(c, fr.kept))
    BY <2>2, SkipTally DEF n
  <2>4. Kin(g, fr) /\ g.fn = "then"
    BY <1>4 DEF Kin, Frame
  <2>5. "then" \notin Bare \cup {"app"} \cup Branching \cup TypeFrames
    BY DEF Bare, Branching, PatternFrames, TypeFrames
  <2> HIDE DEF e, g
  <2> QED BY <1>4, <1>6, <2>3, <2>4, <2>5, NeedPartSound
<1> QED BY <1>5, <1>6, Zenon DEF AfterCondition, first, snap, cond, q, r, e, k, fr, g

LEMMA ThenSound ==
  ASSUME IInv, Ordered, Tidy, Fair, IInv', AfterThen, NEW c
  PROVE  Sound(c)
<1> USE State
<1>a. Gapped
  BY DEF Tidy
<1> DEFINE snap == Top.snap
           q == Skip(AfterPre(p, val, snap))
           part == AddPart(Top, WithPre(p, val, snap))
           r == Advance(q)
           s == DropSince(r, snap)
           since == Since(r, snap)
           t == Skip(s)
           u == Advance(t)
           fr == Hold(part, since)
           chain == Append(fr.chain, Here(t))
           k == Snapshot(s)
           elif == [fr EXCEPT !.fn = "elifCond", !.chain = chain]
           else == [fr EXCEPT !.fn = "else", !.snap = k]
           i == Times(c, part.kept)
           j == Times(c, since)
           b == Base(c)
           n == (b + i) + j
<1>1. "then" \notin Leading \cup PatternFrames \cup TypeFrames /\ Resumes("then")
  BY DEF Leading, PatternFrames, TypeFrames, AfterThen
<1>2. snap \in Nat
  <2>1. Top \in Frame
    BY <1>1, Given
  <2> QED BY <2>1, FrameParts
<1> HIDE DEF snap
<1>3. /\ calls # <<>> /\ Free(Pop) /\ part \in Frame /\ Quiet(part) /\ i \in Nat /\ b \in Nat
      /\ Tally(q, c, b + i) /\ (Peek(q) # "trivia" => Tally(r, c, b + i))
  BY <1>1, <1>2, GivenPre, Zenon
<1> HIDE DEF q, part
<1>4. CASE Fail(q)
  BY <1>4, FailSound
<1>5. ASSUME Peek(q) = "else",
             \/ Peek(t) = "if" /\ Need(u, Swap(elif))
             \/ Need(t, Swap(else))
      PROVE  Sound(c)
  <2>1. Tally(r, c, b + i)
    <3>1. Peek(q) # "trivia"
      BY <1>5, Zenon
    <3> QED BY <1>3, <3>1
  <2> HIDE DEF r
  <2>2. Tally(s, c, n) /\ j \in Nat /\ since \in Seq(Comment)
    <3>1. OK(r)
      BY <2>1 DEF Tally
    <3> HIDE DEF b, i
    <3> QED BY <1>2, <2>1, <3>1, SinceTally, SinceType
  <2> HIDE DEF s, since
  <2>3. fr \in Frame /\ Quiet(fr) /\ Times(c, fr.kept) = i + j
    <3>1. /\ Hold(part, since) \in Frame /\ (Quiet(part) => Quiet(Hold(part, since)))
          /\ Times(c, Hold(part, since).kept) = Times(c, part.kept) + Times(c, since)
      BY <1>3, <2>2, Kept
    <3> QED BY <1>3, <3>1
  <2> HIDE DEF fr
  <2>4. n = Base(c) + Times(c, fr.kept) /\ Times(c, fr.kept) \in Nat
    BY <1>3, <2>2, <2>3
  <2> HIDE DEF n
  <2>5. Tally(t, c, n)
    BY <2>2, SkipTally
  <2> HIDE DEF t, chain, k
  <2>6. Kin(elif, fr) /\ elif.fn = "elifCond" /\ Kin(else, fr) /\ else.fn = "else"
    BY <2>3 DEF Kin, Frame
  <2> HIDE DEF elif, else
  <2>7. \A x \in {"elifCond", "else"} : x \notin Bare \cup {"app"} \cup Branching \cup TypeFrames
    BY DEF Bare, Branching, PatternFrames, TypeFrames
  <2>8. CASE Peek(t) = "if" /\ Need(u, Swap(elif))
    <3>1. Tally(u, c, n)
      BY <1>a, <2>5, <2>8, AdvanceTally
    <3> HIDE DEF u
    <3>2. Tally(u, c, Base(c) + Times(c, fr.kept))
      BY <2>4, <3>1
    <3> QED BY <1>3, <2>3, <2>4, <2>6, <2>7, <2>8, <3>2, NeedPartSound
  <2>9. CASE Need(t, Swap(else))
    <3>1. Tally(t, c, Base(c) + Times(c, fr.kept))
      BY <2>4, <2>5
    <3> QED BY <1>3, <2>3, <2>4, <2>6, <2>7, <2>9, <3>1, NeedPartSound
  <2> QED BY <1>5, <2>8, <2>9
<1> QED BY <1>4, <1>5, Zenon
        DEF AfterThen, snap, q, part, r, s, since, t, u, fr, chain, k, elif, else

LEMMA ElseSound ==
  ASSUME IInv, Ordered, Tidy, Fair, IInv', AfterElse, NEW c
  PROVE  Sound(c)
<1> DEFINE snap == Top.snap
           q == AfterPre(p, val, snap)
           fr == AddPart(Top, WithPre(p, val, snap))
           ifs == Close(fr, q)
           spans == ifs.sub \cup {<<start, ifs.to>> : start \in Elements(Top.chain)}
           v == [ifs EXCEPT !.sub = spans]
           n == Base(c) + Times(c, fr.kept)
<1>1. "else" \notin Leading \cup PatternFrames \cup TypeFrames /\ Resumes("else")
  BY DEF Leading, PatternFrames, TypeFrames, AfterElse
<1>2. snap \in Nat
  <2>1. Top \in Frame
    BY <1>1, Given
  <2> QED BY <2>1, FrameParts
<1> HIDE DEF snap
<1>3. calls # <<>> /\ Free(Pop) /\ fr \in Frame /\ Tally(q, c, n)
  BY <1>1, <1>2, GivenPre, Zenon
<1> HIDE DEF q, fr
<1>4. Load(c, ifs) = Times(c, fr.kept)
  BY <1>3, CloseLoad
<1>5. v.cs = ifs.cs /\ v.kept = ifs.kept
  <2> HIDE DEF spans
  <2> QED BY DEF Close, SpanNode
<1> HIDE DEF v, ifs, spans
<1>6. Load(c, v) = Load(c, ifs)
  BY <1>5, Zenon DEF Load, Carried
<1>7. n = Base(c) + Load(c, v)
  BY <1>4, <1>6
<1> HIDE DEF n
<1> QED BY <1>1, <1>3, <1>7, RestSound DEF AfterElse, snap, q, fr, ifs, spans, v

LEMMA CaseSubjectSound ==
  ASSUME IInv, Ordered, Tidy, Fair, IInv', AfterCaseSubject, NEW c
  PROVE  Sound(c)
<1> USE State
<1> DEFINE q == Skip(p)
           t == Advance(q)
           r == Skip(t)
           fr == AddPart(Top, val)
           col == HereCol(r)
           g == [fr EXCEPT !.fn = "casePattern", !.n = 0, !.ref = col]
           n == Base(c) + Times(c, fr.kept)
<1>1. "caseSubject" \notin Leading \cup PatternFrames \cup TypeFrames /\ Resumes("caseSubject")
  BY DEF Leading, PatternFrames, TypeFrames, AfterCaseSubject
<1>2. /\ calls # <<>> /\ Free(Pop) /\ fr \in Frame /\ Quiet(fr) /\ Times(c, fr.kept) \in Nat /\ Base(c) \in Nat
      /\ Peek(q) # "trivia" => Tally(t, c, n)
  BY <1>1, GivenPart, Zenon
<1> HIDE DEF q, fr
<1>3. CASE Fail(q)
  BY <1>3, FailSound
<1>4. CASE Peek(q) = "of" /\ Goto(r, Swap(g), "branch")
  <2>1. Peek(q) # "trivia"
    BY <1>4, Zenon
  <2>2. Tally(t, c, n)
    BY <1>2, <2>1
  <2> HIDE DEF t, n, col
  <2>3. Tally(r, c, n)
    BY <2>2, SkipTally
  <2>4. Kin(g, fr) /\ g.fn = "casePattern"
    BY <1>2 DEF Kin, Frame
  <2> HIDE DEF g, r
  <2>5. "casePattern" \notin Bare \cup {"app"} \cup PatternFrames \cup TypeFrames /\ "branch" \notin Passing
    BY DEF Bare, PatternFrames, TypeFrames, Passing
  <2>6. Tally(r, c, Base(c) + Times(c, fr.kept))
    BY <2>3 DEF n
  <2> QED BY <1>2, <1>4, <2>4, <2>5, <2>6, SwapPartSound
<1> QED BY <1>3, <1>4, Zenon DEF AfterCaseSubject, q, t, r, fr, col, g

LEMMA NextBranchSound ==
  ASSUME IInv, Ordered, Tidy, Fair, IInv', NextBranch, NEW c
  PROVE  Sound(c)
<1> USE State
<1> DEFINE q == Skip(p)
           snap == Top.snap
           d == DropSince(q, snap)
           lead == Since(q, snap)
           fr == [Top EXCEPT !.lead = lead]
           n == Base(c) + Holds(c, Top)
           k == Times(c, lead)
<1>1. ctl \in DOMAIN Owners /\ Owners[ctl] = "casePattern" /\ ctl = "branch" /\ ctl \notin Passing
      /\ "casePattern" \notin PatternFrames \cup TypeFrames \cup Bare /\ "casePattern" \in Leading
  BY OwnersAre DEF NextBranch, Passing, PatternFrames, TypeFrames, Bare, Leading
<1>2. /\ calls # <<>> /\ Top \in Frame /\ Top.fn = "casePattern" /\ Free(Pop) /\ Meets(Top, ctl, p, val)
      /\ Tally(p, c, n) /\ Base(c) \in Nat /\ Times(c, Top.kept) \in Nat
      /\ Top.ops = <<>> /\ OpsLoad(c, Top.ops) = 0
      /\ Holds(c, Top) = Times(c, Top.lead) + Times(c, Top.kept) + OpsLoad(c, Top.ops)
  BY <1>1, Running
<1>3. Top.lead = <<>>
  BY <1>1, <1>2 DEF Meets
<1>4. Quiet(Top)
  BY <1>2, <1>3 DEF Quiet
<1>5. Holds(c, Top) = Times(c, Top.kept) /\ snap \in Nat
  BY <1>2, <1>4, QuietHolds, FrameParts
<1>6. Tally(q, c, n)
  BY <1>2, SkipTally
<1> HIDE DEF q, snap
<1>7. CASE Fail(q)
  BY <1>7, FailSound
<1>8. CASE Goto(d, Swap(fr), "pattern")
  <2>1. Tally(d, c, n + k) /\ k \in Nat
    <3> HIDE DEF n
    <3> QED BY <1>5, <1>6, SinceTally
  <2> HIDE DEF lead, d
  <2>2. fr.fn = "casePattern" /\ fr.lead = lead /\ fr.kept = Top.kept /\ fr.ops = <<>>
    BY <1>2 DEF Frame
  <2> HIDE DEF fr
  <2>3. Neat(fr)
    BY <1>1, <2>2 DEF Neat
  <2>4. Holds(c, fr) = k + Times(c, Top.kept) + 0
    BY <1>2, <2>2 DEF Holds
  <2>5. Passes(c, "pattern", val) = 0
    BY DEF Passes, Passing
  <2>6. n + k = Base(c) + Holds(c, fr) + Passes(c, "pattern", val)
    <3> HIDE DEF k
    <3> QED BY <1>2, <1>5, <2>1, <2>4, <2>5
  <2>7. Fit(fr, "pattern", d, val)
    BY <1>1, <2>2 DEF Fit, Plainly
  <2>8. Goes(d, Swap(fr), "pattern", val)
    BY <1>8 DEF Goes
  <2> DEFINE m == n + k
  <2>9. Tally(d, c, m) /\ m = Base(c) + Holds(c, fr) + Passes(c, "pattern", val)
    BY <2>1, <2>6
  <2> HIDE DEF m
  <2> QED BY <1>2, <2>3, <2>7, <2>8, <2>9, SwapSound
<1>9. CASE Return(q, Pop, Close(Top, q))
  <2>1. Tally(q, c, Base(c) + Times(c, Top.kept))
    BY <1>5, <1>6
  <2> QED BY <1>2, <1>9, <2>1, CloseSound
<1> QED BY <1>7, <1>8, <1>9, Zenon DEF NextBranch, q, snap, d, lead, fr

LEMMA BranchPatternSound ==
  ASSUME IInv, Ordered, Tidy, Fair, IInv', AfterBranchPattern, NEW c
  PROVE  Sound(c)
<1> USE State
<1>a. Gapped
  BY DEF Tidy
<1> DEFINE lead == Top.lead
           pat == IF lead = <<>> THEN val ELSE [val EXCEPT !.cs = lead]
           none == <<>>
           sub == Top.sub \cup val.sub
           bare == [Top EXCEPT !.sub = sub, !.lead = none]
           cs == Carried(pat)
           fr == Hold(bare, cs)
           q == Skip(p)
           t == Advance(q)
           zero == 0
           r == [t EXCEPT !.ctx = zero]
           k == Snapshot(r)
           g == [fr EXCEPT !.fn = "caseBody", !.body = k]
           n == Base(c) + Holds(c, Top) + Load(c, val)
<1>1. Resumes("casePattern") /\ "casePattern" \notin PatternFrames \cup TypeFrames /\ "casePattern" \in Branching
      /\ "casePattern" # "binary"
  BY DEF AfterBranchPattern, PatternFrames, TypeFrames, Branching
<1>2. /\ calls # <<>> /\ Top \in Frame /\ Top.fn = "casePattern" /\ Free(Pop) /\ Meets(Top, "done", p, val)
      /\ val \in Node /\ Tally(p, c, n) /\ Base(c) \in Nat /\ Load(c, val) \in Nat
      /\ Times(c, Top.kept) \in Nat /\ Times(c, lead) \in Nat /\ Top.ops = <<>> /\ OpsLoad(c, Top.ops) = 0
      /\ Holds(c, Top) = Times(c, lead) + Times(c, Top.kept) + OpsLoad(c, Top.ops)
  BY <1>1, Given
<1>3. val.cs = <<>> /\ lead \in Seq(Comment) /\ val.kept \in Seq(Comment) /\ sub \in SUBSET Span
  BY <1>1, <1>2, FrameParts, NodeParts DEF Meets
<1> HIDE DEF lead, sub
<1>4. cs = lead \o val.kept
  <2>1. CASE lead = <<>>
    BY <1>3, <2>1, Zenon DEF Carried
  <2>2. CASE lead # <<>>
    <3>1. pat = [val EXCEPT !.cs = lead]
      BY <2>2
    <3>2. [val EXCEPT !.cs = lead].cs = lead /\ [val EXCEPT !.cs = lead].kept = val.kept
      BY <1>2 DEF Node
    <3>3. pat.cs = lead /\ pat.kept = val.kept
      BY <3>1, <3>2, Zenon
    <3> QED BY <3>3, Zenon DEF Carried
  <2> QED BY <2>1, <2>2
<1> HIDE DEF pat, cs
<1>5. cs \in Seq(Comment) /\ Times(c, cs) = Times(c, lead) + Load(c, val)
  <2>1. Times(c, lead \o val.kept) = Times(c, lead) + Times(c, val.kept)
    BY <1>3, TimesConcat
  <2>2. Carried(val) = val.kept
    <3>1. <<>> \o val.kept = val.kept
      BY <1>3, ConcatEmptySeq
    <3> QED BY <1>3, <3>1, Zenon DEF Carried
  <2>3. Load(c, val) = Times(c, val.kept)
    BY <2>2, Zenon DEF Load
  <2>4. lead \o val.kept \in Seq(Comment)
    BY <1>3
  <2> QED BY <1>4, <2>1, <2>3, <2>4
<1>6. bare \in Frame /\ bare.kept = Top.kept /\ Quiet(bare)
  <2>1. none \in Seq(Comment)
    OBVIOUS
  <2>2. bare \in Frame
    <3> HIDE DEF none
    <3> QED BY <1>2, <1>3, <2>1 DEF Frame
  <2>3. bare.kept = Top.kept /\ bare.lead = none /\ bare.ops = Top.ops
    <3> HIDE DEF none
    <3> QED BY <1>2 DEF Frame
  <2> HIDE DEF bare
  <2> QED BY <1>2, <2>2, <2>3 DEF Quiet
<1> HIDE DEF bare
<1>7. fr \in Frame /\ Quiet(fr) /\ Times(c, fr.kept) = Times(c, Top.kept) + Times(c, cs)
  <2>1. /\ Hold(bare, cs) \in Frame /\ (Quiet(bare) => Quiet(Hold(bare, cs)))
        /\ Times(c, Hold(bare, cs).kept) = Times(c, bare.kept) + Times(c, cs)
    BY <1>5, <1>6, Kept
  <2> QED BY <1>6, <2>1
<1> HIDE DEF fr
<1>8. n = Base(c) + Times(c, fr.kept) /\ Times(c, fr.kept) \in Nat
  BY <1>2, <1>5, <1>7
<1> HIDE DEF n
<1>9. Tally(q, c, n)
  BY <1>2, SkipTally
<1> HIDE DEF q
<1>10. CASE Fail(q)
  BY <1>10, FailSound
<1>11. CASE Peek(q) = "->" /\ Need(r, Swap(g))
  <2>1. Tally(t, c, n)
    BY <1>a, <1>9, <1>11, AdvanceTally
  <2> HIDE DEF t
  <2>2. Tally(r, c, n)
    <3>1. zero \in Nat
      OBVIOUS
    <3> HIDE DEF zero
    <3> QED BY <2>1, <3>1, ContextTally
  <2> HIDE DEF k, r
  <2>3. Kin(g, fr) /\ g.fn = "caseBody"
    BY <1>7 DEF Kin, Frame
  <2> HIDE DEF g
  <2>4. "caseBody" \notin Bare \cup {"app"} \cup Branching \cup TypeFrames
    BY DEF Bare, Branching, PatternFrames, TypeFrames
  <2>5. Tally(r, c, Base(c) + Times(c, fr.kept))
    BY <1>8, <2>2
  <2> QED BY <1>2, <1>7, <1>8, <1>11, <2>3, <2>4, <2>5, NeedPartSound
<1> QED BY <1>10, <1>11, Zenon
        DEF AfterBranchPattern, lead, pat, none, sub, bare, cs, fr, q, t, zero, r, k, g

LEMMA BranchBodySound ==
  ASSUME IInv, Ordered, Tidy, Fair, IInv', AfterBranchBody, NEW c
  PROVE  Sound(c)
<1> DEFINE snap == Top.body
           q == AfterPre(p, val, snap)
           fr == AddPart(Top, WithPre(p, val, snap))
           g == [fr EXCEPT !.fn = "casePattern"]
<1>1. "caseBody" \notin Leading \cup PatternFrames \cup TypeFrames /\ Resumes("caseBody")
  BY DEF Leading, PatternFrames, TypeFrames, AfterBranchBody
<1>2. snap \in Nat
  <2>1. Top \in Frame
    BY <1>1, Given
  <2> QED BY <2>1, FrameParts
<1> HIDE DEF snap
<1>3. /\ calls # <<>> /\ Free(Pop) /\ fr \in Frame /\ Quiet(fr) /\ Times(c, fr.kept) \in Nat /\ Base(c) \in Nat
      /\ Tally(q, c, Base(c) + Times(c, fr.kept))
  BY <1>1, <1>2, GivenPre, Zenon
<1> HIDE DEF q, fr
<1>4. Kin(g, fr) /\ g.fn = "casePattern"
  BY <1>3 DEF Kin, Frame
<1> HIDE DEF g
<1>5. "casePattern" \notin Bare \cup {"app"} \cup PatternFrames \cup TypeFrames /\ "branch" \notin Passing
  BY DEF Bare, PatternFrames, TypeFrames, Passing
<1>6. Goto(q, Swap(g), "branch")
  BY DEF AfterBranchBody, snap, q, fr, g
<1> QED BY <1>3, <1>4, <1>5, <1>6, SwapPartSound

LEMMA BranchesSound ==
  ASSUME IInv, Ordered, Tidy, Fair, IInv', BranchNext, NEW c
  PROVE  Sound(c)
BY IfSound, ConditionSound, ThenSound, ElseSound, CaseSubjectSound, NextBranchSound,
   BranchPatternSound, BranchBodySound, Zenon DEF BranchNext
-----------------------------------------------------------------------------
(* let ... in.                                                             *)

LEMMA LeadHolds ==
  ASSUME NEW f, f.ops = <<>>, NEW g, Kin(g, f), NEW c, Times(c, f.lead) \in Nat, Times(c, f.kept) \in Nat,
         g.fn \in Leading \ {"binary", "app"}
  PROVE  Neat(g) /\ Holds(c, g) = Times(c, f.lead) + Times(c, f.kept)
<1>1. g.ops = <<>> /\ Times(c, g.lead) = Times(c, f.lead) /\ Times(c, g.kept) = Times(c, f.kept)
  BY Zenon DEF Kin
<1>2. OpsLoad(c, g.ops) = 0
  <2>1. <<>> \in Seq(PendingOp)
    OBVIOUS
  <2>2. OpsLoad(c, <<>>) = 0
    BY <2>1, OpsLoads
  <2> QED BY <1>1, <2>2, Zenon
<1>3. g.fn \notin Bare /\ g.fn \in Leading /\ g.fn # "app"
  BY DEF Bare, Leading
<1>4. Neat(g)
  BY <1>1, <1>3 DEF Neat
<1> QED BY <1>1, <1>2, <1>4 DEF Holds

(* The function goes on with the comments that lead its next part.         *)
LEMMA LeadSwapSound ==
  ASSUME IInv, Tidy, IInv', calls # <<>>, Free(Pop), NEW c, NEW q, NEW f, f.ops = <<>>, Base(c) \in Nat,
         Times(c, f.lead) \in Nat, Times(c, f.kept) \in Nat,
         Tally(q, c, Base(c) + Times(c, f.lead) + Times(c, f.kept)),
         NEW g, Kin(g, f), g.fn \in {"letSig", "letArgs", "letPattern", "letValue"},
         NEW x \in {"signature", "letName", "letArgs", "pattern"}, Goto(q, Swap(g), x)
  PROVE  Sound(c)
<1>1. g.fn \in Leading \ {"binary", "app"} /\ g.fn \notin PatternFrames \cup TypeFrames /\ g.fn # "casePattern"
  BY DEF Leading, PatternFrames, TypeFrames
<1>2. Neat(g) /\ Holds(c, g) = Times(c, f.lead) + Times(c, f.kept)
  BY <1>1, LeadHolds
<1> DEFINE n == Base(c) + Times(c, f.lead) + Times(c, f.kept)
<1>3. Passes(c, x, val) = 0
  BY DEF Passes, Passing
<1>4. Fit(g, x, q, val)
  BY <1>1 DEF Fit, Plainly
<1>5. Tally(q, c, n) /\ n = Base(c) + Holds(c, g) + Passes(c, x, val)
  BY <1>2, <1>3
<1>6. Goes(q, Swap(g), x, val)
  BY DEF Goes
<1> HIDE DEF n
<1> QED BY <1>2, <1>4, <1>5, <1>6, SwapSound

LEMMA LetValueSound ==
  ASSUME IInv, Tidy, IInv', calls # <<>>, Free(Pop), NEW c, NEW q, NEW f \in Frame, f.ops = <<>>, Base(c) \in Nat,
         Times(c, f.lead) \in Nat, Times(c, f.kept) \in Nat,
         Tally(q, c, Base(c) + Times(c, f.lead) + Times(c, f.kept)), NeedLetValue(q, f)
  PROVE  Sound(c)
<1> USE State
<1> DEFINE t == Advance(q)
           zero == 0
           r == [t EXCEPT !.ctx = zero]
           k == Snapshot(r)
           g == [f EXCEPT !.fn = "letValue", !.body = k]
           n == Base(c) + Times(c, f.lead) + Times(c, f.kept)
<1>1. CASE Fail(q)
  BY <1>1, FailSound
<1>2. CASE Peek(q) = "=" /\ Need(r, Swap(g))
  <2> HIDE DEF n
  <2>1. Tally(t, c, n)
    BY <1>2, AdvanceTally DEF n, Tidy
  <2> HIDE DEF t
  <2>2. Tally(r, c, n)
    <3>1. zero \in Nat
      OBVIOUS
    <3> HIDE DEF zero
    <3> QED BY <2>1, <3>1, ContextTally
  <2> HIDE DEF k, r
  <2>3. Kin(g, f) /\ g.fn = "letValue"
    BY DEF Kin, Frame
  <2> HIDE DEF g
  <2>4. g.fn \in Leading \ {"binary", "app"} /\ g.fn \notin Branching \cup TypeFrames
    BY <2>3 DEF Leading, Branching, PatternFrames, TypeFrames
  <2>5. Neat(g) /\ Holds(c, g) = Times(c, f.lead) + Times(c, f.kept)
    BY <2>3, <2>4, LeadHolds
  <2>6. n = Base(c) + Holds(c, g)
    BY <2>5 DEF n
  <2> QED BY <1>2, <2>2, <2>4, <2>5, <2>6, NeedNextSound
<1> QED BY <1>1, <1>2, Zenon DEF NeedLetValue, t, zero, r, k, g

(* A pattern or a signature comes back; its comments stay below.           *)
LEMMA GivenHeld ==
  ASSUME IInv, Ordered, Tidy, Fair, NEW fn \in {"letSig", "letArgs", "letPattern"}, Resumes(fn), NEW c,
         NEW bare \in Frame, Kin(bare, Top)
  PROVE  LET f == Hold(bare, Carried(val))
             n == Base(c) + Times(c, f.lead) + Times(c, f.kept)
         IN  /\ calls # <<>> /\ Free(Pop) /\ f \in Frame /\ f.fn = bare.fn /\ f.ops = <<>> /\ Base(c) \in Nat
             /\ Times(c, f.lead) \in Nat /\ Times(c, f.kept) \in Nat
             /\ Tally(p, c, n) /\ Tally(Skip(p), c, n)
<1> USE State
<1> DEFINE f == Hold(bare, Carried(val))
           n == Base(c) + Times(c, f.lead) + Times(c, f.kept)
           m == Base(c) + Holds(c, Top) + Load(c, val)
<1>1. fn \notin PatternFrames \cup TypeFrames /\ fn # "binary"
  BY DEF PatternFrames, TypeFrames
<1>2. /\ calls # <<>> /\ Top \in Frame /\ Free(Pop) /\ val \in Node /\ Tally(p, c, m)
      /\ Base(c) \in Nat /\ Load(c, val) \in Nat /\ Times(c, Top.kept) \in Nat /\ Times(c, Top.lead) \in Nat
      /\ Top.ops = <<>> /\ OpsLoad(c, Top.ops) = 0
      /\ Holds(c, Top) = Times(c, Top.lead) + Times(c, Top.kept) + OpsLoad(c, Top.ops)
  BY <1>1, Given
<1>3. Carried(val) \in Seq(Comment)
  BY <1>2, NodeParts
<1>4. /\ f \in Frame /\ f.fn = bare.fn /\ f.lead = bare.lead /\ f.ops = bare.ops
      /\ Times(c, f.kept) = Times(c, bare.kept) + Times(c, Carried(val))
  BY <1>3, Kept
<1> HIDE DEF f
<1>5. f.ops = <<>> /\ Times(c, f.lead) = Times(c, Top.lead)
      /\ Times(c, f.kept) = Times(c, Top.kept) + Load(c, val)
  BY <1>2, <1>4, Zenon DEF Kin, Load
<1>6. m = n /\ Times(c, f.lead) \in Nat /\ Times(c, f.kept) \in Nat
  BY <1>2, <1>5
<1> HIDE DEF m, n
<1>7. Tally(p, c, n) /\ Tally(Skip(p), c, n)
  <2>1. Tally(p, c, n)
    BY <1>2, <1>6
  <2> QED BY <2>1, SkipTally
<1> QED BY <1>2, <1>4, <1>5, <1>6, <1>7 DEF f, n

(* Where let and its declarations start.                                   *)
LEMMA LetStartsSound ==
  ASSUME IInv, Ordered, Tidy, Fair, IInv', LetAtom \/ EndOfLet \/ NextLetDecl, NEW c
  PROVE  Sound(c)
<1> USE State
<1>a. Gapped
  BY DEF Tidy
<1>1. CASE LetAtom
  <2> DEFINE n == Boxes(c) + Sum(c, calls)
             q == Skip(p)
             t == Advance(q)
             r == Skip(t)
             from == Here(q)
             col == HereCol(q)
             ref == HereCol(r)
             k == Snapshot(q)
             let == [New("let", from) EXCEPT !.col = col, !.ref = ref, !.snap = k]
  <2>1. ctl = "atom" /\ Peek(q) # "trivia"
    BY <1>1 DEF LetAtom
  <2>2. Free(calls) /\ Tally(t, c, n)
    BY <2>1, AtAtom
  <2> HIDE DEF n, t
  <2>3. Tally(r, c, n)
    BY <2>2, SkipTally
  <2> HIDE DEF r, from, col, ref, k
  <2>4. Empty(let) /\ let.fn = "let"
    BY DEF New, Empty, Quiet
  <2> HIDE DEF let
  <2>5. let.fn # "app" /\ let.fn \notin Branching \cup TypeFrames /\ "letNext" \notin Passing
    BY <2>4 DEF Branching, PatternFrames, TypeFrames, Passing
  <2>6. Goto(r, Compound(let), "letNext")
    BY <1>1 DEF LetAtom, q, t, r, from, col, ref, k, let
  <2> QED BY <2>2, <2>3, <2>4, <2>5, <2>6, CompoundSound DEF n
<1>2. CASE EndOfLet \/ NextLetDecl
  <2> DEFINE q == Skip(p)
             snap == Top.snap
             r == DropSince(q, snap)
             since == Since(q, snap)
             t == Advance(r)
             zero == 0
             s == [t EXCEPT !.ctx = zero]
             fr == Hold(Top, since)
             k == Snapshot(s)
             body == [fr EXCEPT !.fn = "letBody", !.body = k]
             at == Here(q)
             next == [Top EXCEPT !.lead = since, !.mark = at]
             sig == [next EXCEPT !.fn = "letSig"]
             args == [next EXCEPT !.fn = "letArgs", !.lim = at]
             pat == [next EXCEPT !.fn = "letPattern"]
             b == Base(c)
             i == Times(c, Top.kept)
             j == Times(c, since)
  <2>1. ctl \in DOMAIN Owners /\ Owners[ctl] = "let" /\ ctl \notin Passing
        /\ "let" \notin PatternFrames \cup TypeFrames \cup Leading
    BY <1>2, OwnersAre DEF EndOfLet, NextLetDecl, Passing, PatternFrames, TypeFrames, Leading
  <2>2. /\ calls # <<>> /\ Top \in Frame /\ Top.fn = "let" /\ Free(Pop) /\ Tally(p, c, b + Holds(c, Top))
        /\ b \in Nat /\ i \in Nat /\ Quiet(Top) /\ Top.ops = <<>>
    BY <2>1, Running DEF Quiet
  <2>3. Holds(c, Top) = i /\ snap \in Nat
    BY <2>2, QuietHolds, FrameParts
  <2>4. Tally(p, c, b + i)
    BY <2>2, <2>3
  <2> HIDE DEF b, i
  <2>5. Tally(q, c, b + i)
    BY <2>4, SkipTally
  <2> HIDE DEF q, snap
  <2>6. Tally(r, c, (b + i) + j) /\ j \in Nat /\ since \in Seq(Comment)
    <3>1. OK(q)
      BY <2>5 DEF Tally
    <3> QED BY <2>3, <2>5, <3>1, SinceTally, SinceType
  <2> HIDE DEF since, r
  <2>7. CASE Fail(r)
    BY <2>7, FailSound
  <2>8. CASE Peek(r) = "in" /\ Need(s, Swap(body))
    <3>1. Tally(t, c, (b + i) + j)
      BY <1>a, <2>6, <2>8, AdvanceTally
    <3> HIDE DEF t, j
    <3>2. Tally(s, c, (b + i) + j)
      <4>1. zero \in Nat
        OBVIOUS
      <4> HIDE DEF zero
      <4> QED BY <3>1, <4>1, ContextTally
    <3> HIDE DEF s, k
    <3>3. fr \in Frame /\ Quiet(fr) /\ Times(c, fr.kept) = i + j
      <4>1. /\ Hold(Top, since) \in Frame /\ (Quiet(Top) => Quiet(Hold(Top, since)))
            /\ Times(c, Hold(Top, since).kept) = Times(c, Top.kept) + Times(c, since)
        <5>1. Top \in Frame
          BY <2>2
        <5> QED BY <2>6, <5>1, Kept
      <4> QED BY <2>2, <4>1 DEF i, j
    <3> HIDE DEF fr
    <3>4. Kin(body, fr) /\ body.fn = "letBody"
      BY <3>3 DEF Kin, Frame
    <3> HIDE DEF body
    <3>5. "letBody" \notin Bare \cup {"app"} \cup Branching \cup TypeFrames
      BY DEF Bare, Branching, PatternFrames, TypeFrames
    <3>6. (b + i) + j = b + Times(c, fr.kept) /\ Times(c, fr.kept) \in Nat
      BY <2>2, <2>6, <3>3 DEF j
    <3>7. Tally(s, c, Base(c) + Times(c, fr.kept))
      BY <3>2, <3>6 DEF b
    <3> QED BY <2>2, <2>8, <3>3, <3>4, <3>5, <3>6, <3>7, NeedPartSound
  <2>9. ASSUME NEW g, g.fn \in {"letSig", "letArgs", "letPattern"}, Kin(g, next),
               NEW x \in {"signature", "letName", "pattern"}, Goto(r, Swap(g), x)
        PROVE  Sound(c)
    <3>1. next.lead = since /\ next.kept = Top.kept /\ next.ops = <<>>
      BY <2>2 DEF Frame
    <3> HIDE DEF next, j
    <3>2. Times(c, next.lead) = j /\ Times(c, next.kept) = i
      BY <3>1, Zenon DEF i, j
    <3>3. (b + i) + j = b + j + i
      BY <2>2, <2>6 DEF j
    <3>4. Tally(r, c, Base(c) + Times(c, next.lead) + Times(c, next.kept))
      BY <2>6, <3>2, <3>3 DEF b, j
    <3>5. Times(c, next.lead) \in Nat /\ Times(c, next.kept) \in Nat /\ Base(c) \in Nat
      BY <2>2, <2>6, <3>2 DEF b, j
    <3> QED BY <2>2, <2>9, <3>1, <3>4, <3>5, LeadSwapSound
  <2>10. /\ Kin(sig, next) /\ sig.fn = "letSig" /\ Kin(args, next) /\ args.fn = "letArgs"
         /\ Kin(pat, next) /\ pat.fn = "letPattern"
    <3> HIDE DEF at
    <3>1. next = [Top EXCEPT !.lead = since, !.mark = at]
      OBVIOUS
    <3> QED BY <2>2 DEF Kin, Frame
  <2> HIDE DEF sig, args, pat
  <2>11. CASE Goto(r, Swap(sig), "signature") \/ Goto(r, Swap(args), "letName") \/ Goto(r, Swap(pat), "pattern")
    <3> HIDE DEF next
    <3> QED BY <2>9, <2>10, <2>11
  <2> QED BY <1>2, <2>7, <2>8, <2>11, Zenon
          DEF EndOfLet, NextLetDecl, q, snap, r, since, t, zero, s, fr, k, body, at, next, sig, args, pat
<1> QED BY <1>1, <1>2

(* The declarations, up to their values.                                   *)
LEMMA LetPartsSound ==
  ASSUME IInv, Ordered, Tidy, Fair, IInv', NEW c,
         AfterLetSignature \/ LetName \/ LetArguments \/ AfterLetArgument \/ AfterLetPattern
  PROVE  Sound(c)
<1> USE State
<1>a. Gapped
  BY DEF Tidy
<1> DEFINE q == Skip(p)
           sub == Top.sub \cup val.sub
           bare == [Top EXCEPT !.sub = sub]
           zero == 0
           from == [Top EXCEPT !.sub = sub, !.lim = zero]
<1>1. \A fn \in {"letSig", "letArgs", "letPattern"} : fn \notin PatternFrames \cup TypeFrames
  BY DEF PatternFrames, TypeFrames
<1>2. ASSUME NEW fn \in {"letSig", "letArgs", "letPattern"}, Resumes(fn)
      PROVE  /\ bare \in Frame /\ Kin(bare, Top) /\ bare.fn = fn /\ from \in Frame /\ Kin(from, Top) /\ from.fn = fn
  <2>1. Top \in Frame /\ Top.fn = fn /\ val \in Node
    BY <1>1, <1>2, Given
  <2>2. sub \in SUBSET Span
    BY <2>1, FrameParts, NodeParts
  <2> HIDE DEF sub
  <2>3. zero \in Nat
    OBVIOUS
  <2> HIDE DEF zero
  <2> QED BY <2>1, <2>2, <2>3 DEF Frame, Kin
<1> HIDE DEF bare, from, sub
<1>3. CASE AfterLetSignature
  <2> DEFINE cs == Carried(val)
             f == Hold(bare, cs)
             at == Here(q)
             g == [f EXCEPT !.fn = "letArgs", !.lim = at]
  <2>1. Resumes("letSig")
    BY <1>3 DEF AfterLetSignature
  <2>2. /\ calls # <<>> /\ Free(Pop) /\ f \in Frame /\ f.ops = <<>> /\ Base(c) \in Nat
        /\ Times(c, f.lead) \in Nat /\ Times(c, f.kept) \in Nat
        /\ Tally(q, c, Base(c) + Times(c, f.lead) + Times(c, f.kept))
    BY <1>2, <2>1, GivenHeld
  <2> HIDE DEF q, f, at
  <2>3. Kin(g, f) /\ g.fn = "letArgs"
    BY <2>2 DEF Kin, Frame
  <2> HIDE DEF g
  <2>4. Goto(q, Swap(g), "letName")
    BY <1>3, Zenon DEF AfterLetSignature, bare, sub, cs, f, at, g, q
  <2> QED BY <2>2, <2>3, <2>4, LeadSwapSound
<1>4. CASE AfterLetArgument
  <2> DEFINE cs == Carried(val)
             f == Hold(bare, cs)
  <2>1. Resumes("letArgs")
    BY <1>4 DEF AfterLetArgument
  <2>2. /\ calls # <<>> /\ Free(Pop) /\ f \in Frame /\ f.fn = bare.fn /\ f.ops = <<>> /\ Base(c) \in Nat
        /\ Times(c, f.lead) \in Nat /\ Times(c, f.kept) \in Nat
        /\ Tally(p, c, Base(c) + Times(c, f.lead) + Times(c, f.kept))
    BY <1>2, <2>1, GivenHeld
  <2>3. bare.fn = "letArgs"
    BY <1>2, <2>1
  <2> HIDE DEF f
  <2>4. Kin(f, f)
    BY DEF Kin
  <2>5. Goto(p, Swap(f), "letArgs")
    BY <1>4, Zenon DEF AfterLetArgument, bare, sub, cs, f
  <2> QED BY <2>2, <2>3, <2>4, <2>5, LeadSwapSound
<1>5. CASE AfterLetPattern
  <2> DEFINE cs == Carried(val)
             f == Hold(from, cs)
  <2>1. Resumes("letPattern")
    BY <1>5 DEF AfterLetPattern
  <2>2. /\ calls # <<>> /\ Free(Pop) /\ f \in Frame /\ f.ops = <<>> /\ Base(c) \in Nat
        /\ Times(c, f.lead) \in Nat /\ Times(c, f.kept) \in Nat
        /\ Tally(q, c, Base(c) + Times(c, f.lead) + Times(c, f.kept))
    BY <1>2, <2>1, GivenHeld
  <2> HIDE DEF f, q
  <2>3. NeedLetValue(q, f)
    BY <1>5, Zenon DEF AfterLetPattern, from, sub, zero, cs, f, q
  <2> QED BY <2>2, <2>3, LetValueSound
<1>6. CASE LetName \/ LetArguments
  <2>1. ctl \in DOMAIN Owners /\ Owners[ctl] = "letArgs" /\ ctl \notin Passing
    BY <1>6, OwnersAre DEF LetName, LetArguments, Passing
  <2>2. "letArgs" \notin PatternFrames \cup TypeFrames /\ "letArgs" # "binary"
    BY DEF PatternFrames, TypeFrames
  <2>3. /\ calls # <<>> /\ Top \in Frame /\ Top.fn = "letArgs" /\ Free(Pop) /\ Tally(p, c, Base(c) + Holds(c, Top))
        /\ Base(c) \in Nat /\ Times(c, Top.kept) \in Nat /\ Times(c, Top.lead) \in Nat
        /\ Top.ops = <<>> /\ OpsLoad(c, Top.ops) = 0
        /\ Holds(c, Top) = Times(c, Top.lead) + Times(c, Top.kept) + OpsLoad(c, Top.ops)
    BY <2>1, <2>2, Running
  <2> DEFINE n == Base(c) + Times(c, Top.lead) + Times(c, Top.kept)
             r == Advance(q)
  <2>4. Base(c) + Holds(c, Top) = n
    BY <2>3
  <2>5. Tally(p, c, n)
    BY <2>3, <2>4
  <2>6. calls = Swap(Top)
    BY <2>3, TopAgain DEF Swap
  <2>7. Kin(Top, Top)
    BY DEF Kin
  <2> HIDE DEF n
  <2>8. Tally(q, c, n)
    BY <2>5, SkipTally
  <2> HIDE DEF q
  <2>9. CASE Fail(q)
    BY <2>9, FailSound
  <2>10. CASE Peek(q) = "lower" /\ Goto(Advance(q), calls, "letArgs")
    <3>1. Tally(r, c, n)
      BY <1>a, <2>8, <2>10, AdvanceTally
    <3> HIDE DEF r
    <3>2. Goto(r, Swap(Top), "letArgs")
      BY <2>6, <2>10 DEF r
    <3> QED BY <2>3, <2>7, <3>1, <3>2, LeadSwapSound DEF n
  <2>11. CASE Goto(q, calls, "pattern")
    <3>1. Goto(q, Swap(Top), "pattern")
      BY <2>6, <2>11
    <3> QED BY <2>3, <2>7, <2>8, <3>1, LeadSwapSound DEF n
  <2>12. CASE NeedLetValue(q, Top)
    BY <2>3, <2>8, <2>12, LetValueSound DEF n
  <2> QED BY <1>6, <2>9, <2>10, <2>11, <2>12, Zenon DEF LetName, LetArguments, q
<1> QED BY <1>3, <1>4, <1>5, <1>6

LEMMA LetValueGivenSound ==
  ASSUME IInv, Ordered, Tidy, Fair, IInv', AfterLetValue, NEW c
  PROVE  Sound(c)
<1> USE State
<1> DEFINE snap == Top.body
           lead == Top.lead
           q == AfterPre(p, val, snap)
           body == WithPre(p, val, snap)
           impl == IF Top.lim = 0 THEN {} ELSE SpanNode(Top.lim, q, <<>>, {}).sub
           cs == Carried(body)
           sub == val.sub \cup impl
           decl == SpanNode(Top.mark, q, cs, sub)
           whole == Lead(decl, lead)
           fr == AddPart(Top, whole)
           none == <<>>
           g == [fr EXCEPT !.fn = "let", !.lead = none]
           b == Base(c)
           i == Times(c, lead)
           j == Times(c, Top.kept)
           k == Load(c, body)
           m == b + i + j
           n == m + Load(c, val)
<1>1. "letValue" \notin PatternFrames \cup TypeFrames /\ "letValue" # "binary" /\ Resumes("letValue")
  BY DEF PatternFrames, TypeFrames, AfterLetValue
<1>2. /\ calls # <<>> /\ Top \in Frame /\ Top.fn = "letValue" /\ Free(Pop) /\ val \in Node
      /\ Tally(p, c, b + Holds(c, Top) + Load(c, val)) /\ b \in Nat /\ Load(c, val) \in Nat
      /\ j \in Nat /\ i \in Nat /\ Top.ops = <<>> /\ OpsLoad(c, Top.ops) = 0
      /\ Holds(c, Top) = i + j + OpsLoad(c, Top.ops)
  BY <1>1, Given
<1>3. b + Holds(c, Top) + Load(c, val) = n /\ m \in Nat
  BY <1>2
<1>4. Tally(p, c, n)
  BY <1>2, <1>3
<1>5. snap \in Nat /\ lead \in Seq(Comment) /\ Top.mark \in Nat /\ Top.lim \in Nat /\ val.sub \in SUBSET Span
  BY <1>2, FrameParts, NodeParts
<1> HIDE DEF m, snap
<1>6. Tally(q, c, m + k) /\ k \in Nat /\ body \in Node /\ OK(q)
  <2>1. Tally(q, c, m + k) /\ k \in Nat /\ body \in Node
    BY <1>2, <1>3, <1>4, <1>5, PreTally
  <2> QED BY <2>1 DEF Tally
<1> HIDE DEF q, body
<1>7. sub \in SUBSET Span /\ cs \in Seq(Comment)
  <2>1. cs \in Seq(Comment)
    BY <1>6, NodeParts
  <2>2. SpanNode(Top.lim, q, <<>>, {}) \in Node
    <3>1. <<>> \in Seq(Comment) /\ {} \in SUBSET Span
      OBVIOUS
    <3> QED BY <1>5, <1>6, <3>1, SpanNodeType, Zenon
  <2> HIDE DEF cs
  <2>3. SpanNode(Top.lim, q, <<>>, {}).sub \in SUBSET Span
    BY <2>2, NodeParts
  <2> QED BY <1>5, <2>1, <2>3
<1>8. Times(c, cs) = k
  BY DEF Load
<1> HIDE DEF impl, sub, cs, k
<1>9. decl \in Node /\ Load(c, decl) = k
  BY <1>5, <1>6, <1>7, <1>8, SpanNodeType, SpanNodeLoad
<1> HIDE DEF decl
<1>10. whole \in Node /\ Load(c, whole) = k + i
  BY <1>5, <1>9, LeadLoad, LeadType
<1> HIDE DEF whole
<1>11. fr \in Frame /\ fr.ops = <<>> /\ Times(c, fr.kept) = j + (k + i)
  <2>1. /\ AddPart(Top, whole) \in Frame /\ AddPart(Top, whole).ops = Top.ops
        /\ Times(c, AddPart(Top, whole).kept) = Times(c, Top.kept) + Load(c, whole)
    <3>1. Top \in Frame
      BY <1>2
    <3> QED BY <1>10, <3>1, Taken
  <2> QED BY <1>2, <1>10, <2>1
<1> HIDE DEF fr, i, j, b, lead
<1>12. g.fn = "let" /\ g.lead = <<>> /\ g.ops = <<>> /\ g.kept = fr.kept
  BY <1>11 DEF Frame
<1> HIDE DEF g
<1>13. Times(c, fr.kept) \in Nat /\ m + k = b + Times(c, fr.kept)
  BY <1>2, <1>6, <1>11 DEF m
<1>14. Quiet(g) /\ Times(c, g.kept) = Times(c, fr.kept)
  BY <1>12, Zenon DEF Quiet
<1>15. Tally(q, c, Base(c) + Times(c, g.kept)) /\ Times(c, g.kept) \in Nat
  BY <1>6, <1>13, <1>14 DEF b
<1>16. Kin(g, g) /\ "let" \notin Bare \cup {"app"} \cup PatternFrames \cup TypeFrames /\ "letNext" \notin Passing
  BY DEF Kin, Bare, PatternFrames, TypeFrames, Passing
<1>17. Goto(q, Swap(g), "letNext")
  BY Zenon DEF AfterLetValue, snap, lead, q, body, impl, cs, sub, decl, whole, fr, none, g
<1>18. Base(c) \in Nat
  BY <1>2 DEF b
<1> QED BY <1>2, <1>12, <1>14, <1>15, <1>16, <1>17, <1>18, SwapPartSound

(* What ends with its body.                                                *)
LEMMA BodySound ==
  ASSUME IInv, Ordered, Tidy, Fair, IInv', AfterLetBody \/ AfterLambdaBody, NEW c
  PROVE  Sound(c)
<1> DEFINE snap == Top.body
           q == AfterPre(p, val, snap)
           fr == AddPart(Top, WithPre(p, val, snap))
<1>1. \A fn \in {"letBody", "lambdaBody"} : fn \notin Leading \cup PatternFrames \cup TypeFrames
  BY DEF Leading, PatternFrames, TypeFrames
<1>2. PICK fn \in {"letBody", "lambdaBody"} : Resumes(fn)
  BY DEF AfterLetBody, AfterLambdaBody
<1>3. snap \in Nat
  <2>1. Top \in Frame
    BY <1>1, <1>2, Given
  <2> QED BY <2>1, FrameParts
<1> HIDE DEF snap
<1>4. /\ calls # <<>> /\ Free(Pop) /\ fr \in Frame /\ Tally(q, c, Base(c) + Times(c, fr.kept))
  BY <1>1, <1>2, <1>3, GivenPre, Zenon
<1> HIDE DEF q, fr
<1>5. Return(q, Pop, Close(fr, q))
  BY Zenon DEF AfterLetBody, AfterLambdaBody, snap, q, fr
<1> QED BY <1>4, <1>5, CloseSound

LEMMA LetsSound ==
  ASSUME IInv, Ordered, Tidy, Fair, IInv', LetNext, NEW c
  PROVE  Sound(c)
BY LetStartsSound, LetPartsSound, LetValueGivenSound, BodySound, Zenon DEF LetNext
-----------------------------------------------------------------------------
(* Lambdas.                                                                *)

LEMMA LambdasSound ==
  ASSUME IInv, Ordered, Tidy, Fair, IInv', LambdaNext, NEW c
  PROVE  Sound(c)
<1> USE State
<1>a. Gapped
  BY DEF Tidy
<1>b. "lambda" \notin Leading \cup PatternFrames \cup TypeFrames \cup Bare \cup {"app"} \cup Branching
  BY DEF Leading, PatternFrames, TypeFrames, Bare, Branching
<1>1. CASE LambdaAtom
  <2> DEFINE n == Boxes(c) + Sum(c, calls)
             q == Skip(p)
             r == Advance(q)
             from == Here(q)
             new == New("lambda", from)
  <2>1. ctl = "atom" /\ Peek(q) # "trivia"
    BY <1>1 DEF LambdaAtom
  <2>2. Free(calls) /\ Tally(r, c, n)
    BY <2>1, AtAtom
  <2> HIDE DEF n, r, from
  <2>3. Empty(new) /\ new.fn = "lambda"
    BY DEF New, Empty, Quiet
  <2> HIDE DEF new
  <2>4. "lambdaArgs" \notin Passing
    BY DEF Passing
  <2>5. Goto(r, Compound(new), "lambdaArgs")
    BY <1>1 DEF LambdaAtom, q, r, from, new
  <2> QED BY <1>b, <2>2, <2>3, <2>4, <2>5, CompoundSound DEF n
<1>2. CASE LambdaArguments
  <2> DEFINE n == Base(c) + Times(c, Top.kept)
             q == Skip(p)
             r == Advance(q)
             k == Snapshot(r)
             body == [Top EXCEPT !.fn = "lambdaBody", !.body = k]
  <2>1. ctl \in DOMAIN Owners /\ Owners[ctl] = "lambda" /\ ctl \notin Passing
    BY <1>2, OwnersAre DEF LambdaArguments, Passing
  <2>2. /\ calls # <<>> /\ Top \in Frame /\ Top.fn = "lambda" /\ Free(Pop) /\ Tally(p, c, Base(c) + Holds(c, Top))
        /\ Base(c) \in Nat /\ Times(c, Top.kept) \in Nat /\ Quiet(Top)
    BY <1>b, <2>1, Running
  <2>3. Tally(p, c, n)
    BY <2>2, QuietHolds
  <2> HIDE DEF n
  <2>4. Tally(q, c, n)
    BY <2>3, SkipTally
  <2> HIDE DEF q
  <2>5. CASE Goto(q, calls, "pattern")
    <3>1. Goto(q, Swap(Top), "pattern")
      BY <2>2, <2>5, TopAgain DEF Swap
    <3>2. Kin(Top, Top) /\ "pattern" \notin Passing
      BY DEF Kin, Passing
    <3> QED BY <1>b, <2>2, <2>4, <3>1, <3>2, SwapPartSound DEF n
  <2>6. CASE Fail(q)
    BY <2>6, FailSound
  <2>7. CASE Peek(q) = "->" /\ Need(r, Swap(body))
    <3>1. Tally(r, c, n)
      BY <1>a, <2>4, <2>7, AdvanceTally
    <3> HIDE DEF k, r
    <3>2. Kin(body, Top) /\ body.fn = "lambdaBody"
      BY <2>2 DEF Kin, Frame
    <3> HIDE DEF body
    <3>3. "lambdaBody" \notin Bare \cup {"app"} \cup Branching \cup TypeFrames
      BY DEF Bare, Branching, PatternFrames, TypeFrames
    <3> QED BY <2>2, <2>7, <3>1, <3>2, <3>3, NeedPartSound DEF n
  <2> QED BY <1>2, <2>5, <2>6, <2>7, Zenon DEF LambdaArguments, q, r, k, body
<1>3. CASE AfterLambdaArgument
  <2> DEFINE fr == AddPart(Top, val)
  <2>1. Resumes("lambda")
    BY <1>3 DEF AfterLambdaArgument
  <2>2. /\ calls # <<>> /\ Free(Pop) /\ fr \in Frame /\ fr.fn = "lambda" /\ Quiet(fr)
        /\ Times(c, fr.kept) \in Nat /\ Base(c) \in Nat /\ Tally(p, c, Base(c) + Times(c, fr.kept))
    BY <1>b, <2>1, GivenPart, Zenon
  <2> HIDE DEF fr
  <2>3. Kin(fr, fr) /\ "lambdaArgs" \notin Passing
    BY DEF Kin, Passing
  <2>4. Goto(p, Swap(fr), "lambdaArgs")
    BY <1>3 DEF AfterLambdaArgument, fr
  <2> QED BY <1>b, <2>2, <2>3, <2>4, SwapPartSound
<1>4. CASE AfterLambdaBody
  BY <1>4, BodySound
<1> QED BY <1>1, <1>2, <1>3, <1>4 DEF LambdaNext
-----------------------------------------------------------------------------
(* Patterns claim nothing: what they skip stays pending.                   *)

Typeless(cs) == \A i \in 1..Len(cs) : cs[i].fn \notin TypeFrames

LEMMA PatternStack ==
  ASSUME NEW cs \in Seq(Frame), Layered(cs), Typeless(cs), NEW q
  PROVE  /\ Late(cs, q)
         /\ \A fr : Neat(fr) /\ fr.fn \in PatternFrames => Layered(Append(cs, fr)) /\ Late(Append(cs, fr), q)
<1>1. "typeParen" \in TypeFrames /\ \A x \in PatternFrames : x \notin TypeFrames
  BY DEF PatternFrames, TypeFrames
<1>2. Len(cs) \in Nat
  OBVIOUS
<1>3. Late(cs, q)
  <2>1. \A i \in 1..(Len(cs) - 1) : cs[i].fn # "typeParen"
    <3>1. \A i \in 1..(Len(cs) - 1) : i \in 1..Len(cs)
      BY <1>2
    <3> QED BY <1>1, <3>1 DEF Typeless
  <2> QED BY <2>1 DEF Late
<1>4. ASSUME NEW fr, Neat(fr), fr.fn \in PatternFrames
      PROVE  Layered(Append(cs, fr)) /\ Late(Append(cs, fr), q)
  <2> DEFINE s == Append(cs, fr)
             n == Len(cs) + 1
  <2>1. Len(s) = n /\ s[n] = fr /\ \A i \in 1..Len(cs) : s[i] = cs[i]
    BY AppendIs
  <2> HIDE DEF s
  <2>2. \A i \in 1..Len(s) : i = n \/ i \in 1..Len(cs)
    BY <1>2, <2>1
  <2>3. \A i \in 1..Len(s) : Neat(s[i]) /\ s[i].fn \notin TypeFrames
    BY <1>1, <1>4, <2>1, <2>2, Zenon DEF Layered, Typeless
  <2>4. ASSUME NEW j \in 1..Len(s), NEW i \in 1..(j - 1)
        PROVE  /\ s[i].fn \in Branching => s[j].fn \in PatternFrames
               /\ s[i].fn \in TypeFrames => s[j].fn \in TypeFrames
    <3>1. i \in 1..Len(s) /\ i \in 1..Len(cs)
      BY <1>2, <2>1
    <3>2. CASE j = n
      BY <1>4, <2>1, <2>3, <3>1, <3>2
    <3>3. CASE j \in 1..Len(cs)
      BY <2>1, <3>1, <3>3 DEF Layered
    <3> QED BY <2>2, <3>2, <3>3
  <2>5. \A i \in 1..(Len(s) - 1) : s[i].fn # "typeParen" /\ s[i + 1].fn # "type"
    <3>1. "type" \in TypeFrames
      BY DEF TypeFrames
    <3>2. \A i \in 1..(Len(s) - 1) : i \in 1..Len(s) /\ i + 1 \in 1..Len(s)
      BY <1>2, <2>1
    <3> QED BY <1>1, <2>3, <3>1, <3>2
  <2>6. Layered(s)
    BY <2>3, <2>4, <2>5 DEF Layered
  <2>7. Late(s, q)
    BY <2>5 DEF Late
  <2> QED BY <2>6, <2>7 DEF s
<1> QED BY <1>3, <1>4

(* Where a pattern starts.                                                 *)
LEMMA AtPattern ==
  ASSUME IInv, Ordered, Tidy, Fair, ctl \in PatternControls, NEW c
  PROVE  /\ calls \in Seq(Frame) /\ Layered(calls) /\ Typeless(calls)
         /\ calls # <<>> => Meets(Top, ctl, p, val)
         /\ Boxes(c) \in Nat /\ Sum(c, calls) \in Nat
         /\ Tally(p, c, Boxes(c) + Sum(c, calls)) /\ Tally(Skip(p), c, Boxes(c) + Sum(c, calls))
         /\ Peek(Skip(p)) # "trivia" => Tally(Advance(Skip(p)), c, Boxes(c) + Sum(c, calls))
<1> USE State
<1> DEFINE n == Boxes(c) + Sum(c, calls)
           q == Skip(p)
<1>1. ctl \notin TypeControls \cup {"done", "error"} /\ ctl \notin Passing
  BY DEF PatternControls, TypeControls, Passing
<1>2. calls # <<>> => Meets(Top, ctl, p, val)
  BY DEF Tidy
<1>3. Typeless(calls)
  <2>1. CASE calls = <<>>
    BY <2>1 DEF Typeless
  <2>2. CASE calls # <<>>
    <3>1. Top.fn \notin TypeFrames
      BY <1>1, <1>2, <2>2 DEF Meets
    <3> QED BY <2>2, <3>1, TopNeat DEF Typeless
  <2> QED BY <2>1, <2>2
<1>4. Layered(calls)
  BY DEF Tidy
<1>5. Passes(c, ctl, val) = 0
  BY <1>1 DEF Passes
<1>6. /\ Tally(p, c, Boxes(c) + Sum(c, calls) + Passes(c, ctl, val))
      /\ Boxes(c) \in Nat /\ Sum(c, calls) \in Nat
  BY <1>1, Opening
<1>7. Boxes(c) + Sum(c, calls) + Passes(c, ctl, val) = n
  BY <1>5, <1>6
<1> HIDE DEF n
<1>8. Tally(p, c, n)
  BY <1>6, <1>7
<1>9. Tally(q, c, n)
  BY <1>8, SkipTally
<1> HIDE DEF q
<1>10. Peek(q) # "trivia" => Tally(Advance(q), c, n)
  BY <1>9, AdvanceTally DEF Tidy
<1> QED BY <1>2, <1>3, <1>4, <1>6, <1>8, <1>9, <1>10 DEF n, q

(* The functions below a pattern.                                          *)
LEMMA BelowPattern ==
  ASSUME IInv, Tidy, calls # <<>>, Top.fn \in PatternFrames
  PROVE  Pop \in Seq(Frame) /\ Layered(Pop) /\ Typeless(Pop)
<1>1. Top.fn \notin TypeFrames
  BY DEF PatternFrames, TypeFrames
<1>2. Layered(Pop) /\ Typeless(calls)
  BY <1>1, TopNeat DEF Typeless
<1>3. Pop \in Seq(Frame) /\ Len(Pop) = Len(calls) - 1 /\ \A i \in 1..Len(Pop) : Pop[i] = calls[i]
  BY TopAndPop
<1>4. Len(calls) \in Nat
  BY State
<1>5. \A i \in 1..Len(Pop) : i \in 1..Len(calls)
  BY <1>3, <1>4
<1> QED BY <1>2, <1>3, <1>5 DEF Typeless

(* A pattern goes on in a function fr.                                     *)
LEMMA PatternPushSound ==
  ASSUME IInv, Tidy, IInv', NEW c, NEW n, NEW q, Tally(q, c, n),
         NEW cs \in Seq(Frame), Layered(cs), Typeless(cs),
         NEW fr, Neat(fr), fr.fn \in PatternFrames, NEW x \in PatternControls, Goto(q, Append(cs, fr), x),
         n = Boxes(c) + Sum(c, cs) + Holds(c, fr)
  PROVE  Sound(c)
<1> DEFINE s == Append(cs, fr)
<1>1. Layered(s) /\ Late(s, q)
  BY PatternStack
<1>2. s[Len(s)] = fr
  BY AppendIs
<1>3. x \notin {"binary", "fold", "args", "branch", "letNext", "done", "type", "valueName", "reduce"} \cup Passing
  BY DEF PatternControls, Passing
<1>4. fr.fn \notin TypeFrames \cup {"casePattern", "type", "typeParen"}
  BY DEF PatternFrames, TypeFrames
<1>5. Meets(fr, x, q, val)
  BY <1>3, <1>4 DEF Meets
<1>6. Goes(q, s, x, val) /\ Plainly(x, q, val)
  BY <1>3 DEF Goes, Plainly
<1>7. Passes(c, x, val) = 0
  BY <1>3 DEF Passes
<1>8. n = Boxes(c) + Sum(c, cs) + Holds(c, fr) + Passes(c, x, val)
  <2>1. n \in Nat
    BY DEF Tally
  <2> QED BY <1>7, <2>1
<1>9. Booked(c)
  BY <1>6, <1>8, Framed
<1> HIDE DEF s
<1>10. s # <<>> => Meets(s[Len(s)], x, q, val)
  BY <1>2, <1>5
<1>11. Tidy'
  BY <1>1, <1>6, <1>10, StaysTidy
<1> QED BY <1>9, <1>11 DEF Sound

(* A pattern starts in a function that holds nothing yet.                  *)
LEMMA PatternStartSound ==
  ASSUME IInv, Ordered, Tidy, Fair, IInv', ctl \in PatternControls, NEW c, NEW q, Tally(q, c, Boxes(c) + Sum(c, calls)),
         NEW fr, Empty(fr), fr.fn \in PatternFrames, NEW x \in PatternControls, Goto(q, Append(calls, fr), x)
  PROVE  Sound(c)
<1>1. /\ calls \in Seq(Frame) /\ Layered(calls) /\ Typeless(calls) /\ Boxes(c) \in Nat /\ Sum(c, calls) \in Nat
  BY AtPattern
<1>2. fr.fn # "app"
  BY DEF PatternFrames
<1>3. Neat(fr) /\ Holds(c, fr) = 0
  BY <1>2, EmptyHolds
<1> DEFINE n == Boxes(c) + Sum(c, calls)
<1>4. Tally(q, c, n) /\ n = Boxes(c) + Sum(c, calls) + Holds(c, fr)
  BY <1>1, <1>3
<1> HIDE DEF n
<1> QED BY <1>1, <1>3, <1>4, PatternPushSound

(* A pattern goes on in the same function.                                 *)
LEMMA PatternCarrySound ==
  ASSUME IInv, Ordered, Tidy, Fair, IInv', ctl \in PatternControls \ {"pattern"}, NEW c, NEW q,
         Tally(q, c, Boxes(c) + Sum(c, calls)), NEW x \in PatternControls, Goto(q, calls, x)
  PROVE  Sound(c)
<1>1. /\ calls \in Seq(Frame) /\ Layered(calls) /\ Typeless(calls) /\ Boxes(c) \in Nat /\ Sum(c, calls) \in Nat
      /\ calls # <<>> => Meets(Top, ctl, p, val)
  BY AtPattern
<1>2. Late(calls, q)
  BY <1>1, PatternStack
<1>3. x \notin {"binary", "fold", "args", "branch", "letNext", "done", "type", "valueName", "reduce"} \cup Passing
  BY DEF PatternControls, Passing
<1>4. ctl \notin {"branch", "pattern", "done"} \cup TypeControls
  BY DEF PatternControls, TypeControls
<1>5. calls # <<>> => Meets(Top, x, q, val)
  <2> SUFFICES ASSUME calls # <<>> PROVE Meets(Top, x, q, val)
    OBVIOUS
  <2>1. Meets(Top, ctl, p, val)
    BY <1>1
  <2>2. Top.fn # "casePattern" /\ Top.fn \notin TypeFrames
    BY <1>4, <2>1 DEF Meets
  <2>3. Top.fn # "type" /\ Top.fn # "typeParen"
    BY <2>2 DEF TypeFrames
  <2> QED BY <1>3, <2>2, <2>3 DEF Meets
<1>6. Goes(q, calls, x, val) /\ Plainly(x, q, val)
  BY <1>3 DEF Goes, Plainly
<1> DEFINE n == Boxes(c) + Sum(c, calls)
<1>7. Tally(q, c, n) /\ n = Boxes(c) + Sum(c, calls) + Passes(c, x, val)
  BY <1>1, <1>3 DEF Passes
<1> HIDE DEF n
<1>8. Booked(c)
  BY <1>6, <1>7, Unframed
<1>9. calls # <<>> => Meets(calls[Len(calls)], x, q, val)
  BY <1>5 DEF Top
<1>10. Tidy'
  BY <1>1, <1>2, <1>6, <1>9, StaysTidy
<1> QED BY <1>8, <1>10 DEF Sound

(* A pattern is complete, without comments of its own.                     *)
LEMMA PatternReturnSound ==
  ASSUME IInv, Tidy, IInv', NEW c, NEW q, NEW cs \in Seq(Frame), Layered(cs), Typeless(cs), NEW v, v.cs = <<>>,
         NEW n, Tally(q, c, n), n = Boxes(c) + Sum(c, cs) + Load(c, v), Return(q, cs, v)
  PROVE  Sound(c)
<1>1. Late(cs, q)
  BY PatternStack
<1>2. cs # <<>> => Meets(cs[Len(cs)], "done", q, v)
  <2> SUFFICES ASSUME cs # <<>> PROVE Meets(cs[Len(cs)], "done", q, v)
    OBVIOUS
  <2>1. Len(cs) \in 1..Len(cs)
    OBVIOUS
  <2> DEFINE fr == cs[Len(cs)]
  <2>2. fr.fn \notin TypeFrames
    BY <2>1 DEF Typeless
  <2> HIDE DEF fr
  <2>3. fr.fn # "type" /\ fr.fn # "typeParen"
    BY <2>2 DEF TypeFrames
  <2>4. Meets(fr, "done", q, v)
    BY <2>2, <2>3, Zenon DEF Meets
  <2> QED BY <2>4 DEF fr
<1>3. Goes(q, cs, "done", v) /\ Plainly("done", q, v)
  BY DEF Goes, Return, Plainly
<1>4. Passes(c, "done", v) = Load(c, v)
  BY DEF Passes, Passing
<1>5. Booked(c)
  BY <1>3, <1>4, Unframed
<1>6. Tidy'
  BY <1>1, <1>2, <1>3, StaysTidy
<1> QED BY <1>5, <1>6 DEF Sound

LEMMA PatternLeafSound ==
  ASSUME IInv, Ordered, Tidy, Fair, IInv', ctl \in PatternControls, NEW c, NEW q, Tally(q, c, Boxes(c) + Sum(c, calls)),
         NEW from, NEW r, Return(q, calls, Leaf(from, r))
  PROVE  Sound(c)
<1> DEFINE v == Leaf(from, r)
           n == Boxes(c) + Sum(c, calls)
<1>1. /\ calls \in Seq(Frame) /\ Layered(calls) /\ Typeless(calls) /\ Boxes(c) \in Nat /\ Sum(c, calls) \in Nat
  BY AtPattern
<1>2. Load(c, v) = 0 /\ v.cs = <<>>
  BY LeafLoad DEF Leaf, SpanNode
<1> HIDE DEF v
<1>3. Tally(q, c, n) /\ n = Boxes(c) + Sum(c, calls) + Load(c, v)
  BY <1>1, <1>2
<1>4. Return(q, calls, v)
  BY DEF v
<1> HIDE DEF n
<1> QED BY <1>1, <1>2, <1>3, <1>4, PatternReturnSound

LEMMA PatternCloseSound ==
  ASSUME IInv, Tidy, IInv', calls # <<>>, Top.fn \in PatternFrames, NEW c, NEW q, NEW fr \in Frame, NEW r,
         Tally(q, c, Base(c) + Times(c, fr.kept)), Return(q, Pop, Close(fr, r))
  PROVE  Sound(c)
<1> DEFINE v == Close(fr, r)
           n == Base(c) + Times(c, fr.kept)
<1>1. Load(c, v) = Times(c, fr.kept) /\ v.cs = <<>>
  BY CloseLoad DEF Close, SpanNode
<1> HIDE DEF v
<1>2. Tally(q, c, n) /\ n = Boxes(c) + Sum(c, Pop) + Load(c, v)
  BY <1>1 DEF Base
<1>3. Return(q, Pop, v)
  BY DEF v
<1> HIDE DEF n
<1> QED BY <1>1, <1>2, <1>3, BelowPattern, PatternReturnSound

(* A pattern comes back to a pattern.                                      *)
LEMMA GivenPattern ==
  ASSUME IInv, Ordered, Tidy, Fair, NEW fn \in PatternFrames, Resumes(fn), NEW c
  PROVE  LET q == Skip(p)
             fr == AddPart(Top, val)
             n == Base(c) + Times(c, fr.kept)
         IN  /\ calls # <<>> /\ Top \in Frame /\ Top.fn = fn /\ Neat(Top) /\ val.cs = <<>>
             /\ fr \in Frame /\ fr.fn = fn /\ Quiet(fr) /\ Times(c, fr.kept) \in Nat /\ Base(c) \in Nat
             /\ Times(c, fr.kept) = Times(c, Top.kept) + Load(c, val) /\ Load(c, val) \in Nat
             /\ Tally(p, c, n) /\ Tally(q, c, n)
             /\ Peek(q) # "trivia" => Tally(Advance(q), c, n)
<1> USE State
<1> DEFINE q == Skip(p)
           fr == AddPart(Top, val)
           n == Base(c) + Times(c, fr.kept)
           m == Base(c) + Times(c, Top.kept) + Load(c, val)
<1>1. fn \notin Leading /\ fn \in Branching
  BY DEF Leading, PatternFrames, Branching
<1>2. /\ calls # <<>> /\ Top \in Frame /\ Top.fn = fn /\ val \in Node /\ Neat(Top) /\ Quiet(Top)
      /\ Meets(Top, "done", p, val) /\ Tally(p, c, m) /\ Base(c) \in Nat /\ Times(c, Top.kept) \in Nat
  BY <1>1, Given
<1>3. val.cs = <<>>
  BY <1>1, <1>2 DEF Meets
<1>4. fr \in Frame /\ fr.fn = fn /\ Quiet(fr) /\ Times(c, fr.kept) = Times(c, Top.kept) + Load(c, val) /\ Load(c, val) \in Nat
  <2>1. /\ AddPart(Top, val) \in Frame /\ AddPart(Top, val).fn = Top.fn
        /\ Quiet(Top) => Quiet(AddPart(Top, val))
        /\ Times(c, AddPart(Top, val).kept) = Times(c, Top.kept) + Load(c, val) /\ Load(c, val) \in Nat
    <3>1. Top \in Frame /\ val \in Node
      BY <1>2
    <3> HIDE State
    <3> HIDE DEF q, fr, n, m
    <3> QED BY <3>1, Taken, ZenonT(60)
  <2> QED BY <1>2, <2>1
<1> HIDE DEF fr
<1>5. m = n /\ Times(c, fr.kept) \in Nat
  BY <1>2, <1>4
<1> HIDE DEF n, m
<1>6. Tally(p, c, n)
  BY <1>2, <1>5
<1>7. Tally(q, c, n)
  BY <1>6, SkipTally
<1> HIDE DEF q
<1>8. Peek(q) # "trivia" => Tally(Advance(q), c, n)
  BY <1>7, AdvanceTally DEF Tidy
<1> QED BY <1>2, <1>3, <1>4, <1>5, <1>6, <1>7, <1>8 DEF q, fr, n

(* The next pattern, in a function that holds what fr does.                *)
LEMMA PatternNextSound ==
  ASSUME IInv, Tidy, IInv', calls # <<>>, Top.fn \in PatternFrames, NEW c, NEW q, NEW fr, Quiet(fr),
         Times(c, fr.kept) \in Nat, Tally(q, c, Base(c) + Times(c, fr.kept)), NEW g, Kin(g, fr),
         g.fn \in PatternFrames \ Bare, NEW x \in PatternControls, Goto(q, Swap(g), x)
  PROVE  Sound(c)
<1> DEFINE n == Base(c) + Times(c, fr.kept)
<1>1. Quiet(g) /\ Holds(c, g) = Times(c, fr.kept)
  BY KinQuiet
<1>2. g.fn # "app"
  BY DEF PatternFrames
<1>3. Neat(g)
  BY <1>1, <1>2, QuietNeat
<1>4. Tally(q, c, n) /\ n = Boxes(c) + Sum(c, Pop) + Holds(c, g)
  BY <1>1 DEF Base
<1>5. Goto(q, Append(Pop, g), x)
  BY DEF Swap
<1> HIDE DEF n
<1> QED BY <1>3, <1>4, <1>5, BelowPattern, PatternPushSound

(* A pattern is passed on as it is.                                        *)
LEMMA PatternPassSound ==
  ASSUME IInv, Ordered, Tidy, Fair, IInv', NEW fn \in {"as", "cons"}, Resumes(fn), NEW c, Return(Skip(p), Pop, val)
  PROVE  Sound(c)
<1> DEFINE q == Skip(p)
           n == Base(c) + Times(c, AddPart(Top, val).kept)
<1>1. fn \in PatternFrames /\ fn \in Bare
  BY DEF PatternFrames, Bare
<1>2. /\ calls # <<>> /\ Top.fn = fn /\ Neat(Top) /\ val.cs = <<>> /\ Base(c) \in Nat /\ Load(c, val) \in Nat
      /\ Times(c, AddPart(Top, val).kept) = Times(c, Top.kept) + Load(c, val) /\ Tally(q, c, n)
  BY <1>1, GivenPattern
<1>3. Times(c, Top.kept) = 0
  BY <1>1, <1>2, TimesNone, Zenon DEF Neat
<1>4. n = Boxes(c) + Sum(c, Pop) + Load(c, val)
  BY <1>2, <1>3 DEF Base
<1> HIDE DEF n, q
<1>5. Top.fn \in PatternFrames
  BY <1>1, <1>2
<1> QED BY <1>2, <1>4, <1>5, BelowPattern, PatternReturnSound DEF q

(* A pattern that runs on its own locals.                                  *)
LEMMA RunningPattern ==
  ASSUME IInv, Ordered, Tidy, Fair, ctl \in {"ctorName", "atomCtor", "ctorArgs", "patternField"}, NEW c
  PROVE  LET n == Base(c) + Times(c, Top.kept)
         IN  /\ calls # <<>> /\ Top \in Frame /\ Top.fn \in PatternFrames
             /\ Tally(p, c, n) /\ Tally(Skip(p), c, n)
<1> USE State
<1>1. /\ ctl \in DOMAIN Owners /\ Owners[ctl] \in {"ctor", "patRecord"} /\ ctl \notin Passing
  BY OwnersAre DEF Passing
<1>2. \A x \in {"ctor", "patRecord"} : x \in PatternFrames /\ x \notin Leading
  BY DEF PatternFrames, Leading
<1>3. /\ calls # <<>> /\ Top \in Frame /\ Top.fn = Owners[ctl] /\ Tally(p, c, Base(c) + Holds(c, Top))
      /\ Times(c, Top.kept) \in Nat /\ Quiet(Top)
  BY <1>1, <1>2, Running
<1>4. Holds(c, Top) = Times(c, Top.kept)
  BY <1>3, QuietHolds
<1> DEFINE n == Base(c) + Times(c, Top.kept)
<1>5. Tally(p, c, n)
  BY <1>3, <1>4
<1> HIDE DEF n
<1>6. Tally(Skip(p), c, n)
  BY <1>5, SkipTally
<1> QED BY <1>1, <1>2, <1>3, <1>5, <1>6 DEF n

(* A cursor with no trivia before it goes on.                              *)
LEMMA Onward ==
  ASSUME IInv, Ordered, Tidy, NEW q, NEW c, NEW n, Tally(q, c, n), ~q.raw
  PROVE  LET r == Skip(Advance(q))
         IN  Tally(Advance(q), c, n) /\ Tally(r, c, n) /\ ~r.raw /\ Tally(Advance(r), c, n)
<1> USE State
<1>1. \A s : OK(s) /\ ~s.raw => Peek(s) # "trivia"
  <2> SUFFICES ASSUME NEW s, OK(s), ~s.raw PROVE Peek(s) # "trivia"
    OBVIOUS
  <2>1. s.pos \in 1..Len(toks)
    BY DEF OK
  <2>2. toks[s.pos] \in Token
    BY <2>1, TokenAt
  <2>3. toks[s.pos].kind \in Kinds
    BY <2>2 DEF Token
  <2>4. "trivia" \notin Kinds
    BY Zenon DEF Kinds
  <2>5. Peek(s) = toks[s.pos].kind
    BY DEF Peek, OnTrivia
  <2> QED BY <2>3, <2>4, <2>5
<1> DEFINE a == Advance(q)
           r == Skip(a)
<1>2. Gapped
  BY DEF Tidy
<1>3. Tally(a, c, n)
  BY <1>1, <1>2, AdvanceTally DEF Tally
<1> HIDE DEF a
<1>4. Tally(r, c, n) /\ ~r.raw
  BY <1>3, SkipTally
<1> HIDE DEF r
<1>5. Tally(Advance(r), c, n)
  BY <1>1, <1>2, <1>4, AdvanceTally DEF Tally
<1> QED BY <1>3, <1>4, <1>5 DEF r, a

(* Elements of a pattern in parentheses or brackets.                       *)
LEMMA PatternElementSound ==
  ASSUME IInv, Ordered, Tidy, Fair, IInv', NEW c, NEW fn \in PatternFrames, Resumes(fn),
         NEW g, Kin(g, AddPart(Top, val)), g.fn \in PatternFrames \ Bare,
         \/ Goto(Advance(Skip(p)), Swap(g), "pattern")
         \/ Return(Advance(Skip(p)), Pop, Close(AddPart(Top, val), Advance(Skip(p))))
         \/ Fail(Skip(p))
  PROVE  Sound(c)
<1> USE State
<1> DEFINE q == Skip(p)
           fr == AddPart(Top, val)
           n == Base(c) + Times(c, fr.kept)
<1>1. /\ calls # <<>> /\ Top.fn = fn /\ fr \in Frame /\ Quiet(fr) /\ Times(c, fr.kept) \in Nat
      /\ Tally(p, c, n) /\ Tally(q, c, n)
  BY GivenPattern
<1>2. ~q.raw
  BY <1>1, SkipTally
<1>3. Tally(Advance(q), c, n) /\ Top.fn \in PatternFrames
  BY <1>1, <1>2, Onward
<1>4. "pattern" \in PatternControls
  BY DEF PatternControls
<1> HIDE DEF q, fr
<1>5. CASE Goto(Advance(q), Swap(g), "pattern")
  BY <1>1, <1>3, <1>4, <1>5, PatternNextSound DEF fr
<1>6. CASE Return(Advance(q), Pop, Close(fr, Advance(q)))
  BY <1>1, <1>3, <1>6, PatternCloseSound
<1>7. CASE Fail(q)
  BY <1>7, FailSound
<1> QED BY <1>5, <1>6, <1>7 DEF q, fr

(* The patterns with nothing nested in them, and where the others start.   *)
LEMMA PatternStartsSound ==
  ASSUME IInv, Ordered, Tidy, Fair, IInv', NEW c,
         \/ ParsePattern \/ ParseConsPattern \/ ParseAppPattern \/ SimplePattern \/ AtomicCtorPattern
         \/ NegativePattern \/ ParenPattern \/ ListPattern \/ RecordPattern \/ NotAPattern
  PROVE  Sound(c)
<1> USE State
<1> DEFINE q == Skip(p)
           a == Advance(q)
           r == Skip(a)
           n == Boxes(c) + Sum(c, calls)
           Starts(s, fr, x) == Goto(s, Append(calls, fr), x)
           Leaves(s, from) == Return(s, calls, Leaf(from, s))
<1>1. /\ ctl \in PatternControls
      /\ {"as", "cons", "ctor", "patParen", "patList", "patRecord"} \subseteq PatternFrames
      /\ {"pattern", "consPattern", "appPattern", "atomPattern", "ctorName", "atomCtor", "patternField"}
           \subseteq PatternControls
  <2>1. ctl \in {"pattern", "consPattern", "appPattern", "atomPattern"}
    BY Zenon DEF ParsePattern, ParseConsPattern, ParseAppPattern, SimplePattern, AtomicCtorPattern,
           NegativePattern, ParenPattern, ListPattern, RecordPattern, NotAPattern
  <2> QED BY <2>1 DEF PatternFrames, PatternControls
<1>2. Tally(p, c, n) /\ Tally(q, c, n)
  BY <1>1, AtPattern
<1>3. ~q.raw
  BY <1>2, SkipTally
<1>4. Tally(a, c, n) /\ Tally(r, c, n) /\ Tally(Advance(r), c, n)
  BY <1>2, <1>3, Onward
<1>5. ASSUME NEW s \in {p, q, a, r, Advance(r)}, NEW fr, Empty(fr), fr.fn \in PatternFrames,
             NEW x \in PatternControls, Starts(s, fr, x)
      PROVE  Sound(c)
  BY <1>1, <1>2, <1>4, <1>5, PatternStartSound
<1>6. ASSUME NEW s \in {p, q, a, r, Advance(r)}, NEW from, Leaves(s, from)
      PROVE  Sound(c)
  BY <1>1, <1>2, <1>4, <1>6, PatternLeafSound
<1>7. ASSUME NEW s, Fail(s) PROVE Sound(c)
  BY <1>7, FailSound
<1>8. ASSUME NEW fn \in PatternFrames, NEW from, NEW s \in {p, q, a, r, Advance(r)}, NEW x \in PatternControls,
             Starts(s, New(fn, from), x)
      PROVE  Sound(c)
  <2>1. Empty(New(fn, from)) /\ New(fn, from).fn = fn
    BY NewEmpty
  <2> QED BY SMTT(30), <1>5, <1>8, <2>1
<1>9. /\ "as" \in PatternFrames /\ "cons" \in PatternFrames /\ "ctor" \in PatternFrames
      /\ "patParen" \in PatternFrames /\ "patList" \in PatternFrames /\ "patRecord" \in PatternFrames
      /\ "pattern" \in PatternControls /\ "consPattern" \in PatternControls /\ "appPattern" \in PatternControls
      /\ "atomPattern" \in PatternControls /\ "ctorName" \in PatternControls /\ "atomCtor" \in PatternControls
      /\ "patternField" \in PatternControls
  BY <1>1
<1>10. CASE ParsePattern
  <2>1. Starts(p, New("as", Here(p)), "consPattern")
    BY <1>10, Zenon DEF ParsePattern
  <2> HIDE DEF Starts, q, a, r
  <2> QED BY <1>8, <1>9, <2>1
<1>11. CASE ParseConsPattern
  <2>1. Starts(p, New("cons", Here(p)), "appPattern")
    BY <1>11, Zenon DEF ParseConsPattern
  <2> HIDE DEF Starts, q, a, r
  <2> QED BY <1>8, <1>9, <2>1
<1>12. CASE ParseAppPattern
  <2> DEFINE col == HereCol(q)
             line == toks[q.pos].line
             fr == [New("ctor", Here(p)) EXCEPT !.col = col, !.n = 1, !.line = line]
  <2>1. Starts(a, fr, "ctorName") \/ Goto(q, calls, "atomPattern")
    BY <1>12, Zenon DEF ParseAppPattern
  <2> HIDE DEF col, line
  <2>2. Empty(fr) /\ fr.fn = "ctor"
    BY DEF New, Empty, Quiet
  <2> HIDE DEF fr, Starts, q, a, r
  <2>3. CASE Starts(a, fr, "ctorName")
    BY <1>5, <1>9, <2>2, <2>3
  <2>4. CASE Goto(q, calls, "atomPattern")
    <3>1. ctl # "pattern"
      BY <1>12 DEF ParseAppPattern
    <3> QED BY <1>1, <1>2, <1>9, <2>4, <3>1, PatternCarrySound
  <2> QED BY <2>1, <2>3, <2>4
<1>13. CASE SimplePattern
  <2>1. Leaves(a, Here(q))
    BY <1>13, Zenon DEF SimplePattern
  <2> HIDE DEF Leaves, q, a, r
  <2> QED BY <1>6, <2>1
<1>14. CASE AtomicCtorPattern
  <2>1. Starts(a, New("ctor", Here(q)), "atomCtor")
    BY <1>14, Zenon DEF AtomicCtorPattern
  <2> HIDE DEF Starts, q, a, r
  <2> QED BY <1>8, <1>9, <2>1
<1>15. CASE NegativePattern
  <2>1. Leaves(Advance(r), Here(q)) \/ Fail(r)
    BY <1>15, Zenon DEF NegativePattern
  <2> HIDE DEF Leaves, q, a, r
  <2> QED BY <1>6, <1>7, <2>1
<1>16. CASE ParenPattern
  <2>1. Leaves(Advance(r), Here(q)) \/ Starts(r, New("patParen", Here(q)), "pattern")
    BY <1>16, Zenon DEF ParenPattern
  <2> HIDE DEF Leaves, Starts, q, a, r
  <2> QED BY <1>6, <1>8, <1>9, <2>1
<1>17. CASE ListPattern
  <2>1. Leaves(Advance(r), Here(q)) \/ Starts(r, New("patList", Here(q)), "pattern")
    BY <1>17, Zenon DEF ListPattern
  <2> HIDE DEF Leaves, Starts, q, a, r
  <2> QED BY <1>6, <1>8, <1>9, <2>1
<1>18. CASE RecordPattern
  <2>1. Leaves(Advance(r), Here(q)) \/ Fail(r) \/ Starts(a, New("patRecord", Here(q)), "patternField")
    BY <1>18, Zenon DEF RecordPattern
  <2> HIDE DEF Leaves, Starts, q, a, r
  <2> QED BY <1>6, <1>7, <1>8, <1>9, <2>1
<1>19. CASE NotAPattern
  BY <1>7, <1>19 DEF NotAPattern
<1> QED BY <1>10, <1>11, <1>12, <1>13, <1>14, <1>15, <1>16, <1>17, <1>18, <1>19

(* Where a pattern comes back to a pattern, or goes on by itself.          *)
LEMMA PatternRestSound ==
  ASSUME IInv, Ordered, Tidy, Fair, IInv', NEW c,
         \/ AfterAsOperand \/ AfterConsHead \/ AfterConsTail \/ QualifyCtor \/ CtorArguments
         \/ AfterCtorArgument \/ AfterFirstInParen \/ AfterTuplePattern \/ AfterListPattern \/ PatternField
  PROVE  Sound(c)
<1> USE State
<1> DEFINE q == Skip(p)
           a == Advance(q)
           r == Skip(a)
           fr == AddPart(Top, val)
           n == Base(c) + Times(c, fr.kept)
           m == Base(c) + Times(c, Top.kept)
           Ends(s, f) == Return(s, Pop, Close(f, s))
           Next(s, f, x) == Goto(s, Swap(f), x)
<1>0. /\ "as" \in PatternFrames /\ "cons" \in PatternFrames /\ "consTail" \in PatternFrames
      /\ "ctor" \in PatternFrames /\ "patParen" \in PatternFrames /\ "patTuple" \in PatternFrames
      /\ "patList" \in PatternFrames
      /\ "consTail" \notin Bare /\ "ctor" \notin Bare /\ "patTuple" \notin Bare /\ "patList" \notin Bare
      /\ "consPattern" \in PatternControls /\ "ctorArgs" \in PatternControls /\ "atomPattern" \in PatternControls
      /\ "patternField" \in PatternControls /\ "ctorName" \in PatternControls /\ "atomCtor" \in PatternControls
  BY DEF PatternFrames, Bare, PatternControls
<1>1. ASSUME NEW fn \in PatternFrames, Resumes(fn)
      PROVE  /\ calls # <<>> /\ Top.fn \in PatternFrames /\ fr \in Frame /\ fr.fn = fn /\ Quiet(fr)
             /\ Times(c, fr.kept) \in Nat
             /\ Tally(p, c, n) /\ Tally(q, c, n) /\ Tally(a, c, n) /\ Tally(r, c, n) /\ Tally(Advance(r), c, n)
  <2>1. /\ calls # <<>> /\ Top.fn = fn /\ fr \in Frame /\ fr.fn = fn /\ Quiet(fr) /\ Times(c, fr.kept) \in Nat
        /\ Tally(p, c, n) /\ Tally(q, c, n)
    BY <1>1, GivenPattern
  <2> HIDE DEF fr, n
  <2>2. ~q.raw
    BY <2>1, SkipTally
  <2> HIDE DEF q
  <2>3. Tally(a, c, n) /\ Tally(r, c, n) /\ Tally(Advance(r), c, n)
    BY <2>1, <2>2, Onward
  <2> QED BY <2>1, <2>3
<1>2. ASSUME ctl \in {"ctorName", "atomCtor", "ctorArgs", "patternField"}
      PROVE  /\ calls # <<>> /\ Top.fn \in PatternFrames /\ Top \in Frame
             /\ Tally(p, c, m) /\ Tally(q, c, m) /\ Tally(a, c, m) /\ Tally(r, c, m) /\ Tally(Advance(r), c, m)
  <2>1. calls # <<>> /\ Top \in Frame /\ Top.fn \in PatternFrames /\ Tally(p, c, m) /\ Tally(q, c, m)
    BY <1>2, RunningPattern
  <2> HIDE DEF m
  <2>2. ~q.raw
    BY <2>1, SkipTally
  <2> HIDE DEF q
  <2>3. Tally(a, c, m) /\ Tally(r, c, m) /\ Tally(Advance(r), c, m)
    BY <2>1, <2>2, Onward
  <2> QED BY <2>1, <2>3
<1>3. ASSUME NEW s, Fail(s) PROVE Sound(c)
  BY <1>3, FailSound
<1>4. CASE AfterAsOperand
  <2>1. Resumes("as")
    BY <1>4, Zenon DEF AfterAsOperand
  <2>2. Return(q, Pop, val) \/ Fail(r) \/ Ends(Advance(r), fr)
    BY <1>4, Zenon DEF AfterAsOperand
  <2>3. CASE Return(q, Pop, val)
    BY <2>1, <2>3, PatternPassSound
  <2>4. CASE Ends(Advance(r), fr)
    <3>1. calls # <<>> /\ Top.fn \in PatternFrames /\ fr \in Frame /\ Tally(Advance(r), c, n)
      BY <1>0, <1>1, <2>1
    <3> HIDE DEF fr, r
    <3> QED BY <2>4, <3>1, PatternCloseSound
  <2> QED BY <1>3, <2>2, <2>3, <2>4
<1>5. CASE AfterConsHead
  <2>1. Resumes("cons")
    BY <1>5, Zenon DEF AfterConsHead
  <2> DEFINE g == [fr EXCEPT !.fn = "consTail"]
  <2>2. Return(q, Pop, val) \/ Next(a, g, "consPattern")
    BY <1>5, Zenon DEF AfterConsHead
  <2>3. CASE Return(q, Pop, val)
    BY <2>1, <2>3, PatternPassSound
  <2>4. CASE Next(a, g, "consPattern")
    <3>1. calls # <<>> /\ Top.fn \in PatternFrames /\ fr \in Frame /\ Tally(a, c, n) /\ Quiet(fr)
          /\ Times(c, fr.kept) \in Nat
      BY <1>0, <1>1, <2>1
    <3> HIDE DEF fr, a
    <3>2. Kin(g, fr) /\ g.fn = "consTail"
      BY <3>1 DEF Kin, Frame
    <3> HIDE DEF g
    <3> QED BY <1>0, <2>4, <3>1, <3>2, PatternNextSound
  <2> QED BY <2>2, <2>3, <2>4
<1>6. CASE AfterConsTail
  <2>1. Resumes("consTail") /\ Ends(p, fr)
    BY <1>6, Zenon DEF AfterConsTail
  <2>2. calls # <<>> /\ Top.fn \in PatternFrames /\ fr \in Frame /\ Tally(p, c, n)
    BY <1>0, <1>1, <2>1
  <2> HIDE DEF fr
  <2> QED BY <2>1, <2>2, PatternCloseSound
<1>7. CASE QualifyCtor
  <2>1. ctl \in {"ctorName", "atomCtor"}
    BY <1>7, Zenon DEF QualifyCtor
  <2>2. calls # <<>> /\ Top \in Frame /\ Top.fn \in PatternFrames /\ Tally(p, c, m)
    BY <1>2, <2>1
  <2>3. \/ /\ Peek(p) = "." /\ Peek(Advance(p)) = "upper"
           /\ Goto(Advance(Advance(p)), calls, ctl)
        \/ Goto(p, calls, "ctorArgs")
        \/ Ends(p, Top)
    BY <1>7, Zenon DEF QualifyCtor
  <2>4. ctl \in PatternControls \ {"pattern"} /\ Tally(p, c, Boxes(c) + Sum(c, calls))
    <3>1. ctl \in PatternControls \ {"pattern"}
      BY <1>0, <2>1
    <3> QED BY <3>1, AtPattern
  <2>5. ASSUME Peek(p) = ".", Peek(Advance(p)) = "upper", Goto(Advance(Advance(p)), calls, ctl)
        PROVE  Sound(c)
    <3> DEFINE k == Boxes(c) + Sum(c, calls)
               b == Advance(p)
    <3>1. Tally(b, c, k)
      BY <2>4, <2>5, AdvanceTally DEF Tidy
    <3> HIDE DEF b, k
    <3>2. Tally(Advance(b), c, k)
      BY <3>1, <2>5, AdvanceTally DEF Tidy, b
    <3> QED BY <2>4, <2>5, <3>2, PatternCarrySound DEF b, k
  <2>6. CASE Goto(p, calls, "ctorArgs")
    BY <1>0, <2>4, <2>6, PatternCarrySound
  <2>7. CASE Ends(p, Top)
    BY <2>2, <2>7, PatternCloseSound
  <2> QED BY <2>3, <2>5, <2>6, <2>7
<1>8. CASE CtorArguments
  <2>1. ctl = "ctorArgs" /\ (Goto(q, calls, "atomPattern") \/ Ends(q, Top))
    BY <1>8, Zenon DEF CtorArguments
  <2>2. calls # <<>> /\ Top \in Frame /\ Top.fn \in PatternFrames /\ Tally(q, c, m)
    BY <1>2, <2>1
  <2>3. ctl \in PatternControls \ {"pattern"} /\ Tally(q, c, Boxes(c) + Sum(c, calls))
    <3>1. ctl \in PatternControls \ {"pattern"}
      BY <1>0, <2>1
    <3> QED BY <3>1, AtPattern
  <2> HIDE DEF q
  <2>4. CASE Goto(q, calls, "atomPattern")
    BY <1>0, <2>3, <2>4, PatternCarrySound
  <2>5. CASE Ends(q, Top)
    BY <2>2, <2>5, PatternCloseSound
  <2> QED BY <2>1, <2>4, <2>5
<1>9. CASE AfterCtorArgument
  <2>1. Resumes("ctor") /\ Next(p, fr, "ctorArgs")
    BY <1>9, Zenon DEF AfterCtorArgument
  <2>2. calls # <<>> /\ Top.fn \in PatternFrames /\ fr \in Frame /\ fr.fn = "ctor" /\ Tally(p, c, n) /\ Quiet(fr)
        /\ Times(c, fr.kept) \in Nat
    BY <1>0, <1>1, <2>1
  <2>3. Kin(fr, fr)
    BY DEF Kin
  <2> HIDE DEF fr
  <2> QED BY <1>0, <2>1, <2>2, <2>3, PatternNextSound
<1>10. CASE AfterFirstInParen
  <2> DEFINE g == [fr EXCEPT !.fn = "patTuple"]
  <2>1. Resumes("patParen")
    BY <1>10, Zenon DEF AfterFirstInParen
  <2>2. Next(a, g, "pattern") \/ Ends(a, fr) \/ Fail(q)
    BY <1>10, Zenon DEF AfterFirstInParen
  <2>3. fr \in Frame
    BY <1>0, <1>1, <2>1
  <2>4. Kin(g, fr) /\ g.fn = "patTuple"
    <3> HIDE DEF fr
    <3> QED BY <2>3 DEF Kin, Frame
  <2> HIDE DEF g
  <2> QED BY <1>0, <2>1, <2>2, <2>4, PatternElementSound
<1>11. ASSUME NEW fn \in {"patTuple", "patList"}, NEW closer, AfterPatternElement(fn, closer)
       PROVE  Sound(c)
  <2>1. Resumes(fn)
    BY <1>11, Zenon DEF AfterPatternElement
  <2>2. Next(a, fr, "pattern") \/ Ends(a, fr) \/ Fail(q)
    BY <1>11, Zenon DEF AfterPatternElement
  <2>3. Kin(fr, fr)
    BY DEF Kin
  <2>4. fn \in PatternFrames \ Bare /\ fr.fn = fn
    BY <1>0, <1>1, <2>1
  <2> QED BY <2>1, <2>2, <2>3, <2>4, PatternElementSound
<1>12. CASE AfterTuplePattern \/ AfterListPattern
  <2>1. AfterPatternElement("patTuple", ")") \/ AfterPatternElement("patList", "]")
    BY <1>12, Zenon DEF AfterTuplePattern, AfterListPattern
  <2> QED BY <1>11, <2>1
<1>13. CASE PatternField
  <2>1. ctl = "patternField"
    BY <1>13, Zenon DEF PatternField
  <2>2. Fail(q) \/ Goto(Advance(r), calls, "patternField") \/ Ends(Advance(r), Top) \/ Fail(r)
    BY <1>13, Zenon DEF PatternField
  <2>3. calls # <<>> /\ Top \in Frame /\ Top.fn \in PatternFrames /\ Tally(Advance(r), c, m)
    BY <1>2, <2>1
  <2>4. ctl \in PatternControls \ {"pattern"} /\ Tally(p, c, Boxes(c) + Sum(c, calls))
        /\ Tally(q, c, Boxes(c) + Sum(c, calls))
    <3>1. ctl \in PatternControls \ {"pattern"}
      BY <1>0, <2>1
    <3> QED BY <3>1, AtPattern
  <2>5. ~q.raw
    BY <2>4, SkipTally
  <2>6. Tally(Advance(r), c, Boxes(c) + Sum(c, calls))
    <3> DEFINE k == Boxes(c) + Sum(c, calls)
    <3>1. Tally(q, c, k)
      BY <2>4
    <3> HIDE DEF q, k
    <3>2. Tally(Advance(r), c, k)
      BY <3>1, <2>5, Onward
    <3> QED BY <3>2 DEF k
  <2> HIDE DEF r
  <2>7. CASE Goto(Advance(r), calls, "patternField")
    BY <1>0, <2>4, <2>6, <2>7, PatternCarrySound
  <2>8. CASE Ends(Advance(r), Top)
    BY <2>3, <2>8, PatternCloseSound
  <2> QED BY <1>3, <2>2, <2>7, <2>8
<1> QED BY <1>4, <1>5, <1>6, <1>7, <1>8, <1>9, <1>10, <1>12, <1>13

LEMMA PatternsSound ==
  ASSUME IInv, Ordered, Tidy, Fair, IInv', PatternNext, NEW c
  PROVE  Sound(c)
BY PatternStartsSound, PatternRestSound DEF PatternNext
-----------------------------------------------------------------------------
(* What a type in parentheses finds pending.                               *)

(* What is selected keeps its place in the sequence or moves forward.      *)
LEMMA SelectForward ==
  ASSUME NEW C, NEW s \in Seq(C), NEW S
  PROVE  \A k \in 1..Len(Select(s, S)) : \E j \in 1..Len(s) : j >= k /\ s[j] = Select(s, S)[k]
<1>0. Len(s) \in Nat
  OBVIOUS
<1>1. PICK G : /\ Select(s, S) = G[Len(s)]
               /\ \A n \in 0..Len(s) :
                    /\ G[n] \in Seq(C \cap S)
                    /\ G[n] = IF n = 0 THEN <<>>
                              ELSE IF s[n] \in S THEN Append(G[n - 1], s[n]) ELSE G[n - 1]
  BY SelectSolved
<1> DEFINE Forward(n) == /\ Len(G[n]) <= n
                         /\ \A i \in 1..Len(G[n]) : \E j \in 1..n : j >= i /\ s[j] = G[n][i]
           T == {n \in 0..Len(s) : ~Forward(n)}
<1>2. T = {}
  <2> SUFFICES ASSUME T # {} PROVE FALSE
    OBVIOUS
  <2>1. PICK n \in T : \A m \in T : n <= m
    <3>1. T \in SUBSET Nat
      BY <1>0
    <3> HIDE DEF T
    <3> QED BY <3>1, LeastNat
  <2>2. n \in 0..Len(s) /\ ~Forward(n)
    OBVIOUS
  <2>3. n # 0
    <3>1. 0 \in 0..Len(s)
      BY <1>0
    <3>2. G[0] = <<>>
      BY <1>1, <3>1
    <3>3. Forward(0)
      BY <3>2
    <3> QED BY <2>2, <3>3
  <2> DEFINE m == n - 1
             g == G[m]
             e == s[n]
  <2>4. m \in 0..Len(s) /\ ~(n <= m) /\ n \in 1..Len(s) /\ m \in Nat /\ n = m + 1
    BY <2>2, <2>3, <1>0
  <2>5. Forward(m)
    BY <2>1, <2>4
  <2>6. g \in Seq(C \cap S) /\ (G[n] = IF e \in S THEN Append(g, e) ELSE g)
    BY <1>1, <2>4, <2>3
  <2>7. Len(g) \in Nat /\ Len(g) <= m /\ \A i \in 1..Len(g) : \E j \in 1..m : j >= i /\ s[j] = g[i]
    <3>1. Len(g) <= m /\ \A i \in 1..Len(g) : \E j \in 1..m : j >= i /\ s[j] = g[i]
      <4> HIDE DEF m
      <4> QED BY <2>5, Zenon
    <3> HIDE DEF g
    <3>2. Len(g) \in Nat
      BY <2>6
    <3> QED BY <3>1, <3>2
  <2>8. \A j \in 1..m : j \in 1..n
    BY <2>4
  <2>9. n \in 1..n /\ s[n] = e
    BY <2>4
  <2> HIDE DEF g, m, e
  <2>10. CASE e \in S
    <3>1. Len(G[n]) = Len(g) + 1 /\ G[n][Len(g) + 1] = e /\ \A i \in 1..Len(g) : G[n][i] = g[i]
      <4>1. e \in C
        BY <2>4 DEF e
      <4>2. e \in C \cap S /\ G[n] = Append(g, e)
        BY <2>6, <2>10, <4>1
      <4> HIDE DEF Forward
      <4> QED BY <2>6, <4>2, AppendProperties
    <3>2. ASSUME NEW i \in 1..Len(G[n])
          PROVE  \E j \in 1..n : j >= i /\ s[j] = G[n][i]
      <4>1. CASE i \in 1..Len(g)
        BY <2>7, <2>8, <3>1, <4>1
      <4>2. CASE i = Len(g) + 1
        <5>1. n >= i
          BY <2>4, <2>7, <4>2
        <5> QED BY <2>9, <3>1, <4>2, <5>1
      <4>3. i \in 1..Len(g) \/ i = Len(g) + 1
        BY <2>7, <3>1, <3>2
      <4> QED BY <4>1, <4>2, <4>3
    <3>3. Len(G[n]) <= n
      BY <2>4, <2>7, <3>1
    <3> QED BY <2>2, <3>2, <3>3
  <2>11. CASE e \notin S
    <3>1. G[n] = g
      BY <2>6, <2>11
    <3>2. Len(G[n]) <= n
      BY <2>4, <2>7, <3>1
    <3>3. \A i \in 1..Len(G[n]) : \E j \in 1..n : j >= i /\ s[j] = G[n][i]
      BY <2>7, <2>8, <3>1
    <3> QED BY <2>2, <3>2, <3>3
  <2> QED BY <2>10, <2>11
<1>3. Forward(Len(s))
  <2>1. Len(s) \in 0..Len(s) /\ Len(s) \notin T
    BY <1>0, <1>2
  <2> HIDE DEF Forward
  <2> QED BY <2>1
<1> QED BY <1>1, <1>3

LEMMA SelectNone ==
  ASSUME NEW C, NEW s \in Seq(C), NEW S, \A i \in 1..Len(s) : s[i] \notin S
  PROVE  Select(s, S) = <<>>
<1>1. Select(s, S) \in Seq(C \cap S)
  BY SelectType
<1>2. ASSUME Select(s, S) # <<>> PROVE FALSE
  <2>1. Len(Select(s, S)) \in 1..Len(Select(s, S))
    BY <1>1, <1>2, EmptySeq
  <2>2. PICK k \in 1..Len(Select(s, S)) : TRUE
    BY <2>1
  <2>3. Select(s, S)[k] \in S
    BY <1>1
  <2>4. \E j \in 1..Len(s) : s[j] = Select(s, S)[k]
    BY SelectForward
  <2> QED BY <2>3, <2>4
<1> QED BY <1>2

(* The cursor r is where q is or further on; a comment pending there was   *)
(* pending at q, no earlier in the buffer, or was read since.              *)
Past(q, r) ==
  /\ Here(q) <= Here(r)
  /\ \A k \in 1..Len(r.pending) :
       \/ r.pending[k].ix >= Here(q)
       \/ \E j \in 1..Len(q.pending) : j >= k /\ q.pending[j] = r.pending[k]

LEMMA HereIs ==
  ASSUME Stream, NEW q, OK(q)
  PROVE  /\ Here(q) \in Nat /\ q.pending \in Seq(Comment) /\ Len(q.pending) \in Nat
         /\ \A k \in 1..Len(q.pending) : q.pending[k] \in Comment /\ q.pending[k].ix \in Nat
<1>1. toks[q.pos].ix \in Nat /\ toks[q.pos].tix \in Nat
  <2>1. toks[q.pos] \in Token
    BY TokenAt DEF OK
  <2> QED BY <2>1 DEF Token
<1>2. q.pending \in Seq(Comment)
  BY PendingType
<1>3. \A x \in Comment : x.ix \in Nat
  BY DEF Comment
<1> QED BY <1>1, <1>2, <1>3 DEF Here

LEMMA PastItself ==
  ASSUME Stream, NEW q, OK(q)
  PROVE  Past(q, q)
<1>1. Here(q) <= Here(q) /\ \A k \in 1..Len(q.pending) : k >= k
  BY HereIs
<1> QED BY <1>1 DEF Past

LEMMA PastOn ==
  ASSUME Stream, NEW q, NEW r, NEW s, OK(q), OK(r), OK(s), Past(q, r), Past(r, s)
  PROVE  Past(q, s)
<1> DEFINE x == Here(q)
           y == Here(r)
           z == Here(s)
<1>1. x \in Nat /\ y \in Nat /\ z \in Nat /\ x <= y /\ y <= z
  BY HereIs DEF Past
<1>2. ASSUME NEW k \in 1..Len(s.pending), ~(s.pending[k].ix >= x)
      PROVE  \E j \in 1..Len(q.pending) : j >= k /\ q.pending[j] = s.pending[k]
  <2>1. s.pending[k].ix \in Nat /\ k \in Nat
    BY HereIs
  <2> HIDE DEF x, y
  <2>2. ~(s.pending[k].ix >= y)
    BY <1>1, <1>2, <2>1
  <2>3. PICK i \in 1..Len(r.pending) : i >= k /\ r.pending[i] = s.pending[k]
    BY <2>2 DEF Past, y
  <2>4. PICK j \in 1..Len(q.pending) : j >= i /\ q.pending[j] = r.pending[i]
    BY <1>2, <2>3 DEF Past, x
  <2>5. j >= k
    BY <2>1, <2>3, <2>4
  <2> QED BY <2>3, <2>4, <2>5
<1> QED BY <1>1, <1>2 DEF Past

LEMMA ConcatCases ==
  ASSUME NEW C, NEW s \in Seq(C), NEW b \in Seq(C), NEW k \in 1..Len(s \o b)
  PROVE  \/ k \in 1..Len(s) /\ (s \o b)[k] = s[k]
         \/ k - Len(s) \in 1..Len(b) /\ (s \o b)[k] = b[k - Len(s)]
<1>1. /\ Len(s \o b) = Len(s) + Len(b) /\ Len(s) \in Nat /\ Len(b) \in Nat
      /\ \A i \in 1..(Len(s) + Len(b)) : (s \o b)[i] = IF i <= Len(s) THEN s[i] ELSE b[i - Len(s)]
  BY ConcatProperties
<1> DEFINE t == s \o b
<1> HIDE DEF t
<1>2. k \in 1..(Len(s) + Len(b)) /\ t[k] = IF k <= Len(s) THEN s[k] ELSE b[k - Len(s)]
  BY <1>1 DEF t
<1>3. CASE k <= Len(s)
  BY <1>1, <1>2, <1>3 DEF t
<1>4. CASE ~(k <= Len(s))
  <2>1. k - Len(s) \in 1..Len(b)
    BY <1>1, <1>2, <1>4
  <2> QED BY <1>2, <1>4, <2>1 DEF t
<1> QED BY <1>3, <1>4

LEMMA SkipPast ==
  ASSUME Stream, Ordered, NEW q, OK(q)
  PROVE  Past(q, Skip(q))
<1> DEFINE r == Skip(q)
           b == toks[q.pos].before
<1>1. CASE ~q.raw
  BY <1>1, PastItself DEF Skip
<1>2. CASE q.raw
  <2>1. q.pos \in 1..Len(toks) /\ toks[q.pos] \in Token
    BY TokenAt DEF OK
  <2>2. b \in Seq(Comment) /\ toks[q.pos].tix <= toks[q.pos].ix
    BY <2>1 DEF Token, Ordered
  <2>3. r.pending = q.pending \o b /\ Here(q) = toks[q.pos].tix /\ Here(r) = toks[q.pos].ix
    BY <1>2 DEF Skip, OK, Cursor, Here
  <2>4. q.pending \in Seq(Comment)
    BY PendingType
  <2>5. ASSUME NEW k \in 1..Len(r.pending)
        PROVE  \/ r.pending[k].ix >= Here(q)
               \/ \E j \in 1..Len(q.pending) : j >= k /\ q.pending[j] = r.pending[k]
    <3> DEFINE s == q.pending
    <3>1. \/ k \in 1..Len(s) /\ r.pending[k] = s[k]
          \/ k - Len(s) \in 1..Len(b) /\ r.pending[k] = b[k - Len(s)]
      <4>1. k \in 1..Len(s \o b)
        BY <2>3, <2>5
      <4> HIDE DEF s, b
      <4>2. \/ k \in 1..Len(s) /\ (s \o b)[k] = s[k]
            \/ k - Len(s) \in 1..Len(b) /\ (s \o b)[k] = b[k - Len(s)]
        BY <2>2, <2>4, <4>1, ConcatCases DEF s
      <4> QED BY <2>3, <4>2, Zenon DEF s
    <3>2. CASE k \in 1..Len(s) /\ r.pending[k] = s[k]
      <4>1. k >= k
        BY <3>2
      <4> QED BY <3>2, <4>1
    <3> DEFINE i == k - Len(s)
    <3>3. CASE i \in 1..Len(b) /\ r.pending[k] = b[i]
      <4> HIDE DEF i
      <4>1. toks[q.pos].tix <= b[i].ix
        BY <2>1, <3>3 DEF Ordered
      <4>2. b[i].ix \in Nat /\ toks[q.pos].tix \in Nat
        <5>1. b[i] \in Comment
          BY <2>2, <3>3
        <5> QED BY <2>1, <5>1 DEF Comment, Token
      <4>3. b[i].ix >= toks[q.pos].tix
        <5> HIDE DEF b
        <5> QED BY <4>1, <4>2
      <4> QED BY <2>3, <3>3, <4>3
    <3> QED BY <3>1, <3>2, <3>3
  <2> QED BY <2>2, <2>3, <2>5 DEF Past
<1> QED BY <1>1, <1>2

LEMMA AdvancePast ==
  ASSUME Stream, Ordered, NEW q, OK(q)
  PROVE  Past(q, Advance(q))
<1> DEFINE r == Advance(q)
           i == q.pos
<1>1. /\ r.pending = q.pending
      /\ r.pos = IF i < Len(toks) THEN i + 1 ELSE i
      /\ r.raw = IF i < Len(toks) THEN TRUE ELSE q.raw
  BY DEF Advance, OK, Cursor
<1>2. i \in 1..Len(toks) /\ Len(toks) \in Nat
  BY DEF OK, Stream
<1>3. Here(q) <= Here(r)
  <2>1. CASE ~(i < Len(toks))
    <3>1. Here(r) = Here(q)
      BY <1>1, <2>1 DEF Here
    <3> QED BY <3>1, HereIs
  <2>2. CASE i < Len(toks)
    <3>1. Here(r) = toks[i + 1].tix
      BY <1>1, <2>2 DEF Here
    <3>2. toks[i].ix < toks[i + 1].tix /\ toks[i].tix <= toks[i].ix
      BY <1>2, <2>2 DEF Ordered
    <3>3. i + 1 \in 1..Len(toks)
      BY <1>2, <2>2
    <3>4. toks[i] \in Token /\ toks[i + 1] \in Token
      BY <1>2, <3>3, TokenAt
    <3>5. toks[i].ix \in Nat /\ toks[i].tix \in Nat /\ toks[i + 1].tix \in Nat
      BY <3>4 DEF Token
    <3>6. Here(q) = toks[i].tix \/ Here(q) = toks[i].ix
      BY DEF Here
    <3> QED BY <3>1, <3>2, <3>5, <3>6
  <2> QED BY <2>1, <2>2
<1>4. \A k \in 1..Len(q.pending) : k >= k
  BY HereIs
<1> HIDE DEF r
<1> QED BY <1>1, <1>3, <1>4 DEF Past, r

LEMMA FewerPast ==
  ASSUME Stream, NEW q, OK(q), NEW r, r.pos = q.pos, r.raw = q.raw,
         \A k \in 1..Len(r.pending) : \E j \in 1..Len(q.pending) : j >= k /\ q.pending[j] = r.pending[k]
  PROVE  Past(q, r)
<1>1. Here(r) = Here(q)
  BY DEF Here
<1>2. Here(q) <= Here(r)
  BY <1>1, HereIs
<1> QED BY <1>2 DEF Past

LEMMA UnclaimedPast ==
  ASSUME Stream, NEW q, OK(q), NEW snap \in Nat, NEW S
  PROVE  Past(q, Unclaimed(q, snap, S))
<1> DEFINE r == Unclaimed(q, snap, S)
           s == q.pending
           d == DropSince(q, snap).pending
           u == Since(q, snap)
           t == Select(u, Elements(q.pending) \ S)
<1>1. s \in Seq(Comment) /\ Len(s) \in Nat
  BY PendingType
<1>2. r.pos = q.pos /\ r.raw = q.raw /\ r.pending = d \o t
  BY DEF Unclaimed, OK, Cursor
<1>3. u \in Seq(Comment) /\ d \in Seq(Comment)
  BY SinceType, PendingType
<1>4. t \in Seq(Comment) /\ \A i \in 1..Len(t) : \E j \in 1..Len(u) : j >= i /\ u[j] = t[i]
  <2> DEFINE X == Elements(q.pending) \ S
  <2> HIDE DEF u, X
  <2>1. t \in Seq(Comment \cap X)
    BY <1>3, SelectType DEF X
  <2>a. t = Select(u, X)
    BY DEF X
  <2> HIDE DEF t
  <2>2. \A i \in 1..Len(t) : \E j \in 1..Len(u) : j >= i /\ u[j] = t[i]
    BY <1>3, <2>a, SelectForward
  <2> QED BY <2>1, <2>2
<1>5. /\ Len(d) <= Len(s) /\ Len(d) + Len(u) = Len(s)
      /\ \A i \in 1..Len(d) : d[i] = s[i]
      /\ \A j \in 1..Len(u) : u[j] = s[Len(d) + j]
  <2>1. CASE snap >= Len(q.pending)
    <3>1. d = s /\ u = <<>>
      BY <2>1 DEF DropSince, Since
    <3>2. Len(u) = 0
      BY <3>1
    <3> HIDE DEF d, u, s
    <3> QED BY <1>1, <3>1, <3>2
  <2>2. CASE ~(snap >= Len(q.pending))
    <3>1. d = SubSeq(s, 1, snap) /\ u = SubSeq(s, snap + 1, Len(s))
      BY <2>2 DEF DropSince, Since, OK, Cursor
    <3>2. snap < Len(s)
      BY <1>1, <2>2
    <3> HIDE DEF d, u, s
    <3>3. Len(d) = snap /\ \A i \in 1..snap : d[i] = s[i]
      BY <1>1, <3>1, <3>2
    <3>4. Len(u) = Len(s) - snap /\ \A j \in 1..(Len(s) - snap) : u[j] = s[snap + j]
      BY <1>1, <3>1, <3>2
    <3> QED BY <1>1, <3>2, <3>3, <3>4
  <2> QED BY <2>1, <2>2
<1>6. ASSUME NEW k \in 1..Len(r.pending)
      PROVE  \E j \in 1..Len(s) : j >= k /\ s[j] = r.pending[k]
  <2>1. k \in 1..Len(d \o t)
    BY <1>2
  <2> HIDE DEF r, s, d, u, t
  <2>2. \/ k \in 1..Len(d) /\ (d \o t)[k] = d[k]
        \/ k - Len(d) \in 1..Len(t) /\ (d \o t)[k] = t[k - Len(d)]
    BY <1>3, <1>4, <2>1, ConcatCases
  <2>3. Len(d) \in Nat /\ Len(u) \in Nat /\ k \in Nat
    BY <1>3
  <2>4. CASE k \in 1..Len(d) /\ (d \o t)[k] = d[k]
    <3>1. k \in 1..Len(s) /\ k >= k
      BY <1>1, <1>5, <2>3, <2>4
    <3> QED BY <1>2, <1>5, <2>4, <3>1
  <2> DEFINE i == k - Len(d)
  <2>5. CASE i \in 1..Len(t) /\ (d \o t)[k] = t[i]
    <3>1. PICK j \in 1..Len(u) : j >= i /\ u[j] = t[i]
      BY <1>4, <2>5
    <3>2. Len(d) + j >= k /\ Len(d) + j \in 1..Len(s)
      BY <1>1, <1>5, <2>3, <3>1
    <3>3. s[Len(d) + j] = r.pending[k]
      BY <1>2, <1>5, <2>5, <3>1
    <3> QED BY <3>2, <3>3
  <2> QED BY <2>2, <2>4, <2>5
<1> HIDE DEF r
<1> QED BY <1>2, <1>6, FewerPast DEF r

LEMMA TrailingPast ==
  ASSUME Stream, NEW q, OK(q), NEW m
  PROVE  Past(q, DropTrailing(q, m))
<1> DEFINE r == DropTrailing(q, m)
           s == q.pending
<1>1. s \in Seq(Comment) /\ Len(s) \in Nat
  BY PendingType
<1>2. CASE Trailing(q, m) = <<>>
  BY <1>2, PastItself DEF DropTrailing
<1>3. CASE Trailing(q, m) # <<>>
  <2>1. r.pos = q.pos /\ r.raw = q.raw /\ r.pending = SubSeq(s, 1, Len(s) - 1)
    BY <1>3 DEF DropTrailing, OK, Cursor
  <2>2. s # <<>>
    BY <1>3 DEF Trailing
  <2>3. Len(s) # 0
    BY <1>1, <2>2, EmptySeq
  <2> HIDE DEF s, r
  <2> DEFINE l == Len(s) - 1
             u == r.pending
  <2>a. u = SubSeq(s, 1, l) /\ l \in Nat /\ l <= Len(s) /\ Len(s) = l + 1
    BY <1>1, <2>1, <2>3
  <2> HIDE DEF l, u
  <2>b. Len(u) = l /\ \A i \in 1..l : u[i] = s[i]
    BY <1>1, <2>a
  <2>4. Len(r.pending) = l /\ \A i \in 1..l : r.pending[i] = s[i]
    BY <2>b DEF u
  <2>5. \A k \in 1..Len(r.pending) : k \in 1..Len(s) /\ k >= k /\ s[k] = r.pending[k]
    BY <1>1, <2>a, <2>4
  <2>6. \A k \in 1..Len(r.pending) : \E j \in 1..Len(s) : j >= k /\ s[j] = r.pending[k]
    BY <2>5
  <2> QED BY <2>1, <2>6, FewerPast DEF r, s
<1> QED BY <1>2, <1>3

LEMMA BackPast ==
  ASSUME Stream, Ordered, NEW q, AtRecord(q), OK(q), NEW r, r = Skip(Advance(q)), Peek(r) = "lower"
  PROVE  Past(r, Back(r)) /\ OK(Back(r))
<1> DEFINE back == Back(r)
           more == toks[r.pos + 1].before
           i == r.pos
<1>1. /\ OK(r) /\ ~r.raw /\ i + 1 \in 1..Len(toks) /\ i \in 1..Len(toks) /\ more \in Seq(Comment)
      /\ OK(back) /\ back.pending = r.pending \o more /\ back.pos = i /\ ~back.raw
  BY BackIs
<1>2. Here(back) = toks[i].ix /\ Here(r) = toks[i].ix
  BY <1>1 DEF Here
<1>3. toks[i].ix < toks[i + 1].tix
  BY SMTT(30), <1>1 DEF Ordered
<1>4. toks[i].ix \in Nat /\ toks[i + 1].tix \in Nat
  <2>1. toks[i] \in Token /\ toks[i + 1] \in Token
    BY <1>1, TokenAt
  <2> QED BY <2>1 DEF Token
<1>5. ASSUME NEW k \in 1..Len(back.pending)
      PROVE  \/ back.pending[k].ix >= Here(r)
             \/ \E j \in 1..Len(r.pending) : j >= k /\ r.pending[j] = back.pending[k]
  <2> DEFINE s == r.pending
  <2>1. s \in Seq(Comment)
    BY <1>1, PendingType
  <2>2. k \in 1..Len(s \o more)
    BY <1>1, <1>5
  <2>3. \/ k \in 1..Len(s) /\ back.pending[k] = s[k]
        \/ k - Len(s) \in 1..Len(more) /\ back.pending[k] = more[k - Len(s)]
    <3> HIDE DEF s, more
    <3>1. \/ k \in 1..Len(s) /\ (s \o more)[k] = s[k]
          \/ k - Len(s) \in 1..Len(more) /\ (s \o more)[k] = more[k - Len(s)]
      BY <1>1, <2>1, <2>2, ConcatCases
    <3> QED BY <1>1, <3>1, Zenon DEF s
  <2>4. CASE k \in 1..Len(s) /\ back.pending[k] = s[k]
    <3>1. k >= k
      BY <2>4
    <3> HIDE DEF back
    <3> QED BY <2>4, <3>1
  <2> DEFINE m == k - Len(s)
  <2>5. CASE m \in 1..Len(more) /\ back.pending[k] = more[m]
    <3> HIDE DEF m, back
    <3>1. toks[i + 1].tix <= more[m].ix
      BY <1>1, <2>5 DEF Ordered
    <3>2. more[m].ix \in Nat
      <4>1. more[m] \in Comment
        BY <1>1, <2>5
      <4> QED BY <4>1 DEF Comment
    <3>3. more[m].ix >= toks[i].ix
      <4> HIDE DEF more
      <4> QED BY <1>3, <1>4, <3>1, <3>2
    <3> QED BY <1>2, <2>5, <3>3
  <2> QED BY <2>3, <2>4, <2>5
<1>6. Here(r) <= Here(back)
  BY <1>2, <1>4
<1> HIDE DEF back
<1> QED BY <1>1, <1>5, <1>6 DEF Past, back

LEMMA LateStays ==
  ASSUME Stream, NEW cs \in Seq(Frame), NEW q, NEW r, OK(q), OK(r), Late(cs, q), Past(q, r)
  PROVE  Late(cs, r)
<1> SUFFICES ASSUME NEW i \in 1..(Len(cs) - 1), cs[i].fn = "typeParen", cs[i + 1].fn = "type"
             PROVE  /\ cs[i + 1].lim <= Here(r)
                    /\ \A k \in 1..Len(r.pending) : k > cs[i + 1].snap => r.pending[k].ix >= cs[i + 1].lim
  BY DEF Late
<1> DEFINE fr == cs[i + 1]
           lim == fr.lim
           snap == fr.snap
<1>1. lim <= Here(q) /\ \A k \in 1..Len(q.pending) : k > snap => q.pending[k].ix >= lim
  BY DEF Late
<1>2. lim \in Nat /\ snap \in Nat
  <2>1. fr \in Frame
    <3>1. i + 1 \in 1..Len(cs)
      OBVIOUS
    <3> QED BY <3>1
  <2> QED BY <2>1 DEF Frame
<1>3. Here(q) \in Nat /\ Here(r) \in Nat /\ Here(q) <= Here(r)
  BY HereIs DEF Past
<1> HIDE DEF fr, lim, snap
<1>4. ASSUME NEW k \in 1..Len(r.pending), k > snap
      PROVE  r.pending[k].ix >= lim
  <2>1. r.pending[k].ix \in Nat /\ k \in Nat
    BY HereIs
  <2>2. CASE r.pending[k].ix >= Here(q)
    BY <1>1, <1>2, <1>3, <2>1, <2>2
  <2>3. ASSUME NEW j \in 1..Len(q.pending), j >= k, q.pending[j] = r.pending[k]
        PROVE  r.pending[k].ix >= lim
    <3>1. j > snap
      BY <1>2, <1>4, <2>1, <2>3
    <3> QED BY <1>1, <2>3, <3>1
  <2> QED BY <2>2, <2>3 DEF Past
<1>5. lim <= Here(r)
  BY <1>1, <1>2, <1>3
<1> QED BY <1>4, <1>5 DEF fr, lim, snap

(* The cursor of a type that is read: its comments, and where it is.       *)
Ahead(q, c, n) == Tally(q, c, n) /\ Past(p, q)

LEMMA SkipAhead ==
  ASSUME IInv, Ordered, Tidy, NEW q, NEW c, NEW n, Ahead(q, c, n)
  PROVE  Ahead(Skip(q), c, n) /\ ~Skip(q).raw
<1> USE State
<1>1. Tally(Skip(q), c, n) /\ ~Skip(q).raw
  BY SkipTally DEF Ahead
<1>2. OK(q) /\ OK(Skip(q))
  BY <1>1 DEF Ahead, Tally
<1>3. Past(q, Skip(q))
  BY <1>2, SkipPast
<1> QED BY <1>1, <1>2, <1>3, PastOn DEF Ahead

LEMMA AdvanceAhead ==
  ASSUME IInv, Ordered, Tidy, NEW q, NEW c, NEW n, Ahead(q, c, n), Peek(q) # "trivia" \/ ~q.raw
  PROVE  Ahead(Advance(q), c, n)
<1> USE State
<1>1. Tally(Advance(q), c, n)
  <2>1. CASE ~q.raw
    BY <2>1, Onward DEF Ahead
  <2>2. CASE Peek(q) # "trivia"
    BY <2>2, AdvanceTally DEF Ahead, Tidy
  <2> QED BY <2>1, <2>2
<1>2. OK(q) /\ OK(Advance(q))
  BY <1>1 DEF Ahead, Tally
<1>3. Past(q, Advance(q))
  BY <1>2, AdvancePast
<1> QED BY <1>1, <1>2, <1>3, PastOn DEF Ahead

LEMMA ClaimAhead ==
  ASSUME IInv, Ordered, Tidy, NEW q, NEW c, NEW n, Ahead(q, c, n), NEW snap \in Nat, NEW S
  PROVE  /\ Ahead(Unclaimed(q, snap, S), c, n + Times(c, Claimed(q, snap, S)))
         /\ Times(c, Claimed(q, snap, S)) \in Nat /\ Claimed(q, snap, S) \in Seq(Comment)
         /\ Unclaimed(q, snap, S).raw = q.raw
<1> USE State
<1> DEFINE r == Unclaimed(q, snap, S)
           m == n + Times(c, Claimed(q, snap, S))
<1>1. Tally(r, c, m) /\ Times(c, Claimed(q, snap, S)) \in Nat /\ r.raw = q.raw
  BY ClaimTally DEF Ahead
<1>2. OK(q)
  BY DEF Ahead, Tally
<1>3. OK(r) /\ Claimed(q, snap, S) \in Seq(Comment)
  BY <1>2, ClaimedType
<1>4. Past(q, r)
  BY <1>2, UnclaimedPast
<1> HIDE DEF r, m
<1>5. Past(p, r)
  BY <1>2, <1>3, <1>4, PastOn DEF Ahead
<1> QED BY <1>1, <1>3, <1>5 DEF Ahead, r, m

(* The next token, and the one after it.                                   *)
LEMMA OnwardAhead ==
  ASSUME IInv, Ordered, Tidy, NEW q, NEW c, NEW n, Ahead(q, c, n), ~q.raw
  PROVE  LET r == Skip(Advance(q))
         IN  Ahead(Advance(q), c, n) /\ Ahead(r, c, n) /\ ~r.raw /\ Ahead(Advance(r), c, n)
<1> DEFINE a == Advance(q)
           r == Skip(a)
<1>1. Ahead(a, c, n)
  BY AdvanceAhead
<1> HIDE DEF a
<1>2. Ahead(r, c, n) /\ ~r.raw
  BY <1>1, SkipAhead
<1> HIDE DEF r
<1>3. Ahead(Advance(r), c, n)
  BY <1>2, AdvanceAhead
<1> QED BY <1>1, <1>2, <1>3 DEF r, a
-----------------------------------------------------------------------------
(* Types.                                                                  *)

Patternless(cs) == \A i \in 1..Len(cs) : cs[i].fn \notin Branching

LEMMA TypeStack ==
  ASSUME NEW cs \in Seq(Frame), Layered(cs), Patternless(cs), NEW q, Late(cs, q),
         NEW fr, Neat(fr), fr.fn \in TypeFrames,
         fr.fn = "type" /\ cs # <<>> =>
           /\ cs[Len(cs)].fn # "type"
           /\ cs[Len(cs)].fn = "typeParen" => fr.lim <= Here(q) /\ \A k \in 1..Len(q.pending) : ~(k > fr.snap)
  PROVE  Layered(Append(cs, fr)) /\ Late(Append(cs, fr), q)
<1> DEFINE s == Append(cs, fr)
           n == Len(cs) + 1
<1>1. Len(cs) \in Nat /\ Len(s) = n /\ s[n] = fr /\ \A i \in 1..Len(cs) : s[i] = cs[i]
  BY AppendIs
<1> HIDE DEF s
<1>2. \A i \in 1..Len(s) : i = n \/ i \in 1..Len(cs)
  BY <1>1
<1>3. \A i \in 1..Len(s) : Neat(s[i])
  BY <1>1, <1>2, Zenon DEF Layered
<1>4. ASSUME NEW j \in 1..Len(s), NEW i \in 1..(j - 1)
      PROVE  /\ s[i].fn \in Branching => s[j].fn \in PatternFrames
             /\ s[i].fn \in TypeFrames => s[j].fn \in TypeFrames
  <2>1. i \in 1..Len(cs)
    BY <1>1
  <2>2. CASE j = n
    BY <1>1, <2>1, <2>2 DEF Patternless
  <2>3. CASE j \in 1..Len(cs)
    BY <1>1, <2>1, <2>3 DEF Layered
  <2> QED BY <1>2, <2>2, <2>3
<1>5. ASSUME NEW i \in 1..(Len(s) - 1)
      PROVE  /\ s[i + 1].fn = "type" => s[i].fn # "type"
             /\ s[i].fn = "typeParen" /\ s[i + 1].fn = "type" =>
                  /\ s[i + 1].lim <= Here(q)
                  /\ \A k \in 1..Len(q.pending) : k > s[i + 1].snap => q.pending[k].ix >= s[i + 1].lim
  <2>1. i \in 1..Len(cs) /\ (i = Len(cs) \/ i \in 1..(Len(cs) - 1))
    BY <1>1
  <2>2. CASE i = Len(cs)
    <3>1. s[i] = cs[Len(cs)] /\ s[i + 1] = fr
      BY <1>1, <2>1, <2>2
    <3>2. cs # <<>>
      BY <2>1
    <3> QED BY <3>1, <3>2
  <2>3. CASE i \in 1..(Len(cs) - 1)
    <3>1. i + 1 \in 1..Len(cs)
      BY <1>1, <2>3
    <3>2. s[i] = cs[i] /\ s[i + 1] = cs[i + 1]
      BY <1>1, <2>1, <3>1
    <3> QED BY <2>3, <3>2 DEF Layered, Late
  <2> QED BY <2>1, <2>2, <2>3
<1>6. Layered(s)
  BY <1>3, <1>4, <1>5 DEF Layered
<1>7. Late(s, q)
  BY <1>5 DEF Late
<1> QED BY <1>6, <1>7 DEF s

(* A type is read.                                                         *)
LEMMA AtType ==
  ASSUME IInv, Ordered, Tidy, Fair, ctl \in TypeControls \/ (ctl = "done" /\ calls # <<>> /\ Top.fn \in TypeFrames), NEW c
  PROVE  /\ calls \in Seq(Frame) /\ Layered(calls) /\ Patternless(calls) /\ Late(calls, p)
         /\ calls # <<>> => Meets(Top, ctl, p, val)
         /\ Boxes(c) \in Nat /\ Sum(c, calls) \in Nat /\ Past(p, p)
         /\ ctl \in TypeControls => Ahead(p, c, Boxes(c) + Sum(c, calls)) /\ Passes(c, ctl, val) = 0
<1> USE State
<1> DEFINE n == Boxes(c) + Sum(c, calls)
<1>1. /\ ctl # "error" /\ (ctl \in TypeControls => ctl \notin Passing)
      /\ ctl \in TypeControls => ctl \notin PatternControls \cup {"done", "branch", "pattern"}
  BY DEF TypeControls, Passing, PatternControls
<1>2. calls # <<>> => Meets(Top, ctl, p, val)
  BY DEF Tidy
<1>3. Layered(calls) /\ Late(calls, p)
  BY DEF Tidy
<1>4. Patternless(calls)
  <2>1. CASE calls = <<>>
    BY <2>1 DEF Patternless
  <2>2. CASE calls # <<>>
    <3>1. Top.fn \notin Branching
      <4>1. CASE ctl \in TypeControls
        BY <1>1, <1>2, <2>2, <4>1, Zenon DEF Meets, Branching
      <4>2. CASE Top.fn \in TypeFrames
        BY <4>2 DEF TypeFrames, Branching, PatternFrames
      <4> QED BY <4>1, <4>2
    <3>2. Top.fn \notin PatternFrames
      BY <3>1 DEF Branching
    <3>3. Len(calls) \in 1..Len(calls) /\ \A i \in 1..Len(calls) : i = Len(calls) \/ i \in 1..(Len(calls) - 1)
      BY <2>2
    <3>4. \A i \in 1..(Len(calls) - 1) : calls[i].fn \in Branching => Top.fn \in PatternFrames
      BY <1>3, <3>3 DEF Layered, Top
    <3> QED BY <3>1, <3>2, <3>3, <3>4 DEF Patternless, Top
  <2> QED BY <2>1, <2>2
<1>5. Past(p, p)
  BY PastItself
<1>6. /\ Tally(p, c, Boxes(c) + Sum(c, calls) + Passes(c, ctl, val))
      /\ Boxes(c) \in Nat /\ Sum(c, calls) \in Nat
  BY <1>1, Opening
<1>7. ctl \in TypeControls => Passes(c, ctl, val) = 0
  BY <1>1 DEF Passes
<1>8. ctl \in TypeControls => Boxes(c) + Sum(c, calls) + Passes(c, ctl, val) = n
  BY <1>6, <1>7
<1> HIDE DEF n
<1>9. ctl \in TypeControls => Tally(p, c, n)
  BY <1>6, <1>8
<1> QED BY <1>2, <1>3, <1>4, <1>5, <1>6, <1>7, <1>9 DEF Ahead, n

(* The functions below a type.                                             *)
LEMMA BelowType ==
  ASSUME IInv, Tidy, calls # <<>>, Top.fn \in TypeFrames
  PROVE  Pop \in Seq(Frame) /\ Layered(Pop) /\ Patternless(Pop) /\ Late(Pop, p)
<1>1. Pop \in Seq(Frame) /\ Len(Pop) = Len(calls) - 1 /\ \A i \in 1..Len(Pop) : Pop[i] = calls[i]
  BY TopAndPop
<1>2. Layered(Pop) /\ Layered(calls) /\ Late(calls, p)
  BY TopNeat DEF Tidy
<1>3. Len(calls) \in Nat /\ Len(calls) > 0
  BY <1>1, State
<1>4. \A x \in TypeFrames : x \notin PatternFrames
  BY DEF TypeFrames, PatternFrames
<1>5. Patternless(Pop)
  <2>1. \A i \in 1..Len(Pop) : i \in 1..(Len(calls) - 1) /\ Len(calls) \in 1..Len(calls)
    BY <1>1, <1>3
  <2>2. \A i \in 1..Len(Pop) : calls[i].fn \in Branching => Top.fn \in PatternFrames
    BY <1>2, <2>1 DEF Layered, Top
  <2> QED BY <1>1, <1>4, <2>2 DEF Patternless
<1>6. Late(Pop, p)
  <2>1. \A i \in 1..(Len(Pop) - 1) : i \in 1..(Len(calls) - 1) /\ i \in 1..Len(Pop) /\ i + 1 \in 1..Len(Pop)
    BY <1>1, <1>3
  <2>2. \A i \in 1..(Len(Pop) - 1) : Pop[i] = calls[i] /\ Pop[i + 1] = calls[i + 1]
    BY <1>1, <2>1
  <2> QED BY <1>2, <2>1, <2>2 DEF Late
<1> QED BY <1>1, <1>2, <1>5, <1>6

(* A type goes on in a function fr.                                        *)
LEMMA TypePushSound ==
  ASSUME IInv, Ordered, Tidy, IInv', NEW c, NEW n, NEW q, Ahead(q, c, n),
         NEW cs \in Seq(Frame), Layered(cs), Patternless(cs), Late(cs, p),
         NEW fr, Neat(fr), fr.fn \in TypeFrames, NEW x \in TypeControls, Goto(q, Append(cs, fr), x),
         fr.fn = "typeParen" /\ x = "type" => ~q.raw,
         fr.fn = "type" => x # "type",
         fr.fn = "type" /\ cs # <<>> =>
           /\ cs[Len(cs)].fn # "type"
           /\ cs[Len(cs)].fn = "typeParen" => fr.lim <= Here(q) /\ \A k \in 1..Len(q.pending) : ~(k > fr.snap),
         n = Boxes(c) + Sum(c, cs) + Holds(c, fr)
  PROVE  Sound(c)
<1> DEFINE s == Append(cs, fr)
<1>1. Tally(q, c, n) /\ OK(q) /\ OK(p) /\ Stream
  BY State DEF Ahead, Tally
<1>2. Late(cs, q)
  BY <1>1, LateStays DEF Ahead
<1>3. Layered(s) /\ Late(s, q)
  BY <1>2, TypeStack
<1>4. s[Len(s)] = fr
  BY AppendIs
<1>5. x \notin {"binary", "fold", "args", "branch", "letNext", "done", "valueName", "reduce"} \cup Passing
  BY DEF TypeControls, Passing
<1>6. fr.fn \notin PatternFrames \cup {"casePattern"}
  BY DEF PatternFrames, TypeFrames
<1>7. Meets(fr, x, q, val)
  BY <1>5, <1>6 DEF Meets
<1>8. Goes(q, s, x, val) /\ Plainly(x, q, val)
  BY <1>5 DEF Goes, Plainly
<1>9. Passes(c, x, val) = 0
  BY <1>5 DEF Passes
<1>10. n = Boxes(c) + Sum(c, cs) + Holds(c, fr) + Passes(c, x, val)
  <2>1. n \in Nat
    BY <1>1 DEF Tally
  <2> QED BY <1>9, <2>1
<1>11. Booked(c)
  BY <1>1, <1>8, <1>10, Framed
<1> HIDE DEF s
<1>12. s # <<>> => Meets(s[Len(s)], x, q, val)
  BY <1>4, <1>7
<1>13. Tidy'
  BY <1>3, <1>8, <1>12, StaysTidy
<1> QED BY <1>11, <1>13 DEF Sound

(* A type starts in a function that holds nothing yet.                     *)
LEMMA TypeStartSound ==
  ASSUME IInv, Ordered, Tidy, Fair, IInv', ctl \in TypeControls, NEW c, NEW q,
         Ahead(q, c, Boxes(c) + Sum(c, calls)), NEW fr, Empty(fr), fr.fn \in TypeFrames \ {"type"},
         NEW x \in TypeControls, fr.fn = "typeParen" /\ x = "type" => ~q.raw, Goto(q, Append(calls, fr), x)
  PROVE  Sound(c)
<1>1. /\ calls \in Seq(Frame) /\ Layered(calls) /\ Patternless(calls) /\ Late(calls, p)
      /\ Boxes(c) \in Nat /\ Sum(c, calls) \in Nat
  BY AtType
<1>2. fr.fn # "app" /\ fr.fn \in TypeFrames /\ fr.fn # "type"
  BY DEF TypeFrames
<1>3. Neat(fr) /\ Holds(c, fr) = 0
  BY <1>2, EmptyHolds
<1> DEFINE n == Boxes(c) + Sum(c, calls)
<1>4. Ahead(q, c, n) /\ n = Boxes(c) + Sum(c, calls) + Holds(c, fr)
  BY <1>1, <1>3
<1> HIDE DEF n
<1> QED BY <1>1, <1>2, <1>3, <1>4, TypePushSound

(* A type goes on in the same function.                                    *)
LEMMA TypeCarrySound ==
  ASSUME IInv, Ordered, Tidy, Fair, IInv', ctl \in TypeControls \ {"type"}, NEW c, NEW q,
         Ahead(q, c, Boxes(c) + Sum(c, calls)), NEW x \in TypeControls \ {"type"}, Goto(q, calls, x)
  PROVE  Sound(c)
<1>1. /\ calls \in Seq(Frame) /\ Layered(calls) /\ Patternless(calls) /\ Late(calls, p)
      /\ Boxes(c) \in Nat /\ Sum(c, calls) \in Nat
      /\ calls # <<>> => Meets(Top, ctl, p, val)
  BY AtType
<1>2. Tally(q, c, Boxes(c) + Sum(c, calls)) /\ OK(q) /\ OK(p) /\ Stream
  BY State DEF Ahead, Tally
<1>3. Late(calls, q)
  BY <1>1, <1>2, LateStays DEF Ahead
<1>4. x \notin {"binary", "fold", "args", "branch", "letNext", "done", "type", "valueName", "reduce"} \cup Passing
  BY DEF TypeControls, Passing
<1>5. calls # <<>> => Meets(Top, x, q, val)
  <2> SUFFICES ASSUME calls # <<>> PROVE Meets(Top, x, q, val)
    OBVIOUS
  <2>1. Len(calls) \in 1..Len(calls)
    BY <1>1
  <2>2. Top.fn \notin Branching
    BY <1>1, <2>1 DEF Patternless, Top
  <2>3. Top.fn \notin PatternFrames /\ Top.fn # "casePattern"
    BY <2>2 DEF Branching
  <2> QED BY <1>4, <2>3 DEF Meets
<1>6. Goes(q, calls, x, val) /\ Plainly(x, q, val)
  BY <1>4 DEF Goes, Plainly
<1> DEFINE n == Boxes(c) + Sum(c, calls)
<1>7. Tally(q, c, n) /\ n = Boxes(c) + Sum(c, calls) + Passes(c, x, val)
  BY <1>1, <1>2, <1>4 DEF Passes
<1> HIDE DEF n
<1>8. Booked(c)
  BY <1>6, <1>7, Unframed
<1>9. calls # <<>> => Meets(calls[Len(calls)], x, q, val)
  BY <1>5 DEF Top
<1>10. Tidy'
  BY <1>1, <1>3, <1>6, <1>9, StaysTidy
<1> QED BY <1>8, <1>10 DEF Sound

(* A type is complete.                                                     *)
LEMMA TypeReturnSound ==
  ASSUME IInv, Ordered, Tidy, IInv', NEW c, NEW q, NEW n, Ahead(q, c, n),
         NEW cs \in Seq(Frame), Layered(cs), Patternless(cs), Late(cs, p),
         NEW v, cs # <<>> /\ cs[Len(cs)].fn \in {"type", "typeParen"} => v.cs = <<>>,
         n = Boxes(c) + Sum(c, cs) + Load(c, v), Return(q, cs, v)
  PROVE  Sound(c)
<1>1. Tally(q, c, n) /\ OK(q) /\ OK(p) /\ Stream
  BY State DEF Ahead, Tally
<1>2. Late(cs, q)
  BY <1>1, LateStays DEF Ahead
<1>3. cs # <<>> => Meets(cs[Len(cs)], "done", q, v)
  <2> SUFFICES ASSUME cs # <<>> PROVE Meets(cs[Len(cs)], "done", q, v)
    OBVIOUS
  <2> DEFINE fr == cs[Len(cs)]
  <2>1. Len(cs) \in 1..Len(cs)
    OBVIOUS
  <2>2. fr.fn \notin Branching
    BY <2>1 DEF Patternless
  <2>3. fr.fn \in {"type", "typeParen"} => v.cs = <<>>
    OBVIOUS
  <2> HIDE DEF fr
  <2>4. fr.fn \notin PatternFrames /\ fr.fn # "casePattern"
    BY <2>2 DEF Branching
  <2>5. Meets(fr, "done", q, v)
    BY <2>2, <2>3, <2>4, Zenon DEF Meets
  <2> QED BY <2>5 DEF fr
<1>4. Goes(q, cs, "done", v) /\ Plainly("done", q, v)
  BY DEF Goes, Return, Plainly
<1>5. Passes(c, "done", v) = Load(c, v)
  BY DEF Passes, Passing
<1>6. Booked(c)
  BY <1>1, <1>4, <1>5, Unframed
<1>7. Tidy'
  BY <1>2, <1>3, <1>4, StaysTidy
<1> QED BY <1>6, <1>7 DEF Sound

LEMMA TypeLeafSound ==
  ASSUME IInv, Ordered, Tidy, Fair, IInv', ctl \in TypeControls, NEW c, NEW q,
         Ahead(q, c, Boxes(c) + Sum(c, calls)), NEW from, NEW r, Return(q, calls, Leaf(from, r))
  PROVE  Sound(c)
<1> DEFINE v == Leaf(from, r)
           n == Boxes(c) + Sum(c, calls)
<1>1. /\ calls \in Seq(Frame) /\ Layered(calls) /\ Patternless(calls) /\ Late(calls, p)
      /\ Boxes(c) \in Nat /\ Sum(c, calls) \in Nat
  BY AtType
<1>2. Load(c, v) = 0 /\ v.cs = <<>>
  BY LeafLoad DEF Leaf, SpanNode
<1> HIDE DEF v
<1>3. Ahead(q, c, n) /\ n = Boxes(c) + Sum(c, calls) + Load(c, v)
  BY <1>1, <1>2
<1>4. Return(q, calls, v)
  BY DEF v
<1> HIDE DEF n
<1> QED BY <1>1, <1>2, <1>3, <1>4, TypeReturnSound

LEMMA TypeCloseSound ==
  ASSUME IInv, Ordered, Tidy, IInv', calls # <<>>, Top.fn \in TypeFrames, NEW c, NEW q, NEW m,
         NEW v, v.cs = <<>>, Load(c, v) = m, Ahead(q, c, Base(c) + m), Return(q, Pop, v)
  PROVE  Sound(c)
<1> DEFINE n == Base(c) + m
<1>1. Ahead(q, c, n) /\ n = Boxes(c) + Sum(c, Pop) + Load(c, v)
  BY DEF Base
<1> HIDE DEF n
<1> QED BY <1>1, BelowType, TypeReturnSound

(* A type comes back to a type.                                            *)
LEMMA GivenType ==
  ASSUME IInv, Ordered, Tidy, Fair, NEW fn \in TypeFrames, Resumes(fn), NEW c
  PROVE  LET fr == AddPart(Top, val)
             n == Base(c) + Times(c, fr.kept)
         IN  /\ calls # <<>> /\ Top \in Frame /\ Top.fn = fn /\ Neat(Top) /\ val \in Node
             /\ fn \in {"type", "typeParen"} => val.cs = <<>>
             /\ fr \in Frame /\ fr.fn = fn /\ Times(c, fr.kept) \in Nat /\ Base(c) \in Nat
             /\ Times(c, fr.kept) = Times(c, Top.kept) + Load(c, val) /\ Load(c, val) \in Nat
             /\ Times(c, Top.kept) \in Nat
             /\ Quiet(Top) => Quiet(fr)
             /\ fn # "arrow" => Quiet(Top) /\ Ahead(p, c, n)
             /\ Top.ops = <<>> /\ Times(c, Top.lead) \in Nat
             /\ Ahead(p, c, Base(c) + (Times(c, Top.lead) + Times(c, Top.kept)) + Load(c, val))
<1> USE State
<1> DEFINE fr == AddPart(Top, val)
           n == Base(c) + Times(c, fr.kept)
           m == Base(c) + Times(c, Top.kept) + Load(c, val)
<1>1. (fn # "arrow" => fn \notin Leading) /\ fn # "binary"
  BY DEF Leading, TypeFrames
<1>2. /\ calls # <<>> /\ Top \in Frame /\ Top.fn = fn /\ val \in Node /\ Neat(Top)
      /\ Meets(Top, "done", p, val) /\ Base(c) \in Nat /\ Times(c, Top.kept) \in Nat /\ Times(c, Top.lead) \in Nat
      /\ fn # "arrow" => Quiet(Top) /\ Tally(p, c, m)
      /\ Top.ops = <<>> /\ OpsLoad(c, Top.ops) = 0
      /\ Tally(p, c, Base(c) + Holds(c, Top) + Load(c, val))
      /\ Holds(c, Top) = Times(c, Top.lead) + Times(c, Top.kept) + OpsLoad(c, Top.ops)
  BY <1>1, Given
<1>3. fn \in {"type", "typeParen"} => val.cs = <<>>
  BY <1>2 DEF Meets
<1>4. /\ fr \in Frame /\ fr.fn = fn /\ (Quiet(Top) => Quiet(fr))
      /\ Times(c, fr.kept) = Times(c, Top.kept) + Load(c, val) /\ Load(c, val) \in Nat
  <2>1. /\ AddPart(Top, val) \in Frame /\ AddPart(Top, val).fn = Top.fn
        /\ Quiet(Top) => Quiet(AddPart(Top, val))
        /\ Times(c, AddPart(Top, val).kept) = Times(c, Top.kept) + Load(c, val) /\ Load(c, val) \in Nat
    <3>1. Top \in Frame /\ val \in Node
      BY <1>2
    <3> QED BY <3>1, Taken
  <2> QED BY <1>2, <2>1
<1>5. Past(p, p)
  BY PastItself
<1> HIDE DEF fr
<1>6. m = n /\ Times(c, fr.kept) \in Nat
  BY <1>2, <1>4
<1>7. Holds(c, Top) = Times(c, Top.lead) + Times(c, Top.kept)
  BY <1>2
<1> HIDE DEF n, m
<1>8. fn # "arrow" => Ahead(p, c, n)
  BY <1>2, <1>5, <1>6 DEF Ahead
<1>9. Ahead(p, c, Base(c) + (Times(c, Top.lead) + Times(c, Top.kept)) + Load(c, val))
  BY <1>2, <1>5, <1>7 DEF Ahead
<1> QED BY <1>2, <1>3, <1>4, <1>6, <1>8, <1>9 DEF fr, n

(* The next type, in a function that holds what fr does.                   *)
LEMMA TypeNextSound ==
  ASSUME IInv, Ordered, Tidy, IInv', calls # <<>>, Top.fn \in TypeFrames, NEW c, NEW q, NEW fr, Quiet(fr),
         Times(c, fr.kept) \in Nat, Ahead(q, c, Base(c) + Times(c, fr.kept)), NEW g, Kin(g, fr),
         g.fn \in TypeFrames \ Bare, NEW x \in TypeControls, Goto(q, Swap(g), x)
  PROVE  Sound(c)
<1> DEFINE n == Base(c) + Times(c, fr.kept)
<1>1. Quiet(g) /\ Holds(c, g) = Times(c, fr.kept)
  BY KinQuiet
<1>2. g.fn # "app" /\ g.fn \in TypeFrames /\ g.fn # "type" /\ g.fn # "typeParen"
  BY DEF TypeFrames, Bare
<1>3. Neat(g)
  BY <1>1, <1>2, QuietNeat
<1>4. Ahead(q, c, n) /\ n = Boxes(c) + Sum(c, Pop) + Holds(c, g)
  BY <1>1 DEF Base
<1>5. Goto(q, Append(Pop, g), x)
  BY DEF Swap
<1> HIDE DEF n
<1> QED BY <1>2, <1>3, <1>4, <1>5, BelowType, TypePushSound

(* A type that runs on its own locals.                                     *)
LEMMA RunningType ==
  ASSUME IInv, Ordered, Tidy, Fair, ctl \in {"typeName", "atomTypeName", "typeArgs", "typeField"}, NEW c
  PROVE  LET n == Base(c) + Times(c, Top.kept)
         IN  /\ calls # <<>> /\ Top \in Frame /\ Top.fn \in TypeFrames \ Bare /\ Quiet(Top)
             /\ Times(c, Top.kept) \in Nat /\ Ahead(p, c, n)
<1> USE State
<1>1. /\ ctl \in DOMAIN Owners /\ Owners[ctl] \in {"typeApp", "typeFields"} /\ ctl \notin Passing
  BY OwnersAre DEF Passing
<1>2. \A x \in {"typeApp", "typeFields"} : x \in TypeFrames \ Bare /\ x \notin Leading
  BY DEF TypeFrames, Leading, Bare
<1>3. /\ calls # <<>> /\ Top \in Frame /\ Top.fn = Owners[ctl] /\ Tally(p, c, Base(c) + Holds(c, Top))
      /\ Times(c, Top.kept) \in Nat /\ Quiet(Top)
  BY <1>1, <1>2, Running
<1>4. Holds(c, Top) = Times(c, Top.kept)
  BY <1>3, QuietHolds
<1>5. Past(p, p)
  BY PastItself
<1> DEFINE n == Base(c) + Times(c, Top.kept)
<1>6. Tally(p, c, n)
  BY <1>3, <1>4
<1> HIDE DEF n
<1> QED BY <1>1, <1>2, <1>3, <1>5, <1>6 DEF n, Ahead

(* The types with nothing nested in them, and where the others start.      *)
LEMMA TypeStartsSound ==
  ASSUME IInv, Ordered, Tidy, Fair, IInv', NEW c,
         \/ ParseType \/ ParseTypeApp \/ TypeVariable \/ AtomicTypeName \/ ParenType \/ RecordType \/ NotAType
  PROVE  Sound(c)
<1> USE State
<1> DEFINE q == Skip(p)
           a == Advance(q)
           r == Skip(a)
           s == Skip(Advance(r))
           n == Boxes(c) + Sum(c, calls)
           Starts(u, fr, x) == Goto(u, Append(calls, fr), x)
           Leaves(u, from) == Return(u, calls, Leaf(from, u))
<1>1. ctl \in {"type", "typeApp", "atomType"} /\ ctl \in TypeControls
  <2>1. ctl \in {"type", "typeApp", "atomType"}
    BY Zenon DEF ParseType, ParseTypeApp, TypeVariable, AtomicTypeName, ParenType, RecordType, NotAType
  <2> QED BY <2>1 DEF TypeControls
<1>2. /\ "typeApp" \in TypeFrames \ {"type"} /\ "typeParen" \in TypeFrames \ {"type"}
      /\ "typeFields" \in TypeFrames \ {"type"}
      /\ "typeName" \in TypeControls /\ "typeApp" \in TypeControls /\ "atomType" \in TypeControls
      /\ "atomTypeName" \in TypeControls /\ "type" \in TypeControls /\ "typeField" \in TypeControls
  BY DEF TypeFrames, TypeControls
<1>3. /\ calls \in Seq(Frame) /\ Layered(calls) /\ Patternless(calls) /\ Late(calls, p)
      /\ calls # <<>> => Meets(Top, ctl, p, val)
      /\ Boxes(c) \in Nat /\ Sum(c, calls) \in Nat /\ Ahead(p, c, n)
  BY <1>1, AtType
<1>4. Ahead(q, c, n) /\ ~q.raw
  <2> HIDE DEF n
  <2> QED BY <1>3, SkipAhead
<1>5. Ahead(a, c, n) /\ Ahead(r, c, n) /\ ~r.raw /\ Ahead(Advance(r), c, n)
  <2> HIDE DEF n, q
  <2> QED BY <1>4, OnwardAhead
<1>6. Ahead(s, c, n) /\ Ahead(Advance(s), c, n)
  <2> HIDE DEF n, r
  <2> QED BY <1>5, OnwardAhead
<1>7. ASSUME NEW u, Ahead(u, c, n), NEW fr, Empty(fr), fr.fn \in TypeFrames \ {"type"},
             NEW x \in TypeControls, fr.fn = "typeParen" /\ x = "type" => ~u.raw, Starts(u, fr, x)
      PROVE  Sound(c)
  BY <1>1, <1>7, TypeStartSound
<1>8. ASSUME NEW u, Ahead(u, c, n), NEW from, Leaves(u, from)
      PROVE  Sound(c)
  BY <1>1, <1>8, TypeLeafSound
<1>9. ASSUME NEW u, Fail(u) PROVE Sound(c)
  BY <1>9, FailSound
<1>10. CASE ParseType
  <2> DEFINE from == Here(p)
             snap == Snapshot(p)
             lim == FirstTokenOffset(p)
             fr == [New("type", from) EXCEPT !.snap = snap, !.lim = lim]
  <2>1. ctl = "type" /\ Starts(p, fr, "typeApp")
    BY <1>10, Zenon DEF ParseType
  <2>2. calls # <<>> /\ Top.fn = "typeParen" => lim <= Here(p) /\ \A k \in 1..Len(p.pending) : ~(k > snap)
    <3> SUFFICES ASSUME calls # <<>>, Top.fn = "typeParen"
                 PROVE  lim <= Here(p) /\ \A k \in 1..Len(p.pending) : ~(k > snap)
      OBVIOUS
    <3>1. ~p.raw
      BY <1>3, <2>1 DEF Meets
    <3>2. lim = Here(p)
      BY <3>1 DEF FirstTokenOffset, Here
    <3>3. Here(p) \in Nat /\ Len(p.pending) \in Nat
      BY HereIs
    <3> QED BY <3>2, <3>3 DEF Snapshot
  <2>3. calls # <<>> => Top.fn # "type"
    <3>1. "type" \in TypeFrames
      BY DEF TypeFrames
    <3> QED BY <1>3, <2>1 DEF Meets
  <2> HIDE DEF from, snap, lim
  <2>4. Empty(fr) /\ fr.fn = "type" /\ fr.lim = lim /\ fr.snap = snap
    BY DEF New, Empty, Quiet
  <2> HIDE DEF fr
  <2>5. Neat(fr) /\ Holds(c, fr) = 0
    <3>1. fr.fn # "app"
      BY <2>4
    <3> QED BY <2>4, <3>1, EmptyHolds
  <2>6. n = Boxes(c) + Sum(c, calls) + Holds(c, fr)
    BY <1>3, <2>5
  <2> HIDE DEF n
  <2>7. /\ fr.fn \in TypeFrames /\ "typeApp" \in TypeControls
        /\ fr.fn = "typeParen" /\ "typeApp" = "type" => ~p.raw
        /\ fr.fn = "type" => "typeApp" # "type"
        /\ fr.fn = "type" /\ calls # <<>> =>
             /\ calls[Len(calls)].fn # "type"
             /\ calls[Len(calls)].fn = "typeParen" =>
                  fr.lim <= Here(p) /\ \A k \in 1..Len(p.pending) : ~(k > fr.snap)
    BY <2>2, <2>3, <2>4 DEF Top, TypeFrames, TypeControls
  <2> QED BY <1>3, <2>1, <2>5, <2>6, <2>7, TypePushSound
<1>11. CASE ParseTypeApp
  <2>1. ctl = "typeApp" /\ (Starts(a, New("typeApp", Here(p)), "typeName") \/ Goto(q, calls, "atomType"))
    BY ZenonT(60), <1>11 DEF ParseTypeApp
  <2>2. Empty(New("typeApp", Here(p))) /\ New("typeApp", Here(p)).fn = "typeApp"
    BY NewEmpty
  <2>3. CASE Starts(a, New("typeApp", Here(p)), "typeName")
    <3> DEFINE fr == New("typeApp", Here(p))
    <3>1. Empty(fr) /\ fr.fn = "typeApp" /\ Starts(a, fr, "typeName")
      BY <2>2, <2>3
    <3> HIDE DEF fr, Starts, a, n
    <3> QED BY <1>2, <1>5, <1>7, <3>1
  <2>4. CASE Goto(q, calls, "atomType")
    <3>1. ctl \in TypeControls \ {"type"} /\ "atomType" \in TypeControls \ {"type"}
      BY <1>1, <1>2, <2>1
    <3> QED BY <1>4, <2>4, <3>1, TypeCarrySound
  <2> QED BY <2>1, <2>3, <2>4
<1>12. CASE TypeVariable
  <2>1. Leaves(a, Here(q))
    BY <1>12, Zenon DEF TypeVariable
  <2> HIDE DEF Leaves, a, n, q
  <2> QED BY <1>5, <1>8, <2>1
<1>13. ASSUME NEW fn \in TypeFrames \ {"type"}, NEW from, NEW u, Ahead(u, c, n), NEW x \in TypeControls,
              fn = "typeParen" /\ x = "type" => ~u.raw, Starts(u, New(fn, from), x)
       PROVE  Sound(c)
  <2>1. Empty(New(fn, from)) /\ New(fn, from).fn = fn
    BY NewEmpty
  <2> HIDE DEF Starts, n
  <2> QED BY SMTT(30), <1>7, <1>13, <2>1
<1>14. CASE AtomicTypeName
  <2>1. Starts(a, New("typeApp", Here(q)), "atomTypeName")
    BY <1>14, Zenon DEF AtomicTypeName
  <2> HIDE DEF Starts, a, n, q
  <2> QED BY <1>2, <1>5, <1>13, <2>1
<1>15. CASE ParenType
  <2>1. Leaves(Advance(r), Here(q)) \/ Starts(r, New("typeParen", Here(q)), "type")
    BY <1>15, Zenon DEF ParenType
  <2> HIDE DEF Leaves, Starts, r, n, q
  <2> QED BY <1>2, <1>5, <1>8, <1>13, <2>1
<1>16. CASE RecordType
  <2> DEFINE back == Back(r)
             Fields(u) == [New("typeFields", Here(q)) EXCEPT !.snap = Snapshot(u)]
  <2>1. /\ AtRecord(q)
        /\ \/ Leaves(Advance(r), Here(q))
           \/ Starts(Advance(s), Fields(Advance(s)), "typeField")
           \/ Peek(r) = "lower" /\ Starts(back, Fields(back), "typeField")
           \/ Starts(r, Fields(r), "typeField")
    BY <1>16, Zenon DEF RecordType, Back, AtRecord
  <2>2. Peek(r) = "lower" => Ahead(back, c, n)
    <3> SUFFICES ASSUME Peek(r) = "lower" PROVE Ahead(back, c, n)
      OBVIOUS
    <3>1. OK(q) /\ Tally(r, c, n) /\ OK(r)
      BY <1>4, <1>5 DEF Ahead, Tally
    <3> HIDE DEF n, q
    <3>2. Tally(Back(r), c, n)
      BY <2>1, <3>1, BackTally
    <3>3. Past(r, Back(r)) /\ OK(Back(r))
      BY <2>1, <3>1, BackPast
    <3> HIDE DEF r
    <3>4. Past(p, Back(r))
      BY <1>5, <3>1, <3>3, PastOn DEF Ahead
    <3> QED BY <3>2, <3>4 DEF Ahead
  <2>3. \A u : Empty(Fields(u)) /\ Fields(u).fn = "typeFields"
    BY DEF New, Empty, Quiet
  <2> HIDE DEF Fields
  <2>4. ASSUME NEW u, Ahead(u, c, n), Starts(u, Fields(u), "typeField") PROVE Sound(c)
    <3> HIDE DEF Starts, n
    <3> QED BY <1>2, <1>7, <2>3, <2>4
  <2> HIDE DEF Leaves, Starts, n, back, r, s, q
  <2> QED BY <1>5, <1>6, <1>8, <2>1, <2>2, <2>4
<1>17. CASE NotAType
  BY <1>9, <1>17 DEF NotAType
<1> QED BY <1>10, <1>11, <1>12, <1>14, <1>15, <1>16, <1>17

(* The first arm of a type: what is found before it, and before an arrow.  *)
LEMMA FirstArmSound ==
  ASSUME IInv, Ordered, Tidy, Fair, IInv', AfterFirstArm, NEW c
  PROVE  Sound(c)
<1> USE State
<1> DEFINE snap == Top.snap
           early == Before(p, Top.lim)
           first == Claimed(p, snap, early)
           left == Lead(val, first)
           u == Unclaimed(p, snap, early)
           q == Skip(u)
           gap == Between(q, left.to, Here(q))
           then == Claimed(q, 0, gap)
           w == Unclaimed(q, 0, gap)
           g == AddPart(Top, left)
           fr == [g EXCEPT !.fn = "arrow", !.lead = then]
<1>1. Resumes("type") /\ (Goto(Advance(w), Swap(fr), "type") \/ Return(q, Pop, left))
  BY Zenon DEF AfterFirstArm
<1>2. "type" \in TypeFrames /\ "type" \in Bare
  BY DEF TypeFrames, Bare
<1>3. /\ calls # <<>> /\ Top \in Frame /\ Top.fn = "type" /\ Neat(Top) /\ val \in Node /\ val.cs = <<>>
      /\ Base(c) \in Nat /\ Load(c, val) \in Nat /\ Quiet(Top)
      /\ Times(c, AddPart(Top, val).kept) = Times(c, Top.kept) + Load(c, val)
      /\ Ahead(p, c, Base(c) + Times(c, AddPart(Top, val).kept))
  <2> DEFINE h == AddPart(Top, val)
  <2> HIDE DEF h
  <2> QED BY <1>1, <1>2, GivenType DEF h
<1>4. Times(c, Top.kept) = 0
  BY <1>2, <1>3, TimesNone, Zenon DEF Neat
<1>5. Ahead(p, c, Base(c) + Load(c, val))
  <2> DEFINE m == Base(c) + Times(c, AddPart(Top, val).kept)
  <2>1. Ahead(p, c, m) /\ m = Base(c) + Load(c, val)
    BY <1>3, <1>4
  <2> HIDE DEF m
  <2> QED BY <2>1
<1>6. snap \in Nat
  BY <1>3 DEF Frame
<1>7. /\ Ahead(u, c, (Base(c) + Load(c, val)) + Times(c, first)) /\ first \in Seq(Comment) /\ Times(c, first) \in Nat
  <2> DEFINE m == Base(c) + Load(c, val)
  <2>1. Ahead(p, c, m)
    BY <1>5
  <2> HIDE DEF m, snap, early
  <2> QED BY <1>6, <2>1, ClaimAhead DEF m
<1>8. left \in Node /\ Load(c, left) = Load(c, val) + Times(c, first)
  <2> HIDE DEF first
  <2>1. left \in Node
    BY <1>3, <1>7, LeadType
  <2>2. Load(c, left) = Load(c, val) + Times(c, first)
    BY <1>3, <1>7, LeadLoad
  <2> QED BY <2>1, <2>2
<1> DEFINE m == Base(c) + Load(c, left)
<1>9. Ahead(u, c, m)
  <2>1. (Base(c) + Load(c, val)) + Times(c, first) = m
    <3> HIDE DEF first, left
    <3> QED BY <1>3, <1>7, <1>8
  <2> HIDE DEF m, u, first
  <2> QED BY <1>7, <2>1
<1>10. Ahead(q, c, m) /\ ~q.raw
  <2> HIDE DEF m, u
  <2> QED BY <1>9, SkipAhead
<1>11. Ahead(w, c, m + Times(c, then)) /\ then \in Seq(Comment) /\ Times(c, then) \in Nat /\ ~w.raw
  <2> HIDE DEF m, q, gap
  <2>1. 0 \in Nat
    OBVIOUS
  <2>2. /\ Ahead(w, c, m + Times(c, then)) /\ then \in Seq(Comment) /\ Times(c, then) \in Nat /\ w.raw = q.raw
    BY <1>10, <2>1, ClaimAhead
  <2> QED BY <1>10, <2>2
<1>12. g \in Frame /\ Times(c, g.kept) = Load(c, left) /\ g.ops = <<>> /\ Load(c, left) \in Nat
  <2> HIDE DEF left
  <2>1. Top \in Frame
    BY <1>3
  <2>2. AddPart(Top, left) \in Frame /\ AddPart(Top, left).ops = Top.ops
        /\ Times(c, AddPart(Top, left).kept) = Times(c, Top.kept) + Load(c, left) /\ Load(c, left) \in Nat
    BY <1>8, <2>1, Taken
  <2> QED BY <1>3, <1>4, <2>2 DEF Quiet
<1>13. fr.fn = "arrow" /\ fr.lead = then /\ fr.kept = g.kept /\ fr.ops = <<>>
  <2> HIDE DEF g, then
  <2> QED BY <1>12 DEF Frame
<1>14. CASE Goto(Advance(w), Swap(fr), "type")
  <2> HIDE DEF then, g, left, w
  <2> DEFINE k == m + Times(c, then)
  <2>1. Ahead(Advance(w), c, k)
    <3> HIDE DEF k
    <3> QED BY <1>11, AdvanceAhead DEF k
  <2>2. Holds(c, fr) = Times(c, then) + Load(c, left)
    <3>1. OpsLoad(c, <<>>) = 0
      <4>1. <<>> \in Seq(PendingOp)
        OBVIOUS
      <4> QED BY <4>1, OpsLoads
    <3>2. Times(c, fr.lead) = Times(c, then) /\ Times(c, fr.kept) = Load(c, left) /\ OpsLoad(c, fr.ops) = 0
      <4> HIDE DEF fr
      <4> QED BY <1>12, <1>13, <3>1
    <3> QED BY <1>11, <1>12, <3>2 DEF Holds
  <2>3. k = Boxes(c) + Sum(c, Pop) + Holds(c, fr)
    <3>1. k = Base(c) + Load(c, left) + Times(c, then)
      OBVIOUS
    <3> QED BY <1>3, <1>11, <1>12, <2>2, <3>1 DEF Base
  <2> HIDE DEF k
  <2>4. Goto(Advance(w), Append(Pop, fr), "type")
    BY <1>14 DEF Swap
  <2> HIDE DEF fr
  <2>5. Neat(fr) /\ fr.fn \in TypeFrames /\ fr.fn # "typeParen" /\ fr.fn # "type" /\ "type" \in TypeControls
    BY <1>13 DEF Neat, TypeFrames, TypeControls, Leading, Bare
  <2>6. Pop \in Seq(Frame) /\ Layered(Pop) /\ Patternless(Pop) /\ Late(Pop, p)
    BY <1>2, <1>3, BelowType
  <2> QED BY <2>1, <2>3, <2>4, <2>5, <2>6, TypePushSound
<1>15. Pop # <<>> /\ Pop[Len(Pop)].fn \in {"type", "typeParen"} => left.cs = <<>>
  <2> SUFFICES ASSUME Pop # <<>>, Pop[Len(Pop)].fn \in {"type", "typeParen"} PROVE left.cs = <<>>
    OBVIOUS
  <2> DEFINE i == Len(Pop)
  <2>1. /\ Pop \in Seq(Frame) /\ i = Len(calls) - 1 /\ Len(calls) \in Nat
        /\ \A j \in 1..Len(Pop) : Pop[j] = calls[j]
    BY <1>3, TopAndPop
  <2>2. i \in 1..Len(Pop) /\ i \in 1..(Len(calls) - 1) /\ i + 1 = Len(calls)
    BY <2>1, EmptySeq
  <2> HIDE DEF i
  <2>3. calls[i].fn \in {"type", "typeParen"} /\ calls[i + 1] = Top
    BY <2>1, <2>2 DEF Top, i
  <2>4. calls[i].fn # "type"
    BY <1>3, <2>2, <2>3 DEF Tidy, Layered
  <2>5. \A k \in 1..Len(p.pending) : k > snap => p.pending[k].ix >= Top.lim
    <3>1. Late(calls, p)
      BY DEF Tidy
    <3> QED BY <1>3, <2>2, <2>3, <2>4, <3>1 DEF Late
  <2>6. first = <<>>
    <3> DEFINE s == Since(p, snap)
    <3>1. s \in Seq(Comment) /\ p.pending \in Seq(Comment) /\ Len(p.pending) \in Nat
      <4>1. OK(p)
        BY <1>5 DEF Ahead, Tally
      <4>2. p.pending \in Seq(Comment)
        BY <4>1, PendingType
      <4> HIDE DEF snap
      <4>3. Since(p, snap) \in Seq(Comment)
        BY <1>6, <4>1, SinceType
      <4> QED BY <4>2, <4>3
    <3>2. ASSUME NEW k \in 1..Len(s) PROVE s[k] \notin early
      <4>1. CASE snap >= Len(p.pending)
        <5>1. s = <<>>
          <6> HIDE DEF snap
          <6> QED BY <4>1 DEF Since
        <5> HIDE DEF s, early
        <5>2. Len(s) = 0
          BY <5>1
        <5> QED BY <3>2, <5>2
      <4>2. CASE ~(snap >= Len(p.pending))
        <5> DEFINE b == p.pending
        <5>1. s = SubSeq(b, snap + 1, Len(b)) /\ snap < Len(b)
          <6>1. s = SubSeq(b, snap + 1, Len(b))
            <7> HIDE DEF snap
            <7> QED BY <4>2, Zenon DEF Since
          <6> HIDE DEF snap
          <6> QED BY <1>6, <3>1, <4>2, <6>1
        <5>2. b \in Seq(Comment)
          BY <3>1
        <5> HIDE DEF s, b, snap
        <5> DEFINE l == Len(b)
        <5>0. l \in Nat /\ k \in 1..Len(s)
          BY <3>1, <3>2 DEF b, s
        <5>3. Len(s) = l - snap /\ \A j \in 1..(l - snap) : s[j] = b[snap + j]
          BY <1>6, <5>0, <5>1, <5>2
        <5>4. snap + k \in 1..Len(b) /\ snap + k > snap /\ s[k] = b[snap + k]
          <6> HIDE DEF l
          <6>1. k \in 1..(l - snap) /\ s[k] = b[snap + k]
            BY <5>0, <5>3
          <6>2. snap + k \in 1..l /\ snap + k > snap
            BY <1>6, <5>0, <6>1
          <6> QED BY <6>1, <6>2 DEF l
        <5>5. s[k].ix >= Top.lim
          BY <2>5, <5>4 DEF b, snap
        <5>6. s[k].ix \in Nat /\ Top.lim \in Nat
          <6>1. b[snap + k] \in Comment
            BY <5>2, <5>4
          <6> QED BY <1>3, <5>4, <6>1 DEF Comment, Frame
        <5> QED BY <5>5, <5>6 DEF Before
      <4> QED BY <4>1, <4>2
    <3> HIDE DEF s, early
    <3>3. Select(s, early) = <<>>
      BY <3>1, <3>2, SelectNone
    <3> QED BY <3>3 DEF Claimed, s
  <2>7. left.cs = <<>> \o val.cs
    <3> HIDE DEF first
    <3> QED BY <1>3, <2>6 DEF Lead, Node
  <2>8. <<>> \o <<>> = <<>>
    BY ConcatEmptySeq
  <2> HIDE DEF left
  <2> QED BY <1>3, <2>7, <2>8
<1>16. CASE Return(q, Pop, left)
  <2> HIDE DEF left, q
  <2>1. Pop \in Seq(Frame) /\ Layered(Pop) /\ Patternless(Pop) /\ Late(Pop, p)
    BY <1>2, <1>3, BelowType
  <2>2. m = Boxes(c) + Sum(c, Pop) + Load(c, left)
    BY DEF Base
  <2> HIDE DEF m
  <2> QED BY <1>10, <1>15, <1>16, <2>1, <2>2, TypeReturnSound
<1> QED BY <1>1, <1>14, <1>16

(* What a type is built of is what its function has kept.                  *)
LEMMA TypeEndSound ==
  ASSUME IInv, Ordered, Tidy, IInv', calls # <<>>, Top.fn \in TypeFrames, NEW c, NEW q, NEW fr \in Frame, NEW r,
         Ahead(q, c, Base(c) + Times(c, fr.kept)), Return(q, Pop, Close(fr, r))
  PROVE  Sound(c)
<1> DEFINE v == Close(fr, r)
           m == Times(c, fr.kept)
<1>1. v.cs = <<>>
  BY DEF Close, SpanNode
<1>2. Load(c, v) = m
  BY CloseLoad
<1>3. Ahead(q, c, Base(c) + m) /\ Return(q, Pop, v)
  OBVIOUS
<1> HIDE DEF v, m
<1> QED BY <1>1, <1>2, <1>3, TypeCloseSound

LEMMA ArrowSound ==
  ASSUME IInv, Ordered, Tidy, Fair, IInv', AfterArrow, NEW c
  PROVE  Sound(c)
<1> DEFINE right == Lead(val, Top.lead)
           g == AddPart(Top, right)
           v == [Close(g, p) EXCEPT !.arrow = TRUE]
<1>1. Resumes("arrow") /\ Return(p, Pop, v)
  BY Zenon DEF AfterArrow
<1>2. "arrow" \in TypeFrames
  BY DEF TypeFrames
<1>3. /\ calls # <<>> /\ Top \in Frame /\ Top.fn = "arrow" /\ val \in Node
      /\ Base(c) \in Nat /\ Load(c, val) \in Nat /\ Times(c, Top.kept) \in Nat /\ Times(c, Top.lead) \in Nat
      /\ Ahead(p, c, Base(c) + (Times(c, Top.lead) + Times(c, Top.kept)) + Load(c, val))
  <2> DEFINE h == AddPart(Top, val)
  <2> HIDE DEF h
  <2> QED BY <1>1, <1>2, GivenType DEF h
<1>4. Top.lead \in Seq(Comment)
  BY <1>3 DEF Frame
<1>5. right \in Node /\ Load(c, right) = Load(c, val) + Times(c, Top.lead)
  <2>1. right \in Node
    BY <1>3, <1>4, LeadType
  <2>2. Load(c, right) = Load(c, val) + Times(c, Top.lead)
    BY <1>3, <1>4, LeadLoad
  <2> QED BY <2>1, <2>2
<1>6. g \in Frame /\ Times(c, g.kept) = Times(c, Top.kept) + Load(c, right)
  <2> HIDE DEF right
  <2>1. Top \in Frame /\ right \in Node
    BY <1>3, <1>5
  <2>2. AddPart(Top, right) \in Frame
        /\ Times(c, AddPart(Top, right).kept) = Times(c, Top.kept) + Load(c, right)
    BY <2>1, Taken
  <2> QED BY <2>2
<1> DEFINE m == Times(c, g.kept)
<1>7. Base(c) + (Times(c, Top.lead) + Times(c, Top.kept)) + Load(c, val) = Base(c) + m
  <2> HIDE DEF g, right
  <2> QED BY <1>3, <1>5, <1>6
<1>8. Ahead(p, c, Base(c) + m)
  <2> DEFINE k == Base(c) + (Times(c, Top.lead) + Times(c, Top.kept)) + Load(c, val)
             l == Base(c) + m
  <2>1. Ahead(p, c, k) /\ k = l
    BY <1>3, <1>7
  <2> HIDE DEF k, l
  <2> QED BY <2>1 DEF l
<1>9. v.cs = <<>> /\ Load(c, v) = m
  <2> HIDE DEF g
  <2>1. v.cs = <<>> /\ v.kept = Close(g, p).kept /\ Close(g, p).cs = <<>>
    BY DEF Close, SpanNode
  <2>2. Carried(v) = Carried(Close(g, p))
    BY <2>1, Zenon DEF Carried
  <2>3. Load(c, Close(g, p)) = m
    BY <1>6, CloseLoad
  <2> HIDE DEF v
  <2> QED BY <2>1, <2>2, <2>3 DEF Load
<1> HIDE DEF v, m
<1> QED BY <1>1, <1>2, <1>3, <1>8, <1>9, TypeCloseSound

(* Names, and their arguments.                                             *)
LEMMA TypeNamesSound ==
  ASSUME IInv, Ordered, Tidy, Fair, IInv', NEW c, QualifyType \/ TypeArguments \/ AfterTypeArgument
  PROVE  Sound(c)
<1> DEFINE n == Base(c) + Times(c, Top.kept)
<1>1. /\ "typeApp" \in TypeFrames \ Bare /\ "typeArgs" \in TypeControls
      /\ "atomType" \in TypeControls \ {"type"}
      /\ \A x \in {"typeName", "atomTypeName", "typeArgs"} : x \in TypeControls \ {"type"}
  BY DEF TypeFrames, Bare, TypeControls
<1>2. CASE AfterTypeArgument
  <2> DEFINE fr == AddPart(Top, val)
  <2>1. Resumes("typeApp") /\ Goto(p, Swap(fr), "typeArgs")
    BY <1>2, Zenon DEF AfterTypeArgument
  <2>2. "typeApp" # "arrow"
    OBVIOUS
  <2> HIDE DEF fr
  <2>3. /\ calls # <<>> /\ Top.fn = "typeApp" /\ fr.fn = "typeApp" /\ Quiet(fr) /\ Times(c, fr.kept) \in Nat
        /\ Ahead(p, c, Base(c) + Times(c, fr.kept))
    BY <1>1, <2>1, <2>2, GivenType DEF fr
  <2>4. Kin(fr, fr)
    BY DEF Kin
  <2> QED BY <1>1, <2>1, <2>3, <2>4, TypeNextSound
<1>3. ASSUME QualifyType \/ TypeArguments
      PROVE  /\ ctl \in {"typeName", "atomTypeName", "typeArgs"}
             /\ ctl \in {"typeName", "atomTypeName", "typeArgs", "typeField"}
  BY <1>3, Zenon DEF QualifyType, TypeArguments
<1>4. ASSUME ctl \in {"typeName", "atomTypeName", "typeArgs", "typeField"}
      PROVE  /\ calls # <<>> /\ Top \in Frame /\ Top.fn \in TypeFrames \ Bare /\ Quiet(Top)
             /\ Times(c, Top.kept) \in Nat /\ Ahead(p, c, n)
  BY <1>4, RunningType
<1>5. n = Boxes(c) + Sum(c, Pop) + Times(c, Top.kept)
  BY DEF Base
<1>6. CASE QualifyType
  <2> DEFINE a == Advance(Advance(p))
             g == [Top EXCEPT !.col = toks[p.pos - 1].col, !.line = toks[p.pos - 1].line]
  <2>1. \/ Peek(p) = "." /\ Peek(Advance(p)) = "upper" /\ Goto(a, calls, ctl)
        \/ Goto(p, Swap(g), "typeArgs")
        \/ Return(p, Pop, Close(Top, p))
    BY <1>6, Zenon DEF QualifyType
  <2>2. CASE Peek(p) = "." /\ Peek(Advance(p)) = "upper" /\ Goto(a, calls, ctl)
    <3> DEFINE k == Boxes(c) + Sum(c, calls)
    <3>1. Ahead(p, c, k)
      BY <1>1, <1>3, <1>6, AtType
    <3> HIDE DEF k
    <3>2. Ahead(a, c, k)
      <4>1. Ahead(Advance(p), c, k)
        BY <2>2, <3>1, AdvanceAhead
      <4> QED BY <2>2, <4>1, AdvanceAhead
    <3>3. ctl \in TypeControls \ {"type"}
      BY <1>1, <1>3, <1>6
    <3> HIDE DEF a
    <3> QED BY <2>2, <3>2, <3>3, TypeCarrySound DEF k
  <2>3. CASE Goto(p, Swap(g), "typeArgs")
    <3> DEFINE x == toks[p.pos - 1].col
               y == toks[p.pos - 1].line
    <3>1. Kin(g, Top) /\ g.fn = Top.fn
      <4>1. Top \in Frame
        BY <1>3, <1>4, <1>6
      <4>2. g = [Top EXCEPT !.col = x, !.line = y]
        OBVIOUS
      <4> HIDE DEF x, y, g
      <4> QED BY <4>1, <4>2 DEF Kin, Frame
    <3> HIDE DEF g
    <3> QED BY <1>1, <1>3, <1>4, <1>6, <2>3, <3>1, TypeNextSound
  <2>4. CASE Return(p, Pop, Close(Top, p))
    BY <1>3, <1>4, <1>6, <2>4, TypeEndSound
  <2> QED BY <2>1, <2>2, <2>3, <2>4
<1>7. CASE TypeArguments
  <2> DEFINE q == Skip(p)
  <2>1. Goto(q, calls, "atomType") \/ Return(q, Pop, Close(Top, q))
    BY <1>7, Zenon DEF TypeArguments
  <2>2. CASE Goto(q, calls, "atomType")
    <3> DEFINE k == Boxes(c) + Sum(c, calls)
    <3>1. Ahead(p, c, k)
      BY <1>1, <1>3, <1>7, AtType
    <3> HIDE DEF k
    <3>2. Ahead(q, c, k)
      BY <3>1, SkipAhead
    <3>3. ctl \in TypeControls \ {"type"}
      BY <1>1, <1>3, <1>7
    <3> HIDE DEF q
    <3> QED BY <1>1, <2>2, <3>2, <3>3, TypeCarrySound DEF k
  <2>3. CASE Return(q, Pop, Close(Top, q))
    <3>1. Ahead(p, c, n)
      BY <1>3, <1>4, <1>7
    <3>2. Ahead(q, c, n)
      <4> HIDE DEF n
      <4> QED BY <3>1, SkipAhead
    <3> HIDE DEF q
    <3> QED BY <1>3, <1>4, <1>7, <2>3, <3>2, TypeEndSound
  <2> QED BY <2>1, <2>2, <2>3
<1> QED BY <1>2, <1>6, <1>7

(* The parts of a tuple type.                                              *)
LEMMA TupleTypeSound ==
  ASSUME IInv, Ordered, Tidy, Fair, IInv', AfterTupleType, NEW c
  PROVE  Sound(c)
<1> DEFINE q == Skip(p)
           a == Advance(q)
           fr == AddPart(Top, val)
           n == Base(c) + Times(c, fr.kept)
<1>1. Resumes("typeTuple") /\ (Goto(a, Swap(fr), "type") \/ Return(a, Pop, Close(fr, a)) \/ Fail(q))
  BY Zenon DEF AfterTupleType
<1>2. "typeTuple" \in TypeFrames \ Bare /\ "typeTuple" # "arrow" /\ "type" \in TypeControls
  BY DEF TypeFrames, Bare, TypeControls
<1>3. /\ calls # <<>> /\ Top.fn = "typeTuple" /\ fr \in Frame /\ fr.fn = "typeTuple" /\ Quiet(fr)
      /\ Times(c, fr.kept) \in Nat /\ Ahead(p, c, n)
  <2> HIDE DEF fr
  <2> QED BY <1>1, <1>2, GivenType DEF fr
<1>4. Ahead(q, c, n) /\ ~q.raw
  <2> HIDE DEF n
  <2> QED BY <1>3, SkipAhead
<1>5. Ahead(a, c, n)
  <2> HIDE DEF n, q
  <2> QED BY <1>4, OnwardAhead
<1>6. Kin(fr, fr)
  BY DEF Kin
<1> HIDE DEF a, fr, q
<1>7. CASE Goto(a, Swap(fr), "type")
  BY <1>2, <1>3, <1>5, <1>6, <1>7, TypeNextSound
<1>8. CASE Return(a, Pop, Close(fr, a))
  BY <1>2, <1>3, <1>5, <1>8, TypeEndSound
<1> QED BY <1>1, <1>7, <1>8, FailSound

(* A type in parentheses, which has no comments of its own, comes back as  *)
(* it is, or rebuilt with the same contents.                               *)
LEMMA FirstInTypeSound ==
  ASSUME IInv, Ordered, Tidy, Fair, IInv', AfterFirstInType, NEW c
  PROVE  Sound(c)
<1> DEFINE q == Skip(p)
           r == Advance(q)
           fr == AddPart(Top, val)
           g == [fr EXCEPT !.fn = "typeTuple"]
           span == SpanNode(Top.from, r, val.kept, val.sub)
           rewrapped == [span EXCEPT !.arrow = TRUE]
           n == Base(c) + Times(c, fr.kept)
<1>1. /\ Resumes("typeParen")
      /\ Goto(r, Swap(g), "type") \/ Return(r, Pop, rewrapped) \/ Return(r, Pop, val) \/ Fail(q)
  BY Zenon DEF AfterFirstInType
<1>2. /\ "typeParen" \in TypeFrames /\ "typeParen" \in Bare /\ "typeParen" # "arrow" /\ "type" \in TypeControls
      /\ "typeTuple" \in TypeFrames \ Bare
  BY DEF TypeFrames, Bare, TypeControls
<1>3. /\ calls # <<>> /\ Top \in Frame /\ Top.fn = "typeParen" /\ Neat(Top) /\ val \in Node /\ val.cs = <<>>
      /\ Base(c) \in Nat /\ Load(c, val) \in Nat /\ fr \in Frame /\ Quiet(fr) /\ Times(c, fr.kept) \in Nat
      /\ Times(c, fr.kept) = Times(c, Top.kept) + Load(c, val)
      /\ Ahead(p, c, n)
  <2> HIDE DEF fr
  <2> QED BY <1>1, <1>2, GivenType DEF fr
<1>4. Times(c, fr.kept) = Load(c, val)
  <2>1. Times(c, Top.kept) = 0
    BY <1>2, <1>3, TimesNone, Zenon DEF Neat
  <2> HIDE DEF fr
  <2> QED BY <1>3, <2>1
<1>5. Ahead(q, c, n) /\ ~q.raw
  <2> HIDE DEF n
  <2> QED BY <1>3, SkipAhead
<1>6. Ahead(r, c, n)
  <2> HIDE DEF n, q
  <2> QED BY <1>5, OnwardAhead
<1>7. CASE Goto(r, Swap(g), "type")
  <2> HIDE DEF fr, r
  <2>1. Kin(g, fr) /\ g.fn = "typeTuple"
    BY <1>3 DEF Kin, Frame
  <2> HIDE DEF g
  <2> QED BY <1>2, <1>3, <1>6, <1>7, <2>1, TypeNextSound
<1> DEFINE m == Load(c, val)
<1>8. Ahead(r, c, Base(c) + m)
  <2> HIDE DEF r, fr
  <2> QED BY <1>4, <1>6
<1>9. CASE Return(r, Pop, val)
  <2> HIDE DEF r
  <2> QED BY <1>2, <1>3, <1>8, <1>9, TypeCloseSound
<1>10. CASE Return(r, Pop, rewrapped)
  <2>1. span.cs = <<>> /\ rewrapped.cs = <<>> /\ rewrapped.kept = val.kept
    BY DEF SpanNode
  <2>2. Carried(rewrapped) = Carried(val)
    <3> HIDE DEF rewrapped
    <3> QED BY <1>3, <2>1, Zenon DEF Carried
  <2> HIDE DEF rewrapped, r
  <2>3. Load(c, rewrapped) = m
    BY <2>2 DEF Load
  <2> HIDE DEF m
  <2> QED BY <1>2, <1>3, <1>8, <1>10, <2>1, <2>3, TypeCloseSound
<1> QED BY <1>1, <1>7, <1>9, <1>10, FailSound

LEMMA TypeFieldSound ==
  ASSUME IInv, Ordered, Tidy, Fair, IInv', TypeField, NEW c
  PROVE  Sound(c)
<1> DEFINE q == Skip(p)
           r == Skip(Advance(q))
           a == Advance(r)
           g == [Top EXCEPT !.mark = Here(p)]
           n == Base(c) + Times(c, Top.kept)
<1>1. /\ ctl \in {"typeName", "atomTypeName", "typeArgs", "typeField"}
      /\ Fail(q) \/ Fail(r) \/ Goto(a, Swap(g), "type")
  <2>1. ctl = "typeField" /\ (Fail(q) \/ Fail(r) \/ Goto(a, Swap(g), "type"))
    BY Zenon DEF TypeField
  <2> QED BY <2>1
<1>2. /\ calls # <<>> /\ Top \in Frame /\ Top.fn \in TypeFrames \ Bare /\ Quiet(Top)
      /\ Times(c, Top.kept) \in Nat /\ Ahead(p, c, n)
  BY <1>1, RunningType
<1>3. Ahead(q, c, n) /\ ~q.raw
  <2> HIDE DEF n
  <2> QED BY <1>2, SkipAhead
<1>4. Ahead(a, c, n)
  <2> HIDE DEF n, q
  <2> QED BY <1>3, OnwardAhead
<1>5. Kin(g, Top) /\ g.fn = Top.fn
  <2> DEFINE h == Here(p)
  <2>1. g = [Top EXCEPT !.mark = h]
    OBVIOUS
  <2> HIDE DEF h, g
  <2> QED BY <1>2, <2>1 DEF Kin, Frame
<1>6. "type" \in TypeControls
  BY DEF TypeControls
<1> HIDE DEF g, a, r, q
<1>7. CASE Goto(a, Swap(g), "type")
  BY <1>2, <1>4, <1>5, <1>6, <1>7, TypeNextSound
<1> QED BY <1>1, <1>7, FailSound

(* A field of a record type claims the comments between it and the last.   *)
LEMMA TypeFieldTypeSound ==
  ASSUME IInv, Ordered, Tidy, Fair, IInv', AfterTypeField, NEW c
  PROVE  Sound(c)
<1> USE State
<1> DEFINE kept == Carried(val)
           field == SpanNode(Top.mark, p, kept, val.sub)
           gap == IF Top.n = 0 THEN {} ELSE Between(p, Top.last.to, field.from)
           snap == Top.snap
           claim == Claimed(p, snap, gap)
           whole == Lead(field, claim)
           fr == AddPart(Top, whole)
           u == Unclaimed(p, snap, gap)
           q == Skip(u)
           a == Advance(q)
           m == Base(c) + (Times(c, Top.kept) + Load(c, val))
           n == Base(c) + Times(c, fr.kept)
<1>1. Resumes("typeFields")
  BY Zenon DEF AfterTypeField
<1>2. "typeFields" \in TypeFrames \ Bare /\ "typeFields" # "arrow" /\ "typeField" \in TypeControls
  BY DEF TypeFrames, Bare, TypeControls
<1>3. /\ calls # <<>> /\ Top \in Frame /\ Top.fn = "typeFields" /\ val \in Node /\ Quiet(Top)
      /\ Base(c) \in Nat /\ Load(c, val) \in Nat /\ Times(c, Top.kept) \in Nat
      /\ Ahead(p, c, m)
  <2> DEFINE h == AddPart(Top, val)
  <2>1. /\ calls # <<>> /\ Top \in Frame /\ Top.fn = "typeFields" /\ val \in Node /\ Quiet(Top)
        /\ Base(c) \in Nat /\ Load(c, val) \in Nat /\ Times(c, Top.kept) \in Nat
        /\ Ahead(p, c, Base(c) + Times(c, h.kept)) /\ Times(c, h.kept) = Times(c, Top.kept) + Load(c, val)
    <3> HIDE DEF h
    <3> QED BY <1>1, <1>2, GivenType DEF h
  <2> DEFINE k == Base(c) + Times(c, h.kept)
  <2>2. Ahead(p, c, k) /\ k = m
    <3> HIDE DEF h
    <3> QED BY <2>1
  <2> HIDE DEF k, m, h
  <2> QED BY <2>1, <2>2
<1>4. snap \in Nat /\ Top.mark \in Nat /\ val.sub \in SUBSET Span /\ kept \in Seq(Comment)
  BY <1>3, FrameParts, NodeParts DEF Frame
<1>5. field \in Node /\ Load(c, field) = Load(c, val)
  <2> HIDE DEF kept
  <2>1. field \in Node
    BY <1>4, SpanNodeType
  <2>2. Load(c, field) = Times(c, kept)
    BY <1>4, SpanNodeLoad
  <2> QED BY <2>1, <2>2 DEF kept, Load
<1> HIDE DEF field, snap, gap
<1>6. Ahead(u, c, m + Times(c, claim)) /\ claim \in Seq(Comment) /\ Times(c, claim) \in Nat
  <2> HIDE DEF m
  <2> QED BY <1>3, <1>4, ClaimAhead
<1> HIDE DEF claim, u
<1>7. whole \in Node /\ Load(c, whole) = Load(c, val) + Times(c, claim)
  <2>1. whole \in Node
    BY <1>5, <1>6, LeadType
  <2>2. Load(c, whole) = Load(c, field) + Times(c, claim)
    BY <1>5, <1>6, LeadLoad
  <2> QED BY <1>5, <2>1, <2>2
<1> HIDE DEF whole
<1>8. /\ fr \in Frame /\ fr.fn = "typeFields" /\ Quiet(fr) /\ Times(c, fr.kept) \in Nat
      /\ Times(c, fr.kept) = Times(c, Top.kept) + (Load(c, val) + Times(c, claim))
  <2>1. Top \in Frame
    BY <1>3
  <2>2. /\ AddPart(Top, whole) \in Frame /\ AddPart(Top, whole).fn = Top.fn
        /\ Quiet(Top) => Quiet(AddPart(Top, whole))
        /\ Times(c, AddPart(Top, whole).kept) = Times(c, Top.kept) + Load(c, whole)
        /\ Load(c, whole) \in Nat
    BY <1>7, <2>1, Taken
  <2> HIDE DEF fr
  <2> QED BY <1>3, <1>7, <2>2 DEF fr
<1> HIDE DEF fr
<1>9. Ahead(u, c, n)
  <2> DEFINE k == m + Times(c, claim)
  <2>1. Ahead(u, c, k) /\ k = n
    BY <1>3, <1>6, <1>8
  <2> HIDE DEF k, n
  <2> QED BY <2>1
<1>10. Ahead(q, c, n) /\ ~q.raw
  <2> HIDE DEF n
  <2> QED BY <1>9, SkipAhead
<1> HIDE DEF q
<1>11. Ahead(a, c, n) /\ Ahead(Skip(a), c, n)
  <2> HIDE DEF n
  <2> QED BY <1>10, OnwardAhead
<1> HIDE DEF a
<1>12. Kin(fr, fr)
  BY DEF Kin
<1>13. CASE Goto(Skip(a), Swap(fr), "typeField")
  BY <1>2, <1>3, <1>8, <1>11, <1>12, <1>13, TypeNextSound
<1>14. CASE Return(a, Pop, Close(fr, a))
  BY <1>2, <1>3, <1>8, <1>11, <1>14, TypeEndSound
<1>15. CASE Fail(q)
  BY <1>15, FailSound
<1> QED BY <1>13, <1>14, <1>15, Zenon
        DEF AfterTypeField, kept, field, gap, snap, claim, whole, fr, u, q, a

(* A signature, and the comment on its type's last line.                   *)
LEMMA SignatureSound ==
  ASSUME IInv, Ordered, Tidy, Fair, IInv', NEW c, ParseSignature \/ AfterSignatureType
  PROVE  Sound(c)
<1> USE State
<1>a. "signature" \notin PatternFrames \cup TypeFrames \cup Leading \cup Branching \cup {"app"}
  BY DEF PatternFrames, TypeFrames, Leading, Branching
<1>1. CASE ParseSignature
  <2> DEFINE q == Skip(p)
             r == Skip(Advance(q))
             a == Advance(r)
             fr == New("signature", Here(p))
             n == Boxes(c) + Sum(c, calls)
  <2>1. ctl = "signature" /\ (Fail(q) \/ Fail(r) \/ Goto(a, Append(calls, fr), "type"))
    BY <1>1, Zenon DEF ParseSignature
  <2>2. ctl \notin Passing \cup PatternControls \cup TypeControls \cup {"branch", "error"} /\ "type" \notin Passing
    BY <2>1 DEF Passing, PatternControls, TypeControls
  <2>3. Free(calls) /\ Tally(p, c, n)
    BY <2>2, Begin
  <2>4. Tally(a, c, n)
    <3> HIDE DEF n
    <3>1. Tally(q, c, n) /\ ~q.raw
      BY SMTT(30), <2>3, SkipTally
    <3> HIDE DEF q
    <3> QED BY <3>1, Onward DEF q
  <2>5. Empty(fr) /\ fr.fn = "signature"
    BY NewEmpty
  <2> HIDE DEF a, r, q, fr
  <2>6. CASE Goto(a, Append(calls, fr), "type")
    <3>1. n = Boxes(c) + Sum(c, calls)
      OBVIOUS
    <3> HIDE DEF n
    <3> QED BY <1>a, <2>2, <2>3, <2>4, <2>5, <2>6, <3>1, StartSound
  <2> QED BY <2>1, <2>6, FailSound
<1>2. CASE AfterSignatureType
  <2> DEFINE q == DropTrailing(p, val)
             t == Trailing(p, val)
             g == AddPart(Top, val)
             fr == Hold(g, t)
             x == Base(c)
             y == Times(c, Top.kept)
             z == Load(c, val)
  <2>1. Resumes("signature") /\ Return(q, Pop, Close(fr, q))
    BY <1>2, Zenon DEF AfterSignatureType
  <2>2. /\ calls # <<>> /\ Top \in Frame /\ val \in Node /\ Free(Pop) /\ Tally(p, c, x + y + z)
        /\ x \in Nat /\ y \in Nat /\ z \in Nat
    BY <1>a, <2>1, Given
  <2>3. Tally(q, c, x + y + z + Times(c, t)) /\ Times(c, t) \in Nat /\ t \in Seq(Comment)
    <3> HIDE DEF x, y, z
    <3>1. Tally(q, c, x + y + z + Times(c, t)) /\ Times(c, t) \in Nat
      BY <2>2, TrailingTally
    <3> QED BY <3>1, TrailingType
  <2> HIDE DEF q, t
  <2>4. g \in Frame /\ Times(c, g.kept) = y + z
    <3>1. Top \in Frame /\ val \in Node
      BY <2>2
    <3>2. AddPart(Top, val) \in Frame /\ Times(c, AddPart(Top, val).kept) = Times(c, Top.kept) + Load(c, val)
      BY <3>1, Taken
    <3> QED BY <3>2
  <2> HIDE DEF g
  <2>5. fr \in Frame /\ Times(c, fr.kept) = Times(c, g.kept) + Times(c, t)
    <3>1. Hold(g, t) \in Frame /\ Times(c, Hold(g, t).kept) = Times(c, g.kept) + Times(c, t)
      BY <2>3, <2>4, Kept
    <3> QED BY <3>1
  <2> HIDE DEF fr
  <2>6. Tally(q, c, Base(c) + Times(c, fr.kept))
    <3>1. x + y + z + Times(c, t) = x + Times(c, fr.kept)
      <4> HIDE DEF x, y, z
      <4> QED BY <2>2, <2>3, <2>4, <2>5
    <3> DEFINE k == x + y + z + Times(c, t)
               l == x + Times(c, fr.kept)
    <3>2. Tally(q, c, k) /\ k = l
      BY <2>3, <3>1
    <3> HIDE DEF k, l
    <3>3. Tally(q, c, l)
      BY <3>2
    <3> QED BY <3>3 DEF l
  <2> QED BY <2>1, <2>2, <2>5, <2>6, CloseSound
<1> QED BY <1>1, <1>2

LEMMA TypesSound ==
  ASSUME IInv, Ordered, Tidy, Fair, IInv', TypeNext, NEW c
  PROVE  Sound(c)
BY TypeStartsSound, FirstArmSound, ArrowSound, TypeNamesSound, TupleTypeSound, FirstInTypeSound,
   TypeFieldSound, TypeFieldTypeSound, SignatureSound, Zenon DEF TypeNext
-----------------------------------------------------------------------------
(* The trampoline, and the whole.                                          *)

(* A boxed stack holds what it did when it was boxed.                      *)
LEMMA ResumeSound ==
  ASSUME IInv, Ordered, Tidy, Fair, IInv', Resume, NEW c
  PROVE  Sound(c)
<1> USE State
<1> DEFINE n == Len(conts) - 1
           boxes == SubSeq(conts, 1, n)
           box == conts[Len(conts)]
           k == Boxes(c) + Sum(c, calls) + Passes(c, ctl, val)
<1>1. /\ ctl = "done" /\ calls = <<>> /\ conts # <<>> /\ calls' = box /\ conts' = boxes
      /\ toks' = toks /\ p' = p /\ ctl' = "done" /\ val' = val
  BY DEF Resume
<1>2. conts \in Seq(Seq(Frame)) /\ Len(conts) \in Nat \ {0}
  BY <1>1, EmptySeq DEF IInv, TypeOK
<1>3. /\ boxes \in Seq(Seq(Frame)) /\ Len(boxes) = n /\ n \in Nat
      /\ \A i \in 1..n : boxes[i] = conts[i] /\ i \in 1..Len(conts)
  <2>1. n \in Nat /\ \A i \in 1..n : conts[i] \in Seq(Frame)
    BY <1>2
  <2> DEFINE l == n
  <2> HIDE DEF l
  <2>2. /\ SubSeq(conts, 1, l) \in Seq(Seq(Frame))
        /\ Len(SubSeq(conts, 1, l)) = IF 1 <= l THEN l - 1 + 1 ELSE 0
        /\ \A i \in 1..(l - 1 + 1) : SubSeq(conts, 1, l)[i] = conts[1 + i - 1]
    BY <2>1, SubSeqProperties DEF l
  <2>3. l \in Nat
    BY <2>1 DEF l
  <2>4. Len(SubSeq(conts, 1, l)) = l /\ \A i \in 1..l : SubSeq(conts, 1, l)[i] = conts[i]
    BY <2>2, <2>3
  <2>5. \A i \in 1..n : i \in 1..Len(conts)
    BY <1>2
  <2> QED BY <2>1, <2>2, <2>4, <2>5 DEF l
<1>4. box \in Seq(Frame) /\ Free(box)
  BY <1>2 DEF Tidy
<1>5. conts = Append(boxes, box)
  <2> DEFINE s == Append(boxes, box)
  <2>1. s \in Seq(Seq(Frame)) /\ Len(s) = n + 1 /\ s[n + 1] = box /\ \A i \in 1..n : s[i] = boxes[i]
    <3> HIDE DEF boxes, box
    <3> QED BY <1>3, <1>4, AppendProperties
  <2>2. n + 1 = Len(conts)
    BY <1>2
  <2>3. \A i \in 1..Len(conts) : i \in 1..n \/ i = n + 1
    BY <1>2
  <2> HIDE DEF s, n, boxes
  <2>4. Len(s) = Len(conts) /\ \A i \in 1..Len(conts) : s[i] = conts[i]
    BY <1>3, <2>1, <2>2, <2>3
  <2>5. s = conts
    BY <1>2, <2>1, <2>4, SeqEqual
  <2> QED BY <2>5 DEF s
<1>6. Tidy'
  <2>1. Gapped' /\ Ordered'
    BY <1>1, GapsStay DEF Tidy
  <2>2. \A b \in 1..Len(conts') : Free(conts'[b])
    BY <1>1, <1>3 DEF Tidy
  <2>3. Layered(box) /\ Late(box, p)
    BY <1>4, FreeIsLayered
  <2>4. box # <<>> => Meets(box[Len(box)], "done", p, val)
    <3> SUFFICES ASSUME box # <<>> PROVE Meets(box[Len(box)], "done", p, val)
      OBVIOUS
    <3> HIDE DEF box
    <3>1. Len(box) \in 1..Len(box)
      BY <1>4, EmptySeq
    <3>2. box[Len(box)].fn \notin Branching \cup TypeFrames
      BY <1>4, <3>1 DEF Free
    <3> QED BY <3>2 DEF Meets, Branching, TypeFrames
  <2>5. Plainly("done", p, val)
    BY DEF Plainly
  <2> HIDE DEF box, boxes
  <2>6. Late(calls, p)' /\ Layered(calls)'
    BY <1>1, <2>3 DEF Late, Layered, Here, Neat
  <2>7. (calls # <<>> => Meets(Top, ctl, p, val))' /\ Plainly(ctl, p, val)'
    BY <1>1, <2>4, <2>5 DEF Top, Meets, Plainly
  <2> QED BY <2>1, <2>2, <2>6, <2>7 DEF Tidy, Free, Neat
<1>7. k = Owed(c, conts', calls', ctl', val')
  <2>1. Sum(c, calls) = 0
    BY <1>1, SumOf
  <2>2. Boxes(c) = Sum(c, FlattenSeq(boxes)) + Sum(c, box) /\ Sum(c, FlattenSeq(boxes)) \in Nat /\ Sum(c, box) \in Nat
    <3> HIDE DEF boxes, box
    <3>1. Sum(c, FlattenSeq(Append(boxes, box))) = Sum(c, FlattenSeq(boxes)) + Sum(c, box)
          /\ Sum(c, FlattenSeq(boxes)) \in Nat
      BY <1>3, <1>4, Totals
    <3>2. Boxes(c) = Sum(c, FlattenSeq(Append(boxes, box)))
      BY <1>5, Zenon DEF Boxes
    <3> QED BY <1>4, <3>1, <3>2, SumOf
  <2>3. Owed(c, conts', calls', ctl', val') = Sum(c, FlattenSeq(boxes)) + Sum(c, box) + Passes(c, ctl, val)
    <3> HIDE DEF boxes, box
    <3> QED BY <1>1 DEF Owed
  <2> HIDE DEF boxes, box
  <2> DEFINE i == Passes(c, ctl, val)
  <2> HIDE DEF i
  <2>4. k = Boxes(c) + 0 + i
    BY <2>1 DEF i
  <2> QED BY <2>2, <2>3, <2>4 DEF i
<1>8. Tally(p, c, k)
  BY <1>1, Opening
<1> HIDE DEF k
<1>9. Booked(c)
  BY <1>1, <1>7, <1>8, Turned
<1> QED BY <1>6, <1>9 DEF Sound

(* The result of parse_expr.                                               *)
LEMMA FinishSound ==
  ASSUME IInv, Ordered, Tidy, Fair, IInv', Finish, NEW c
  PROVE  Sound(c)
<1> DEFINE n == Boxes(c) + Sum(c, calls) + Passes(c, ctl, val)
<1>1. ctl = "done" /\ calls = <<>> /\ Goto(p, calls, "ok")
  BY DEF Finish
<1>2. Free(calls) /\ calls \in Seq(Frame)
  BY <1>1, State DEF Free
<1>3. Tally(p, c, n)
  BY <1>1, Opening
<1>4. Passes(c, ctl, val) = Passes(c, "ok", val)
  BY <1>1 DEF Passes, Passing
<1>5. n = Boxes(c) + Sum(c, calls) + Passes(c, "ok", val)
  BY <1>4
<1>6. Goes(p, calls, "ok", val) /\ Plainly("ok", p, val)
  BY <1>1 DEF Goes, Plainly
<1> HIDE DEF n
<1> QED BY <1>2, <1>3, <1>5, <1>6, CarrySound

LEMMA StepsSound ==
  ASSUME IInv, Ordered, Tidy, Fair, IInv', ExprStep, NEW c
  PROVE  Sound(c)
<1>1. CASE Finish
  BY <1>1, FinishSound
<1>2. CASE ExprNext
  BY <1>2, ResumeSound, OperatorsSound, ApplicationsSound, AtomsSound, BracketsSound, BranchesSound,
     LetsSound, LambdasSound, PatternsSound, TypesSound, Zenon
     DEF ExprNext, OperatorNext, ApplicationNext, AtomNext, BracketNext, BranchNext, LetNext, LambdaNext
<1> QED BY <1>1, <1>2 DEF ExprStep

(* A new parser has read nothing.                                          *)
LEMMA InitiallySound == ASSUME ExprInit PROVE CommentInv
<1>1. toks \in Sources /\ p = Start /\ conts = <<>> /\ calls = <<>> /\ ctl = "expr" /\ val = NoNode
  BY DEF ExprInit
<1>2. Gapped /\ Ordered
  BY <1>1, GapAssumption, OrderAssumption DEF Gapped, Ordered
<1>3. Len(<<>>) = 0 /\ 1..0 = {} /\ 1..(0 - 1) = {}
  OBVIOUS
<1>4. Tidy
  BY <1>1, <1>2, <1>3 DEF Tidy, Layered, Late, Plainly
<1>5. ASSUME NEW c PROVE Even(p, c, Total(c))
  <2>1. IInv
    BY InitiallyIInv
  <2>2. Total(c) = Boxes(c) + Sum(c, calls) + Passes(c, ctl, val) /\ Boxes(c) \in Nat
    BY <2>1, TotalIs
  <2>3. Sum(c, <<>>) = 0
    <3>1. <<>> \in Seq(Frame)
      OBVIOUS
    <3> QED BY <3>1, SumOf
  <2>4. Boxes(c) = 0
    BY <1>1, <2>3, FlattenNone DEF Boxes
  <2>5. Passes(c, ctl, val) = 0
    BY <1>1 DEF Passes, Passing
  <2>6. Total(c) = 0
    BY <1>1, <2>2, <2>3, <2>4, <2>5
  <2>7. Times(c, p.pending) = 0
    BY <1>1, TimesNone DEF Start
  <2>8. c \notin Seen(p)
    <3>1. p.raw /\ p.pos - 1 = 0
      BY <1>1 DEF Start
    <3> QED BY <1>3, <3>1 DEF Seen
  <2> QED BY <2>6, <2>7, <2>8 DEF Even
<1> QED BY <1>4, <1>5 DEF CommentInv, Fair

(* Every step of the parser, and every stutter, keeps the account.         *)
LEMMA StepsKeepComments == ASSUME IInv, CommentInv, [ExprStep]_vars, IInv' PROVE CommentInv'
<1>1. CASE UNCHANGED vars
  <2>1. toks' = toks /\ p' = p /\ conts' = conts /\ calls' = calls /\ ctl' = ctl /\ val' = val
    BY <1>1 DEF vars
  <2>2. Tidy'
    <3>1. Gapped' /\ Ordered'
      BY <2>1, GapsStay DEF CommentInv, Tidy
    <3>2. \A b \in 1..Len(conts') : Free(conts'[b])
      BY <2>1 DEF CommentInv, Tidy
    <3>3. Late(calls, p)' /\ Layered(calls)'
      BY <2>1 DEF CommentInv, Tidy, Late, Layered, Here, Neat
    <3>4. (calls # <<>> => Meets(Top, ctl, p, val))' /\ Plainly(ctl, p, val)'
      BY <2>1 DEF CommentInv, Tidy, Top, Meets, Plainly
    <3> QED BY <3>1, <3>2, <3>3, <3>4 DEF Tidy, Free, Neat
  <2>3. ASSUME NEW c PROVE Even(p, c, Total(c))' <=> Even(p, c, Total(c))
    <3>1. Seen(p)' = Seen(p) /\ Reread' = Reread /\ Total(c)' = Total(c)
      BY ZenonT(60), <2>1 DEF Seen, Reread, Total, Attached, Frames
    <3> QED BY <2>1, <3>1, Zenon DEF Even
  <2> QED BY <2>1, <2>2, <2>3 DEF CommentInv, Fair
<1>2. CASE ExprStep
  <2>1. Ordered /\ Tidy /\ Fair
    BY DEF CommentInv, Tidy
  <2>2. \A c : Sound(c)
    BY <1>2, <2>1, StepsSound
  <2>3. Tidy' /\ \A c : Booked(c)
    BY <2>2 DEF Sound
  <2>4. Fair'
    BY <2>3 DEF Booked, Fair
  <2> QED BY <2>3, <2>4 DEF CommentInv
<1> QED BY <1>1, <1>2

LEMMA Conservation == ExprSpec => []CommentInv
<1>1. ExprInit => CommentInv
  BY InitiallySound
<1>2. IInv /\ CommentInv /\ [ExprStep]_vars /\ IInv' => CommentInv'
  BY StepsKeepComments
<1> QED BY <1>1, <1>2, Invariance, PTL DEF ExprSpec

LEMMA AttachedByType ==
  ASSUME NEW boxes \in Seq(Seq(Frame)), NEW cs \in Seq(Frame), NEW x, NEW v \in Node
  PROVE  AttachedBy(boxes, cs, x, v) \in Seq(Comment)
<1> DEFINE f == FlattenSeq(boxes)
           g == f \o cs
           h == FlattenSeq([i \in 1..Len(g) |-> HeldBy(g[i])])
           w == IF x \in Passing THEN Carried(v) ELSE <<>>
<1>1. g \in Seq(Frame)
  <2>1. f \in Seq(Frame)
    BY Totals
  <2> HIDE DEF f
  <2> QED BY <2>1
<1>2. w \in Seq(Comment)
  BY NodeParts
<1>3. AttachedBy(boxes, cs, x, v) = h \o w
  BY DEF AttachedBy
<1> HIDE DEF g, w
<1>4. h \in Seq(Comment)
  BY <1>1, SumOf
<1> HIDE DEF h
<1> QED BY <1>2, <1>3, <1>4

LEMMA AttachedType ==
  /\ IInv => Attached \in Seq(Comment)
  /\ IInv' => Attached' \in Seq(Comment)
<1>1. IInv => Attached \in Seq(Comment)
  <2> SUFFICES ASSUME IInv PROVE Attached \in Seq(Comment)
    OBVIOUS
  <2>1. conts \in Seq(Seq(Frame)) /\ calls \in Seq(Frame) /\ val \in Node
    BY DEF IInv, TypeOK
  <2>2. Attached = AttachedBy(conts, calls, ctl, val)
    BY DEF Attached, AttachedBy, Frames
  <2> QED BY <2>1, <2>2, AttachedByType
<1>2. IInv' => Attached' \in Seq(Comment)
  <2> SUFFICES ASSUME IInv' PROVE Attached' \in Seq(Comment)
    OBVIOUS
  <2>1. conts' \in Seq(Seq(Frame)) /\ calls' \in Seq(Frame) /\ val' \in Node
    BY DEF IInv, TypeOK
  <2>2. Attached' = AttachedBy(conts', calls', ctl', val')
    BY DEF Attached, AttachedBy, Frames
  <2> QED BY <2>1, <2>2, AttachedByType
<1> QED BY <1>1, <1>2

(* What the invariants say of the comments held.                           *)
LEMMA HeldOnce == ASSUME IInv, CommentInv PROVE CommentsConserved
<1> DEFINE held == p.pending \o Attached
<1> SUFFICES ASSUME ctl # "error"
             PROVE  /\ Passed \subseteq Elements(held)
                    /\ Elements(held) \subseteq Passed \cup Reread
                    /\ \A c \in Passed \ Reread : Times(c, held) = 1
  BY DEF CommentsConserved
<1>1. Passed = Seen(p)
  BY DEF Passed, Seen
<1>2. p.pending \in Seq(Comment) /\ Attached \in Seq(Comment)
  BY AttachedType, State, PendingType
<1>3. held \in Seq(Comment)
  BY <1>2
<1>4. ASSUME NEW c
      PROVE  /\ Times(c, held) \in Nat /\ (c \in Elements(held) <=> Times(c, held) >= 1)
             /\ c \in Passed => Times(c, held) >= 1
             /\ c \notin Reread => Times(c, held) = IF c \in Passed THEN 1 ELSE 0
  <2>1. Times(c, held) = Times(c, p.pending) + Total(c)
    BY <1>2, TimesConcat DEF Total
  <2>2. Even(p, c, Total(c))
    BY DEF CommentInv, Fair
  <2> HIDE DEF held
  <2>3. Times(c, held) \in Nat /\ (c \in Elements(held) <=> Times(c, held) >= 1)
    BY <1>3, TimesAre
  <2> QED BY <1>1, <2>1, <2>2, <2>3 DEF Even
<1> HIDE DEF held
<1>5. Passed \subseteq Elements(held)
  BY <1>4
<1>6. Elements(held) \subseteq Passed \cup Reread
  <2> SUFFICES ASSUME NEW c \in Elements(held), c \notin Reread PROVE c \in Passed
    OBVIOUS
  <2>1. Times(c, held) >= 1 /\ Times(c, held) = IF c \in Passed THEN 1 ELSE 0
    BY <1>4
  <2> QED BY <2>1
<1>7. \A c \in Passed \ Reread : Times(c, held) = 1
  BY <1>4
<1> QED BY <1>5, <1>6, <1>7

(* Whatever the text, and however many of the claiming loops take from     *)
(* collected_comments and put back: every comment the parser has passed is *)
(* either pending or held by one node or function in progress, boxed ones  *)
(* included, and none is held twice but those that the look for `|` in a   *)
(* record reads twice.                                                     *)
THEOREM CommentsAreConserved == ExprSpec => []CommentsConserved
<1>1. IInv /\ CommentInv => CommentsConserved
  BY HeldOnce
<1> QED BY <1>1, Invariance, Conservation, PTL

(* Whatever the text, no step takes a comment away from the nodes and the  *)
(* functions that hold it: none goes back to the pending buffer, and none  *)
(* is dropped with a node that is rebuilt or given up.                     *)
THEOREM AttachedStaysAttached == ExprSpec => AttachedForGood
<1> DEFINE Keeps == ctl' # "error" => Elements(Attached) \subseteq Elements(Attached')
<1>1. IInv /\ CommentInv /\ IInv' /\ [ExprStep]_vars => [Keeps]_vars
  <2> SUFFICES ASSUME IInv, CommentInv, IInv', ExprStep, ctl' # "error"
               PROVE  Elements(Attached) \subseteq Elements(Attached')
    OBVIOUS
  <2>1. Ordered /\ Tidy /\ Fair
    BY DEF CommentInv, Tidy
  <2> SUFFICES ASSUME NEW c \in Elements(Attached) PROVE c \in Elements(Attached')
    OBVIOUS
  <2>2. Total(c)' >= Total(c)
    BY <2>1, StepsSound DEF Sound, Booked
  <2>3. Attached \in Seq(Comment) /\ Attached' \in Seq(Comment)
    BY AttachedType
  <2>4. Total(c)' = Times(c, Attached')
    BY DEF Total, Times
  <2> DEFINE a == Attached
             b == Attached'
  <2>5. c \in Elements(a) <=> Times(c, a) >= 1
    <3> HIDE DEF a
    <3> QED BY <2>3, TimesAre DEF a
  <2>6. (c \in Elements(b) <=> Times(c, b) >= 1) /\ Times(c, b) \in Nat /\ Times(c, a) \in Nat
    <3> HIDE DEF a, b
    <3> QED BY <2>3, TimesAre DEF a, b
  <2> HIDE DEF b
  <2>7. Times(c, a) >= 1 /\ Times(c, b) >= Times(c, a)
    BY <2>2, <2>4, <2>5 DEF Total, b
  <2> HIDE DEF a
  <2> QED BY <2>6, <2>7 DEF b
<1> QED BY <1>1, Invariance, Conservation, PTL DEF ExprSpec, AttachedForGood
=============================================================================
