--------------------------- MODULE BalanceProofs ---------------------------
(***************************************************************************)
(* BalInv is preserved by every action of the expression parser, and what  *)
(* follows for its specification: the bracket depth is that of the stack,  *)
(* the context column that of the innermost list or record, and pending    *)
(* comments stay in source order, whatever the text and the limit.         *)
(***************************************************************************)
EXTENDS ExprProofs
LOCAL INSTANCE FiniteSetTheorems
LOCAL INSTANCE SequenceTheorems

(* A stack of functions, some of which hold a bracket.                     *)
Stack(cs) == \E S : cs \in Seq(S)

(* A stack with as many brackets as the one the action starts with, with   *)
(* one more, and with one less.                                            *)
Same(cs) == Stack(cs) /\ Count(cs) = Count(calls)

More(cs) == Stack(cs) /\ Count(cs) = Count(calls) + 1

Fewer(cs) == Stack(cs) /\ Count(cs) + 1 = Count(calls)

(* Cursor and stack agree.                                                 *)
Turn(q, cs) == \/ Level(q) /\ Same(cs)
               \/ Inside(q) /\ More(cs)
               \/ Outside(q) /\ Fewer(cs)

(* Control is past the point where the context column is taken.            *)
Settled == ctl \notin {"expr", "unary", "app", "error"}
-----------------------------------------------------------------------------
(* Counting the brackets of a stack.                                       *)

LEMMA StackIsFinite ==
  ASSUME NEW cs, Stack(cs)
  PROVE  /\ Len(cs) \in Nat /\ IsFiniteSet(BracketsOf(cs)) /\ Count(cs) \in Nat
         /\ cs # <<>> => Len(cs) > 0
<1>1. PICK S : cs \in Seq(S)
  BY DEF Stack
<1>2. Len(cs) \in Nat /\ (cs # <<>> => Len(cs) > 0)
  BY <1>1, EmptySeq
<1>3. IsFiniteSet(1..Len(cs)) /\ BracketsOf(cs) \subseteq 1..Len(cs)
  BY <1>2, FS_Interval DEF BracketsOf
<1>4. IsFiniteSet(BracketsOf(cs))
  BY <1>3, FS_Subset
<1> QED BY <1>2, <1>4, FS_CardinalityType DEF Count

(* A function more on the stack.                                           *)
LEMMA CountAppend ==
  ASSUME NEW cs, Stack(cs), NEW fr
  PROVE  /\ Stack(Append(cs, fr)) /\ Count(Append(cs, fr)) = Count(cs) + Weight(fr)
         /\ Append(cs, fr) # <<>> /\ Append(cs, fr)[Len(Append(cs, fr))] = fr
<1> DEFINE s == Append(cs, fr)
           n == Len(cs) + 1
<1>1. PICK S : cs \in Seq(S)
  BY DEF Stack
<1>2. s \in Seq(S \cup {fr}) /\ Len(s) = n /\ s[n] = fr /\ s # <<>> /\ \A i \in 1..Len(cs) : s[i] = cs[i]
  <2>1. cs \in Seq(S \cup {fr}) /\ fr \in S \cup {fr}
    BY <1>1
  <2> QED BY <2>1, AppendProperties
<1>3. Stack(s)
  BY <1>2 DEF Stack
<1>4. Len(cs) \in Nat /\ IsFiniteSet(BracketsOf(cs)) /\ Count(cs) \in Nat
  BY StackIsFinite
<1>5. n \notin BracketsOf(cs)
  BY <1>4 DEF BracketsOf
<1> HIDE DEF s
<1>6. CASE fr.fn \in Brackets
  <2>1. BracketsOf(s) = BracketsOf(cs) \cup {n}
    BY <1>2, <1>4, <1>6 DEF BracketsOf
  <2>2. Cardinality(BracketsOf(cs) \cup {n}) = Cardinality(BracketsOf(cs)) + 1
    BY <1>4, <1>5, FS_AddElement
  <2> QED BY <1>2, <1>3, <1>6, <2>1, <2>2 DEF Count, Weight, s
<1>7. CASE fr.fn \notin Brackets
  <2>1. BracketsOf(s) = BracketsOf(cs)
    BY <1>2, <1>4, <1>7 DEF BracketsOf
  <2> QED BY <1>2, <1>3, <1>4, <1>7, <2>1 DEF Count, Weight, s
<1> QED BY <1>6, <1>7

(* The same, as a comparison with the stack the action starts with.        *)
LEMMA Push ==
  ASSUME Stack(calls), NEW cs, NEW fr
  PROVE  /\ Same(cs) /\ fr.fn \notin Brackets => Same(Append(cs, fr))
         /\ Same(cs) /\ fr.fn \in Brackets => More(Append(cs, fr))
         /\ Fewer(cs) /\ fr.fn \in Brackets => Same(Append(cs, fr))
         /\ More(cs) /\ fr.fn \notin Brackets => More(Append(cs, fr))
<1>1. CASE Stack(cs)
  <2>1. /\ Stack(Append(cs, fr)) /\ Count(Append(cs, fr)) = Count(cs) + Weight(fr)
        /\ Count(cs) \in Nat /\ Count(calls) \in Nat
    BY <1>1, CountAppend, StackIsFinite
  <2>2. (fr.fn \in Brackets => Weight(fr) = 1) /\ (fr.fn \notin Brackets => Weight(fr) = 0)
    BY DEF Weight
  <2> QED BY <2>1, <2>2 DEF Same, More, Fewer
<1>2. CASE ~Stack(cs)
  BY <1>2 DEF Same, More, Fewer
<1> QED BY <1>1, <1>2

(* The stack the action starts with, and without its top.                  *)
LEMMA StackOfState ==
  ASSUME IInv
  PROVE  /\ Stack(calls) /\ Same(calls)
         /\ calls # <<>> /\ Top.fn \in Brackets => Fewer(Pop)
         /\ calls # <<>> /\ Top.fn \notin Brackets => Same(Pop)
<1>1. Stack(calls) /\ Same(calls)
  BY State DEF Stack, Same
<1>2. CASE calls # <<>>
  <2>1. Pop \in Seq(Frame) /\ Top \in Frame /\ calls \in Seq(Frame) /\ Len(calls) \in Nat
        /\ Len(Pop) = Len(calls) - 1 /\ \A i \in 1..Len(Pop) : Pop[i] = calls[i]
    BY <1>2, State, TopAndPop
  <2> DEFINE s == Append(Pop, Top)
  <2>2. s = calls
    <3>1. Len(s) = Len(calls) /\ s \in Seq(Frame) /\ \A i \in 1..Len(calls) : s[i] = calls[i]
      <4>1. /\ s \in Seq(Frame) /\ Len(s) = Len(Pop) + 1 /\ s[Len(Pop) + 1] = Top
            /\ \A i \in 1..Len(Pop) : s[i] = Pop[i]
        BY <2>1, AppendProperties
      <4> HIDE DEF s
      <4> QED BY <2>1, <4>1 DEF Top
    <3> HIDE DEF s
    <3> QED BY <2>1, <3>1, SeqEqual
  <2>3. Stack(Pop) /\ Stack(s) /\ Count(s) = Count(Pop) + Weight(Top) /\ Count(Pop) \in Nat
    <3>1. Stack(Pop)
      BY <2>1 DEF Stack
    <3> QED BY <3>1, CountAppend, StackIsFinite
  <2> QED BY <1>1, <2>2, <2>3 DEF Same, Fewer, Weight
<1> QED BY <1>1, <1>2

(* The top of the stack replaced.                                          *)
LEMMA Swapped ==
  ASSUME IInv, calls # <<>>, NEW fr
  PROVE  /\ Top.fn \in Brackets /\ fr.fn \in Brackets => Same(Swap(fr))
         /\ Top.fn \notin Brackets /\ fr.fn \notin Brackets => Same(Swap(fr))
         /\ Swap(fr)[Len(Swap(fr))] = fr
<1>1. Stack(Pop)
  BY TopAndPop DEF Stack
<1> QED BY <1>1, StackOfState, Push, CountAppend DEF Swap

(* A compound expression on top.                                           *)
LEMMA Compounds ==
  ASSUME IInv, NEW fr
  PROVE  /\ fr.fn \in Brackets => More(Compound(fr))
         /\ fr.fn \notin Brackets => Same(Compound(fr))
         /\ Compound(fr)[Len(Compound(fr))] = fr
<1> DEFINE new == New("access", 0)
           cs == Append(calls, new)
<1>1. new.fn = "access"
  BY DEF New
<1>2. Stack(calls) /\ Same(calls)
  BY StackOfState
<1> HIDE DEF new
<1>3. Same(cs) /\ Stack(cs)
  BY <1>1, <1>2, Push DEF Brackets, Same
<1>4. Compound(fr) = Append(cs, fr)
  <2>1. calls \in Seq(Frame \cup {new, fr})
    BY State
  <2>2. calls \o <<new, fr>> = Append(Append(calls, new), fr)
    BY <2>1
  <2> QED BY <2>2 DEF Compound, new
<1> HIDE DEF cs
<1> QED BY <1>2, <1>3, <1>4, Push, CountAppend

(* A function that holds a bracket is inside it.                           *)
LEMMA Enclosed ==
  ASSUME IInv, BalInv, Settled, calls # <<>>, Top.fn \in Brackets
  PROVE  p.depth > 0
<1>1. Stack(Pop) /\ Count(Pop) + 1 = Count(calls)
  BY StackOfState DEF Fewer
<1>2. Count(Pop) \in Nat
  BY <1>1, StackIsFinite
<1>3. p.depth = Cardinality(Open(conts)) + Count(calls) /\ Cardinality(Open(conts)) \in Nat
  BY FS_CardinalityType DEF BalInv, DepthIsOpen, Settled
<1> QED BY <1>1, <1>2, <1>3
-----------------------------------------------------------------------------
(* Boxing and reopening.                                                   *)

(* A box more.                                                             *)
LEMMA OpenAppend ==
  ASSUME NEW boxes, Stack(boxes), IsFiniteSet(Open(boxes)), NEW cs, Stack(cs)
  PROVE  /\ IsFiniteSet(Open(Append(boxes, cs)))
         /\ Cardinality(Open(Append(boxes, cs))) = Cardinality(Open(boxes)) + Count(cs)
<1> DEFINE s == Append(boxes, cs)
           n == Len(boxes) + 1
           old == Open(boxes)
           new == {n} \X BracketsOf(cs)
<1>1. /\ Len(boxes) \in Nat /\ Len(s) = n /\ s[n] = cs
      /\ \A i \in 1..Len(boxes) : s[i] = boxes[i]
  <2>1. PICK S : boxes \in Seq(S)
    BY DEF Stack
  <2>2. boxes \in Seq(S \cup {cs})
    BY <2>1
  <2> QED BY <2>2, AppendProperties
<1> HIDE DEF s
<1>2. Open(s) = old \cup new
  <2>1. 1..n = 1..Len(boxes) \cup {n}
    BY <1>1
  <2> QED BY <1>1, <2>1 DEF Open
<1>3. old \cap new = {}
  <2>1. n \notin 1..Len(boxes)
    BY <1>1
  <2> QED BY <2>1 DEF Open
<1>4. IsFiniteSet(BracketsOf(cs)) /\ IsFiniteSet({n}) /\ Cardinality({n}) = 1 /\ Count(cs) \in Nat
  BY StackIsFinite, FS_Singleton
<1>5. IsFiniteSet(new) /\ Cardinality(new) = Cardinality({n}) * Cardinality(BracketsOf(cs))
  BY <1>4, FS_Product
<1>6. Cardinality(new) = Count(cs)
  BY <1>4, <1>5 DEF Count
<1>7. IsFiniteSet(old \cup new) /\ Cardinality(old \cup new) = Cardinality(old) + Cardinality(new)
  <2>1. /\ IsFiniteSet(old \cup new) /\ IsFiniteSet(old \cap new)
        /\ Cardinality(old \cup new) = Cardinality(old) + Cardinality(new) - Cardinality(old \cap new)
    BY <1>5, FS_Union, FS_Intersection
  <2>2. Cardinality(old \cap new) = 0
    BY <1>3, FS_EmptySet
  <2> QED BY <1>5, <2>1, <2>2, FS_CardinalityType
<1> QED BY <1>2, <1>6, <1>7 DEF s
-----------------------------------------------------------------------------
(* The kinds of step.                                                      *)

(* No trivia are read and no token is passed between two of these cursors. *)
LEMMA Placed ==
  ASSUME BalInv, toks' = toks, NEW q, Sorted(q), p' = q
  PROVE  Ordered' /\ Sorted(p)'
<1>1. Ordered'
  BY DEF BalInv, Ordered
<1>2. Reread' = Reread
  BY ZenonT(60) DEF Reread
<1>3. Here(p)' = Here(q)
  BY DEF Here
<1>4. Rising(q.pending)' = Rising(q.pending)
  BY <1>2, Zenon DEF Rising
<1> QED BY <1>1, <1>2, <1>3 DEF Sorted, Rising, AllBefore

(* Past the start of an application there is no context column.            *)
LEMMA NoContext == ASSUME IInv, BalInv, Settled PROVE p.ctx = 0
<1>1. p.ctx \in Nat
  BY State DEF OK, Cursor
<1> QED BY <1>1 DEF BalInv, ContextIsFresh, Settled

(* The depth after a step follows the stack.                               *)
LEMMA TurnCounts ==
  ASSUME IInv, BalInv, ctl # "error", NEW q, NEW cs, Turn(q, cs)
  PROVE  /\ Good(q) /\ Stack(cs)
         /\ q.depth = Cardinality(Open(conts)) + Count(cs)
<1>1. /\ p.depth = Cardinality(Open(conts)) + Count(calls) /\ Cardinality(Open(conts)) \in Nat
  BY FS_CardinalityType DEF BalInv, DepthIsOpen
<1>2. Good(q) /\ Stack(cs) /\ q.depth \in Nat
  BY DEF Turn, Level, Inside, Outside, Same, More, Fewer, Good, OK, Cursor
<1>3. Count(cs) \in Nat /\ Count(calls) \in Nat
  BY <1>2, StackIsFinite, StackOfState
<1> QED BY <1>1, <1>2, <1>3 DEF Turn, Level, Inside, Outside, Same, More, Fewer

(* A step inside one round of the trampoline.                              *)
LEMMA Moves ==
  ASSUME IInv, BalInv, Settled, NEW q, NEW cs, Turn(q, cs),
         toks' = toks, p' = q, conts' = conts, calls' = cs, AtOperator'
  PROVE  BalInv'
<1>1. Good(q) /\ Stack(cs) /\ q.depth = Cardinality(Open(conts)) + Count(cs)
  BY TurnCounts DEF Settled
<1>2. Ordered' /\ Sorted(p)'
  BY <1>1, Placed DEF Good
<1>3. DepthIsOpen'
  BY <1>1 DEF BalInv, DepthIsOpen
<1>4. ContextIsFresh'
  BY <1>1, NoContext DEF Good, ContextIsFresh
<1> QED BY <1>2, <1>3, <1>4 DEF BalInv

LEMMA Goes ==
  ASSUME IInv, BalInv, Settled, NEW q, NEW cs, Turn(q, cs), NEW c, c # "reduce", NEW n,
         Goto(q, cs, c) \/ GotoWith(q, cs, c, n)
  PROVE  BalInv'
<1>1. toks' = toks /\ p' = q /\ conts' = conts /\ calls' = cs /\ ctl' = c
  BY DEF Goto, GotoWith
<1>2. AtOperator'
  BY <1>1 DEF AtOperator
<1> QED BY <1>1, <1>2, Moves

LEMMA Returns ==
  ASSUME IInv, BalInv, Settled, NEW q, NEW cs, Turn(q, cs), NEW n, Return(q, cs, n)
  PROVE  BalInv'
BY Goes DEF Return

(* An error.                                                               *)
LEMMA Fails ==
  ASSUME IInv, BalInv, NEW q, Sorted(q), Fail(q)
  PROVE  BalInv'
<1>1. toks' = toks /\ p' = q /\ conts' = <<>> /\ calls' = <<>> /\ ctl' = "error"
  BY DEF Fail
<1>2. Ordered' /\ Sorted(p)'
  BY <1>1, Placed
<1>3. DepthIsOpen'
  <2>1. Open(<<>>) = {}
    BY DEF Open
  <2> QED BY <1>1, <2>1, FS_EmptySet DEF DepthIsOpen
<1> QED BY <1>1, <1>2, <1>3 DEF BalInv, AtOperator, ContextIsFresh

LEMMA GoodFails ==
  ASSUME IInv, BalInv, NEW q, Good(q) \/ Level(q) \/ Inside(q) \/ Outside(q), Fail(q)
  PROVE  BalInv'
BY Fails DEF Good, Level, Inside, Outside

(* The stack is boxed; the context column is that of its last function.    *)
Column(cs) == cs[Len(cs)].col

Sets(cs) == cs[Len(cs)].fn \in {"list", "record"}

LEMMA Boxes ==
  ASSUME IInv, BalInv, Settled, NEW q, NEW cs, Turn(q, cs), NEW r,
         r = q \/ r = [q EXCEPT !.ctx = 0] \/ (r = [q EXCEPT !.ctx = Column(cs)] /\ Sets(cs)),
         Need(r, cs)
  PROVE  BalInv'
<1>1. Good(q) /\ Stack(cs) /\ q.depth = Cardinality(Open(conts)) + Count(cs) /\ p.ctx = 0
  BY TurnCounts, NoContext DEF Settled
<1>2. /\ r.pending = q.pending /\ r.depth = q.depth /\ r.pos = q.pos /\ r.raw = q.raw
      /\ r.ctx = 0 \/ (r.ctx = Column(cs) /\ Sets(cs))
  BY <1>1 DEF Good, OK, Cursor
<1>3. Sorted(r)
  <2>1. Here(r) = Here(q)
    BY <1>2 DEF Here
  <2> QED BY <1>1, <1>2, <2>1 DEF Good, Sorted
<1>4. CASE Fail(r)
  BY <1>3, <1>4, Fails
<1>5. CASE ~Fail(r)
  <2>1. toks' = toks /\ p' = r /\ conts' = Append(conts, cs) /\ calls' = <<>> /\ ctl' = "expr"
    BY <1>5 DEF Need
  <2>2. Ordered' /\ Sorted(p)'
    BY <1>3, <2>1, Placed
  <2>3. Stack(conts) /\ IsFiniteSet(Open(conts))
    BY DEF IInv, TypeOK, BalInv, DepthIsOpen, Stack
  <2>4. /\ IsFiniteSet(Open(conts')) /\ Cardinality(Open(conts')) = q.depth
        /\ conts'[Len(conts')] = cs
    BY <1>1, <2>1, <2>3, OpenAppend, CountAppend
  <2>5. Count(<<>>) = 0
    <3>1. BracketsOf(<<>>) = {}
      BY DEF BracketsOf
    <3> QED BY <3>1, FS_EmptySet DEF Count
  <2>6. q.depth \in Nat
    BY <1>1 DEF Good, OK, Cursor
  <2>7. DepthIsOpen'
    BY <1>2, <2>1, <2>4, <2>5, <2>6 DEF DepthIsOpen
  <2>8. ContextIsFresh'
    BY <1>2, <2>1, <2>4 DEF ContextIsFresh, Column, Sets
  <2>9. AtOperator'
    BY <2>1 DEF AtOperator
  <2> QED BY <2>2, <2>7, <2>8, <2>9 DEF BalInv
<1> QED BY <1>4, <1>5

(* A box is reopened.                                                      *)
LEMMA ResumeBalanced == ASSUME IInv, BalInv, Resume PROVE BalInv'
<1> DEFINE n == Len(conts) - 1
           rest == SubSeq(conts, 1, n)
           last == conts[Len(conts)]
<1>1. conts \in Seq(Seq(Frame)) /\ Len(conts) \in Nat \ {0} /\ n \in Nat
  BY EmptySeq DEF IInv, TypeOK, Resume
<1>2. /\ ctl = "done" /\ calls = <<>> /\ toks' = toks /\ p' = p /\ ctl' = ctl
      /\ calls' = last /\ conts' = rest
  BY DEF Resume
<1>3. rest \in Seq(Seq(Frame)) /\ Len(rest) = n /\ \A i \in 1..n : rest[i] = conts[i]
  <2>1. \A i \in 1..n : conts[i] \in Seq(Frame)
    BY <1>1
  <2>2. /\ rest \in Seq(Seq(Frame)) /\ Len(rest) = IF 1 <= n THEN n - 1 + 1 ELSE 0
        /\ \A i \in 1..(n - 1 + 1) : rest[i] = conts[1 + i - 1]
    <3> HIDE DEF n
    <3> QED BY <1>1, <2>1, SubSeqProperties
  <2> HIDE DEF rest, n
  <2> QED BY <1>1, <2>2
<1>4. last \in Seq(Frame)
  BY <1>1
<1> HIDE DEF rest, last
<1>5. conts = Append(rest, last)
  <2> DEFINE s == Append(rest, last)
  <2>1. s \in Seq(Seq(Frame)) /\ Len(s) = n + 1 /\ s[n + 1] = last /\ \A i \in 1..n : s[i] = rest[i]
    BY <1>3, <1>4, AppendProperties
  <2>2. last = conts[n + 1] /\ Len(conts) = n + 1
    BY <1>1 DEF last
  <2> HIDE DEF s, n
  <2>3. \A i \in 1..Len(s) : s[i] = conts[i]
    BY <1>1, <1>3, <2>1, <2>2
  <2>4. s = conts
    BY <1>1, <2>1, <2>2, <2>3, SeqEqual
  <2> QED BY <2>4 DEF s
<1>6. Stack(rest) /\ Stack(last)
  BY <1>3, <1>4 DEF Stack
<1>7. IsFiniteSet(Open(rest))
  <2>1. Open(rest) \subseteq Open(conts)
    <3> SUFFICES ASSUME NEW x \in Open(rest) PROVE x \in Open(conts)
      OBVIOUS
    <3>1. PICK b \in 1..Len(rest) : x \in {b} \X BracketsOf(rest[b])
      BY DEF Open
    <3>2. b \in 1..Len(conts) /\ conts[b] = rest[b]
      BY <1>1, <1>3
    <3>3. x \in {b} \X BracketsOf(conts[b])
      BY <3>1, <3>2, Zenon
    <3> QED BY <3>2, <3>3, Zenon DEF Open
  <2> QED BY <2>1, FS_Subset DEF BalInv, DepthIsOpen
<1>8. Cardinality(Open(conts)) = Cardinality(Open(rest)) + Count(last)
  BY <1>5, <1>6, <1>7, OpenAppend
<1>9. p.depth = Cardinality(Open(conts)) + Count(calls) /\ Count(calls) = 0
  <2>1. BracketsOf(<<>>) = {}
    BY DEF BracketsOf
  <2> QED BY <1>2, <2>1, FS_EmptySet DEF BalInv, DepthIsOpen, Count
<1>10. Cardinality(Open(rest)) \in Nat /\ Count(last) \in Nat
  BY <1>6, <1>7, StackIsFinite, FS_CardinalityType
<1>11. Ordered' /\ Sorted(p)'
  BY <1>2, Placed DEF BalInv
<1>12. DepthIsOpen'
  BY <1>2, <1>7, <1>8, <1>9, <1>10 DEF DepthIsOpen
<1>13. ContextIsFresh'
  <2>1. p.ctx = 0
    BY <1>2, NoContext DEF Settled
  <2> QED BY <1>2, <2>1 DEF ContextIsFresh
<1> QED BY <1>2, <1>11, <1>12, <1>13 DEF BalInv, AtOperator
-----------------------------------------------------------------------------
(* Binary operators, negation and application.                             *)

(* What holds of the state an action starts in.                            *)
LEMMA Ready ==
  ASSUME IInv, BalInv
  PROVE  Stream /\ Ordered /\ OK(p) /\ Level(p) /\ Same(calls) /\ Stack(calls) /\ calls \in Seq(Frame)
BY State, StackOfState DEF BalInv, Level, Good

(* The start of an expression: the context column is still to be taken.    *)
LEMMA StartsBalanced ==
  ASSUME IInv, BalInv, ParseBinary \/ ParseUnary \/ ParseApplication
  PROVE  BalInv'
<1> USE Ready
<1> DEFINE Opening == \A i \in 1..Len(calls) : calls[i].fn \in {"binary", "neg"}
<1>1. p.depth = Cardinality(Open(conts)) + Count(calls) /\ IsFiniteSet(Open(conts))
  BY DEF BalInv, DepthIsOpen, ParseBinary, ParseUnary, ParseApplication
<1>2. ASSUME NEW q, Level(q), NEW cs, Same(cs), toks' = toks, p' = q, conts' = conts, calls' = cs,
             ctl' \in {"unary", "app"},
             p.ctx > 0 => \A i \in 1..Len(cs) : cs[i].fn \in {"binary", "neg"}
      PROVE  BalInv'
  <2>1. Good(q) /\ q.depth = p.depth /\ Count(cs) = Count(calls)
    BY <1>2 DEF Level, Same
  <2>2. Ordered' /\ Sorted(p)'
    BY <1>2, <2>1, Placed DEF Good
  <2>3. DepthIsOpen' /\ AtOperator'
    BY <1>1, <1>2, <2>1 DEF DepthIsOpen, AtOperator
  <2>4. ContextIsFresh'
    BY <1>2, <2>1 DEF Good, ContextIsFresh, BalInv, ParseBinary, ParseUnary, ParseApplication
  <2> QED BY <2>2, <2>3, <2>4 DEF BalInv
<1>3. p.ctx > 0 => Opening
  BY DEF BalInv, ContextIsFresh, ParseBinary, ParseUnary, ParseApplication
<1>4. ASSUME NEW fr, fr.fn \in {"binary", "neg"}, Opening
      PROVE  \A i \in 1..Len(Append(calls, fr)) : Append(calls, fr)[i].fn \in {"binary", "neg"}
  <2> DEFINE s == Append(calls, fr)
  <2>1. Len(s) = Len(calls) + 1 /\ Len(calls) \in Nat /\ s[Len(calls) + 1] = fr
        /\ \A i \in 1..Len(calls) : s[i] = calls[i]
    <3>1. calls \in Seq(Frame \cup {fr}) /\ fr \in Frame \cup {fr}
      OBVIOUS
    <3> QED BY <3>1, AppendProperties
  <2> HIDE DEF s
  <2>2. ASSUME NEW i \in 1..Len(s) PROVE s[i].fn \in {"binary", "neg"}
    <3>1. i \in 1..Len(calls) \/ i = Len(calls) + 1
      BY <2>1
    <3> QED BY <1>4, <2>1, <3>1
  <2> QED BY <2>2 DEF s
<1>5. ASSUME NEW f \in {"binary", "neg"}, NEW x
      PROVE  New(f, x).fn = f /\ Same(Append(calls, New(f, x)))
  BY Push DEF New, Brackets
<1>6. CASE ParseBinary
  <2> DEFINE cs == Append(calls, New("binary", 0))
  <2>1. Same(cs) /\ (p.ctx > 0 => \A i \in 1..Len(cs) : cs[i].fn \in {"binary", "neg"})
    BY <1>3, <1>4, <1>5
  <2>2. toks' = toks /\ p' = p /\ conts' = conts /\ calls' = cs /\ ctl' = "unary"
    BY <1>6 DEF ParseBinary, Goto
  <2> HIDE DEF cs
  <2> QED BY <1>2, <2>1, <2>2
<1>7. CASE ParseUnary
  <2> DEFINE q == Skip(p)
             cs == Append(calls, New("neg", Here(q)))
  <2>1. Level(q) /\ (Peek(q) = "-" => Level(Advance(q)))
    BY SkipMoves, AdvanceMoves, Reads
  <2>2. Same(cs) /\ (p.ctx > 0 => \A i \in 1..Len(cs) : cs[i].fn \in {"binary", "neg"})
    BY <1>3, <1>4, <1>5
  <2>3. /\ toks' = toks /\ conts' = conts /\ ctl' = "app"
        /\ \/ p' = Advance(q) /\ Peek(q) = "-" /\ calls' = cs
           \/ p' = q /\ calls' = calls
    BY <1>7 DEF ParseUnary, Goto
  <2> HIDE DEF q, cs
  <2> QED BY <1>2, <1>3, <2>1, <2>2, <2>3
<1>8. CASE ParseApplication
  <2> DEFINE q == [p EXCEPT !.ctx = 0]
             fr == [New("app", Here(p)) EXCEPT !.col = HereCol(p), !.ctx = p.ctx, !.line = toks[p.pos].line]
  <2>1. /\ toks' = toks /\ p' = q /\ conts' = conts /\ ctl' = "atom" /\ calls' = Append(calls, fr)
    BY <1>8 DEF ParseApplication, Goto
  <2>2. q.ctx = 0 /\ q.pending = p.pending /\ q.depth = p.depth /\ q.pos = p.pos /\ q.raw = p.raw
    BY DEF OK, Cursor
  <2>3. Same(Append(calls, fr))
    <3>1. fr.fn = "app"
      BY DEF New
    <3> HIDE DEF fr
    <3> QED BY <3>1, Push DEF Brackets
  <2> HIDE DEF q, fr
  <2>4. Sorted(q)
    <3>1. Here(q) = Here(p)
      BY <2>2 DEF Here
    <3> QED BY <2>2, <3>1 DEF BalInv, Sorted
  <2>5. Ordered' /\ Sorted(p)'
    BY <2>1, <2>4, Placed
  <2>6. DepthIsOpen' /\ AtOperator' /\ ContextIsFresh'
    BY <1>1, <2>1, <2>2, <2>3 DEF DepthIsOpen, AtOperator, ContextIsFresh, Same
  <2> QED BY <2>5, <2>6 DEF BalInv
<1> QED BY <1>6, <1>7, <1>8

(* A function that holds no bracket works on its own locals, or gets a     *)
(* value back.                                                             *)
At(fn) == Resumes(fn) \/ (ctl \in DOMAIN Owners /\ Owners[ctl] = fn)

LEMMA AtOther ==
  ASSUME IInv, BalInv, NEW fn, At(fn), fn \notin Brackets
  PROVE  /\ Settled /\ Top \in Frame /\ Top.fn = fn /\ Top.snap \in Nat /\ Top.body \in Nat
         /\ Same(Pop) /\ \A fr : fr.fn \notin Brackets => Same(Swap(fr))
<1>1. calls # <<>> /\ Top \in Frame /\ Top.fn = fn
  BY Resumed, Owned DEF At, Resumes, IInv, ControlFitsStack, StackFits
<1>2. Top.snap \in Nat /\ Top.body \in Nat
  BY <1>1, FrameParts
<1>3. Settled
  BY OwnersAre DEF At, Resumes, Settled
<1> QED BY <1>1, <1>2, <1>3, StackOfState, Swapped

(* The same of a function that holds one.                                  *)
LEMMA AtBracket ==
  ASSUME IInv, BalInv, NEW fn, At(fn), fn \in Brackets
  PROVE  /\ Settled /\ Top \in Frame /\ Top.fn = fn /\ Top.snap \in Nat /\ Top.body \in Nat
         /\ p.depth > 0
         /\ Fewer(Pop) /\ \A fr : fr.fn \in Brackets => Same(Swap(fr))
<1>1. calls # <<>> /\ Top \in Frame /\ Top.fn = fn
  BY Resumed, Owned DEF At, Resumes, IInv, ControlFitsStack, StackFits
<1>2. Top.snap \in Nat /\ Top.body \in Nat
  BY <1>1, FrameParts
<1>3. Settled
  BY OwnersAre DEF At, Resumes, Settled
<1> QED BY <1>1, <1>2, <1>3, StackOfState, Swapped, Enclosed

(* Operators and applications keep the balance.                            *)
LEMMA OperatorsBalanced ==
  ASSUME IInv, BalInv, At("binary"), AfterOperand \/ BinaryLoop \/ Reduce \/ FoldRest
  PROVE  BalInv'
<1>0. Stream /\ Ordered /\ OK(p) /\ Level(p) /\ Same(calls)
  BY Ready
<1>1. /\ Settled /\ Top \in Frame /\ Top.fn = "binary" /\ Same(Pop)
      /\ \A fr : fr.fn \notin Brackets => Same(Swap(fr))
  BY AtOther DEF Brackets
<1>2. ASSUME NEW x
      PROVE  /\ Same(Swap([Top EXCEPT !.lead = x])) /\ Same(Swap([Top EXCEPT !.ops = x]))
  <2>1. [Top EXCEPT !.lead = x].fn = "binary" /\ [Top EXCEPT !.ops = x].fn = "binary"
    BY <1>1 DEF Frame
  <2>2. "binary" \notin Brackets
    BY DEF Brackets
  <2> QED BY <1>1, <2>1, <2>2
<1>3. CASE AfterOperand
  <2>1. Turn(p, Swap([Top EXCEPT !.lead = <<>>]))
    BY <1>0, <1>2 DEF Turn
  <2> QED BY <1>1, <1>3, <2>1, Goes DEF AfterOperand
<1>4. CASE BinaryLoop
  <2> DEFINE q == Skip(p)
             own == {c \in Between(q, val.to, Here(q)) : ~c.block /\ c.line > val.end}
             r == Unclaimed(q, 0, own)
             cs == Swap([Top EXCEPT !.lead = Claimed(q, 0, own)])
  <2>1. Level(q) /\ Good(q) /\ Turn(q, calls)
    BY <1>0, SkipMoves DEF Level, Turn
  <2> HIDE DEF own
  <2>2. Thinner(r, q)
    BY <2>1, Thins
  <2>3. Level(r) /\ r.pos = q.pos /\ Turn(r, cs)
    BY <1>2, <2>1, <2>2, ThinMoves DEF Turn
  <2>4. \/ Peek(q) \in {"op", "-"} /\ Goto(r, cs, "reduce")
        \/ Goto(q, calls, "fold")
    BY <1>4, Zenon DEF BinaryLoop, own
  <2>5. CASE Peek(q) \in {"op", "-"} /\ Goto(r, cs, "reduce")
    <3>1. toks[r.pos].kind \in {"op", "-"}
      BY <2>3, <2>5, Zenon DEF Peek
    <3> HIDE DEF q, r, cs
    <3>2. toks' = toks /\ p' = r /\ conts' = conts /\ calls' = cs
      BY <2>5 DEF Goto
    <3>3. AtOperator'
      BY <3>1, <3>2 DEF AtOperator
    <3> QED BY <1>1, <2>3, <3>2, <3>3, Moves
  <2> HIDE DEF q, r, cs
  <2> QED BY <1>1, <2>1, <2>4, <2>5, Goes
<1>5. ASSUME NEW c \in {"reduce", "fold"}, ctl = "reduce" \/ c = "fold", ReduceLast(c) PROVE BalInv'
  <2> DEFINE rest == SubSeq(Top.ops, 1, Len(Top.ops) - 1)
             cs == Swap([Top EXCEPT !.ops = rest])
  <2>1. Turn(p, cs)
    BY <1>0, <1>2 DEF Turn
  <2>2. GotoWith(p, cs, c, Combine(Top.ops[Len(Top.ops)], val))
    BY <1>5 DEF ReduceLast
  <2> HIDE DEF cs
  <2>3. toks' = toks /\ p' = p /\ conts' = conts /\ calls' = cs /\ ctl' = c
    BY <2>2 DEF GotoWith
  <2>4. AtOperator'
    BY <1>5, <2>3 DEF AtOperator, BalInv
  <2> QED BY <1>1, <2>1, <2>3, <2>4, Moves
<1>6. CASE Reduce
  <2> DEFINE op == toks[p.pos].op
             ops == Append(Top.ops, [left |-> val, rbp |-> RightPower(op)])
             cs == Swap([Top EXCEPT !.ops = ops])
  <2>1. ctl = "reduce" /\ (ReduceLast("reduce") \/ Goto(Advance(p), cs, "unary"))
    BY <1>6 DEF Reduce
  <2>2. Flat(p)
    BY <2>1 DEF BalInv, AtOperator, Flat, Opens, Closes, Openers, Closers
  <2>3. Turn(Advance(p), cs)
    BY <1>0, <1>2, <2>2, AdvanceMoves DEF Turn
  <2> HIDE DEF cs
  <2> QED BY <1>1, <1>5, <2>1, <2>3, Goes
<1>7. CASE FoldRest
  <2>1. Turn(p, Pop)
    BY <1>0, <1>1 DEF Turn
  <2> QED BY <1>1, <1>5, <1>7, <2>1, Returns DEF FoldRest
<1> QED BY <1>3, <1>4, <1>6, <1>7

LEMMA ApplicationsBalanced ==
  ASSUME IInv, BalInv, AfterNegated \/ ApplicationLoop \/ AfterArgument
  PROVE  BalInv'
<1>0. Stream /\ Ordered /\ OK(p) /\ Level(p) /\ Stack(calls)
  BY Ready
<1>1. "neg" \notin Brackets /\ "app" \notin Brackets
  BY DEF Brackets
<1>2. CASE AfterNegated
  <2>1. At("neg")
    BY <1>2 DEF AfterNegated, At
  <2>2. Settled /\ Turn(p, Pop)
    BY <1>0, <1>1, <2>1, AtOther DEF Turn
  <2> QED BY <1>2, <2>2, Returns DEF AfterNegated
<1>3. CASE ApplicationLoop
  <2> DEFINE q == Skip(p)
             own == {c \in Elements(q.pending) :
                       \/ c.block /\ c.line = Top.last.end /\ c.end = Top.last.end
                       \/ c.line > Top.last.end}
             r == Unclaimed(q, Snapshot(p), own)
             lead == Claimed(q, Snapshot(p), own)
             fr == [Top EXCEPT !.lead = lead]
             cs == Swap(fr)
             neg == New("neg", Here(q))
  <2>1. At("app")
    BY <1>3, OwnersAre DEF ApplicationLoop, At
  <2>2. Settled /\ Top \in Frame /\ Top.fn = "app" /\ Same(Pop) /\ \A f : f.fn \notin Brackets => Same(Swap(f))
    BY <1>1, <2>1, AtOther
  <2>3. Level(q) /\ Good(q) /\ Snapshot(p) \in Nat /\ Turn(q, Pop)
    BY <1>0, <2>2, SkipMoves, PendingType DEF Level, Turn
  <2>4. /\ \/ Goto(r, cs, "atom")
           \/ Peek(q) = "-" /\ Goto(Advance(r), Append(cs, neg), "atom")
           \/ Return(q, Pop, Top.last) \/ Return(q, Pop, Close(Top, q))
    BY <1>3, Zenon DEF ApplicationLoop
  <2> HIDE DEF own, lead
  <2>5. Thinner(r, q)
    BY <2>3, Thins
  <2>6. Level(r) /\ Peek(r) = Peek(q)
    BY <2>3, <2>5, ThinMoves
  <2> HIDE DEF q, r
  <2>7. Same(cs)
    <3>1. fr.fn = "app"
      BY <2>2 DEF Frame
    <3> HIDE DEF fr
    <3> QED BY <1>1, <2>2, <3>1
  <2> HIDE DEF cs
  <2>8. Same(Append(cs, neg))
    <3>1. neg.fn = "neg"
      BY DEF New
    <3> HIDE DEF neg
    <3> QED BY <1>0, <1>1, <2>7, <3>1, Push
  <2>9. Peek(q) = "-" => Level(Advance(r))
    BY <1>0, <2>6, Reads, AdvanceMoves
  <2>10. Turn(r, cs) /\ (Peek(q) = "-" => Turn(Advance(r), Append(cs, neg)))
    BY <2>6, <2>7, <2>8, <2>9 DEF Turn
  <2> HIDE DEF neg
  <2> QED BY <2>2, <2>3, <2>4, <2>10, Goes, Returns
<1>4. CASE AfterArgument
  <2> DEFINE part == AddPart(Top, Lead(val, Top.lead))
             fr == [part EXCEPT !.lead = <<>>]
  <2>1. At("app")
    BY <1>4 DEF AfterArgument, At
  <2>2. Settled /\ Top \in Frame /\ Top.fn = "app" /\ \A f : f.fn \notin Brackets => Same(Swap(f))
    BY <1>1, <2>1, AtOther
  <2>3. fr.fn = "app"
    BY <2>2 DEF AddPart, Frame
  <2>4. Goto(p, Swap(fr), "args")
    BY <1>4 DEF AfterArgument
  <2> HIDE DEF fr
  <2>5. Turn(p, Swap(fr))
    BY <1>0, <1>1, <2>2, <2>3 DEF Turn
  <2> QED BY <2>2, <2>4, <2>5, Goes
<1> QED BY <1>2, <1>3, <1>4
-----------------------------------------------------------------------------
(* Atomic expressions without sub-expressions, and field access.           *)

LEMMA AtomsBalanced == ASSUME IInv, BalInv, AtomNext PROVE BalInv'
<1>0. Stream /\ Ordered /\ OK(p) /\ Level(p) /\ Same(calls)
  BY Ready
<1> DEFINE q == Skip(p)
           r == Advance(q)
<1>a. Level(q) /\ Level(p) /\ Turn(p, calls)
  BY <1>0, SkipMoves DEF Turn
<1>1. CASE SimpleAtom
  <2>1. Settled /\ Peek(q) \in {"number", "text", "lower", "glsl"} /\ GotoWith(r, calls, "access", Leaf(Here(q), r))
    BY <1>1 DEF SimpleAtom, Settled
  <2>2. Turn(r, calls)
    BY <1>0, <1>a, <2>1, Reads, AdvanceMoves DEF Turn
  <2> QED BY <2>1, <2>2, Goes
<1>2. CASE QualifiedAtom
  <2>1. Settled /\ Peek(q) = "upper" /\ GotoWith(r, calls, "valueName", Leaf(Here(q), r))
    BY <1>2 DEF QualifiedAtom, Settled
  <2>2. Turn(r, calls)
    BY <1>0, <1>a, <2>1, Reads, AdvanceMoves DEF Turn
  <2> QED BY <2>1, <2>2, Goes
<1>3. CASE QualifyValue
  <2> DEFINE next == Advance(p)
             name == Leaf(val.from, Advance(next))
  <2>1. /\ Settled
        /\ \/ Peek(p) = "." /\ Peek(next) = "upper" /\ GotoWith(Advance(next), calls, "valueName", name)
           \/ Peek(p) = "." /\ Peek(next) = "lower" /\ GotoWith(Advance(next), calls, "access", name)
           \/ Goto(p, calls, "access")
    BY <1>3 DEF QualifyValue, Settled
  <2>2. Peek(p) = "." /\ Peek(next) \in {"upper", "lower"} => Turn(Advance(next), calls)
    <3>1. Peek(p) = "." => Level(next)
      BY <1>0, <1>a, Reads, AdvanceMoves
    <3> HIDE DEF next
    <3> QED BY <1>0, <3>1, Reads, AdvanceMoves DEF Turn
  <2> HIDE DEF next, name
  <2> QED BY <1>a, <2>1, <2>2, Goes
<1>4. CASE AccessorAtom
  <2>1. /\ Settled /\ Peek(q) = "."
        /\ \/ Peek(r) = "lower" /\ GotoWith(Advance(r), calls, "access", Leaf(Here(q), Advance(r)))
           \/ Fail(r)
    BY <1>4 DEF AccessorAtom, Settled
  <2>2. Level(r)
    BY <1>0, <1>a, <2>1, Reads, AdvanceMoves
  <2>3. Peek(r) = "lower" => Turn(Advance(r), calls)
    BY <1>0, <2>2, Reads, AdvanceMoves DEF Turn
  <2> HIDE DEF q, r
  <2> QED BY <2>1, <2>2, <2>3, Goes, GoodFails
<1>5. CASE NotAnAtom
  BY <1>5, <1>a, GoodFails DEF NotAnAtom
<1>6. CASE AccessChain
  <2> DEFINE next == Advance(p)
             n == SpanNode(val.from, Advance(next), Carried(val), val.sub)
  <2>1. /\ Settled
        /\ \/ Peek(p) = "." /\ Peek(next) = "lower" /\ GotoWith(Advance(next), calls, "access", n)
           \/ Peek(p) = "." /\ Fail(next)
           \/ Return(p, calls, val)
    BY <1>6, SMTT(30) DEF AccessChain, Settled
  <2>2. Peek(p) = "." => Level(next)
    BY <1>0, <1>a, Reads, AdvanceMoves
  <2> HIDE DEF next
  <2>3. Peek(p) = "." /\ Peek(next) = "lower" => Turn(Advance(next), calls)
    BY <1>0, <2>2, Reads, AdvanceMoves DEF Turn
  <2> HIDE DEF n
  <2> QED BY <1>a, <2>1, <2>2, <2>3, Goes, Returns, GoodFails
<1>7. CASE AfterCompound
  <2>1. At("access") /\ "access" \notin Brackets
    BY <1>7 DEF AfterCompound, At, Brackets
  <2>2. Settled /\ Turn(p, Pop)
    BY <1>0, <2>1, AtOther DEF Turn
  <2> QED BY <1>7, <2>2, Goes DEF AfterCompound
<1> QED BY <1>1, <1>2, <1>3, <1>4, <1>5, <1>6, <1>7 DEF AtomNext
-----------------------------------------------------------------------------
(* Brackets.                                                               *)

(* A frame keeps its name and column as parts are added to it.             *)
Named(fr) == "fn" \in DOMAIN fr /\ "col" \in DOMAIN fr

LEMMA Names ==
  ASSUME NEW fr, Named(fr), NEW n
  PROVE  /\ Named(AddPart(fr, n)) /\ AddPart(fr, n).fn = fr.fn /\ AddPart(fr, n).col = fr.col
         /\ Named(Hold(fr, n)) /\ Hold(fr, n).fn = fr.fn /\ Hold(fr, n).col = fr.col
BY DEF Named, AddPart, Hold

LEMMA NamesOf ==
  /\ \A fr \in Frame : Named(fr)
  /\ \A f, x : Named(New(f, x)) /\ New(f, x).fn = f
BY DEF Named, New, Frame

(* A compound expression that holds a bracket, or none, waits.             *)
LEMMA CompoundTurns ==
  ASSUME IInv, BalInv, NEW q, NEW fr
  PROVE  /\ Inside(q) /\ fr.fn \in Brackets => Turn(q, Compound(fr))
         /\ Level(q) /\ fr.fn \notin Brackets => Turn(q, Compound(fr))
BY Compounds DEF Turn

(* No parenthesis or tuple disturbs the balance.                           *)
LEMMA ParensBalanced ==
  ASSUME IInv, BalInv, ParenAtom \/ AfterParenNegated \/ AfterParenFirst \/ AfterTupleElement
  PROVE  BalInv'
<1>0. Stream /\ Ordered /\ OK(p) /\ Level(p) /\ Good(p) /\ Same(calls) /\ Stack(calls)
  BY Ready DEF Level
<1>a. "paren" \in Brackets /\ "parenNeg" \in Brackets /\ "tuple" \in Brackets /\ "binary" \notin Brackets
  BY Zenon DEF Brackets
<1>1. CASE ParenAtom
  <2> DEFINE q == Skip(p)
             open == Advance(q)
             r == Skip(open)
             s == Skip(Advance(r))
             neg == [New("parenNeg", Here(q)) EXCEPT !.mark = Here(r)]
             paren == [New("paren", Here(q)) EXCEPT !.snap = Snapshot(open)]
  <2>1. /\ Peek(q) = "(" => Opens(q)
        /\ Peek(r) = ")" => Closes(r)
        /\ Peek(r) \in {"op", "-"} => Flat(r)
        /\ Peek(s) = ")" => Closes(s)
    BY Reads, Zenon
  <2>2. /\ Settled /\ Opens(q)
        /\ \/ Closes(r) /\ GotoWith(Advance(r), calls, "access", Leaf(Here(q), Advance(r)))
           \/ Flat(r) /\ Closes(s) /\ GotoWith(Advance(s), calls, "access", Leaf(Here(q), Advance(s)))
           \/ Flat(r) /\ Fail(s)
           \/ Flat(r) /\ Goto(s, Compound(neg), "app")
           \/ Need(r, Compound(paren))
    BY <1>1, <2>1, Zenon DEF ParenAtom, Settled
  <2>3. neg.fn = "parenNeg" /\ paren.fn = "paren"
    BY DEF New
  <2> HIDE DEF neg, paren
  <2>4. Inside(r)
    BY <1>0, <2>2, SkipMoves, AdvanceMoves
  <2> HIDE DEF q, open, r
  <2>5. (Closes(r) => Level(Advance(r))) /\ (Flat(r) => Inside(s))
    BY <1>0, <2>4, SkipMoves, AdvanceMoves
  <2> HIDE DEF s
  <2>6. Flat(r) /\ Closes(s) => Level(Advance(s))
    BY <1>0, <2>5, AdvanceMoves
  <2>7. Turn(r, Compound(paren)) /\ (Flat(r) => Turn(s, Compound(neg)))
    BY <1>a, <2>3, <2>4, <2>5, CompoundTurns
  <2>8. (Closes(r) => Turn(Advance(r), calls)) /\ (Flat(r) /\ Closes(s) => Turn(Advance(s), calls))
    BY <1>0, <2>5, <2>6 DEF Turn
  <2> QED BY <2>2, <2>5, <2>7, <2>8, Goes, Boxes, GoodFails
<1>2. CASE AfterParenNegated
  <2> DEFINE neg == [val EXCEPT !.from = Top.mark, !.cs = <<>>, !.kept = Carried(val),
                                !.sub = @ \cup {<<Top.mark, val.to>>}]
             paren == [New("paren", Top.from) EXCEPT !.snap = Snapshot(p)]
             binary == New("binary", 0)
             cs == Append(Append(Pop, paren), binary)
  <2>1. At("parenNeg")
    BY <1>2 DEF AfterParenNegated, At
  <2>2. Settled /\ Fewer(Pop)
    BY <1>a, <2>1, AtBracket
  <2>3. paren.fn = "paren" /\ binary.fn = "binary"
    BY DEF New
  <2>4. GotoWith(p, Pop \o <<paren, binary>>, "binary", neg)
    BY <1>2 DEF AfterParenNegated
  <2> HIDE DEF paren, binary, neg
  <2>5. Pop \o <<paren, binary>> = cs
    <3>1. PICK S : Pop \in Seq(S)
      BY <2>2 DEF Fewer, Stack
    <3>2. Pop \in Seq(S \cup {paren, binary})
      BY <3>1
    <3> QED BY <3>2
  <2>6. Same(Append(Pop, paren))
    BY <1>0, <1>a, <2>2, <2>3, Push
  <2>7. Turn(p, cs)
    BY <1>0, <1>a, <2>3, <2>6, Push DEF Turn
  <2> HIDE DEF cs
  <2> QED BY <2>2, <2>4, <2>5, <2>7, Goes
<1>3. CASE AfterParenFirst
  <2> DEFINE left == AfterPre(p, val, Top.snap)
             q == Skip(left)
             part == AddPart(Top, WithPre(p, val, Top.snap))
             gap == Between(q, val.to, Here(q))
             t == Unclaimed(q, 0, gap)
             r == Advance(q)
             s == Advance(t)
             next == [part EXCEPT !.fn = "tuple", !.snap = Snapshot(r)]
             n == Close(Hold(part, Claimed(q, 0, gap)), s)
  <2>1. At("paren")
    BY <1>3 DEF AfterParenFirst, At
  <2>2. /\ Settled /\ Top \in Frame /\ Top.fn = "paren" /\ Top.snap \in Nat /\ p.depth > 0
        /\ Fewer(Pop) /\ \A fr : fr.fn \in Brackets => Same(Swap(fr))
    BY <1>a, <2>1, AtBracket
  <2>3. Peek(q) = "," => Flat(q)
    BY Reads, Zenon
  <2>4. Peek(q) = ")" => Closes(q)
    BY Reads, Zenon
  <2>5. \/ Flat(q) /\ Need(r, Swap(next))
        \/ Closes(q) /\ Return(s, Pop, n)
        \/ Fail(q)
    BY <1>3, <2>3, <2>4, Zenon DEF AfterParenFirst
  <2>6. next.fn = "tuple"
    BY <2>2, NamesOf, Names DEF Named
  <2> HIDE DEF part, next, n, gap
  <2>7. Thinner(left, p)
    BY <1>0, <2>2, Thins
  <2>8. Level(q) /\ Good(q)
    BY <1>0, <2>7, ThinMoves, SkipMoves DEF Level
  <2> HIDE DEF q
  <2>9. Thinner(t, q)
    BY <2>8, Thins
  <2>10. Level(t) /\ (Closes(q) => Closes(t))
    BY <2>8, <2>9, ThinMoves, Reads, Zenon
  <2> HIDE DEF t
  <2>11. (Flat(q) => Level(r)) /\ (Closes(q) => Outside(s))
    BY <1>0, <2>2, <2>8, <2>10, AdvanceMoves
  <2>12. (Flat(q) => Turn(r, Swap(next))) /\ (Closes(q) => Turn(s, Pop))
    BY <1>a, <2>2, <2>6, <2>11 DEF Turn
  <2> HIDE DEF r, s
  <2> QED BY <2>2, <2>5, <2>8, <2>12, Boxes, Returns, GoodFails
<1>4. CASE AfterTupleElement
  <2> DEFINE left == AfterPre(p, val, Top.snap)
             q == Skip(left)
             fr == AddPart(Top, WithPre(p, val, Top.snap))
             r == Advance(q)
             n == Close(fr, r)
  <2>1. At("tuple")
    BY <1>4 DEF AfterTupleElement, At
  <2>2. /\ Settled /\ Top \in Frame /\ Top.fn = "tuple" /\ Top.snap \in Nat /\ p.depth > 0
        /\ Fewer(Pop) /\ \A f : f.fn \in Brackets => Same(Swap(f))
    BY <1>a, <2>1, AtBracket
  <2>3. (Peek(q) = "," => Flat(q)) /\ (Peek(q) = ")" => Closes(q))
    BY Reads, Zenon
  <2>4. \/ Flat(q) /\ Need(r, Swap(fr))
        \/ Closes(q) /\ Return(r, Pop, n)
        \/ Fail(q)
    BY <1>4, <2>3, Zenon DEF AfterTupleElement
  <2>5. fr.fn = "tuple"
    BY <2>2, NamesOf, Names
  <2> HIDE DEF fr, n
  <2>6. Thinner(left, p)
    BY <1>0, <2>2, Thins
  <2>7. Level(q)
    BY <1>0, <2>6, ThinMoves, SkipMoves
  <2> HIDE DEF q
  <2>8. (Flat(q) => Level(r)) /\ (Closes(q) => Outside(r))
    BY <1>0, <2>2, <2>7, AdvanceMoves
  <2>9. (Flat(q) => Turn(r, Swap(fr))) /\ (Closes(q) => Turn(r, Pop))
    BY <1>a, <2>2, <2>5, <2>8 DEF Turn
  <2> HIDE DEF r
  <2> QED BY <2>2, <2>4, <2>7, <2>9, Boxes, Returns, GoodFails
<1> QED BY <1>1, <1>2, <1>3, <1>4
-----------------------------------------------------------------------------
(* Lists and records, which set the context column.                        *)

LEMMA ListsBalanced ==
  ASSUME IInv, BalInv, ListAtom \/ AfterListElement
  PROVE  BalInv'
<1>0. Stream /\ Ordered /\ OK(p) /\ Level(p) /\ Good(p) /\ Same(calls) /\ Stack(calls)
  BY Ready DEF Level
<1>a. "list" \in Brackets
  BY Zenon DEF Brackets
<1>1. CASE ListAtom
  <2> DEFINE q == Skip(p)
             open == Advance(q)
             r == Skip(open)
             col == HereCol(q)
             fr == [New("list", Here(q)) EXCEPT !.col = col, !.snap = Snapshot(open)]
             cs == Compound(fr)
  <2>1. (Peek(q) = "[" => Opens(q)) /\ (Peek(r) = "]" => Closes(r))
    BY Reads, Zenon
  <2>2. /\ Settled /\ Opens(q)
        /\ \/ Closes(r) /\ GotoWith(Advance(r), calls, "access", Leaf(Here(q), Advance(r)))
           \/ Need([r EXCEPT !.ctx = col], cs)
    BY <1>1, <2>1, Zenon DEF ListAtom, Settled
  <2>3. fr.fn = "list" /\ fr.col = col
    BY DEF New
  <2> HIDE DEF fr
  <2>4. Inside(r)
    BY <1>0, <2>2, SkipMoves, AdvanceMoves
  <2> HIDE DEF q, open, r, col
  <2>5. Closes(r) => Turn(Advance(r), calls)
    BY <1>0, <2>4, AdvanceMoves DEF Turn
  <2>6. Turn(r, cs) /\ Sets(cs) /\ Column(cs) = col
    BY <1>a, <2>3, <2>4, CompoundTurns, Compounds DEF Sets, Column
  <2> HIDE DEF cs
  <2>7. Need([r EXCEPT !.ctx = Column(cs)], cs) => BalInv'
    BY <2>2, <2>6, Boxes
  <2> QED BY <2>2, <2>5, <2>6, <2>7, Goes
<1>2. CASE AfterListElement
  <2> DEFINE body == WithPre(p, val, Top.snap)
             q == AfterPre(p, val, Top.snap)
             fr == Hold(AddPart(Top, body), Inline(q, body))
             d == DropInline(q, body)
             r == Skip(d)
             trailing == {c \in Elements(r.pending) : c.line > body.end /\ c.end < toks[r.pos].line}
             s == Unclaimed(r, 0, trailing)
             last == Hold(fr, Claimed(r, 0, trailing))
             cs == Swap(fr)
             next == Advance(r)
             end == Advance(s)
             n == Close(last, end)
  <2>1. At("list")
    BY <1>2, Zenon DEF AfterListElement, At
  <2>2. /\ Settled /\ Top \in Frame /\ Top.fn = "list" /\ Top.snap \in Nat /\ p.depth > 0
        /\ Fewer(Pop) /\ \A f : f.fn \in Brackets => Same(Swap(f))
    BY <1>a, <2>1, AtBracket
  <2>3. (Peek(r) = "," => Flat(r)) /\ (Peek(r) = "]" => Closes(r))
    BY Reads, Zenon
  <2>4. \/ Flat(r) /\ Need([next EXCEPT !.ctx = Top.col], cs)
        \/ Closes(r) /\ Return(end, Pop, n)
        \/ Fail(s)
    BY <1>2, <2>3, Zenon DEF AfterListElement
  <2>5. fr.fn = "list" /\ fr.col = Top.col
    BY <2>2, NamesOf, Names
  <2> HIDE DEF fr, last, n, trailing, body
  <2>6. Thinner(q, p)
    BY <1>0, <2>2, Thins
  <2>7. Level(q) /\ Good(q)
    BY <1>0, <2>6, ThinMoves DEF Level
  <2> HIDE DEF q
  <2>8. Thinner(d, q)
    BY <2>7, Thins
  <2>9. Level(r) /\ Good(r)
    BY <1>0, <2>7, <2>8, ThinMoves, SkipMoves DEF Level
  <2> HIDE DEF d, r
  <2>10. Thinner(s, r)
    BY <2>9, Thins
  <2>11. Level(s) /\ (Closes(r) => Closes(s))
    BY <2>9, <2>10, ThinMoves, Reads, Zenon
  <2> HIDE DEF s
  <2>12. (Flat(r) => Level(next)) /\ (Closes(r) => Outside(end))
    BY <1>0, <2>2, <2>9, <2>11, AdvanceMoves
  <2>13. calls # <<>>
    BY <2>1, Resumed, Owned DEF At, Resumes, IInv, ControlFitsStack, StackFits
  <2>14. Sets(cs) /\ Column(cs) = Top.col /\ Same(cs)
    BY <1>a, <2>2, <2>5, <2>13, Swapped DEF Sets, Column
  <2>15. (Flat(r) => Turn(next, cs)) /\ (Closes(r) => Turn(end, Pop))
    BY <2>2, <2>12, <2>14 DEF Turn
  <2> HIDE DEF next, end, cs
  <2>16. Flat(r) /\ Need([next EXCEPT !.ctx = Column(cs)], cs) => BalInv'
    BY <2>2, <2>14, <2>15, Boxes
  <2> QED BY <2>2, <2>4, <2>11, <2>14, <2>15, <2>16, Returns, GoodFails
<1> QED BY <1>1, <1>2

LEMMA RecordsBalanced ==
  ASSUME IInv, BalInv, RecordAtom \/ ParseSetter \/ AfterSetterValue
  PROVE  BalInv'
<1>0. Stream /\ Ordered /\ OK(p) /\ Level(p) /\ Good(p) /\ Same(calls) /\ Stack(calls)
  BY Ready DEF Level
<1>a. "record" \in Brackets
  BY Zenon DEF Brackets
<1>1. CASE RecordAtom
  <2> DEFINE q == Skip(p)
             r == Skip(Advance(q))
             s == Skip(Advance(r))
             back == [s EXCEPT !.pos = r.pos, !.raw = FALSE]
             Record(lim) == [New("record", Here(q)) EXCEPT !.col = HereCol(q), !.lim = lim]
             one == Compound(Record(Here(s)))
             all == Compound(Record(Here(q)))
             name == Peek(r) = "lower"
  <2>1. /\ Peek(q) = "{" => AtRecord(q) /\ Opens(q)
        /\ Peek(r) = "}" => Closes(r)
        /\ name => Flat(r)
        /\ Peek(s) = "|" => Flat(s)
    BY Reads, Zenon DEF AtRecord
  <2>2. /\ Settled /\ AtRecord(q) /\ Opens(q)
        /\ \/ Closes(r) /\ GotoWith(Advance(r), calls, "access", Leaf(Here(q), Advance(r)))
           \/ Flat(r) /\ Flat(s) /\ Goto(Advance(s), one, "setter")
           \/ name /\ Goto(back, all, "setter")
           \/ Goto(r, all, "setter")
    BY <1>1, <2>1, Zenon DEF RecordAtom, Settled
  <2>3. Record(Here(s)).fn = "record" /\ Record(Here(q)).fn = "record"
    BY DEF New
  <2>4. back = Back(r)
    BY DEF Back
  <2> HIDE DEF Record, back
  <2>5. Inside(r) /\ Level(q)
    BY <1>0, <2>2, SkipMoves, AdvanceMoves
  <2> HIDE DEF q
  <2>6. name => Inside(back)
    BY <1>0, <2>2, <2>4, <2>5, BackMoves
  <2> HIDE DEF r, name
  <2>7. (Closes(r) => Level(Advance(r))) /\ (Flat(r) => Inside(s))
    BY <1>0, <2>5, SkipMoves, AdvanceMoves
  <2> HIDE DEF s
  <2>8. Flat(r) /\ Flat(s) => Inside(Advance(s))
    BY <1>0, <2>7, AdvanceMoves
  <2>9. /\ Closes(r) => Turn(Advance(r), calls)
        /\ Flat(r) /\ Flat(s) => Turn(Advance(s), one)
        /\ name => Turn(back, all)
        /\ Turn(r, all)
    BY <1>0, <1>a, <2>3, <2>5, <2>6, <2>7, <2>8, CompoundTurns DEF Turn
  <2> HIDE DEF one, all
  <2> QED BY <2>2, <2>9, Goes
<1>2. CASE ParseSetter
  <2> DEFINE q == Skip(p)
             r == Skip(Advance(q))
             next == Advance(r)
             fr == [Top EXCEPT !.mark = Here(p)]
             cs == Swap(fr)
  <2>1. At("record")
    BY <1>2, OwnersAre DEF ParseSetter, At
  <2>2. /\ Settled /\ Top \in Frame /\ Top.fn = "record"
        /\ \A f : f.fn \in Brackets => Same(Swap(f))
    BY <1>a, <2>1, AtBracket
  <2>3. (Peek(q) = "lower" => Flat(q)) /\ (Peek(r) = "=" => Flat(r))
    BY Reads, Zenon
  <2>4. \/ Fail(q)
        \/ Flat(q) /\ Fail(r)
        \/ Flat(q) /\ Flat(r) /\ Need([next EXCEPT !.ctx = Top.col], cs)
    BY <1>2, <2>3, Zenon DEF ParseSetter
  <2>5. fr.fn = "record" /\ fr.col = Top.col
    BY <2>2 DEF Frame
  <2> HIDE DEF fr
  <2>6. Level(q)
    BY <1>0, SkipMoves
  <2> HIDE DEF q
  <2>7. Flat(q) => Level(r)
    BY <1>0, <2>6, SkipMoves, AdvanceMoves
  <2> HIDE DEF r
  <2>8. calls # <<>>
    BY <2>1, Resumed, Owned DEF At, Resumes, IInv, ControlFitsStack, StackFits
  <2>9. Sets(cs) /\ Column(cs) = Top.col /\ Same(cs)
    BY <1>a, <2>2, <2>5, <2>8, Swapped DEF Sets, Column
  <2>10. Flat(q) /\ Flat(r) => Turn(next, cs)
    BY <1>0, <2>7, <2>9, AdvanceMoves DEF Turn
  <2> HIDE DEF next, cs
  <2>11. Flat(q) /\ Flat(r) /\ Need([next EXCEPT !.ctx = Column(cs)], cs) => BalInv'
    BY <2>2, <2>9, <2>10, Boxes
  <2> QED BY <2>4, <2>6, <2>7, <2>9, <2>11, GoodFails
<1>3. CASE AfterSetterValue
  <2> DEFINE a == DropTrailing(p, val)
             leading == Between(a, Top.lim, Top.mark)
             b == Unclaimed(a, 0, leading)
             inner == Between(b, Top.mark - 1, val.from)
             c == Unclaimed(b, 0, inner)
             value == Lead(val, Claimed(b, 0, inner))
             setter == SpanNode(Top.mark, c, Carried(value) \o Trailing(p, val), val.sub)
             part == AddPart(Top, Lead(setter, Claimed(a, 0, leading)))
             fr == [part EXCEPT !.lim = val.to]
             q == Skip(c)
             r == Advance(q)
             n == Close(fr, r)
  <2>1. At("record")
    BY <1>3, Zenon DEF AfterSetterValue, At
  <2>2. /\ Settled /\ Top \in Frame /\ Top.fn = "record" /\ p.depth > 0
        /\ Fewer(Pop) /\ \A f : f.fn \in Brackets => Same(Swap(f))
    BY <1>a, <2>1, AtBracket
  <2>3. (Peek(q) = "," => Flat(q)) /\ (Peek(q) = "}" => Closes(q))
    BY Reads, Zenon
  <2>4. \/ Flat(q) /\ Goto(r, Swap(fr), "setter")
        \/ Closes(q) /\ Return(r, Pop, n)
        \/ Fail(q)
    BY <1>3, <2>3, Zenon DEF AfterSetterValue
  <2>5. fr.fn = "record"
    BY <2>2, NamesOf, Names DEF Named
  <2> HIDE DEF part, fr, n, setter, value, inner, leading
  <2>6. Thinner(a, p)
    BY <1>0, Thins
  <2>7. Level(a) /\ Good(a)
    BY <1>0, <2>6, ThinMoves DEF Level
  <2> HIDE DEF a
  <2>8. Thinner(b, a)
    BY <2>7, Thins
  <2>9. Level(b) /\ Good(b)
    BY <2>7, <2>8, ThinMoves DEF Level
  <2> HIDE DEF b
  <2>10. Thinner(c, b)
    BY <2>9, Thins
  <2>11. Level(q)
    BY <1>0, <2>9, <2>10, ThinMoves, SkipMoves
  <2> HIDE DEF c, q
  <2>12. (Flat(q) => Level(r)) /\ (Closes(q) => Outside(r))
    BY <1>0, <2>2, <2>11, AdvanceMoves
  <2>13. (Flat(q) => Turn(r, Swap(fr))) /\ (Closes(q) => Turn(r, Pop))
    BY <1>a, <2>2, <2>5, <2>12 DEF Turn
  <2> HIDE DEF r
  <2> QED BY <2>2, <2>4, <2>11, <2>13, Goes, Returns, GoodFails
<1> QED BY <1>1, <1>2, <1>3
-----------------------------------------------------------------------------
(* if, case, let and lambda: no brackets of their own.                     *)

LEMMA IfsBalanced ==
  ASSUME IInv, BalInv, IfAtom \/ AfterCondition \/ AfterThen \/ AfterElse
  PROVE  BalInv'
<1>0. Stream /\ Ordered /\ OK(p) /\ Level(p) /\ Good(p) /\ Same(calls) /\ Stack(calls)
  BY Ready DEF Level
<1>a. "ifCond" \notin Brackets /\ "elifCond" \notin Brackets /\ "then" \notin Brackets /\ "else" \notin Brackets
  BY Zenon DEF Brackets
<1>1. CASE IfAtom
  <2> DEFINE q == Skip(p)
             r == Advance(q)
             fr == [New("ifCond", Here(q)) EXCEPT !.snap = Snapshot(r), !.chain = <<Here(q)>>]
             cs == Compound(fr)
  <2>1. Peek(q) = "if" => Flat(q)
    BY Reads, Zenon
  <2>2. Settled /\ Flat(q) /\ Need(r, cs)
    BY <1>1, <2>1, Zenon DEF IfAtom, Settled
  <2>3. fr.fn = "ifCond"
    BY DEF New
  <2> HIDE DEF fr
  <2>4. Turn(r, cs)
    BY <1>0, <1>a, <2>2, <2>3, SkipMoves, AdvanceMoves, CompoundTurns
  <2> HIDE DEF q, r, cs
  <2> QED BY <2>2, <2>4, Boxes
<1>2. CASE AfterCondition
  <2> DEFINE first == Top.fn = "ifCond"
             cond == IF first THEN WithPre(p, val, Top.snap) ELSE val
             left == IF first THEN AfterPre(p, val, Top.snap) ELSE p
             q == Skip(left)
             r == Advance(q)
             s == Skip(r)
             part == AddPart(Top, cond)
             fr == [part EXCEPT !.fn = "then", !.snap = Snapshot(r)]
             cs == Swap(fr)
  <2>1. At("ifCond") \/ At("elifCond")
    BY <1>2, Zenon DEF AfterCondition, At
  <2>2. Settled /\ Top \in Frame /\ Top.snap \in Nat /\ \A f : f.fn \notin Brackets => Same(Swap(f))
    BY <1>a, <2>1, AtOther
  <2>3. Peek(q) = "then" => Flat(q)
    BY Reads, Zenon
  <2>4. \/ Flat(q) /\ Need(s, cs)
        \/ Fail(q)
    BY <1>2, <2>3, Zenon DEF AfterCondition
  <2>5. fr.fn = "then"
    BY <2>2, NamesOf, Names DEF Named
  <2> HIDE DEF part, fr, cond
  <2>6. Level(left)
    <3>1. Thinner(AfterPre(p, val, Top.snap), p)
      BY <1>0, <2>2, Thins
    <3> QED BY <1>0, <3>1, ThinMoves
  <2> HIDE DEF left
  <2>7. Level(q)
    BY <1>0, <2>6, SkipMoves
  <2> HIDE DEF q
  <2>8. Flat(q) => Turn(s, cs)
    BY <1>0, <1>a, <2>2, <2>5, <2>7, AdvanceMoves, SkipMoves DEF Turn
  <2> HIDE DEF r, s, cs
  <2> QED BY <2>2, <2>4, <2>7, <2>8, Boxes, GoodFails
<1>3. CASE AfterThen
  <2> DEFINE left == AfterPre(p, val, Top.snap)
             q == Skip(left)
             r == Advance(q)
             s == DropSince(r, Top.snap)
             t == Skip(s)
             part == AddPart(Top, WithPre(p, val, Top.snap))
             fr == Hold(part, Since(r, Top.snap))
             elif == [fr EXCEPT !.fn = "elifCond", !.chain = Append(@, Here(t))]
             else == [fr EXCEPT !.fn = "else", !.snap = Snapshot(s)]
  <2>1. At("then")
    BY <1>3, Zenon DEF AfterThen, At
  <2>2. Settled /\ Top \in Frame /\ Top.snap \in Nat /\ \A f : f.fn \notin Brackets => Same(Swap(f))
    BY <1>a, <2>1, AtOther
  <2>3. (Peek(q) = "else" => Flat(q)) /\ (Peek(t) = "if" => Flat(t))
    BY Reads, Zenon
  <2>4. \/ Fail(q)
        \/ Flat(q) /\ Flat(t) /\ Need(Advance(t), Swap(elif))
        \/ Flat(q) /\ Need(t, Swap(else))
    BY <1>3, <2>3, Zenon DEF AfterThen
  <2>5. elif.fn = "elifCond" /\ else.fn = "else"
    BY <2>2, NamesOf, Names DEF Named
  <2> HIDE DEF part, fr, elif, else
  <2>6. Thinner(left, p)
    BY <1>0, <2>2, Thins
  <2>7. Level(q)
    BY <1>0, <2>6, ThinMoves, SkipMoves
  <2> HIDE DEF q
  <2>8. Flat(q) => Level(r) /\ Good(r)
    BY <1>0, <2>7, AdvanceMoves DEF Level
  <2> HIDE DEF r
  <2>9. Flat(q) => Thinner(s, r)
    BY <2>2, <2>8, Thins
  <2>10. Flat(q) => Level(t)
    BY <1>0, <2>8, <2>9, ThinMoves, SkipMoves
  <2> HIDE DEF t
  <2>11. Flat(q) => Turn(t, Swap(else)) /\ (Flat(t) => Turn(Advance(t), Swap(elif)))
    BY <1>0, <1>a, <2>2, <2>5, <2>10, AdvanceMoves DEF Turn
  <2> QED BY <2>2, <2>4, <2>7, <2>11, Boxes, GoodFails
<1>4. CASE AfterElse
  <2> DEFINE q == AfterPre(p, val, Top.snap)
             ifs == Close(AddPart(Top, WithPre(p, val, Top.snap)), q)
             n == [ifs EXCEPT !.sub = @ \cup {<<start, ifs.to>> : start \in Elements(Top.chain)}]
  <2>1. At("else")
    BY <1>4, Zenon DEF AfterElse, At
  <2>2. Settled /\ Top.snap \in Nat /\ Same(Pop)
    BY <1>a, <2>1, AtOther
  <2>3. Return(q, Pop, n)
    BY <1>4 DEF AfterElse
  <2> HIDE DEF n
  <2>4. Thinner(q, p)
    BY <1>0, <2>2, Thins
  <2>5. Turn(q, Pop)
    BY <1>0, <2>2, <2>4, ThinMoves DEF Turn
  <2> HIDE DEF q
  <2> QED BY <2>2, <2>3, <2>5, Returns
<1> QED BY <1>1, <1>2, <1>3, <1>4

LEMMA CasesBalanced ==
  ASSUME IInv, BalInv, CaseAtom \/ AfterCaseSubject \/ NextBranch \/ AfterBranchPattern \/ AfterBranchBody
  PROVE  BalInv'
<1>0. Stream /\ Ordered /\ OK(p) /\ Level(p) /\ Good(p) /\ Same(calls) /\ Stack(calls)
  BY Ready DEF Level
<1>a. "caseSubject" \notin Brackets /\ "casePattern" \notin Brackets /\ "caseBody" \notin Brackets
  BY Zenon DEF Brackets
<1>1. CASE CaseAtom
  <2> DEFINE q == Skip(p)
             r == Advance(q)
             fr == [New("caseSubject", Here(q)) EXCEPT !.col = HereCol(q), !.snap = Snapshot(q)]
             cs == Compound(fr)
  <2>1. Peek(q) = "case" => Flat(q)
    BY Reads, Zenon
  <2>2. Settled /\ Flat(q) /\ Need(r, cs)
    BY <1>1, <2>1, Zenon DEF CaseAtom, Settled
  <2>3. fr.fn = "caseSubject"
    BY DEF New
  <2> HIDE DEF fr
  <2>4. Turn(r, cs)
    BY <1>0, <1>a, <2>2, <2>3, SkipMoves, AdvanceMoves, CompoundTurns
  <2> HIDE DEF q, r, cs
  <2> QED BY <2>2, <2>4, Boxes
<1>2. CASE AfterCaseSubject
  <2> DEFINE q == Skip(p)
             r == Skip(Advance(q))
             part == AddPart(Top, val)
             fr == [part EXCEPT !.fn = "casePattern", !.n = 0, !.ref = HereCol(r)]
             cs == Swap(fr)
  <2>1. At("caseSubject")
    BY <1>2, Zenon DEF AfterCaseSubject, At
  <2>2. Settled /\ Top \in Frame /\ \A f : f.fn \notin Brackets => Same(Swap(f))
    BY <1>a, <2>1, AtOther
  <2>3. Peek(q) = "of" => Flat(q)
    BY Reads, Zenon
  <2>4. \/ Flat(q) /\ Goto(r, cs, "branch")
        \/ Fail(q)
    BY <1>2, <2>3, Zenon DEF AfterCaseSubject
  <2>5. fr.fn = "casePattern"
    BY <2>2, NamesOf, Names DEF Named
  <2> HIDE DEF part, fr
  <2>6. Level(q)
    BY <1>0, SkipMoves
  <2> HIDE DEF q
  <2>7. Flat(q) => Turn(r, cs)
    BY <1>0, <1>a, <2>2, <2>5, <2>6, AdvanceMoves, SkipMoves DEF Turn
  <2> HIDE DEF r, cs
  <2> QED BY <2>2, <2>4, <2>6, <2>7, Goes, GoodFails
<1>3. CASE NextBranch
  <2> DEFINE q == Skip(p)
             r == DropSince(q, Top.snap)
             fr == [Top EXCEPT !.lead = Since(q, Top.snap)]
             cs == Swap(fr)
  <2>1. At("casePattern")
    BY <1>3, OwnersAre DEF NextBranch, At
  <2>2. /\ Settled /\ Top \in Frame /\ Top.fn = "casePattern" /\ Top.snap \in Nat /\ Same(Pop)
        /\ \A f : f.fn \notin Brackets => Same(Swap(f))
    BY <1>a, <2>1, AtOther
  <2>3. Goto(r, cs, "pattern") \/ Fail(q) \/ Return(q, Pop, Close(Top, q))
    BY <1>3, Zenon DEF NextBranch
  <2>4. fr.fn = "casePattern"
    BY <2>2 DEF Frame
  <2> HIDE DEF fr
  <2>5. Level(q) /\ Good(q)
    BY <1>0, SkipMoves DEF Level
  <2> HIDE DEF q
  <2>6. Thinner(r, q)
    BY <2>2, <2>5, Thins
  <2>7. Turn(r, cs) /\ Turn(q, Pop)
    BY <1>a, <2>2, <2>4, <2>5, <2>6, ThinMoves DEF Turn
  <2> HIDE DEF r, cs
  <2> QED BY <2>2, <2>3, <2>5, <2>7, Goes, Returns, GoodFails
<1>4. CASE AfterBranchPattern
  <2> DEFINE pat == IF Top.lead = <<>> THEN val ELSE [val EXCEPT !.cs = Top.lead]
             part == [Top EXCEPT !.sub = @ \cup val.sub, !.lead = <<>>]
             held == Hold(part, Carried(pat))
             q == Skip(p)
             next == Advance(q)
             r == [next EXCEPT !.ctx = 0]
             fr == [held EXCEPT !.fn = "caseBody", !.body = Snapshot(r)]
             cs == Swap(fr)
  <2>1. At("casePattern")
    BY <1>4, Zenon DEF AfterBranchPattern, At
  <2>2. Settled /\ Top \in Frame /\ \A f : f.fn \notin Brackets => Same(Swap(f))
    BY <1>a, <2>1, AtOther
  <2>3. Peek(q) = "->" => Flat(q)
    BY Reads, Zenon
  <2>4. \/ Flat(q) /\ Need(r, cs)
        \/ Fail(q)
    BY <1>4, <2>3, Zenon DEF AfterBranchPattern
  <2>5. fr.fn = "caseBody"
    BY <2>2, NamesOf, Names DEF Named
  <2> HIDE DEF pat, part, held, fr
  <2>6. Level(q)
    BY <1>0, SkipMoves
  <2> HIDE DEF q
  <2>7. Flat(q) => Turn(next, cs)
    BY <1>0, <1>a, <2>2, <2>5, <2>6, AdvanceMoves DEF Turn
  <2> HIDE DEF next, cs
  <2> QED BY <2>2, <2>4, <2>6, <2>7, Boxes, GoodFails
<1>5. CASE AfterBranchBody
  <2> DEFINE q == AfterPre(p, val, Top.body)
             part == AddPart(Top, WithPre(p, val, Top.body))
             fr == [part EXCEPT !.fn = "casePattern"]
             cs == Swap(fr)
  <2>1. At("caseBody")
    BY <1>5, Zenon DEF AfterBranchBody, At
  <2>2. Settled /\ Top \in Frame /\ Top.body \in Nat /\ \A f : f.fn \notin Brackets => Same(Swap(f))
    BY <1>a, <2>1, AtOther
  <2>3. Goto(q, cs, "branch")
    BY <1>5 DEF AfterBranchBody
  <2>4. fr.fn = "casePattern"
    BY <2>2, NamesOf, Names DEF Named
  <2> HIDE DEF part, fr
  <2>5. Thinner(q, p)
    BY <1>0, <2>2, Thins
  <2>6. Turn(q, cs)
    BY <1>0, <1>a, <2>2, <2>4, <2>5, ThinMoves DEF Turn
  <2> HIDE DEF q, cs
  <2> QED BY <2>2, <2>3, <2>6, Goes
<1> QED BY <1>1, <1>2, <1>3, <1>4, <1>5

(* The value of a let declaration.                                         *)
LEMMA LetValueBalanced ==
  ASSUME IInv, BalInv, Settled, NEW q, Level(q), NEW fr, Named(fr),
         \A f : f.fn \notin Brackets => Same(Swap(f)),
         NeedLetValue(q, fr)
  PROVE  BalInv'
<1>0. Stream /\ Ordered /\ OK(p)
  BY Ready
<1> DEFINE next == Advance(q)
           r == [next EXCEPT !.ctx = 0]
           f == [fr EXCEPT !.fn = "letValue", !.body = Snapshot(r)]
           cs == Swap(f)
<1>1. Peek(q) = "=" => Flat(q)
  BY Reads, Zenon
<1>2. (Flat(q) /\ Need(r, cs)) \/ Fail(q)
  BY <1>1, Zenon DEF NeedLetValue
<1>3. f.fn = "letValue" /\ "letValue" \notin Brackets
  BY Zenon DEF Named, Brackets
<1> HIDE DEF f
<1>4. Flat(q) => Turn(next, cs)
  BY <1>0, <1>3, AdvanceMoves DEF Turn
<1> HIDE DEF next, cs
<1> QED BY <1>2, <1>4, Boxes, GoodFails

LEMMA LetsBalanced ==
  ASSUME IInv, BalInv,
         \/ LetAtom \/ EndOfLet \/ NextLetDecl \/ AfterLetSignature \/ LetName \/ LetArguments
         \/ AfterLetArgument \/ AfterLetPattern \/ AfterLetValue \/ AfterLetBody
  PROVE  BalInv'
<1>0. Stream /\ Ordered /\ OK(p) /\ Level(p) /\ Good(p) /\ Same(calls) /\ Stack(calls)
  BY Ready DEF Level
<1>a. /\ "let" \notin Brackets /\ "letSig" \notin Brackets /\ "letArgs" \notin Brackets
      /\ "letPattern" \notin Brackets /\ "letValue" \notin Brackets /\ "letBody" \notin Brackets
  BY Zenon DEF Brackets
<1>1. CASE LetAtom
  <2> DEFINE q == Skip(p)
             r == Skip(Advance(q))
             fr == [New("let", Here(q)) EXCEPT !.col = HereCol(q), !.ref = HereCol(r), !.snap = Snapshot(q)]
             cs == Compound(fr)
  <2>1. Peek(q) = "let" => Flat(q)
    BY Reads, Zenon
  <2>2. Settled /\ Flat(q) /\ Goto(r, cs, "letNext")
    BY <1>1, <2>1, Zenon DEF LetAtom, Settled
  <2>3. fr.fn = "let"
    BY DEF New
  <2> HIDE DEF fr
  <2>4. Turn(r, cs)
    BY <1>0, <1>a, <2>2, <2>3, SkipMoves, AdvanceMoves, CompoundTurns
  <2> HIDE DEF q, r, cs
  <2> QED BY <2>2, <2>4, Goes
<1>2. CASE EndOfLet
  <2> DEFINE q == Skip(p)
             r == DropSince(q, Top.snap)
             next == Advance(r)
             s == [next EXCEPT !.ctx = 0]
             held == Hold(Top, Since(q, Top.snap))
             fr == [held EXCEPT !.fn = "letBody", !.body = Snapshot(s)]
             cs == Swap(fr)
  <2>1. At("let")
    BY <1>2, OwnersAre DEF EndOfLet, At
  <2>2. /\ Settled /\ Top \in Frame /\ Top.snap \in Nat
        /\ \A f : f.fn \notin Brackets => Same(Swap(f))
    BY <1>a, <2>1, AtOther
  <2>3. Peek(r) = "in" => Flat(r)
    BY Reads, Zenon
  <2>4. (Flat(r) /\ Need(s, cs)) \/ Fail(r)
    BY <1>2, <2>3, Zenon DEF EndOfLet
  <2>5. fr.fn = "letBody"
    BY <2>2, NamesOf, Names DEF Named
  <2> HIDE DEF held, fr
  <2>6. Level(q) /\ Good(q)
    BY <1>0, SkipMoves DEF Level
  <2> HIDE DEF q
  <2>7. Thinner(r, q)
    BY <2>2, <2>6, Thins
  <2>8. Level(r)
    BY <2>6, <2>7, ThinMoves
  <2> HIDE DEF r
  <2>9. Flat(r) => Turn(next, cs)
    BY <1>0, <1>a, <2>2, <2>5, <2>8, AdvanceMoves DEF Turn
  <2> HIDE DEF next, cs
  <2> QED BY <2>2, <2>4, <2>8, <2>9, Boxes, GoodFails
<1>3. CASE NextLetDecl
  <2> DEFINE q == Skip(p)
             r == DropSince(q, Top.snap)
             fr == [Top EXCEPT !.lead = Since(q, Top.snap), !.mark = Here(q)]
             sig == [fr EXCEPT !.fn = "letSig"]
             fun == [fr EXCEPT !.fn = "letArgs", !.lim = Here(q)]
             pat == [fr EXCEPT !.fn = "letPattern"]
  <2>1. At("let")
    BY <1>3, OwnersAre DEF NextLetDecl, At
  <2>2. /\ Settled /\ Top \in Frame /\ Top.snap \in Nat
        /\ \A f : f.fn \notin Brackets => Same(Swap(f))
    BY <1>a, <2>1, AtOther
  <2>3. Goto(r, Swap(sig), "signature") \/ Goto(r, Swap(fun), "letName") \/ Goto(r, Swap(pat), "pattern")
    BY <1>3, Zenon DEF NextLetDecl
  <2>4. sig.fn = "letSig" /\ fun.fn = "letArgs" /\ pat.fn = "letPattern"
    BY <2>2 DEF Frame
  <2> HIDE DEF fr, sig, fun, pat
  <2>5. Level(q) /\ Good(q)
    BY <1>0, SkipMoves DEF Level
  <2> HIDE DEF q
  <2>6. Thinner(r, q)
    BY <2>2, <2>5, Thins
  <2>7. Turn(r, Swap(sig)) /\ Turn(r, Swap(fun)) /\ Turn(r, Swap(pat))
    BY <1>a, <2>2, <2>4, <2>5, <2>6, ThinMoves DEF Turn
  <2> HIDE DEF r
  <2> QED BY <2>2, <2>3, <2>7, Goes
<1>4. CASE AfterLetSignature
  <2> DEFINE q == Skip(p)
             part == [Top EXCEPT !.sub = @ \cup val.sub]
             fr == Hold(part, Carried(val))
             next == [fr EXCEPT !.fn = "letArgs", !.lim = Here(q)]
  <2>1. At("letSig")
    BY <1>4, Zenon DEF AfterLetSignature, At
  <2>2. Settled /\ Top \in Frame /\ \A f : f.fn \notin Brackets => Same(Swap(f))
    BY <1>a, <2>1, AtOther
  <2>3. Goto(q, Swap(next), "letName")
    BY <1>4 DEF AfterLetSignature
  <2>4. next.fn = "letArgs"
    BY <2>2, NamesOf, Names DEF Named
  <2> HIDE DEF part, fr, next
  <2>5. Turn(q, Swap(next))
    BY <1>0, <1>a, <2>2, <2>4, SkipMoves DEF Turn
  <2> HIDE DEF q
  <2> QED BY <2>2, <2>3, <2>5, Goes
<1>5. CASE LetName
  <2> DEFINE q == Skip(p)
             r == Advance(q)
  <2>1. Peek(q) = "lower" => Flat(q)
    BY Reads, Zenon
  <2>2. Settled /\ ((Flat(q) /\ Goto(r, calls, "letArgs")) \/ Fail(q))
    BY <1>5, <2>1, Zenon DEF LetName, Settled
  <2>3. Level(q) /\ (Flat(q) => Turn(r, calls))
    BY <1>0, SkipMoves, AdvanceMoves DEF Turn
  <2> HIDE DEF q, r
  <2> QED BY <2>2, <2>3, Goes, GoodFails
<1>6. CASE LetArguments
  <2> DEFINE q == Skip(p)
  <2>1. At("letArgs")
    BY <1>6, OwnersAre DEF LetArguments, At
  <2>2. Settled /\ Top \in Frame /\ \A f : f.fn \notin Brackets => Same(Swap(f))
    BY <1>a, <2>1, AtOther
  <2>3. Goto(q, calls, "pattern") \/ NeedLetValue(q, Top)
    BY <1>6, Zenon DEF LetArguments
  <2>4. Level(q) /\ Turn(q, calls)
    BY <1>0, SkipMoves DEF Turn
  <2> HIDE DEF q
  <2>5. Named(Top)
    BY <2>2, NamesOf
  <2> QED BY <2>2, <2>3, <2>4, <2>5, Goes, LetValueBalanced
<1>7. CASE AfterLetArgument
  <2> DEFINE part == [Top EXCEPT !.sub = @ \cup val.sub]
             fr == Hold(part, Carried(val))
  <2>1. At("letArgs")
    BY <1>7, Zenon DEF AfterLetArgument, At
  <2>2. Settled /\ Top \in Frame /\ Top.fn = "letArgs" /\ \A f : f.fn \notin Brackets => Same(Swap(f))
    BY <1>a, <2>1, AtOther
  <2>3. Goto(p, Swap(fr), "letArgs")
    BY <1>7 DEF AfterLetArgument
  <2>4. fr.fn = "letArgs"
    BY <2>2, NamesOf, Names DEF Named
  <2> HIDE DEF part, fr
  <2>5. Turn(p, Swap(fr))
    BY <1>0, <1>a, <2>2, <2>4 DEF Turn
  <2> QED BY <2>2, <2>3, <2>5, Goes
<1>8. CASE AfterLetPattern
  <2> DEFINE q == Skip(p)
             part == [Top EXCEPT !.sub = @ \cup val.sub, !.lim = 0]
             fr == Hold(part, Carried(val))
  <2>1. At("letPattern")
    BY <1>8, Zenon DEF AfterLetPattern, At
  <2>2. Settled /\ Top \in Frame /\ \A f : f.fn \notin Brackets => Same(Swap(f))
    BY <1>a, <2>1, AtOther
  <2>3. NeedLetValue(q, fr)
    BY <1>8 DEF AfterLetPattern
  <2>4. Named(fr)
    BY <2>2, NamesOf, Names DEF Named
  <2> HIDE DEF part, fr
  <2>5. Level(q)
    BY <1>0, SkipMoves
  <2> HIDE DEF q
  <2> QED BY <2>2, <2>3, <2>4, <2>5, LetValueBalanced
<1>9. CASE AfterLetValue
  <2> DEFINE q == AfterPre(p, val, Top.body)
             body == WithPre(p, val, Top.body)
             impl == IF Top.lim = 0 THEN {} ELSE SpanNode(Top.lim, q, <<>>, {}).sub
             decl == SpanNode(Top.mark, q, Carried(body), val.sub \cup impl)
             part == AddPart(Top, Lead(decl, Top.lead))
             fr == [part EXCEPT !.fn = "let", !.lead = <<>>]
             cs == Swap(fr)
  <2>1. At("letValue")
    BY <1>9, Zenon DEF AfterLetValue, At
  <2>2. Settled /\ Top \in Frame /\ Top.body \in Nat /\ \A f : f.fn \notin Brackets => Same(Swap(f))
    BY <1>a, <2>1, AtOther
  <2>3. Goto(q, cs, "letNext")
    BY <1>9 DEF AfterLetValue
  <2>4. fr.fn = "let"
    BY <2>2, NamesOf, Names DEF Named
  <2> HIDE DEF body, impl, decl, part, fr
  <2>5. Thinner(q, p)
    BY <1>0, <2>2, Thins
  <2>6. Turn(q, cs)
    BY <1>0, <1>a, <2>2, <2>4, <2>5, ThinMoves DEF Turn
  <2> HIDE DEF q, cs
  <2> QED BY <2>2, <2>3, <2>6, Goes
<1>10. CASE AfterLetBody
  <2> DEFINE q == AfterPre(p, val, Top.body)
             n == Close(AddPart(Top, WithPre(p, val, Top.body)), q)
  <2>1. At("letBody")
    BY <1>10, Zenon DEF AfterLetBody, At
  <2>2. Settled /\ Top.body \in Nat /\ Same(Pop)
    BY <1>a, <2>1, AtOther
  <2>3. Return(q, Pop, n)
    BY <1>10 DEF AfterLetBody
  <2> HIDE DEF n
  <2>4. Thinner(q, p)
    BY <1>0, <2>2, Thins
  <2>5. Turn(q, Pop)
    BY <1>0, <2>2, <2>4, ThinMoves DEF Turn
  <2> HIDE DEF q
  <2> QED BY <2>2, <2>3, <2>5, Returns
<1> QED BY <1>1, <1>2, <1>3, <1>4, <1>5, <1>6, <1>7, <1>8, <1>9, <1>10

LEMMA LambdasBalanced ==
  ASSUME IInv, BalInv, LambdaAtom \/ LambdaArguments \/ AfterLambdaArgument \/ AfterLambdaBody
  PROVE  BalInv'
<1>0. Stream /\ Ordered /\ OK(p) /\ Level(p) /\ Good(p) /\ Same(calls) /\ Stack(calls)
  BY Ready DEF Level
<1>a. "lambda" \notin Brackets /\ "lambdaBody" \notin Brackets
  BY Zenon DEF Brackets
<1>1. CASE LambdaAtom
  <2> DEFINE q == Skip(p)
             r == Advance(q)
             fr == New("lambda", Here(q))
             cs == Compound(fr)
  <2>1. Peek(q) = "\\" => Flat(q)
    BY Reads, Zenon
  <2>2. Settled /\ Flat(q) /\ Goto(r, cs, "lambdaArgs")
    BY <1>1, <2>1, Zenon DEF LambdaAtom, Settled
  <2>3. fr.fn = "lambda"
    BY DEF New
  <2> HIDE DEF fr
  <2>4. Turn(r, cs)
    BY <1>0, <1>a, <2>2, <2>3, SkipMoves, AdvanceMoves, CompoundTurns
  <2> HIDE DEF q, r, cs
  <2> QED BY <2>2, <2>4, Goes
<1>2. CASE LambdaArguments
  <2> DEFINE q == Skip(p)
             r == Advance(q)
             fr == [Top EXCEPT !.fn = "lambdaBody", !.body = Snapshot(r)]
             cs == Swap(fr)
  <2>1. At("lambda")
    BY <1>2, OwnersAre DEF LambdaArguments, At
  <2>2. Settled /\ Top \in Frame /\ \A f : f.fn \notin Brackets => Same(Swap(f))
    BY <1>a, <2>1, AtOther
  <2>3. Peek(q) = "->" => Flat(q)
    BY Reads, Zenon
  <2>4. Goto(q, calls, "pattern") \/ Fail(q) \/ (Flat(q) /\ Need(r, cs))
    BY <1>2, <2>3, Zenon DEF LambdaArguments
  <2>5. fr.fn = "lambdaBody"
    BY <2>2 DEF Frame
  <2> HIDE DEF fr
  <2>6. Level(q) /\ Turn(q, calls)
    BY <1>0, SkipMoves DEF Turn
  <2> HIDE DEF q
  <2>7. Flat(q) => Turn(r, cs)
    BY <1>0, <1>a, <2>2, <2>5, <2>6, AdvanceMoves DEF Turn
  <2> HIDE DEF r, cs
  <2> QED BY <2>2, <2>4, <2>6, <2>7, Goes, Boxes, GoodFails
<1>3. CASE AfterLambdaArgument
  <2> DEFINE fr == AddPart(Top, val)
  <2>1. At("lambda")
    BY <1>3, Zenon DEF AfterLambdaArgument, At
  <2>2. Settled /\ Top \in Frame /\ Top.fn = "lambda" /\ \A f : f.fn \notin Brackets => Same(Swap(f))
    BY <1>a, <2>1, AtOther
  <2>3. Goto(p, Swap(fr), "lambdaArgs")
    BY <1>3 DEF AfterLambdaArgument
  <2>4. fr.fn = "lambda"
    BY <2>2, NamesOf, Names
  <2> HIDE DEF fr
  <2>5. Turn(p, Swap(fr))
    BY <1>0, <1>a, <2>2, <2>4 DEF Turn
  <2> QED BY <2>2, <2>3, <2>5, Goes
<1>4. CASE AfterLambdaBody
  <2> DEFINE q == AfterPre(p, val, Top.body)
             n == Close(AddPart(Top, WithPre(p, val, Top.body)), q)
  <2>1. At("lambdaBody")
    BY <1>4, Zenon DEF AfterLambdaBody, At
  <2>2. Settled /\ Top.body \in Nat /\ Same(Pop)
    BY <1>a, <2>1, AtOther
  <2>3. Return(q, Pop, n)
    BY <1>4 DEF AfterLambdaBody
  <2> HIDE DEF n
  <2>4. Thinner(q, p)
    BY <1>0, <2>2, Thins
  <2>5. Turn(q, Pop)
    BY <1>0, <2>2, <2>4, ThinMoves DEF Turn
  <2> HIDE DEF q
  <2> QED BY <2>2, <2>3, <2>5, Returns
<1> QED BY <1>1, <1>2, <1>3, <1>4
-----------------------------------------------------------------------------
(* Patterns.                                                               *)

(* A function more, that holds a bracket or none.                          *)
LEMMA PushTurns ==
  ASSUME IInv, BalInv, NEW q, NEW fr
  PROVE  /\ Inside(q) /\ fr.fn \in Brackets => Turn(q, Append(calls, fr))
         /\ Level(q) /\ fr.fn \notin Brackets => Turn(q, Append(calls, fr))
BY Ready, Push DEF Turn

LEMMA OperatorPatternsBalanced ==
  ASSUME IInv, BalInv,
         \/ ParsePattern \/ AfterAsOperand
         \/ ParseConsPattern \/ AfterConsHead \/ AfterConsTail
         \/ ParseAppPattern \/ QualifyCtor \/ CtorArguments \/ AfterCtorArgument
  PROVE  BalInv'
<1>0. Stream /\ Ordered /\ OK(p) /\ Level(p) /\ Good(p) /\ Same(calls) /\ Stack(calls)
  BY Ready DEF Level
<1>a. "as" \notin Brackets /\ "cons" \notin Brackets /\ "consTail" \notin Brackets /\ "ctor" \notin Brackets
  BY Zenon DEF Brackets
<1>1. CASE ParsePattern
  <2> DEFINE fr == New("as", Here(p))
  <2>1. Settled /\ Goto(p, Append(calls, fr), "consPattern")
    BY <1>1 DEF ParsePattern, Settled
  <2>2. fr.fn = "as"
    BY DEF New
  <2> HIDE DEF fr
  <2> QED BY <1>0, <1>a, <2>1, <2>2, PushTurns, Goes
<1>2. CASE AfterAsOperand
  <2> DEFINE q == Skip(p)
             r == Skip(Advance(q))
             s == Advance(r)
             n == Close(AddPart(Top, val), s)
  <2>1. At("as")
    BY <1>2 DEF AfterAsOperand, At
  <2>2. Settled /\ Same(Pop)
    BY <1>a, <2>1, AtOther
  <2>3. (Peek(q) = "as" => Flat(q)) /\ (Peek(r) = "lower" => Flat(r))
    BY Reads, Zenon
  <2>4. \/ Return(q, Pop, val)
        \/ Flat(q) /\ Fail(r)
        \/ Flat(q) /\ Flat(r) /\ Return(s, Pop, n)
    BY <1>2, <2>3, Zenon DEF AfterAsOperand
  <2> HIDE DEF n
  <2>5. Level(q) /\ (Flat(q) => Level(r))
    BY <1>0, SkipMoves, AdvanceMoves
  <2> HIDE DEF q, r
  <2>6. Turn(q, Pop) /\ (Flat(q) /\ Flat(r) => Turn(s, Pop))
    BY <1>0, <2>2, <2>5, AdvanceMoves DEF Turn
  <2> HIDE DEF s
  <2> QED BY <2>2, <2>4, <2>5, <2>6, Returns, GoodFails
<1>3. CASE ParseConsPattern
  <2> DEFINE fr == New("cons", Here(p))
  <2>1. Settled /\ Goto(p, Append(calls, fr), "appPattern")
    BY <1>3 DEF ParseConsPattern, Settled
  <2>2. fr.fn = "cons"
    BY DEF New
  <2> HIDE DEF fr
  <2> QED BY <1>0, <1>a, <2>1, <2>2, PushTurns, Goes
<1>4. CASE AfterConsHead
  <2> DEFINE q == Skip(p)
             r == Advance(q)
             part == AddPart(Top, val)
             fr == [part EXCEPT !.fn = "consTail"]
  <2>1. At("cons")
    BY <1>4 DEF AfterConsHead, At
  <2>2. Settled /\ Same(Pop) /\ Top \in Frame /\ \A f : f.fn \notin Brackets => Same(Swap(f))
    BY <1>a, <2>1, AtOther
  <2>3. Peek(q) = "op" => Flat(q)
    BY Reads, Zenon
  <2>4. (Flat(q) /\ Goto(r, Swap(fr), "consPattern")) \/ Return(q, Pop, val)
    BY <1>4, <2>3, Zenon DEF AfterConsHead
  <2>5. fr.fn = "consTail"
    BY <2>2, NamesOf, Names DEF Named
  <2> HIDE DEF part, fr
  <2>6. Level(q)
    BY <1>0, SkipMoves
  <2> HIDE DEF q
  <2>7. Turn(q, Pop) /\ (Flat(q) => Turn(r, Swap(fr)))
    BY <1>0, <1>a, <2>2, <2>5, <2>6, AdvanceMoves DEF Turn
  <2> HIDE DEF r
  <2> QED BY <2>2, <2>4, <2>7, Goes, Returns
<1>5. CASE AfterConsTail
  <2>1. At("consTail")
    BY <1>5 DEF AfterConsTail, At
  <2>2. Settled /\ Turn(p, Pop)
    BY <1>0, <1>a, <2>1, AtOther DEF Turn
  <2> QED BY <1>5, <2>2, Returns DEF AfterConsTail
<1>6. CASE ParseAppPattern
  <2> DEFINE q == Skip(p)
             r == Advance(q)
             fr == [New("ctor", Here(p)) EXCEPT !.col = HereCol(q), !.n = 1, !.line = toks[q.pos].line]
  <2>1. Peek(q) = "upper" => Flat(q)
    BY Reads, Zenon
  <2>2. Settled /\ ((Flat(q) /\ Goto(r, Append(calls, fr), "ctorName")) \/ Goto(q, calls, "atomPattern"))
    BY <1>6, <2>1, Zenon DEF ParseAppPattern, Settled
  <2>3. fr.fn = "ctor"
    BY DEF New
  <2> HIDE DEF fr
  <2>4. Level(q) /\ (Flat(q) => Level(r)) /\ Turn(q, calls)
    BY <1>0, SkipMoves, AdvanceMoves DEF Turn
  <2> HIDE DEF q, r
  <2> QED BY <1>a, <2>2, <2>3, <2>4, PushTurns, Goes
<1>7. CASE QualifyCtor
  <2> DEFINE q == Advance(p)
             r == Advance(q)
  <2>1. At("ctor")
    BY <1>7, OwnersAre DEF QualifyCtor, At
  <2>2. Settled /\ Same(Pop)
    BY <1>a, <2>1, AtOther
  <2>3. (Peek(p) = "." => Flat(p)) /\ (Peek(q) = "upper" => Flat(q))
    BY Reads, Zenon
  <2>4. /\ ctl # "reduce"
        /\ \/ Flat(p) /\ Flat(q) /\ Goto(r, calls, ctl)
           \/ Goto(p, calls, "ctorArgs")
           \/ Return(p, Pop, Close(Top, p))
    BY <1>7, <2>3, Zenon DEF QualifyCtor
  <2>5. Flat(p) => Level(q)
    BY <1>0, AdvanceMoves
  <2> HIDE DEF q
  <2>6. Turn(p, calls) /\ Turn(p, Pop) /\ (Flat(p) /\ Flat(q) => Turn(r, calls))
    BY <1>0, <2>2, <2>5, AdvanceMoves DEF Turn
  <2> HIDE DEF r
  <2> QED BY <2>2, <2>4, <2>6, Goes, Returns
<1>8. CASE CtorArguments
  <2> DEFINE q == Skip(p)
  <2>1. At("ctor")
    BY <1>8, OwnersAre DEF CtorArguments, At
  <2>2. Settled /\ Same(Pop)
    BY <1>a, <2>1, AtOther
  <2>3. Goto(q, calls, "atomPattern") \/ Return(q, Pop, Close(Top, q))
    BY <1>8, Zenon DEF CtorArguments
  <2>4. Turn(q, calls) /\ Turn(q, Pop)
    BY <1>0, <2>2, SkipMoves DEF Turn
  <2> HIDE DEF q
  <2> QED BY <2>2, <2>3, <2>4, Goes, Returns
<1>9. CASE AfterCtorArgument
  <2> DEFINE fr == AddPart(Top, val)
  <2>1. At("ctor")
    BY <1>9 DEF AfterCtorArgument, At
  <2>2. Settled /\ Top \in Frame /\ Top.fn = "ctor" /\ \A f : f.fn \notin Brackets => Same(Swap(f))
    BY <1>a, <2>1, AtOther
  <2>3. Goto(p, Swap(fr), "ctorArgs")
    BY <1>9 DEF AfterCtorArgument
  <2>4. fr.fn = "ctor"
    BY <2>2, NamesOf, Names
  <2> HIDE DEF fr
  <2>5. Turn(p, Swap(fr))
    BY <1>0, <1>a, <2>2, <2>4 DEF Turn
  <2> QED BY <2>2, <2>3, <2>5, Goes
<1> QED BY <1>1, <1>2, <1>3, <1>4, <1>5, <1>6, <1>7, <1>8, <1>9

LEMMA AtomicPatternsBalanced ==
  ASSUME IInv, BalInv,
         SimplePattern \/ AtomicCtorPattern \/ NegativePattern \/ ParenPattern \/ ListPattern \/ NotAPattern
  PROVE  BalInv'
<1>0. Stream /\ Ordered /\ OK(p) /\ Level(p) /\ Good(p) /\ Same(calls) /\ Stack(calls)
  BY Ready DEF Level
<1>a. "ctor" \notin Brackets /\ "patParen" \in Brackets /\ "patList" \in Brackets
  BY Zenon DEF Brackets
<1> DEFINE q == Skip(p)
           open == Advance(q)
           r == Skip(open)
           s == Advance(r)
<1>b. Level(q)
  BY <1>0, SkipMoves
<1>c. (Flat(q) => Level(open) /\ Level(r)) /\ (Opens(q) => Inside(r))
  <2> HIDE DEF q
  <2> QED BY <1>0, <1>b, AdvanceMoves, SkipMoves
<1>d. /\ Flat(q) => Turn(open, calls)
      /\ Flat(q) /\ Flat(r) => Turn(s, calls)
      /\ Opens(q) /\ Closes(r) => Turn(s, calls)
  <2> HIDE DEF q, r, open
  <2> QED BY <1>0, <1>c, AdvanceMoves DEF Turn
<1>1. CASE SimplePattern
  <2>1. Peek(q) \in {"_", "lower", "number", "text"} => Flat(q)
    BY Reads, Zenon
  <2>2. Settled /\ Flat(q) /\ Return(open, calls, Leaf(Here(q), open))
    BY <1>1, <2>1, Zenon DEF SimplePattern, Settled
  <2> HIDE DEF q, open
  <2> QED BY <1>d, <2>2, Returns
<1>2. CASE AtomicCtorPattern
  <2> DEFINE fr == New("ctor", Here(q))
  <2>1. Peek(q) = "upper" => Flat(q)
    BY Reads, Zenon
  <2>2. Settled /\ Flat(q) /\ Goto(open, Append(calls, fr), "atomCtor")
    BY <1>2, <2>1, Zenon DEF AtomicCtorPattern, Settled
  <2>3. fr.fn = "ctor"
    BY DEF New
  <2> HIDE DEF fr, q, open
  <2> QED BY <1>a, <1>c, <2>2, <2>3, PushTurns, Goes
<1>3. CASE NegativePattern
  <2>1. (Peek(q) = "-" => Flat(q)) /\ (Peek(r) = "number" => Flat(r))
    BY Reads, Zenon
  <2>2. Settled /\ Flat(q) /\ ((Flat(r) /\ Return(s, calls, Leaf(Here(q), s))) \/ Fail(r))
    BY <1>3, <2>1, Zenon DEF NegativePattern, Settled
  <2> HIDE DEF q, open, r, s
  <2> QED BY <1>c, <1>d, <2>2, Returns, GoodFails
<1>4. CASE ParenPattern
  <2> DEFINE fr == New("patParen", Here(q))
  <2>1. (Peek(q) = "(" => Opens(q)) /\ (Peek(r) = ")" => Closes(r))
    BY Reads, Zenon
  <2>2. /\ Settled /\ Opens(q)
        /\ (Closes(r) /\ Return(s, calls, Leaf(Here(q), s))) \/ Goto(r, Append(calls, fr), "pattern")
    BY <1>4, <2>1, Zenon DEF ParenPattern, Settled
  <2>3. fr.fn = "patParen"
    BY DEF New
  <2> HIDE DEF fr, q, open, r, s
  <2> QED BY <1>a, <1>c, <1>d, <2>2, <2>3, PushTurns, Goes, Returns
<1>5. CASE ListPattern
  <2> DEFINE fr == New("patList", Here(q))
  <2>1. (Peek(q) = "[" => Opens(q)) /\ (Peek(r) = "]" => Closes(r))
    BY Reads, Zenon
  <2>2. /\ Settled /\ Opens(q)
        /\ (Closes(r) /\ Return(s, calls, Leaf(Here(q), s))) \/ Goto(r, Append(calls, fr), "pattern")
    BY <1>5, <2>1, Zenon DEF ListPattern, Settled
  <2>3. fr.fn = "patList"
    BY DEF New
  <2> HIDE DEF fr, q, open, r, s
  <2> QED BY <1>a, <1>c, <1>d, <2>2, <2>3, PushTurns, Goes, Returns
<1>6. CASE NotAPattern
  BY <1>6, <1>b, GoodFails DEF NotAPattern
<1> QED BY <1>1, <1>2, <1>3, <1>4, <1>5, <1>6

(* A comma between two elements, or the bracket that ends them.            *)
LEMMA ElementsBalanced ==
  ASSUME IInv, BalInv, NEW fn, fn \in Brackets, At(fn), NEW q, Level(q), NEW fr, fr.fn \in Brackets,
         NEW c, c # "reduce", NEW n,
         \/ Flat(q) /\ Goto(Advance(q), Swap(fr), c)
         \/ Closes(q) /\ Return(Advance(q), Pop, n)
         \/ Fail(q)
  PROVE  BalInv'
<1>1. Stream /\ Ordered /\ OK(p)
  BY Ready
<1>2. Settled /\ p.depth > 0 /\ Fewer(Pop) /\ Same(Swap(fr))
  BY AtBracket
<1> DEFINE r == Advance(q)
<1>3. (Flat(q) => Level(r)) /\ (Closes(q) => Outside(r))
  BY <1>1, <1>2, AdvanceMoves
<1>4. (Flat(q) => Turn(r, Swap(fr))) /\ (Closes(q) => Turn(r, Pop))
  BY <1>2, <1>3 DEF Turn
<1> HIDE DEF r
<1> QED BY <1>2, <1>4, Goes, Returns, GoodFails DEF r

LEMMA BracketPatternsBalanced ==
  ASSUME IInv, BalInv,
         AfterFirstInParen \/ AfterTuplePattern \/ AfterListPattern \/ RecordPattern \/ PatternField
  PROVE  BalInv'
<1>0. Stream /\ Ordered /\ OK(p) /\ Level(p) /\ Good(p) /\ Same(calls) /\ Stack(calls)
  BY Ready DEF Level
<1>a. "patParen" \in Brackets /\ "patTuple" \in Brackets /\ "patList" \in Brackets /\ "patRecord" \in Brackets
  BY Zenon DEF Brackets
<1> DEFINE q == Skip(p)
           r == Advance(q)
           s == Skip(r)
           fr == AddPart(Top, val)
<1>b. Level(q)
  BY <1>0, SkipMoves
<1>1. CASE AfterFirstInParen
  <2> DEFINE next == [fr EXCEPT !.fn = "patTuple"]
             n == Close(fr, r)
  <2>1. At("patParen")
    BY <1>1, Zenon DEF AfterFirstInParen, At
  <2>2. Top \in Frame
    BY <1>a, <2>1, AtBracket
  <2>3. (Peek(q) = "," => Flat(q)) /\ (Peek(q) = ")" => Closes(q))
    BY Reads, Zenon
  <2>4. (Flat(q) /\ Goto(r, Swap(next), "pattern")) \/ (Closes(q) /\ Return(r, Pop, n)) \/ Fail(q)
    BY <1>1, <2>3, Zenon DEF AfterFirstInParen
  <2>5. next.fn = "patTuple"
    BY <2>2, NamesOf, Names DEF Named
  <2> HIDE DEF next, n, q
  <2> QED BY <1>a, <1>b, <2>1, <2>4, <2>5, ElementsBalanced
<1>2. CASE AfterTuplePattern
  <2> DEFINE n == Close(fr, r)
  <2>1. At("patTuple")
    BY <1>2, Zenon DEF AfterTuplePattern, AfterPatternElement, At
  <2>2. Top \in Frame /\ Top.fn = "patTuple"
    BY <1>a, <2>1, AtBracket
  <2>3. (Peek(q) = "," => Flat(q)) /\ (Peek(q) = ")" => Closes(q))
    BY Reads, Zenon
  <2>4. (Flat(q) /\ Goto(r, Swap(fr), "pattern")) \/ (Closes(q) /\ Return(r, Pop, n)) \/ Fail(q)
    BY <1>2, <2>3, Zenon DEF AfterTuplePattern, AfterPatternElement
  <2>5. fr.fn = "patTuple"
    BY <2>2, NamesOf, Names
  <2> HIDE DEF fr, n, q
  <2> QED BY <1>a, <1>b, <2>1, <2>4, <2>5, ElementsBalanced
<1>3. CASE AfterListPattern
  <2> DEFINE n == Close(fr, r)
  <2>1. At("patList")
    BY <1>3, Zenon DEF AfterListPattern, AfterPatternElement, At
  <2>2. Top \in Frame /\ Top.fn = "patList"
    BY <1>a, <2>1, AtBracket
  <2>3. (Peek(q) = "," => Flat(q)) /\ (Peek(q) = "]" => Closes(q))
    BY Reads, Zenon
  <2>4. (Flat(q) /\ Goto(r, Swap(fr), "pattern")) \/ (Closes(q) /\ Return(r, Pop, n)) \/ Fail(q)
    BY <1>3, <2>3, Zenon DEF AfterListPattern, AfterPatternElement
  <2>5. fr.fn = "patList"
    BY <2>2, NamesOf, Names
  <2> HIDE DEF fr, n, q
  <2> QED BY <1>a, <1>b, <2>1, <2>4, <2>5, ElementsBalanced
<1>4. CASE RecordPattern
  <2> DEFINE t == Advance(s)
             rec == New("patRecord", Here(q))
  <2>1. (Peek(q) = "{" => Opens(q)) /\ (Peek(s) = "}" => Closes(s))
    BY Reads, Zenon
  <2>2. /\ Settled /\ Opens(q)
        /\ \/ Closes(s) /\ Return(t, calls, Leaf(Here(q), t))
           \/ Fail(s)
           \/ Goto(r, Append(calls, rec), "patternField")
    BY <1>4, <2>1, Zenon DEF RecordPattern, Settled
  <2>3. rec.fn = "patRecord"
    BY DEF New
  <2> HIDE DEF rec, q
  <2>4. Inside(r) /\ Inside(s)
    BY <1>0, <1>b, <2>2, AdvanceMoves, SkipMoves
  <2> HIDE DEF r, s
  <2>5. Closes(s) => Turn(t, calls)
    BY <1>0, <2>4, AdvanceMoves DEF Turn
  <2> HIDE DEF t
  <2> QED BY <1>a, <2>2, <2>3, <2>4, <2>5, PushTurns, Goes, Returns, GoodFails
<1>5. CASE PatternField
  <2> DEFINE t == Advance(s)
             n == Close(Top, t)
  <2>1. At("patRecord")
    BY <1>5, OwnersAre DEF PatternField, At
  <2>2. Settled /\ p.depth > 0 /\ Fewer(Pop)
    BY <1>a, <2>1, AtBracket
  <2>3. (Peek(q) = "lower" => Flat(q)) /\ (Peek(s) = "," => Flat(s)) /\ (Peek(s) = "}" => Closes(s))
    BY Reads, Zenon
  <2>4. \/ Fail(q)
        \/ Flat(q) /\ Flat(s) /\ Goto(t, calls, "patternField")
        \/ Flat(q) /\ Closes(s) /\ Return(t, Pop, n)
        \/ Flat(q) /\ Fail(s)
    BY <1>5, <2>3, Zenon DEF PatternField
  <2> HIDE DEF n, q
  <2>5. Flat(q) => Level(s)
    BY <1>0, <1>b, AdvanceMoves, SkipMoves
  <2> HIDE DEF r, s
  <2>6. Flat(q) => (Flat(s) => Turn(t, calls)) /\ (Closes(s) => Turn(t, Pop))
    BY <1>0, <2>2, <2>5, AdvanceMoves DEF Turn
  <2> HIDE DEF t
  <2> QED BY <1>b, <2>2, <2>4, <2>5, <2>6, Goes, Returns, GoodFails
<1> QED BY <1>1, <1>2, <1>3, <1>4, <1>5

LEMMA PatternsBalanced == ASSUME IInv, BalInv, PatternNext PROVE BalInv'
BY OperatorPatternsBalanced, AtomicPatternsBalanced, BracketPatternsBalanced, Zenon DEF PatternNext
-----------------------------------------------------------------------------
(* Types.                                                                  *)

LEMMA ArrowTypesBalanced ==
  ASSUME IInv, BalInv,
         \/ ParseType \/ AfterFirstArm \/ AfterArrow
         \/ ParseTypeApp \/ QualifyType \/ TypeArguments \/ AfterTypeArgument
         \/ ParseSignature \/ AfterSignatureType
  PROVE  BalInv'
<1>0. Stream /\ Ordered /\ OK(p) /\ Level(p) /\ Good(p) /\ Same(calls) /\ Stack(calls)
  BY Ready DEF Level
<1>a. "type" \notin Brackets /\ "arrow" \notin Brackets /\ "typeApp" \notin Brackets /\ "signature" \notin Brackets
  BY Zenon DEF Brackets
<1>1. CASE ParseType
  <2> DEFINE fr == [New("type", Here(p)) EXCEPT !.snap = Snapshot(p), !.lim = FirstTokenOffset(p)]
  <2>1. Settled /\ Goto(p, Append(calls, fr), "typeApp")
    BY <1>1 DEF ParseType, Settled
  <2>2. fr.fn = "type"
    BY DEF New
  <2> HIDE DEF fr
  <2> QED BY <1>0, <1>a, <2>1, <2>2, PushTurns, Goes
<1>2. CASE AfterFirstArm
  <2> DEFINE early == Before(p, Top.lim)
             left == Lead(val, Claimed(p, Top.snap, early))
             u == Unclaimed(p, Top.snap, early)
             q == Skip(u)
             gap == Between(q, left.to, Here(q))
             t == Unclaimed(q, 0, gap)
             r == Advance(t)
             part == AddPart(Top, left)
             fr == [part EXCEPT !.fn = "arrow", !.lead = Claimed(q, 0, gap)]
  <2>1. At("type")
    BY <1>2 DEF AfterFirstArm, At
  <2>2. Settled /\ Same(Pop) /\ Top \in Frame /\ Top.snap \in Nat /\ \A f : f.fn \notin Brackets => Same(Swap(f))
    BY <1>a, <2>1, AtOther
  <2>3. Peek(q) = "->" => Flat(q)
    BY Reads, Zenon
  <2>4. (Flat(q) /\ Goto(r, Swap(fr), "type")) \/ Return(q, Pop, left)
    BY <1>2, <2>3, Zenon DEF AfterFirstArm
  <2>5. fr.fn = "arrow"
    BY <2>2, NamesOf, Names DEF Named
  <2> HIDE DEF early, left, gap, part, fr
  <2>6. Thinner(u, p)
    BY <1>0, <2>2, Thins
  <2>7. Level(q) /\ Good(q)
    BY <1>0, <2>6, ThinMoves, SkipMoves DEF Level
  <2> HIDE DEF u, q
  <2>8. Thinner(t, q)
    BY <2>7, Thins
  <2>9. Level(t) /\ (Flat(q) => Flat(t))
    BY <2>7, <2>8, ThinMoves, Reads, Zenon DEF Flat
  <2> HIDE DEF t
  <2>10. Turn(q, Pop) /\ (Flat(q) => Turn(r, Swap(fr)))
    BY <1>0, <1>a, <2>2, <2>5, <2>7, <2>9, AdvanceMoves DEF Turn
  <2> HIDE DEF r
  <2> QED BY <2>2, <2>4, <2>10, Goes, Returns
<1>3. CASE AfterArrow
  <2> DEFINE right == Lead(val, Top.lead)
             n == [Close(AddPart(Top, right), p) EXCEPT !.arrow = TRUE]
  <2>1. At("arrow")
    BY <1>3 DEF AfterArrow, At
  <2>2. Settled /\ Turn(p, Pop)
    BY <1>0, <1>a, <2>1, AtOther DEF Turn
  <2>3. Return(p, Pop, n)
    BY <1>3 DEF AfterArrow
  <2> QED BY <2>2, <2>3, Returns
<1>4. CASE ParseTypeApp
  <2> DEFINE q == Skip(p)
             r == Advance(q)
             fr == New("typeApp", Here(p))
  <2>1. Peek(q) = "upper" => Flat(q)
    BY Reads, Zenon
  <2>2. Settled /\ ((Flat(q) /\ Goto(r, Append(calls, fr), "typeName")) \/ Goto(q, calls, "atomType"))
    BY <1>4, <2>1, Zenon DEF ParseTypeApp, Settled
  <2>3. fr.fn = "typeApp"
    BY DEF New
  <2> HIDE DEF fr
  <2>4. Level(q) /\ (Flat(q) => Level(r)) /\ Turn(q, calls)
    BY <1>0, SkipMoves, AdvanceMoves DEF Turn
  <2> HIDE DEF q, r
  <2> QED BY <1>a, <2>2, <2>3, <2>4, PushTurns, Goes
<1>5. CASE QualifyType
  <2> DEFINE q == Advance(p)
             r == Advance(q)
             name == toks[p.pos - 1]
             fr == [Top EXCEPT !.col = name.col, !.line = name.line]
  <2>1. At("typeApp")
    BY <1>5, OwnersAre DEF QualifyType, At
  <2>2. /\ Settled /\ Same(Pop) /\ Top \in Frame /\ Top.fn = "typeApp"
        /\ \A f : f.fn \notin Brackets => Same(Swap(f))
    BY <1>a, <2>1, AtOther
  <2>3. (Peek(p) = "." => Flat(p)) /\ (Peek(q) = "upper" => Flat(q))
    BY Reads, Zenon
  <2>4. /\ ctl # "reduce"
        /\ \/ Flat(p) /\ Flat(q) /\ Goto(r, calls, ctl)
           \/ Goto(p, Swap(fr), "typeArgs")
           \/ Return(p, Pop, Close(Top, p))
    BY <1>5, <2>3, Zenon DEF QualifyType
  <2> HIDE DEF name
  <2>5. fr.fn = "typeApp"
    BY <2>2 DEF Frame
  <2> HIDE DEF fr
  <2>6. Flat(p) => Level(q)
    BY <1>0, AdvanceMoves
  <2> HIDE DEF q
  <2>7. Turn(p, Swap(fr)) /\ Turn(p, Pop) /\ (Flat(p) /\ Flat(q) => Turn(r, calls))
    BY <1>0, <1>a, <2>2, <2>5, <2>6, AdvanceMoves DEF Turn
  <2> HIDE DEF r
  <2> QED BY <2>2, <2>4, <2>7, Goes, Returns
<1>6. CASE TypeArguments
  <2> DEFINE q == Skip(p)
  <2>1. At("typeApp")
    BY <1>6, OwnersAre DEF TypeArguments, At
  <2>2. Settled /\ Same(Pop)
    BY <1>a, <2>1, AtOther
  <2>3. Goto(q, calls, "atomType") \/ Return(q, Pop, Close(Top, q))
    BY <1>6, Zenon DEF TypeArguments
  <2>4. Turn(q, calls) /\ Turn(q, Pop)
    BY <1>0, <2>2, SkipMoves DEF Turn
  <2> HIDE DEF q
  <2> QED BY <2>2, <2>3, <2>4, Goes, Returns
<1>7. CASE AfterTypeArgument
  <2> DEFINE fr == AddPart(Top, val)
  <2>1. At("typeApp")
    BY <1>7 DEF AfterTypeArgument, At
  <2>2. Settled /\ Top \in Frame /\ Top.fn = "typeApp" /\ \A f : f.fn \notin Brackets => Same(Swap(f))
    BY <1>a, <2>1, AtOther
  <2>3. Goto(p, Swap(fr), "typeArgs")
    BY <1>7 DEF AfterTypeArgument
  <2>4. fr.fn = "typeApp"
    BY <2>2, NamesOf, Names
  <2> HIDE DEF fr
  <2>5. Turn(p, Swap(fr))
    BY <1>0, <1>a, <2>2, <2>4 DEF Turn
  <2> QED BY <2>2, <2>3, <2>5, Goes
<1>8. CASE ParseSignature
  <2> DEFINE q == Skip(p)
             r == Skip(Advance(q))
             s == Advance(r)
             fr == New("signature", Here(p))
  <2>1. (Peek(q) = "lower" => Flat(q)) /\ (Peek(r) = ":" => Flat(r))
    BY Reads, Zenon
  <2>2. /\ Settled
        /\ \/ Fail(q)
           \/ Flat(q) /\ Fail(r)
           \/ Flat(q) /\ Flat(r) /\ Goto(s, Append(calls, fr), "type")
    BY <1>8, <2>1, Zenon DEF ParseSignature, Settled
  <2>3. fr.fn = "signature"
    BY DEF New
  <2> HIDE DEF fr
  <2>4. Level(q) /\ (Flat(q) => Level(r))
    BY <1>0, SkipMoves, AdvanceMoves
  <2> HIDE DEF q, r
  <2>5. Flat(q) /\ Flat(r) => Level(s)
    BY <1>0, <2>4, AdvanceMoves
  <2> HIDE DEF s
  <2> QED BY <1>a, <2>2, <2>3, <2>4, <2>5, PushTurns, Goes, GoodFails
<1>9. CASE AfterSignatureType
  <2> DEFINE q == DropTrailing(p, val)
             n == Close(Hold(AddPart(Top, val), Trailing(p, val)), q)
  <2>1. At("signature")
    BY <1>9 DEF AfterSignatureType, At
  <2>2. Settled /\ Same(Pop)
    BY <1>a, <2>1, AtOther
  <2>3. Return(q, Pop, n)
    BY <1>9 DEF AfterSignatureType
  <2> HIDE DEF n
  <2>4. Thinner(q, p)
    BY <1>0, Thins
  <2>5. Turn(q, Pop)
    BY <1>0, <2>2, <2>4, ThinMoves DEF Turn
  <2> HIDE DEF q
  <2> QED BY <2>2, <2>3, <2>5, Returns
<1> QED BY <1>1, <1>2, <1>3, <1>4, <1>5, <1>6, <1>7, <1>8, <1>9

LEMMA AtomicTypesBalanced ==
  ASSUME IInv, BalInv, TypeVariable \/ AtomicTypeName \/ ParenType \/ RecordType \/ NotAType
  PROVE  BalInv'
<1>0. Stream /\ Ordered /\ OK(p) /\ Level(p) /\ Good(p) /\ Same(calls) /\ Stack(calls)
  BY Ready DEF Level
<1>a. "typeApp" \notin Brackets /\ "typeParen" \in Brackets /\ "typeFields" \in Brackets
  BY Zenon DEF Brackets
<1> DEFINE q == Skip(p)
           open == Advance(q)
           r == Skip(open)
           s == Advance(r)
<1>b. Level(q)
  BY <1>0, SkipMoves
<1>c. (Flat(q) => Level(open)) /\ (Opens(q) => Inside(r))
  <2> HIDE DEF q
  <2> QED BY <1>0, <1>b, AdvanceMoves, SkipMoves
<1>d. /\ Flat(q) => Turn(open, calls)
      /\ Opens(q) /\ Closes(r) => Turn(s, calls)
  <2> HIDE DEF q, r, open
  <2> QED BY <1>0, <1>c, AdvanceMoves DEF Turn
<1>1. CASE TypeVariable
  <2>1. Peek(q) = "lower" => Flat(q)
    BY Reads, Zenon
  <2>2. Settled /\ Flat(q) /\ Return(open, calls, Leaf(Here(q), open))
    BY <1>1, <2>1, Zenon DEF TypeVariable, Settled
  <2> HIDE DEF q, open
  <2> QED BY <1>d, <2>2, Returns
<1>2. CASE AtomicTypeName
  <2> DEFINE fr == New("typeApp", Here(q))
  <2>1. Peek(q) = "upper" => Flat(q)
    BY Reads, Zenon
  <2>2. Settled /\ Flat(q) /\ Goto(open, Append(calls, fr), "atomTypeName")
    BY <1>2, <2>1, Zenon DEF AtomicTypeName, Settled
  <2>3. fr.fn = "typeApp"
    BY DEF New
  <2> HIDE DEF fr, q, open
  <2> QED BY <1>a, <1>c, <2>2, <2>3, PushTurns, Goes
<1>3. CASE ParenType
  <2> DEFINE fr == New("typeParen", Here(q))
  <2>1. (Peek(q) = "(" => Opens(q)) /\ (Peek(r) = ")" => Closes(r))
    BY Reads, Zenon
  <2>2. /\ Settled /\ Opens(q)
        /\ \/ Closes(r) /\ Return(s, calls, Leaf(Here(q), s))
           \/ Goto(r, Append(calls, fr), "type")
    BY <1>3, <2>1, Zenon DEF ParenType, Settled
  <2>3. fr.fn = "typeParen"
    BY DEF New
  <2> HIDE DEF fr, q, open, r, s
  <2> QED BY <1>a, <1>c, <1>d, <2>2, <2>3, PushTurns, Goes, Returns
<1>4. CASE RecordType
  <2> DEFINE t == Skip(s)
             u == Advance(t)
             back == [t EXCEPT !.pos = r.pos, !.raw = FALSE]
             Fields(c) == [New("typeFields", Here(q)) EXCEPT !.snap = Snapshot(c)]
             one == Append(calls, Fields(u))
             two == Append(calls, Fields(back))
             all == Append(calls, Fields(r))
             name == Peek(r) = "lower"
  <2>1. /\ Peek(q) = "{" => AtRecord(q) /\ Opens(q)
        /\ Peek(r) = "}" => Closes(r)
        /\ name => Flat(r)
        /\ Peek(t) = "|" => Flat(t)
    BY Reads, Zenon DEF AtRecord
  <2>2. /\ Settled /\ AtRecord(q) /\ Opens(q)
        /\ \/ Closes(r) /\ Return(s, calls, Leaf(Here(q), s))
           \/ Flat(r) /\ Flat(t) /\ Goto(u, one, "typeField")
           \/ name /\ Goto(back, two, "typeField")
           \/ Goto(r, all, "typeField")
    BY <1>4, <2>1, Zenon DEF RecordType, Settled
  <2>3. Fields(u).fn = "typeFields" /\ Fields(back).fn = "typeFields" /\ Fields(r).fn = "typeFields"
    BY DEF New
  <2>4. back = Back(r)
    BY DEF Back
  <2> HIDE DEF Fields, back
  <2>5. name => Inside(back)
    <3> HIDE DEF q
    <3> QED BY <1>0, <1>b, <2>2, <2>4, BackMoves
  <2>6. Flat(r) => Inside(t)
    <3> HIDE DEF q, r
    <3> QED BY <1>0, <1>c, <2>2, AdvanceMoves, SkipMoves
  <2> HIDE DEF q, open, r, s, t, name
  <2>7. Flat(r) /\ Flat(t) => Inside(u)
    BY <1>0, <2>6, AdvanceMoves
  <2> HIDE DEF u
  <2>8. /\ Flat(r) /\ Flat(t) => Turn(u, one)
        /\ name => Turn(back, two)
        /\ Turn(r, all)
    BY <1>a, <1>c, <2>2, <2>3, <2>5, <2>7, PushTurns
  <2> HIDE DEF one, two, all
  <2> QED BY <1>d, <2>2, <2>8, Goes, Returns
<1>5. CASE NotAType
  BY <1>5, <1>b, GoodFails DEF NotAType
<1> QED BY <1>1, <1>2, <1>3, <1>4, <1>5

LEMMA BracketTypesBalanced ==
  ASSUME IInv, BalInv, AfterFirstInType \/ AfterTupleType \/ TypeField \/ AfterTypeField
  PROVE  BalInv'
<1>0. Stream /\ Ordered /\ OK(p) /\ Level(p) /\ Good(p) /\ Same(calls) /\ Stack(calls)
  BY Ready DEF Level
<1>a. "typeParen" \in Brackets /\ "typeTuple" \in Brackets /\ "typeFields" \in Brackets
  BY Zenon DEF Brackets
<1> DEFINE q == Skip(p)
           r == Advance(q)
<1>b. Level(q)
  BY <1>0, SkipMoves
<1>1. CASE AfterFirstInType
  <2> DEFINE part == AddPart(Top, val)
             fr == [part EXCEPT !.fn = "typeTuple"]
             rewrapped == [SpanNode(Top.from, r, val.kept, val.sub) EXCEPT !.arrow = TRUE]
             n == IF val.arrow THEN rewrapped ELSE val
  <2>1. At("typeParen")
    BY <1>1, Zenon DEF AfterFirstInType, At
  <2>2. Top \in Frame
    BY <1>a, <2>1, AtBracket
  <2>3. (Peek(q) = "," => Flat(q)) /\ (Peek(q) = ")" => Closes(q))
    BY Reads, Zenon
  <2>4. (Flat(q) /\ Goto(r, Swap(fr), "type")) \/ (Closes(q) /\ Return(r, Pop, n)) \/ Fail(q)
    BY <1>1, <2>3, Zenon DEF AfterFirstInType
  <2>5. fr.fn = "typeTuple"
    BY <2>2, NamesOf, Names DEF Named
  <2> HIDE DEF part, fr, rewrapped, n, q
  <2> QED BY <1>a, <1>b, <2>1, <2>4, <2>5, ElementsBalanced
<1>2. CASE AfterTupleType
  <2> DEFINE fr == AddPart(Top, val)
             n == Close(fr, r)
  <2>1. At("typeTuple")
    BY <1>2, Zenon DEF AfterTupleType, At
  <2>2. Top \in Frame /\ Top.fn = "typeTuple"
    BY <1>a, <2>1, AtBracket
  <2>3. (Peek(q) = "," => Flat(q)) /\ (Peek(q) = ")" => Closes(q))
    BY Reads, Zenon
  <2>4. (Flat(q) /\ Goto(r, Swap(fr), "type")) \/ (Closes(q) /\ Return(r, Pop, n)) \/ Fail(q)
    BY <1>2, <2>3, Zenon DEF AfterTupleType
  <2>5. fr.fn = "typeTuple"
    BY <2>2, NamesOf, Names
  <2> HIDE DEF fr, n, q
  <2> QED BY <1>a, <1>b, <2>1, <2>4, <2>5, ElementsBalanced
<1>3. CASE TypeField
  <2> DEFINE s == Skip(r)
             t == Advance(s)
             fr == [Top EXCEPT !.mark = Here(p)]
  <2>1. At("typeFields")
    BY <1>3, OwnersAre, Zenon DEF TypeField, At
  <2>2. Settled /\ Top \in Frame /\ Top.fn = "typeFields" /\ \A f : f.fn \in Brackets => Same(Swap(f))
    BY <1>a, <2>1, AtBracket
  <2>3. (Peek(q) = "lower" => Flat(q)) /\ (Peek(s) = ":" => Flat(s))
    BY Reads, Zenon
  <2>4. \/ Fail(q)
        \/ Flat(q) /\ Fail(s)
        \/ Flat(q) /\ Flat(s) /\ Goto(t, Swap(fr), "type")
    BY <1>3, <2>3, Zenon DEF TypeField
  <2>5. fr.fn = "typeFields"
    BY <2>2 DEF Frame
  <2> HIDE DEF fr, q
  <2>6. Flat(q) => Level(s)
    BY <1>0, <1>b, AdvanceMoves, SkipMoves
  <2> HIDE DEF r, s
  <2>7. Flat(q) /\ Flat(s) => Turn(t, Swap(fr))
    BY <1>0, <1>a, <2>2, <2>5, <2>6, AdvanceMoves DEF Turn
  <2> HIDE DEF t
  <2> QED BY <1>b, <2>2, <2>4, <2>6, <2>7, Goes, GoodFails
<1>4. CASE AfterTypeField
  <2> DEFINE field == SpanNode(Top.mark, p, Carried(val), val.sub)
             gap == IF Top.n = 0 THEN {} ELSE Between(p, Top.last.to, field.from)
             fr == AddPart(Top, Lead(field, Claimed(p, Top.snap, gap)))
             u == Unclaimed(p, Top.snap, gap)
             s == Skip(u)
             t == Advance(s)
             next == Skip(t)
             n == Close(fr, t)
  <2>1. At("typeFields")
    BY <1>4, Zenon DEF AfterTypeField, At
  <2>2. /\ Settled /\ Top \in Frame /\ Top.fn = "typeFields" /\ Top.snap \in Nat /\ p.depth > 0
        /\ Fewer(Pop) /\ \A f : f.fn \in Brackets => Same(Swap(f))
    BY <1>a, <2>1, AtBracket
  <2>3. (Peek(s) = "," => Flat(s)) /\ (Peek(s) = "}" => Closes(s))
    BY Reads, Zenon
  <2>4. (Flat(s) /\ Goto(next, Swap(fr), "typeField")) \/ (Closes(s) /\ Return(t, Pop, n)) \/ Fail(s)
    BY <1>4, <2>3, Zenon DEF AfterTypeField
  <2>5. fr.fn = "typeFields"
    BY <2>2, NamesOf, Names
  <2> HIDE DEF fr, n, gap, field
  <2>6. Thinner(u, p)
    BY <1>0, <2>2, Thins
  <2>7. Level(s)
    BY <1>0, <2>6, ThinMoves, SkipMoves
  <2> HIDE DEF u, s
  <2>8. (Flat(s) => Level(next)) /\ (Closes(s) => Outside(t))
    BY <1>0, <2>2, <2>7, AdvanceMoves, SkipMoves
  <2>9. (Flat(s) => Turn(next, Swap(fr))) /\ (Closes(s) => Turn(t, Pop))
    BY <1>a, <2>2, <2>5, <2>8 DEF Turn
  <2> HIDE DEF t, next
  <2> QED BY <2>2, <2>4, <2>7, <2>9, Goes, Returns, GoodFails
<1> QED BY <1>1, <1>2, <1>3, <1>4

LEMMA TypesBalanced == ASSUME IInv, BalInv, TypeNext PROVE BalInv'
BY ArrowTypesBalanced, AtomicTypesBalanced, BracketTypesBalanced, Zenon DEF TypeNext
-----------------------------------------------------------------------------
(* A new parser is outside all brackets and has read nothing.              *)
LEMMA InitiallyBalanced == ASSUME ExprInit PROVE BalInv
<1>1. toks \in Sources /\ p = Start /\ conts = <<>> /\ calls = <<>> /\ ctl = "expr"
  BY DEF ExprInit
<1>2. Ordered
  BY <1>1, OrderAssumption DEF Ordered
<1>3. Sorted(p)
  <2>1. p.pending = <<>>
    BY <1>1 DEF Start
  <2> QED BY <2>1 DEF Sorted, Rising, AllBefore
<1>4. DepthIsOpen
  <2>1. Open(<<>>) = {} /\ BracketsOf(<<>>) = {}
    BY DEF Open, BracketsOf
  <2>2. p.depth = 0
    BY <1>1 DEF Start
  <2>3. IsFiniteSet({}) /\ Cardinality({}) = 0
    BY FS_EmptySet
  <2>4. Open(conts) = {} /\ Count(calls) = 0
    BY <1>1, <2>1, <2>3 DEF Count
  <2> QED BY <2>2, <2>3, <2>4 DEF DepthIsOpen
<1>5. AtOperator /\ ContextIsFresh
  BY <1>1 DEF AtOperator, ContextIsFresh, Start
<1> QED BY <1>2, <1>3, <1>4, <1>5 DEF BalInv

(* Returning the result of parse_expr.                                     *)
LEMMA FinishBalanced == ASSUME IInv, BalInv, Finish PROVE BalInv'
<1>1. Settled /\ Goto(p, calls, "ok")
  BY DEF Finish, Settled
<1>2. Turn(p, calls)
  BY Ready DEF Turn
<1> QED BY <1>1, <1>2, Goes

(* Every step of the parser, and every stutter, keeps the balance.         *)
LEMMA StepsKeepBalance == ASSUME IInv, BalInv, [ExprStep]_vars PROVE BalInv'
<1>1. CASE UNCHANGED vars
  <2>1. Ordered' /\ Sorted(p)'
    BY <1>1, Placed DEF vars, BalInv
  <2> QED BY <1>1, <2>1 DEF vars, BalInv, DepthIsOpen, AtOperator, ContextIsFresh
<1>2. CASE Finish
  BY <1>2, FinishBalanced
<1>3. CASE AfterOperand \/ BinaryLoop \/ Reduce \/ FoldRest
  <2>1. At("binary")
    BY <1>3, OwnersAre DEF At, AfterOperand, BinaryLoop, Reduce, FoldRest
  <2> QED BY <1>3, <2>1, OperatorsBalanced
<1>4. CASE ExprNext /\ ~(AfterOperand \/ BinaryLoop \/ Reduce \/ FoldRest)
  BY <1>4, ResumeBalanced, StartsBalanced, ApplicationsBalanced, AtomsBalanced, ParensBalanced,
     ListsBalanced, RecordsBalanced, IfsBalanced, CasesBalanced, LetsBalanced, LambdasBalanced,
     PatternsBalanced, TypesBalanced, Zenon DEF ExprNext, AtomNext
<1> QED BY <1>1, <1>2, <1>3, <1>4 DEF ExprStep

LEMMA Balance == ExprSpec => []BalInv
<1>1. ExprInit => BalInv
  BY InitiallyBalanced
<1>2. IInv /\ BalInv /\ [ExprStep]_vars => BalInv'
  BY StepsKeepBalance
<1> QED BY <1>1, <1>2, Invariance, PTL DEF ExprSpec

(* Whatever the text, paren_depth, which `advance` updates at every token, *)
(* is the number of bracketed constructs in progress, counted over every   *)
(* box of the trampoline: no path through the parser of expressions,       *)
(* patterns and types leaves a construct without its bracket.              *)
THEOREM BracketsAreBalanced == ExprSpec => []BracketsBalanced
<1>1. IInv /\ BalInv => BracketsBalanced
  <2> SUFFICES ASSUME IInv, BalInv, ctl # "error"
               PROVE  p.depth = Cardinality(Open(Append(conts, calls)))
    BY DEF BracketsBalanced
  <2>1. Stack(conts) /\ Stack(calls)
    BY Ready DEF IInv, TypeOK, Stack
  <2> QED BY <2>1, OpenAppend DEF BalInv, DepthIsOpen
<1> QED BY <1>1, Invariance, Balance, PTL

(* Whatever the text, app_context_col is set only on the way from a list   *)
(* or record that waits for an element to the application that starts that *)
(* element, and is that construct's own column.                            *)
THEOREM ContextStaysFresh == ExprSpec => []ContextIsFresh
<1>1. BalInv => ContextIsFresh
  BY DEF BalInv
<1> QED BY <1>1, Balance, PTL

(* Whatever the text, the pending comments are in source order, however    *)
(* many of them the claiming loops have taken from the buffer and put back *)
(* (the comments that the look for `|` in a record reads twice excepted).  *)
THEOREM PendingStaysInOrder == ExprSpec => []PendingInOrder
<1>1. BalInv => PendingInOrder
  BY DEF BalInv, Sorted, Rising, PendingInOrder
<1> QED BY <1>1, Balance, PTL
=============================================================================
