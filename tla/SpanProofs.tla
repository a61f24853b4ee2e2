----------------------------- MODULE SpanProofs -----------------------------
(***************************************************************************)
(* Spans nest, whatever the text.  The nodes held anywhere in the machine  *)
(* (by functions in progress, in every box of the trampoline, as operands  *)
(* that wait for an operator, in val) are laid out along the text: those   *)
(* of an outer function end before anything an inner one holds or will     *)
(* hold begins.  SpanInv says so by naming, for every frame, the stretch   *)
(* of the text between which and which its nodes lie.                      *)
(***************************************************************************)
EXTENDS ExprProofs
LOCAL INSTANCE SequenceTheorems

(* Where the last token passed stands: the `to` of a node completed at q.  *)
Done(q) == toks[IF q.pos > 1 THEN q.pos - 1 ELSE 1].ix

Nested(x, y) == \/ x[2] < y[1] \/ y[2] < x[1]
                \/ x[1] <= y[1] /\ y[2] <= x[2]
                \/ y[1] <= x[1] /\ x[2] <= y[2]

(* Nested spans, from lo to before hi.                                     *)
Within(S, lo, hi) == /\ S \subseteq Span /\ lo \in Nat /\ hi \in Nat
                     /\ \A x \in S : lo <= x[1] /\ x[1] <= x[2] /\ x[2] < hi
                     /\ \A x, y \in S : Nested(x, y)

NodeFits(n) == /\ n.from \in Nat /\ n.to \in Nat /\ n.from <= n.to
               /\ Within(n.sub, n.from, n.to + 1)

(* No span of S has the place s inside it: a node that starts at s fits.   *)
Splits(s, S) == s \in Nat /\ \A x \in S : x[2] < s \/ s <= x[1]

(* A function that builds a node from fr.from on, out of nodes before hi.  *)
Shape(fr, lo, hi) ==
  /\ lo \in Nat /\ fr.from \in Nat /\ lo <= fr.from /\ fr.from <= hi
  /\ Within(fr.sub, fr.from, hi)
  /\ fr.mark <= hi /\ Splits(fr.mark, fr.sub)
  /\ \A c \in Elements(fr.chain) : fr.from <= c /\ c <= hi /\ Splits(c, fr.sub)

(* The operands of the operators not folded yet, one after the other.      *)
OperandsFit(ops, lo, hi) ==
  /\ \A k \in 1..Len(ops) : /\ NodeFits(ops[k].left)
                            /\ lo <= ops[k].left.from /\ ops[k].left.to < hi
  /\ \A k, l \in 1..Len(ops) : k < l => ops[k].left.to < ops[l].left.from

(* The functions whose parts start at a place of their own.                *)
Marked == {"letSig", "letArgs", "letPattern", "letValue", "parenNeg"}

Parted == Marked \cup {"record", "typeFields", "let"}

(* What a frame holds lies from lo to before hi.                           *)
Seg(fr, lo, hi) ==
  /\ lo \in Nat /\ hi \in Nat /\ lo <= hi
  /\ fr.fn \notin {"binary", "access"} => Shape(fr, lo, hi)
  /\ fr.fn \in Marked => fr.from <= fr.mark
  /\ fr.fn \in Parted => fr.chain = <<>>
  /\ fr.fn \in {"letArgs", "letValue"} =>
       fr.lim = 0 \/ (fr.mark <= fr.lim /\ fr.lim <= hi /\ Splits(fr.lim, fr.sub))
  /\ fr.fn = "app" /\ fr.n >= 1 =>
       NodeFits(fr.last) /\ fr.from <= fr.last.from /\ fr.last.to < hi
  /\ fr.fn = "binary" => OperandsFit(fr.ops, lo, hi)

(* The next field of a record has a start but while its name is looked for. *)
Live(fr) == fr.fn \in {"record", "typeFields"} => fr.from <= fr.mark

Naming == {"setter", "typeField"}

IsStack(cs) == \E S : cs \in Seq(S)

(* A stack of frames from lo to hi, and boxes of stacks up to hi.          *)
Stacked(cs, lo, hi, c) ==
  \E base \in [1..(Len(cs) + 1) -> Nat] :
    /\ lo <= base[1] /\ base[Len(cs) + 1] <= hi
    /\ \A i \in 1..Len(cs) : /\ Seg(cs[i], base[i], base[i + 1])
                             /\ i < Len(cs) \/ c \notin Naming => Live(cs[i])

Boxed(boxes, hi) ==
  \E base \in [1..(Len(boxes) + 1) -> Nat] :
    /\ base[Len(boxes) + 1] <= hi
    /\ \A b \in 1..Len(boxes) : Stacked(boxes[b], base[b], base[b + 1], "done")

(* The node handed on starts after everything held, and is consumed.       *)
Carries(q, n, lo) == /\ lo <= n.from /\ NodeFits(n) /\ n.to <= Done(q) /\ q.pos > 1

(* The functions that complete a node without being given one.             *)
Closing == {"args", "branch", "ctorName", "ctorArgs", "atomCtor", "patternField",
            "typeName", "typeArgs", "atomTypeName"}

(* What is held ends before the cursor.                                    *)
Free(q, cs, c, hi) ==
  /\ hi <= Here(q)
  /\ c \in Closing => q.pos > 1 /\ hi <= Done(q) + 1 /\ cs[Len(cs)].from <= Done(q)

Lies(q, cs, c, n, f) ==
  \E m \in Nat : /\ Stacked(cs, f, m, c)
                 /\ IF c \in Passing THEN Carries(q, n, m) ELSE Free(q, cs, c, m)

SpanInv == /\ Ordered
           /\ ctl # "error" => \E f \in Nat : Boxed(conts, f) /\ Lies(p, calls, ctl, val, f)
-----------------------------------------------------------------------------
(* Sets of nested spans.                                                   *)

(* The same spans in a longer stretch.                                     *)
LEMMA WithinWider ==
  ASSUME NEW S, NEW lo, NEW hi, Within(S, lo, hi), NEW a \in Nat, NEW b \in Nat, a <= lo, hi <= b
  PROVE  Within(S, a, b)
<1>1. \A x \in S : x[1] \in Nat /\ x[2] \in Nat
  BY DEF Within, Span
<1> QED BY <1>1 DEF Within

(* Two families, one after the other.                                      *)
LEMMA WithinUnion ==
  ASSUME NEW S, NEW T, NEW lo, NEW m, NEW hi, NEW k, Within(S, lo, m), Within(T, k, hi), m <= k, lo <= k, m <= hi
  PROVE  Within(S \cup T, lo, hi)
<1>1. \A x \in S \cup T : x[1] \in Nat /\ x[2] \in Nat
  BY DEF Within, Span
<1>2. \A x \in S, y \in T : x[2] < y[1]
  BY <1>1 DEF Within
<1>3. \A x, y \in S \cup T : Nested(x, y)
  BY <1>1, <1>2 DEF Within, Nested
<1>4. \A x \in S \cup T : lo <= x[1] /\ x[1] <= x[2] /\ x[2] < hi
  BY <1>1 DEF Within
<1> QED BY <1>3, <1>4 DEF Within

(* A span from a place that splits the family to the end of it.            *)
LEMMA WithinSpan ==
  ASSUME NEW S, NEW lo, NEW hi, Within(S, lo, hi), NEW s, Splits(s, S), lo <= s,
         NEW to \in Nat, s <= to, hi <= to + 1
  PROVE  Within(S \cup {<<s, to>>}, lo, to + 1)
<1>1. \A x \in S : x[1] \in Nat /\ x[2] \in Nat /\ x[2] <= to
  BY DEF Within, Span
<1> DEFINE y == <<s, to>>
<1>2. y[1] = s /\ y[2] = to /\ y \in Span /\ s \in Nat
  BY DEF Splits, Span
<1>3. \A x \in S : Nested(x, y) /\ Nested(y, x)
  BY <1>1, <1>2 DEF Nested, Splits
<1>4. Nested(y, y)
  BY <1>2 DEF Nested
<1>5. \A x, z \in S \cup {y} : Nested(x, z)
  BY <1>3, <1>4, Zenon DEF Within
<1>6. \A x \in S \cup {y} : lo <= x[1] /\ x[1] <= x[2] /\ x[2] < to + 1
  BY <1>1, <1>2 DEF Within
<1>7. S \cup {y} \subseteq Span
  BY <1>2 DEF Within
<1> QED BY <1>5, <1>6, <1>7 DEF Within

(* Places between families split their union.                              *)
LEMMA SplitsUnion ==
  ASSUME NEW S, NEW T, NEW k, NEW hi, Within(T, k, hi), NEW s, Splits(s, S), s <= k
  PROVE  Splits(s, S \cup T)
<1>1. \A x \in T : x[1] \in Nat /\ k <= x[1] /\ k \in Nat
  BY DEF Within, Span
<1> QED BY <1>1 DEF Splits

LEMMA SplitsAfter ==
  ASSUME NEW S, NEW lo, NEW hi, Within(S, lo, hi), NEW s \in Nat, hi <= s
  PROVE  Splits(s, S)
<1>1. \A x \in S : x[2] \in Nat
  BY DEF Within, Span
<1> QED BY <1>1 DEF Splits, Within
-----------------------------------------------------------------------------
(* Nodes and frames.                                                       *)

(* fr has the nodes of t and those of S as well.                           *)
Grown(fr, t, S) == /\ fr.from = t.from /\ fr.mark = t.mark /\ fr.chain = t.chain
                   /\ fr.sub = t.sub \cup S

(* A node taken over by the function it is returned to.                    *)
LEMMA Absorbs ==
  ASSUME NEW t, NEW lo, NEW m, Shape(t, lo, m), NEW n, NodeFits(n), m <= n.from,
         NEW fr, Grown(fr, t, n.sub), NEW hi \in Nat, n.to < hi
  PROVE  Shape(fr, lo, hi) /\ m <= hi
<1>1. m \in Nat /\ n.from \in Nat /\ n.to \in Nat /\ n.from <= n.to /\ m <= hi /\ n.to + 1 <= hi
  BY DEF Shape, Within, NodeFits
<1>2. Within(fr.sub, fr.from, hi)
  <2>1. Within(n.sub, n.from, hi)
    BY <1>1, WithinWider DEF NodeFits
  <2>2. t.from \in Nat /\ t.from <= m /\ Within(t.sub, t.from, m)
    BY DEF Shape
  <2>3. t.from <= n.from
    BY <1>1, <2>2
  <2>4. Within(t.sub \cup n.sub, t.from, hi)
    BY <1>1, <2>1, <2>2, <2>3, WithinUnion
  <2> QED BY <2>4 DEF Grown
<1>3. \A s : s <= m /\ Splits(s, t.sub) => s <= hi /\ Splits(s, fr.sub)
  <2> SUFFICES ASSUME NEW s, s <= m, Splits(s, t.sub) PROVE s <= hi /\ Splits(s, fr.sub)
    OBVIOUS
  <2>1. s \in Nat /\ s <= hi /\ s <= n.from
    BY <1>1 DEF Splits
  <2>2. Splits(s, t.sub \cup n.sub)
    BY <2>1, SplitsUnion DEF NodeFits
  <2> QED BY <2>1, <2>2 DEF Grown
<1>4. lo \in Nat /\ fr.from \in Nat /\ lo <= fr.from /\ fr.from <= hi
  BY <1>1 DEF Shape, Grown
<1>5. fr.mark <= hi /\ Splits(fr.mark, fr.sub)
  BY <1>3 DEF Shape, Grown
<1>6. \A c \in Elements(fr.chain) : fr.from <= c /\ c <= hi /\ Splits(c, fr.sub)
  <2>1. \A c \in Elements(fr.chain) : fr.from <= c /\ c <= m /\ Splits(c, t.sub)
    BY Zenon DEF Shape, Grown
  <2> QED BY <1>3, <2>1, Zenon
<1> QED BY <1>1, <1>2, <1>4, <1>5, <1>6, Zenon DEF Shape

(* The same nodes in a longer stretch.                                     *)
LEMMA ShapeWider ==
  ASSUME NEW t, NEW lo, NEW m, Shape(t, lo, m), NEW fr, Grown(fr, t, {}),
         NEW k \in Nat, NEW hi \in Nat, k <= lo, m <= hi
  PROVE  Shape(fr, k, hi)
<1>1. fr.from = t.from /\ fr.mark = t.mark /\ fr.chain = t.chain /\ fr.sub = t.sub
  BY DEF Grown
<1>2. t.from \in Nat /\ m \in Nat /\ t.from <= m /\ lo \in Nat
  BY DEF Shape, Within
<1>3. Within(t.sub, t.from, hi)
  BY <1>2, WithinWider DEF Shape
<1>4. \A s : s <= m /\ Splits(s, t.sub) => s <= hi
  BY <1>2 DEF Splits
<1> QED BY <1>1, <1>2, <1>3, <1>4 DEF Shape

LEMMA SegWider ==
  ASSUME NEW fr, NEW lo, NEW m, Seg(fr, lo, m), NEW k \in Nat, NEW hi \in Nat, k <= lo, m <= hi
  PROVE  Seg(fr, k, hi)
<1>1. lo \in Nat /\ m \in Nat /\ lo <= m /\ k <= hi
  BY DEF Seg
<1>2. fr.fn \notin {"binary", "access"} => Shape(fr, k, hi)
  <2>1. Grown(fr, fr, {})
    BY DEF Grown
  <2> QED BY <2>1, ShapeWider DEF Seg
<1>3. fr.fn \in {"letArgs", "letValue"} =>
        fr.lim = 0 \/ (fr.mark <= fr.lim /\ fr.lim <= hi /\ Splits(fr.lim, fr.sub))
  BY <1>1 DEF Seg, Splits
<1>4. fr.fn = "app" /\ fr.n >= 1 => NodeFits(fr.last) /\ fr.from <= fr.last.from /\ fr.last.to < hi
  BY <1>1 DEF Seg, NodeFits
<1>5. fr.fn = "binary" => OperandsFit(fr.ops, k, hi)
  BY <1>1 DEF Seg, OperandsFit, NodeFits
<1> QED BY <1>1, <1>2, <1>3, <1>4, <1>5, Zenon DEF Seg

(* Most functions have nothing but their shape.                            *)
Special == Parted \cup {"binary", "access", "app"}

LEMMA PlainSeg ==
  ASSUME NEW fr, fr.fn \notin Special, NEW lo, NEW hi, Shape(fr, lo, hi)
  PROVE  Seg(fr, lo, hi)
<1>1. lo \in Nat /\ hi \in Nat /\ lo <= hi
  BY DEF Shape, Within
<1> QED BY <1>1 DEF Seg, Special, Parted, Marked

(* A function that starts at a place after everything else.                *)
LEMMA FreshShape ==
  ASSUME NEW fr, NEW lo \in Nat, NEW hi \in Nat, fr.from \in Nat, lo <= fr.from, fr.from <= hi,
         fr.sub = {}, fr.mark \in Nat, fr.mark <= hi,
         \A c \in Elements(fr.chain) : c \in Nat /\ fr.from <= c /\ c <= hi
  PROVE  Shape(fr, lo, hi)
<1>1. Within({}, fr.from, hi)
  BY DEF Within
<1> QED BY <1>1 DEF Shape, Splits

(* The cursor passes what is between `from` and the node's end.            *)
LEMMA SpanNodeFits ==
  ASSUME NEW S, NEW from, NEW hi, Within(S, from, hi), NEW q, NEW kept,
         from <= Done(q), hi <= Done(q) + 1, Done(q) \in Nat
  PROVE  LET n == SpanNode(from, q, kept, S)
         IN  NodeFits(n) /\ n.from = from /\ n.to = Done(q) /\ n.sub = S \cup {<<from, Done(q)>>}
<1> DEFINE n == SpanNode(from, q, kept, S)
<1>1. n.from = from /\ n.to = Done(q) /\ n.sub = S \cup {<<from, Done(q)>>}
  BY DEF SpanNode, Done
<1>2. from \in Nat
  BY DEF Within
<1>3. Splits(from, S)
  BY DEF Within, Splits
<1>4. Within(S \cup {<<from, Done(q)>>}, from, Done(q) + 1)
  BY <1>2, <1>3, WithinSpan
<1> HIDE DEF n
<1> QED BY <1>1, <1>2, <1>4 DEF NodeFits, n

LEMMA CloseFits ==
  ASSUME NEW fr, NEW lo, NEW hi, Shape(fr, lo, hi), NEW q,
         fr.from <= Done(q), hi <= Done(q) + 1, Done(q) \in Nat
  PROVE  /\ NodeFits(Close(fr, q)) /\ Close(fr, q).from = fr.from /\ Close(fr, q).to = Done(q)
         /\ Close(fr, q).sub = fr.sub \cup {<<fr.from, Done(q)>>}
BY SpanNodeFits DEF Close, Shape

LEMMA LeafFits ==
  ASSUME NEW from \in Nat, NEW q, from <= Done(q), Done(q) \in Nat
  PROVE  NodeFits(Leaf(from, q)) /\ Leaf(from, q).from = from /\ Leaf(from, q).to = Done(q)
<1>1. Within({}, from, from)
  BY DEF Within
<1> QED BY <1>1, SpanNodeFits DEF Leaf
-----------------------------------------------------------------------------
(* Stacks and boxes.                                                       *)

LEMMA EmptyStacked ==
  ASSUME NEW lo \in Nat, NEW hi \in Nat, lo <= hi, NEW c
  PROVE  Stacked(<<>>, lo, hi, c)
<1> DEFINE base == [i \in 1..1 |-> lo]
<1>1. base \in [1..(Len(<<>>) + 1) -> Nat] /\ base[1] = lo /\ 1..Len(<<>>) = {}
  OBVIOUS
<1> HIDE DEF base
<1> QED BY <1>1 DEF Stacked

LEMMA StackedWider ==
  ASSUME NEW cs, Len(cs) \in Nat, NEW lo, NEW m, NEW c, Stacked(cs, lo, m, c),
         NEW k, NEW hi, k \in Nat, lo \in Nat, m \in Nat, hi \in Nat, k <= lo, m <= hi,
         NEW d, c \notin Naming \/ c = d
  PROVE  Stacked(cs, k, hi, d)
<1>1. PICK base \in [1..(Len(cs) + 1) -> Nat] :
        /\ lo <= base[1] /\ base[Len(cs) + 1] <= m
        /\ \A i \in 1..Len(cs) : /\ Seg(cs[i], base[i], base[i + 1])
                                 /\ i < Len(cs) \/ c \notin Naming => Live(cs[i])
  BY DEF Stacked
<1>2. base[1] \in Nat /\ base[Len(cs) + 1] \in Nat
  OBVIOUS
<1>3. k <= base[1] /\ base[Len(cs) + 1] <= hi
  BY <1>1, <1>2
<1> QED BY <1>1, <1>3 DEF Stacked

(* Control changes, the stack does not.                                    *)
LEMMA StackedFor ==
  ASSUME NEW cs, IsStack(cs), NEW lo \in Nat, NEW hi \in Nat, NEW c, c \notin Naming, Stacked(cs, lo, hi, c), NEW d
  PROVE  Stacked(cs, lo, hi, d)
<1>1. Len(cs) \in Nat /\ lo <= lo /\ hi <= hi
  BY DEF IsStack
<1> QED BY <1>1, StackedWider

(* A frame on top.                                                         *)
LEMMA PushStacked ==
  ASSUME NEW cs, IsStack(cs), NEW lo, NEW m \in Nat, Stacked(cs, lo, m, "done"),
         NEW fr, NEW hi, Seg(fr, m, hi), NEW c, c \in Naming \/ Live(fr)
  PROVE  IsStack(Append(cs, fr)) /\ Stacked(Append(cs, fr), lo, hi, c) /\ Append(cs, fr)[Len(Append(cs, fr))] = fr
<1> DEFINE n == Len(cs)
           s == Append(cs, fr)
<1>1. PICK old \in [1..(n + 1) -> Nat] :
        /\ lo <= old[1] /\ old[n + 1] <= m
        /\ \A i \in 1..n : Seg(cs[i], old[i], old[i + 1]) /\ (i < n \/ "done" \notin Naming => Live(cs[i]))
  BY DEF Stacked
<1>2. n \in Nat /\ Len(s) = n + 1 /\ s[n + 1] = fr /\ (\A i \in 1..n : s[i] = cs[i]) /\ IsStack(s)
  <2>1. PICK S : cs \in Seq(S)
    BY DEF IsStack
  <2>2. cs \in Seq(S \cup {fr}) /\ fr \in S \cup {fr}
    BY <2>1
  <2> QED BY <2>2, AppendProperties DEF IsStack
<1>3. hi \in Nat
  BY DEF Seg
<1> HIDE DEF s, n
<1> DEFINE base == [i \in 1..(n + 2) |-> IF i <= n + 1 THEN old[i] ELSE hi]
<1>4. base \in [1..(n + 2) -> Nat] /\ base[1] = old[1] /\ base[n + 2] = hi /\ base[n + 1] = old[n + 1]
  BY <1>2, <1>3
<1>5. \A i \in 1..n : base[i] = old[i] /\ base[i + 1] = old[i + 1]
  BY <1>2
<1> HIDE DEF base
<1>6. old[n + 1] \in Nat /\ Seg(fr, old[n + 1], hi)
  <2>1. old[n + 1] \in Nat
    BY <1>2
  <2> QED BY <1>1, <1>3, <2>1, SegWider
<1>7. \A i \in 1..(n + 1) : Seg(s[i], base[i], base[i + 1]) /\ (i < n + 1 \/ c \notin Naming => Live(s[i]))
  <2> SUFFICES ASSUME NEW i \in 1..(n + 1)
               PROVE  Seg(s[i], base[i], base[i + 1]) /\ (i < n + 1 \/ c \notin Naming => Live(s[i]))
    OBVIOUS
  <2>1. CASE i = n + 1
    BY <1>2, <1>4, <1>6, <2>1
  <2>2. CASE i # n + 1
    <3>1. i \in 1..n
      BY <1>2, <2>2
    <3>2. Live(cs[i])
      BY <1>1, <3>1 DEF Naming
    <3> QED BY <1>1, <1>2, <1>5, <3>1, <3>2
  <2> QED BY <2>1, <2>2
<1>8. Len(s) = n + 1 /\ Len(s) + 1 = n + 2
  BY <1>2
<1>9. lo <= base[1] /\ base[Len(s) + 1] <= hi
  BY <1>1, <1>3, <1>4, <1>8
<1>10. Stacked(s, lo, hi, c)
  BY <1>4, <1>7, <1>8, <1>9 DEF Stacked
<1> QED BY <1>2, <1>10 DEF s

(* The frame on top, and those below it.                                   *)
LEMMA PopStacked ==
  ASSUME IInv, calls # <<>>, NEW lo, NEW hi \in Nat, NEW c, Stacked(calls, lo, hi, c)
  PROVE  \E m \in Nat : /\ Stacked(Pop, lo, m, "done") /\ Seg(Top, m, hi)
                        /\ c \notin Naming => Live(Top)
<1> DEFINE n == Len(calls)
<1>1. PICK base \in [1..(n + 1) -> Nat] :
        /\ lo <= base[1] /\ base[n + 1] <= hi
        /\ \A i \in 1..n : Seg(calls[i], base[i], base[i + 1]) /\ (i < n \/ c \notin Naming => Live(calls[i]))
  BY DEF Stacked
<1>2. n \in Nat \ {0} /\ Len(Pop) = n - 1 /\ (\A i \in 1..(n - 1) : Pop[i] = calls[i]) /\ Top = calls[n]
  BY State, TopAndPop, EmptySeq DEF Top
<1> HIDE DEF n
<1> DEFINE m == base[n]
<1>3. m \in Nat /\ base[n + 1] \in Nat /\ Seg(Top, m, hi) /\ (c \notin Naming => Live(Top))
  <2>1. base[n] \in Nat /\ base[n + 1] \in Nat /\ n \in 1..n
    BY <1>2
  <2>2. Seg(Top, base[n], base[n + 1])
    BY <1>1, <1>2, <2>1
  <2> QED BY <1>1, <1>2, <2>1, <2>2, SegWider
<1>4. Stacked(Pop, lo, m, "done")
  <2> DEFINE low == [i \in 1..n |-> base[i]]
  <2>1. low \in [1..(Len(Pop) + 1) -> Nat] /\ low[1] = base[1] /\ low[Len(Pop) + 1] = m
    BY <1>2
  <2>2. ASSUME NEW i \in 1..Len(Pop)
        PROVE  Seg(Pop[i], low[i], low[i + 1]) /\ Live(Pop[i])
    <3>1. i \in 1..n /\ i + 1 \in 1..n /\ i < n /\ Pop[i] = calls[i]
      BY <1>2
    <3> QED BY <1>1, <3>1
  <2> HIDE DEF low
  <2>3. lo <= low[1] /\ low[Len(Pop) + 1] <= m
    BY <1>1, <1>3, <2>1
  <2> HIDE DEF m
  <2> QED BY <2>1, <2>2, <2>3 DEF Stacked
<1> QED BY <1>3, <1>4

(* A box more, and one less.                                               *)
LEMMA BoxStacked ==
  ASSUME NEW boxes \in Seq(Seq(Frame)), NEW f \in Nat, Boxed(boxes, f),
         NEW cs, IsStack(cs), NEW hi \in Nat, Stacked(cs, f, hi, "done")
  PROVE  Boxed(Append(boxes, cs), hi)
<1> DEFINE n == Len(boxes)
           s == Append(boxes, cs)
<1>1. PICK old \in [1..(n + 1) -> Nat] :
        old[n + 1] <= f /\ \A b \in 1..n : Stacked(boxes[b], old[b], old[b + 1], "done")
  BY DEF Boxed
<1>2. n \in Nat /\ Len(s) = n + 1 /\ s[n + 1] = cs /\ \A i \in 1..n : s[i] = boxes[i]
  <2>1. boxes \in Seq(Seq(Frame) \cup {cs}) /\ cs \in Seq(Frame) \cup {cs}
    OBVIOUS
  <2> QED BY <2>1, AppendProperties
<1> HIDE DEF s, n
<1> DEFINE base == [i \in 1..(n + 2) |-> IF i <= n + 1 THEN old[i] ELSE hi]
<1>3. base \in [1..(n + 2) -> Nat] /\ base[n + 2] = hi /\ base[n + 1] = old[n + 1] /\ old[n + 1] \in Nat
  BY <1>2
<1>4. \A i \in 1..n : base[i] = old[i] /\ base[i + 1] = old[i + 1]
  BY <1>2
<1> HIDE DEF base
<1>5. Stacked(cs, old[n + 1], hi, "done")
  <2>1. Len(cs) \in Nat /\ hi <= hi
    BY DEF IsStack
  <2> QED BY <1>1, <1>3, <2>1, StackedWider
<1>6. \A b \in 1..(n + 1) : Stacked(s[b], base[b], base[b + 1], "done")
  <2> SUFFICES ASSUME NEW b \in 1..(n + 1) PROVE Stacked(s[b], base[b], base[b + 1], "done")
    OBVIOUS
  <2>1. CASE b = n + 1
    BY <1>2, <1>3, <1>5, <2>1
  <2>2. CASE b # n + 1
    <3>1. b \in 1..n
      BY <1>2, <2>2
    <3> QED BY <1>1, <1>2, <1>4, <3>1
  <2> QED BY <2>1, <2>2
<1>7. Len(s) = n + 1 /\ Len(s) + 1 = n + 2 /\ base[Len(s) + 1] <= hi
  BY <1>2, <1>3
<1>8. Boxed(s, hi)
  BY <1>3, <1>6, <1>7 DEF Boxed
<1> QED BY <1>8 DEF s

LEMMA UnboxStacked ==
  ASSUME NEW boxes \in Seq(Seq(Frame)), boxes # <<>>, NEW f \in Nat, Boxed(boxes, f)
  PROVE  \E k \in Nat : /\ Boxed(SubSeq(boxes, 1, Len(boxes) - 1), k)
                        /\ Stacked(boxes[Len(boxes)], k, f, "done")
<1> DEFINE n == Len(boxes)
           rest == SubSeq(boxes, 1, n - 1)
<1>1. PICK base \in [1..(n + 1) -> Nat] :
        base[n + 1] <= f /\ \A b \in 1..n : Stacked(boxes[b], base[b], base[b + 1], "done")
  BY DEF Boxed
<1>2. n \in Nat \ {0} /\ boxes[n] \in Seq(Frame)
  BY EmptySeq
<1>3. Len(rest) = n - 1 /\ \A b \in 1..(n - 1) : rest[b] = boxes[b]
  <2>1. n - 1 \in Nat /\ \A b \in 1..(n - 1) : boxes[b] \in Seq(Frame)
    BY <1>2
  <2> HIDE DEF n
  <2>2. /\ Len(SubSeq(boxes, 1, n - 1)) = IF 1 <= n - 1 THEN n - 1 - 1 + 1 ELSE 0
        /\ \A b \in 1..(n - 1 - 1 + 1) : SubSeq(boxes, 1, n - 1)[b] = boxes[1 + b - 1]
    BY <2>1, SubSeqProperties
  <2> QED BY <2>1, <2>2
<1> HIDE DEF n, rest
<1>4. base[n] \in Nat /\ base[n + 1] \in Nat /\ n \in 1..n
  BY <1>2
<1>5. Stacked(boxes[n], base[n], f, "done")
  <2>1. Stacked(boxes[n], base[n], base[n + 1], "done")
    BY <1>1, <1>4
  <2>2. Len(boxes[n]) \in Nat /\ base[n] <= base[n]
    BY <1>2, <1>4
  <2> QED BY <1>1, <1>4, <2>1, <2>2, StackedWider
<1>6. Boxed(rest, base[n])
  <2> DEFINE low == [i \in 1..n |-> base[i]]
  <2>1. low \in [1..(Len(rest) + 1) -> Nat] /\ low[Len(rest) + 1] = base[n]
    BY <1>2, <1>3
  <2>2. ASSUME NEW b \in 1..Len(rest) PROVE Stacked(rest[b], low[b], low[b + 1], "done")
    <3>1. b \in 1..n /\ b + 1 \in 1..n /\ rest[b] = boxes[b]
      BY <1>2, <1>3
    <3> QED BY <1>1, <3>1
  <2> HIDE DEF low
  <2>3. low[Len(rest) + 1] <= base[n]
    BY <1>4, <2>1
  <2> QED BY <2>1, <2>2, <2>3 DEF Boxed
<1> QED BY <1>4, <1>5, <1>6 DEF n, rest
-----------------------------------------------------------------------------
(* Cursors: how far the text is read.                                      *)

(* r stands where q does, or further on.                                   *)
Reaches(q, r) == /\ OK(q) /\ OK(r)
                 /\ Here(q) \in Nat /\ Here(r) \in Nat /\ Done(q) \in Nat /\ Done(r) \in Nat
                 /\ Here(q) <= Here(r) /\ Done(q) <= Done(r)
                 /\ q.pos > 1 => r.pos > 1
                 /\ q.pos > 1 => Done(q) < Here(q)
                 /\ r.pos > 1 => Done(r) < Here(r)

(* r has passed the token q stands at.                                     *)
Passes(q, r) == Reaches(q, r) /\ r.pos > 1 /\ Here(q) <= Done(r)

(* A token other than the end of the input.                                *)
Solid(q) == toks[q.pos].kind # "eof"

LEMMA Solids ==
  ASSUME NEW q
  PROVE  /\ Peek(q) \in {"(", "[", "{"} => Solid(q)
         /\ Peek(q) \in {")", "]", "}"} => Solid(q)
         /\ Peek(q) \in {"lower", "upper", "number", "text", "glsl", "op", "-", ".", ",", "|", "=", ":",
                         "->", "\\", "_", "if", "then", "else", "case", "of", "let", "in", "as"}
            => Solid(q)
BY Zenon DEF Peek, Solid

LEMMA Places ==
  ASSUME Stream, Ordered, NEW q, OK(q)
  PROVE  /\ Here(q) \in Nat /\ Done(q) \in Nat /\ (q.pos > 1 => Done(q) < Here(q))
         /\ toks[q.pos].tix <= Here(q) /\ Here(q) <= toks[q.pos].ix
         /\ toks[q.pos].tix \in Nat /\ toks[q.pos].ix \in Nat
<1>1. q.pos \in 1..Len(toks) /\ q.pos \in Nat /\ Len(toks) \in Nat
  BY DEF OK, Cursor, Stream
<1>2. toks[q.pos].tix \in Nat /\ toks[q.pos].ix \in Nat /\ toks[q.pos].tix <= toks[q.pos].ix
  BY <1>1, TokenAt DEF Token, Ordered
<1>3. Here(q) \in Nat /\ toks[q.pos].tix <= Here(q) /\ Here(q) <= toks[q.pos].ix
  BY <1>2 DEF Here
<1> DEFINE i == IF q.pos > 1 THEN q.pos - 1 ELSE 1
<1>4. i \in 1..Len(toks) /\ (q.pos > 1 => i + 1 = q.pos /\ i < Len(toks))
  BY <1>1
<1>5. Done(q) = toks[i].ix
  BY DEF Done
<1> HIDE DEF i
<1>6. Done(q) \in Nat
  BY <1>4, <1>5, TokenAt DEF Token
<1>7. q.pos > 1 => Done(q) < toks[q.pos].tix
  BY <1>4, <1>5 DEF Ordered
<1> QED BY <1>2, <1>3, <1>6, <1>7

LEMMA SameReaches ==
  ASSUME Stream, Ordered, NEW q, OK(q)
  PROVE  Reaches(q, q)
BY Places DEF Reaches

LEMMA ReachesOn ==
  ASSUME NEW q, NEW r, NEW s
  PROVE  /\ Reaches(q, r) /\ Reaches(r, s) => Reaches(q, s)
         /\ Reaches(q, r) /\ Passes(r, s) => Passes(q, s)
         /\ Passes(q, r) /\ Reaches(r, s) => Passes(q, s)
         /\ Passes(q, r) /\ Passes(r, s) => Passes(q, s)
         /\ Passes(q, r) => Reaches(q, r)
BY DEF Reaches, Passes

(* Skipping trivia.                                                        *)
LEMMA SkipReaches ==
  ASSUME Stream, Ordered, NEW q, OK(q)
  PROVE  Reaches(q, Skip(q)) /\ Skip(q).pos = q.pos /\ Done(Skip(q)) = Done(q) /\ OK(Skip(q))
<1>1. OK(Skip(q)) /\ Skip(q).pos = q.pos
  BY SkipOK
<1>2. Done(Skip(q)) = Done(q)
  BY <1>1 DEF Done
<1>3. Here(q) <= Here(Skip(q))
  <2>1. CASE q.raw
    <3>1. Skip(q).raw = FALSE
      BY <2>1 DEF Skip, OK, Cursor
    <3>2. Here(Skip(q)) = toks[q.pos].ix
      BY <1>1, <3>1 DEF Here
    <3> QED BY <3>2, Places
  <2>2. CASE ~q.raw
    <3>1. Skip(q) = q
      BY <2>2 DEF Skip
    <3> QED BY <3>1, Places
  <2> QED BY <2>1, <2>2
<1>4. Here(q) \in Nat /\ Done(q) \in Nat /\ (q.pos > 1 => Done(q) < Here(q))
  BY Places
<1>5. Here(Skip(q)) \in Nat /\ (Skip(q).pos > 1 => Done(Skip(q)) < Here(Skip(q)))
  BY <1>1, Places
<1> QED BY <1>1, <1>2, <1>3, <1>4, <1>5 DEF Reaches

(* Passing a token.                                                        *)
LEMMA AdvancePasses ==
  ASSUME Stream, Ordered, NEW q, OK(q), Solid(q)
  PROVE  Passes(q, Advance(q)) /\ OK(Advance(q))
<1> DEFINE r == Advance(q)
<1>1. OK(r) /\ r.pos = q.pos + 1
  BY AdvanceOK DEF Solid
<1> HIDE DEF r
<1>2. q.pos \in Nat \ {0}
  BY DEF OK, Cursor
<1>3. Done(r) = toks[q.pos].ix
  <2>1. r.pos > 1 /\ r.pos - 1 = q.pos
    BY <1>1, <1>2
  <2> QED BY <2>1 DEF Done
<1>4. /\ Here(q) \in Nat /\ Done(q) \in Nat /\ (q.pos > 1 => Done(q) < Here(q)) /\ Here(q) <= toks[q.pos].ix
      /\ toks[q.pos].ix \in Nat
  BY Places
<1>5. Here(r) \in Nat /\ Done(r) \in Nat /\ (r.pos > 1 => Done(r) < Here(r))
  BY <1>1, Places
<1>6. Done(q) <= Done(r)
  <2>1. CASE q.pos > 1
    BY <1>3, <1>4, <2>1
  <2>2. CASE q.pos = 1
    BY <1>3, <1>4, <2>2 DEF Done
  <2> QED BY <1>2, <2>1, <2>2
<1>7. r.pos > 1
  BY <1>1, <1>2
<1> QED BY <1>1, <1>3, <1>4, <1>5, <1>6, <1>7 DEF Reaches, Passes, r

(* Claiming comments, and setting the context column, move nothing.        *)
AtSamePlace(q, r) == r.pos = q.pos /\ r.raw = q.raw

LEMMA SamePlace ==
  ASSUME Stream, Ordered, NEW q, OK(q), NEW r, OK(r), AtSamePlace(q, r)
  PROVE  Reaches(q, r) /\ Here(r) = Here(q) /\ Done(r) = Done(q) /\ r.pos = q.pos
<1>1. Here(r) = Here(q) /\ Done(r) = Done(q) /\ r.pos = q.pos
  BY DEF AtSamePlace, Here, Done
<1> QED BY <1>1, Places DEF Reaches

LEMMA ClaimReaches ==
  ASSUME Stream, Ordered, NEW q, OK(q), NEW snap \in Nat, NEW S, NEW n
  PROVE  /\ Reaches(q, DropSince(q, snap)) /\ Reaches(q, Unclaimed(q, snap, S))
         /\ Reaches(q, DropTrailing(q, n)) /\ Reaches(q, DropInline(q, n))
         /\ Reaches(q, AfterPre(q, n, snap))
         /\ Done(DropTrailing(q, n)) = Done(q) /\ DropTrailing(q, n).pos = q.pos
         /\ DropSince(q, snap).pos = q.pos /\ Unclaimed(q, snap, S).pos = q.pos
<1>1. \A r : Thinner(r, q) => Reaches(q, r) /\ Done(r) = Done(q) /\ r.pos = q.pos
  BY SamePlace DEF Thinner, AtSamePlace
<1> QED BY <1>1, DropSinceThinner, UnclaimedThinner, TrailingThinner, InlineThinner DEF AfterPre

LEMMA ContextReaches ==
  ASSUME Stream, Ordered, NEW q, OK(q), NEW c \in Nat
  PROVE  Reaches(q, [q EXCEPT !.ctx = c])
<1>1. OK([q EXCEPT !.ctx = c])
  BY ContextOK
<1>2. AtSamePlace(q, [q EXCEPT !.ctx = c])
  BY DEF AtSamePlace, OK, Cursor
<1> QED BY <1>1, <1>2, SamePlace

(* The look for the `|` of a record goes back to the name.                 *)
LEMMA BackReaches ==
  ASSUME Stream, Ordered, NEW q, OK(q), Solid(q)
  PROVE  Reaches(q, Back(q)) /\ OK(Back(q))
<1> DEFINE s == Skip(Advance(q))
<1>1. OK(s)
  BY AdvanceOK, SkipOK
<1>2. Back(q) = [s EXCEPT !.pos = q.pos, !.raw = FALSE]
  BY DEF Back
<1> HIDE DEF s
<1>3. OK(Back(q)) /\ Back(q).pos = q.pos /\ ~Back(q).raw
  BY <1>1, <1>2 DEF OK, Cursor
<1>4. Here(Back(q)) = toks[q.pos].ix /\ Done(Back(q)) = Done(q)
  BY <1>3 DEF Here, Done
<1>5. Here(q) <= toks[q.pos].ix /\ Here(q) \in Nat /\ Done(q) \in Nat /\ (q.pos > 1 => Done(q) < Here(q))
      /\ toks[q.pos].ix \in Nat
  BY Places
<1> QED BY <1>3, <1>4, <1>5 DEF Reaches
-----------------------------------------------------------------------------
(* The state an action starts in.                                          *)

(* What the functions of cs and of the boxes hold ends before lo.          *)
Waiting(cs, f, lo) == /\ f \in Nat /\ lo \in Nat /\ IsStack(cs)
                      /\ Boxed(conts, f) /\ Stacked(cs, f, lo, "done")

(* Facts about the text that every action uses.                            *)
LEMMA Reading ==
  ASSUME IInv, SpanInv
  PROVE  Stream /\ Ordered /\ OK(p) /\ Reaches(p, p) /\ val \in Node
BY State, SameReaches DEF SpanInv

(* A function that gets its value back.                                    *)
LEMMA Resting ==
  ASSUME IInv, SpanInv, NEW fn, Resumes(fn)
  PROVE  /\ Top \in Frame /\ Top.fn = fn
         /\ \E f, lo, m \in Nat : /\ Waiting(Pop, f, lo) /\ Seg(Top, lo, m) /\ Live(Top)
                                  /\ Waiting(calls, f, m) /\ Carries(p, val, m)
<1>1. ctl = "done" /\ calls # <<>> /\ "done" \in Passing /\ "done" # "error" /\ "done" \notin Naming
  BY DEF Resumes, Passing, Naming
<1>2. PICK f \in Nat, m \in Nat : Boxed(conts, f) /\ Stacked(calls, f, m, "done") /\ Carries(p, val, m)
  BY <1>1 DEF SpanInv, Lies
<1>3. PICK lo \in Nat : Stacked(Pop, f, lo, "done") /\ Seg(Top, lo, m) /\ Live(Top)
  BY <1>1, <1>2, PopStacked
<1>4. IsStack(Pop) /\ IsStack(calls) /\ Top \in Frame /\ Top.fn = fn
  BY State, Resumed DEF IsStack
<1> QED BY <1>2, <1>3, <1>4 DEF Waiting

(* A function that works on its own locals.                                *)
LEMMA Owning ==
  ASSUME IInv, SpanInv, ctl \in DOMAIN Owners
  PROVE  /\ Top \in Frame /\ Top.fn = Owners[ctl]
         /\ \E f, lo, m \in Nat : /\ Waiting(Pop, f, lo) /\ Seg(Top, lo, m)
                                  /\ ctl \notin Naming => Live(Top) /\ Waiting(calls, f, m)
                                  /\ ctl \in Passing => Carries(p, val, m)
                                  /\ ctl \notin Passing => m <= Here(p)
                                  /\ ctl \in Closing =>
                                       p.pos > 1 /\ m <= Done(p) + 1 /\ Top.from <= Done(p)
<1>1. ctl # "error" /\ calls # <<>> /\ Len(calls) \in Nat /\ (\A c \in Closing : c \notin Passing)
  BY State, OwnersAre DEF IInv, ControlFitsStack, StackFits, Closing, Passing
<1>2. PICK f \in Nat, m \in Nat :
        /\ Boxed(conts, f) /\ Stacked(calls, f, m, ctl)
        /\ IF ctl \in Passing THEN Carries(p, val, m) ELSE Free(p, calls, ctl, m)
  BY <1>1 DEF SpanInv, Lies
<1>3. PICK lo \in Nat : Stacked(Pop, f, lo, "done") /\ Seg(Top, lo, m) /\ (ctl \notin Naming => Live(Top))
  BY <1>1, <1>2, PopStacked
<1>4. IsStack(Pop) /\ IsStack(calls) /\ Top \in Frame /\ Top.fn = Owners[ctl]
  BY State, Owned DEF IsStack
<1>5. ctl \notin Naming => Stacked(calls, f, m, "done")
  BY <1>1, <1>2, <1>4, StackedFor
<1>6. Waiting(Pop, f, lo) /\ (ctl \notin Naming => Waiting(calls, f, m))
  BY <1>2, <1>3, <1>4, <1>5 DEF Waiting
<1>7. ctl \notin Passing => Free(p, calls, ctl, m)
  BY <1>2
<1>8. ctl \in Closing => p.pos > 1 /\ m <= Done(p) + 1 /\ Top.from <= Done(p)
  BY <1>1, <1>7 DEF Free, Top
<1> QED BY <1>2, <1>3, <1>4, <1>6, <1>7, <1>8 DEF Free

(* A function without locals of its own.                                   *)
LEMMA Calling ==
  ASSUME IInv, SpanInv, ctl \in Plain, ctl # "error"
  PROVE  \E f, m \in Nat : /\ Waiting(calls, f, m)
                           /\ ctl \in Passing => Carries(p, val, m)
                           /\ ctl \notin Passing => m <= Here(p)
<1>1. ctl \notin Naming /\ Len(calls) \in Nat /\ IsStack(calls)
  BY State, PlainAre DEF Naming, IsStack
<1>2. PICK f \in Nat, m \in Nat :
        /\ Boxed(conts, f) /\ Stacked(calls, f, m, ctl)
        /\ IF ctl \in Passing THEN Carries(p, val, m) ELSE Free(p, calls, ctl, m)
  BY <1>1 DEF SpanInv, Lies
<1>3. Stacked(calls, f, m, "done")
  BY <1>1, <1>2, StackedFor
<1> QED BY <1>1, <1>2, <1>3 DEF Waiting, Free
-----------------------------------------------------------------------------
(* The kinds of step.                                                      *)

(* A frame on top of waiting ones.                                         *)
LEMMA Grows ==
  ASSUME NEW cs, NEW f, NEW lo, Waiting(cs, f, lo), NEW fr, NEW hi, Seg(fr, lo, hi), Live(fr)
  PROVE  Waiting(Append(cs, fr), f, hi)
BY PushStacked DEF Waiting, Seg

(* Where an action leaves stack, cursor and node.                          *)
LEMMA Leaves ==
  ASSUME SpanInv, NEW f \in Nat, Boxed(conts, f), toks' = toks, conts' = conts,
         NEW q, NEW cs, NEW c, NEW n, p' = q, calls' = cs, ctl' = c, val' = n, Lies(q, cs, c, n, f)
  PROVE  SpanInv'
<1>1. Ordered'
  BY DEF SpanInv, Ordered
<1>2. Boxed(conts, f)'
  BY DEF Boxed, Stacked
<1>3. Here(p)' = Here(q) /\ Done(p)' = Done(q)
  BY DEF Here, Done
<1>4. Lies(p, calls, ctl, val, f)'
  BY <1>3 DEF Lies, Carries, Free
<1> QED BY <1>1, <1>2, <1>4 DEF SpanInv

(* A node is handed on.                                                    *)
LEMMA Hands ==
  ASSUME SpanInv, NEW cs, NEW f, NEW lo, Waiting(cs, f, lo), NEW q, NEW n, Carries(q, n, lo),
         NEW c \in Passing, GotoWith(q, cs, c, n) \/ (Goto(q, cs, c) /\ n = val)
  PROVE  SpanInv'
<1>1. toks' = toks /\ conts' = conts /\ p' = q /\ calls' = cs /\ ctl' = c /\ val' = n
  BY DEF Goto, GotoWith
<1>2. IsStack(cs) /\ f \in Nat /\ lo \in Nat /\ Stacked(cs, f, lo, "done") /\ Boxed(conts, f) /\ "done" \notin Naming
  BY DEF Waiting, Naming
<1>3. Stacked(cs, f, lo, c)
  BY <1>2, StackedFor
<1>4. Lies(q, cs, c, n, f)
  BY <1>2, <1>3 DEF Lies
<1> QED BY <1>1, <1>2, <1>4, Leaves

LEMMA Yields ==
  ASSUME SpanInv, NEW cs, NEW f, NEW lo, Waiting(cs, f, lo), NEW q, NEW n, Carries(q, n, lo), Return(q, cs, n)
  PROVE  SpanInv'
BY Hands DEF Return, Passing

(* A function is called or goes on, with the cursor after all that is held. *)
LEMMA Continues ==
  ASSUME SpanInv, NEW cs, NEW f, NEW lo, Waiting(cs, f, lo), NEW q, lo <= Here(q),
         NEW c, c \notin Passing \cup Closing, Goto(q, cs, c)
  PROVE  SpanInv'
<1>1. toks' = toks /\ conts' = conts /\ p' = q /\ calls' = cs /\ ctl' = c /\ val' = val
  BY DEF Goto
<1>2. IsStack(cs) /\ f \in Nat /\ lo \in Nat /\ Stacked(cs, f, lo, "done") /\ Boxed(conts, f) /\ "done" \notin Naming
  BY DEF Waiting, Naming
<1>3. Stacked(cs, f, lo, c)
  BY <1>2, StackedFor
<1>4. Lies(q, cs, c, val, f)
  BY <1>2, <1>3 DEF Lies, Free
<1> QED BY <1>1, <1>2, <1>4, Leaves

(* A function that may complete its node, all of it read.                  *)
LEMMA Completes ==
  ASSUME SpanInv, NEW cs, NEW f, NEW lo, Waiting(cs, f, lo), NEW fr, NEW hi, Seg(fr, lo, hi), Live(fr),
         NEW q, q.pos > 1, hi <= Done(q) + 1, fr.from <= Done(q), Reaches(q, q),
         NEW c \in Closing, Goto(q, Append(cs, fr), c)
  PROVE  SpanInv'
<1>1. toks' = toks /\ conts' = conts /\ p' = q /\ calls' = Append(cs, fr) /\ ctl' = c /\ val' = val
  BY DEF Goto
<1>2. /\ f \in Nat /\ lo \in Nat /\ hi \in Nat /\ IsStack(cs) /\ Stacked(cs, f, lo, "done") /\ Boxed(conts, f)
      /\ c \notin Passing
  BY DEF Waiting, Seg, Closing, Passing
<1>3. Stacked(Append(cs, fr), f, hi, c) /\ Append(cs, fr)[Len(Append(cs, fr))] = fr
  BY <1>2, PushStacked
<1>4. hi <= Here(q)
  BY <1>2 DEF Reaches
<1>5. Lies(q, Append(cs, fr), c, val, f)
  BY <1>2, <1>3, <1>4 DEF Lies, Free
<1> QED BY <1>1, <1>2, <1>5, Leaves

(* A record looks for the name of its next field.                          *)
LEMMA NamesNext ==
  ASSUME SpanInv, NEW cs, NEW f, NEW lo, Waiting(cs, f, lo), NEW fr, NEW hi, Seg(fr, lo, hi),
         NEW q, hi <= Here(q), NEW c \in Naming, Goto(q, Append(cs, fr), c)
  PROVE  SpanInv'
<1>1. toks' = toks /\ conts' = conts /\ p' = q /\ calls' = Append(cs, fr) /\ ctl' = c /\ val' = val
  BY DEF Goto
<1>2. /\ f \in Nat /\ lo \in Nat /\ hi \in Nat /\ IsStack(cs) /\ Stacked(cs, f, lo, "done") /\ Boxed(conts, f)
      /\ c \notin Passing /\ c \notin Closing
  BY DEF Waiting, Seg, Closing, Passing, Naming
<1>3. Stacked(Append(cs, fr), f, hi, c)
  BY <1>2, PushStacked
<1>4. Lies(q, Append(cs, fr), c, val, f)
  BY <1>2, <1>3 DEF Lies, Free
<1> QED BY <1>1, <1>2, <1>4, Leaves

(* An error.                                                               *)
LEMMA Stops ==
  ASSUME SpanInv, NEW q, Fail(q)
  PROVE  SpanInv'
<1>1. toks' = toks /\ ctl' = "error"
  BY DEF Fail
<1>2. Ordered'
  BY <1>1 DEF SpanInv, Ordered
<1> QED BY <1>1, <1>2 DEF SpanInv

(* The stack is boxed.                                                     *)
LEMMA Needs ==
  ASSUME IInv, SpanInv, NEW cs, NEW f, NEW lo, Waiting(cs, f, lo), NEW q, lo <= Here(q), Need(q, cs)
  PROVE  SpanInv'
<1>1. CASE Fail(q)
  BY <1>1, Stops
<1>2. CASE ~Fail(q)
  <2>1. toks' = toks /\ p' = q /\ conts' = Append(conts, cs) /\ calls' = <<>> /\ ctl' = "expr"
    BY <1>2 DEF Need
  <2>2. /\ f \in Nat /\ lo \in Nat /\ IsStack(cs) /\ Stacked(cs, f, lo, "done") /\ Boxed(conts, f)
        /\ conts \in Seq(Seq(Frame))
    BY DEF Waiting, IInv, TypeOK
  <2>3. Boxed(Append(conts, cs), lo)
    BY <2>2, BoxStacked
  <2>4. Boxed(conts, lo)'
    <3>1. \A s : Boxed(s, lo)' <=> Boxed(s, lo)
      BY DEF Boxed, Stacked
    <3> QED BY <2>1, <2>3 DEF Boxed, Stacked
  <2>5. Stacked(<<>>, lo, lo, "expr")
    BY <2>2, EmptyStacked
  <2>6. Here(p)' = Here(q)
    BY <2>1 DEF Here
  <2>7. "expr" \notin Passing /\ "expr" \notin Closing /\ "expr" # "error"
    BY DEF Passing, Closing
  <2>8. Lies(p, calls, ctl, val, lo)'
    <3>1. Stacked(calls, lo, lo, ctl)'
      BY <2>1, <2>5 DEF Stacked
    <3> QED BY <2>1, <2>2, <2>6, <2>7, <3>1 DEF Lies, Free
  <2>9. Ordered'
    BY <2>1 DEF SpanInv, Ordered
  <2> QED BY <2>2, <2>4, <2>8, <2>9 DEF SpanInv
<1> QED BY <1>1, <1>2

(* A box is reopened.                                                      *)
LEMMA ResumeSpans == ASSUME IInv, SpanInv, Resume PROVE SpanInv'
<1>1. /\ ctl = "done" /\ calls = <<>> /\ conts # <<>> /\ toks' = toks /\ p' = p /\ ctl' = ctl /\ val' = val
      /\ calls' = conts[Len(conts)] /\ conts' = SubSeq(conts, 1, Len(conts) - 1)
  BY DEF Resume
<1>2. PICK f \in Nat, m \in Nat : Boxed(conts, f) /\ Stacked(<<>>, f, m, "done") /\ Carries(p, val, m)
  BY <1>1 DEF SpanInv, Lies, Passing
<1>3. f <= m
  <2>1. PICK base \in [1..(Len(<<>>) + 1) -> Nat] : f <= base[1] /\ base[Len(<<>>) + 1] <= m
    BY <1>2 DEF Stacked
  <2>2. base[1] \in Nat /\ Len(<<>>) + 1 = 1
    OBVIOUS
  <2> QED BY <2>1, <2>2
<1>4. PICK k \in Nat : /\ Boxed(SubSeq(conts, 1, Len(conts) - 1), k)
                       /\ Stacked(conts[Len(conts)], k, f, "done")
  BY <1>1, <1>2, UnboxStacked DEF IInv, TypeOK
<1>5. Carries(p, val, f)
  BY <1>2, <1>3 DEF Carries, NodeFits
<1>6. Boxed(conts, k)'
  <2> DEFINE rest == SubSeq(conts, 1, Len(conts) - 1)
  <2>1. conts' = rest /\ Boxed(rest, k)
    BY <1>1, <1>4
  <2> HIDE DEF rest
  <2> QED BY <2>1 DEF Boxed, Stacked
<1>7. Done(p)' = Done(p)
  BY <1>1 DEF Done
<1>8. Lies(p, calls, ctl, val, k)'
  BY <1>1, <1>4, <1>5, <1>7 DEF Lies, Carries, Passing, Stacked
<1>9. Ordered'
  BY <1>1 DEF SpanInv, Ordered
<1> QED BY <1>6, <1>8, <1>9 DEF SpanInv
-----------------------------------------------------------------------------
(* What the operators on frames and nodes leave alone.                     *)

(* fr has the locals that spans are made from.                             *)
Whole(fr) == {"fn", "from", "mark", "lim", "n", "last", "sub", "chain", "ops"} \subseteq DOMAIN fr

LEMMA Parts ==
  ASSUME NEW fr, Whole(fr), NEW n
  PROVE  /\ Whole(AddPart(fr, n)) /\ Whole(Hold(fr, n))
         /\ Grown(AddPart(fr, n), fr, n.sub) /\ Grown(Hold(fr, n), fr, {})
         /\ AddPart(fr, n).fn = fr.fn /\ AddPart(fr, n).lim = fr.lim /\ AddPart(fr, n).n = fr.n + 1
         /\ AddPart(fr, n).last = n
         /\ Hold(fr, n).fn = fr.fn /\ Hold(fr, n).lim = fr.lim
BY DEF Whole, AddPart, Hold, Grown

LEMMA FramesAreWhole ==
  ASSUME NEW fr \in Frame
  PROVE  Whole(fr) /\ Grown(fr, fr, {})
BY DEF Whole, Frame, Grown

(* Comments do not change where a node is.                                 *)
SameSpan(a, b) == a.from = b.from /\ a.to = b.to /\ a.sub = b.sub

LEMMA LeadSame ==
  ASSUME NEW n \in Node, NEW cs, NEW q, NEW snap
  PROVE  SameSpan(Lead(n, cs), n) /\ SameSpan(WithPre(q, n, snap), n)
BY DEF SameSpan, Lead, WithPre, Node

LEMMA CarriesOn ==
  ASSUME NEW q, NEW a, NEW m, Carries(q, a, m), NEW lo \in Nat, m \in Nat, lo <= m, NEW r, Reaches(q, r),
         NEW b, SameSpan(b, a)
  PROVE  Carries(r, b, lo)
BY DEF Carries, Reaches, SameSpan, NodeFits

(* The function takes over the node it is given, and may complete its own. *)
LEMMA Takes ==
  ASSUME NEW t, NEW lo, NEW m, Seg(t, lo, m), t.fn \notin {"binary", "access"},
         NEW q, NEW n, Carries(q, n, m), NEW fr, Grown(fr, t, n.sub), NEW r, Reaches(q, r)
  PROVE  /\ Shape(fr, lo, Done(r) + 1) /\ Done(r) + 1 \in Nat /\ Done(r) + 1 <= Here(r)
         /\ r.pos > 1 /\ fr.from <= Done(r) /\ lo \in Nat
         /\ Carries(r, Close(fr, r), lo)
<1>1. Shape(t, lo, m) /\ NodeFits(n) /\ m <= n.from /\ n.to <= Done(q) /\ q.pos > 1 /\ m \in Nat /\ lo \in Nat
  BY DEF Seg, Carries
<1>2. Done(r) \in Nat /\ Done(q) <= Done(r) /\ Done(q) \in Nat /\ r.pos > 1 /\ Done(r) < Here(r) /\ Here(r) \in Nat
  BY <1>1 DEF Reaches
<1>3. n.to < Done(r) + 1 /\ n.to \in Nat /\ n.from \in Nat /\ n.from <= n.to
  BY <1>1, <1>2 DEF NodeFits
<1> DEFINE hi == Done(r) + 1
<1>a. hi \in Nat /\ n.to < hi
  BY <1>2, <1>3
<1>4. Shape(fr, lo, hi)
  <2> HIDE DEF hi
  <2> QED BY <1>1, <1>a, Absorbs
<1>5. fr.from <= Done(r) /\ fr.from \in Nat /\ lo <= fr.from
  <2>1. fr.from = t.from /\ t.from <= m /\ t.from \in Nat
    BY <1>1 DEF Grown, Shape
  <2> QED BY <1>1, <1>2, <1>3, <1>4, <2>1 DEF Shape
<1>6. NodeFits(Close(fr, r)) /\ Close(fr, r).from = fr.from /\ Close(fr, r).to = Done(r)
  BY <1>2, <1>4, <1>5, CloseFits
<1>7. Carries(r, Close(fr, r), lo)
  BY <1>2, <1>5, <1>6 DEF Carries
<1> QED BY <1>1, <1>2, <1>4, <1>5, <1>7

(* A token alone.                                                          *)
LEMMA LeafCarries ==
  ASSUME NEW q, NEW r, Passes(q, r), NEW lo, lo <= Here(q), lo \in Nat
  PROVE  Carries(r, Leaf(Here(q), r), lo)
<1>1. Here(q) \in Nat /\ Done(r) \in Nat /\ Here(q) <= Done(r) /\ r.pos > 1
  BY DEF Passes, Reaches
<1> QED BY <1>1, LeafFits DEF Carries
-----------------------------------------------------------------------------
(* The kinds of action.                                                    *)

(* A function takes over the node it gets back, and returns or goes on.    *)
LEMMA Absorbing ==
  ASSUME IInv, SpanInv, NEW fn, Resumes(fn), fn \notin {"binary", "access"},
         NEW fr, Grown(fr, Top, val.sub), NEW q, Reaches(p, q)
  PROVE  /\ Return(q, Pop, Close(fr, q)) => SpanInv'
         /\ fr.fn \notin Special =>
              /\ \A c \in Closing : Goto(q, Swap(fr), c) => SpanInv'
              /\ \A r : Reaches(q, r) => /\ Need(r, Swap(fr)) => SpanInv'
                                         /\ \A c : c \notin Passing \cup Closing /\ Goto(r, Swap(fr), c) => SpanInv'
<1>1. PICK f, lo, m \in Nat : Waiting(Pop, f, lo) /\ Seg(Top, lo, m) /\ Carries(p, val, m)
  BY Resting
<1>2. Top.fn = fn
  BY Resting
<1> DEFINE hi == Done(q) + 1
<1>3. /\ Shape(fr, lo, hi) /\ hi \in Nat /\ hi <= Here(q) /\ q.pos > 1 /\ fr.from <= Done(q)
      /\ Carries(q, Close(fr, q), lo)
  BY <1>1, <1>2, Takes
<1>4. Done(q) \in Nat /\ Here(q) \in Nat /\ Reaches(q, q)
  BY DEF Reaches
<1>5. hi <= Done(q) + 1
  BY <1>4
<1> HIDE DEF hi
<1>6. Return(q, Pop, Close(fr, q)) => SpanInv'
  BY <1>1, <1>3, Yields
<1>7. fr.fn \notin Special => Seg(fr, lo, hi)
  BY <1>3, PlainSeg
<1>8. \A r : Reaches(q, r) => hi <= Here(r)
  BY <1>3, <1>4 DEF Reaches
<1>9. ASSUME fr.fn \notin Special
      PROVE  Live(fr) /\ Seg(fr, lo, hi) /\ Waiting(Swap(fr), f, hi)
  BY <1>1, <1>7, <1>9, Grows DEF Live, Swap, Special, Parted
<1>10. fr.fn \notin Special =>
         \A c \in Closing : Goto(q, Swap(fr), c) => SpanInv'
  BY <1>1, <1>3, <1>4, <1>5, <1>9, Completes DEF Swap
<1>11. fr.fn \notin Special =>
         \A r : Reaches(q, r) => /\ Need(r, Swap(fr)) => SpanInv'
                                 /\ \A c : c \notin Passing \cup Closing /\ Goto(r, Swap(fr), c) => SpanInv'
  BY <1>8, <1>9, Continues, Needs
<1> QED BY <1>6, <1>10, <1>11

(* A function hands on the node it gets back as it is.                     *)
LEMMA HandsOn ==
  ASSUME IInv, SpanInv, NEW fn, Resumes(fn), NEW q, Reaches(p, q), NEW n, SameSpan(n, val), Return(q, Pop, n)
  PROVE  SpanInv'
<1>1. PICK f, lo, m \in Nat : Waiting(Pop, f, lo) /\ Seg(Top, lo, m) /\ Carries(p, val, m)
  BY Resting
<1>2. lo <= m
  BY <1>1 DEF Seg
<1>3. Carries(q, n, lo)
  BY <1>1, <1>2, CarriesOn
<1> QED BY <1>1, <1>3, Yields

(* A function is called with a frame that has nothing yet.                 *)
Opening(fr, s) == /\ fr.from = s /\ fr.sub = {} /\ fr.mark = 0 /\ fr.ops = <<>>
                  /\ fr.chain = <<>> \/ (fr.chain = <<s>> /\ fr.fn \notin Parted)
                  /\ fr.fn \notin Marked /\ (fr.fn = "app" => fr.n = 0)

LEMMA OpeningSeg ==
  ASSUME NEW s \in Nat, NEW fr, Opening(fr, s), NEW lo \in Nat, lo <= s, NEW hi \in Nat, s <= hi
  PROVE  /\ Seg(fr, lo, hi)
         /\ fr.fn \notin {"record", "typeFields"} => Live(fr)
<1>1. \A c \in Elements(fr.chain) : c \in Nat /\ fr.from <= c /\ c <= hi
  <2>1. CASE fr.chain = <<>>
    BY <2>1 DEF Elements
  <2>2. CASE fr.chain = <<s>>
    BY <2>2 DEF Elements, Opening
  <2> QED BY <2>1, <2>2 DEF Opening
<1>2. Shape(fr, lo, hi)
  BY <1>1, FreshShape DEF Opening
<1>3. OperandsFit(fr.ops, lo, hi)
  BY DEF Opening, OperandsFit
<1>4. lo <= hi /\ fr.fn \notin {"letArgs", "letValue"} /\ ~(fr.fn = "app" /\ fr.n >= 1)
  BY DEF Opening, Marked
<1>5. fr.fn \notin Marked /\ (fr.fn \in Parted => fr.chain = <<>>)
  BY DEF Opening
<1> QED BY <1>2, <1>3, <1>4, <1>5, Zenon DEF Seg, Live

(* What a compound expression is put on.                                   *)
LEMMA Under ==
  ASSUME IInv, SpanInv, ctl \in Plain, ctl # "error"
  PROVE  /\ \A fr : Compound(fr) = Append(Append(calls, New("access", 0)), fr)
         /\ \E f, m \in Nat : /\ Waiting(calls, f, m) /\ Waiting(Append(calls, New("access", 0)), f, m)
                              /\ ctl \in Passing => Carries(p, val, m)
                              /\ ctl \notin Passing => m <= Here(p)
<1>1. PICK f, m \in Nat : /\ Waiting(calls, f, m)
                          /\ ctl \in Passing => Carries(p, val, m)
                          /\ ctl \notin Passing => m <= Here(p)
  BY Calling
<1> DEFINE new == New("access", 0)
<1>2. new.fn = "access"
  BY DEF New
<1>3. \A fr : Compound(fr) = Append(Append(calls, new), fr)
  <2> SUFFICES ASSUME NEW fr PROVE Compound(fr) = Append(Append(calls, new), fr)
    OBVIOUS
  <2> HIDE DEF new
  <2>1. calls \in Seq(Frame \cup {new, fr})
    BY State
  <2>2. calls \o <<new, fr>> = Append(Append(calls, new), fr)
    BY <2>1
  <2> QED BY <2>2 DEF Compound, new
<1> HIDE DEF new
<1>4. m <= m
  OBVIOUS
<1>5. Seg(new, m, m) /\ Live(new)
  BY <1>2, <1>4, Zenon DEF Seg, Live, Parted, Marked
<1>6. Waiting(Append(calls, new), f, m)
  BY <1>1, <1>5, Grows
<1> QED BY <1>1, <1>3, <1>6 DEF new

LEMMA Begins ==
  ASSUME IInv, SpanInv, ctl \in Plain, ctl # "error", ctl \notin Passing,
         NEW q, Reaches(p, q), NEW r, Reaches(q, r), NEW fr, Opening(fr, Here(q)),
         NEW cs, cs = Append(calls, fr) \/ cs = Compound(fr)
  PROVE  /\ fr.fn \notin {"record", "typeFields"} =>
              /\ \A c : c \notin Passing \cup Closing /\ Goto(r, cs, c) => SpanInv'
              /\ Need(r, cs) => SpanInv'
              /\ \A c \in Closing : Passes(q, r) /\ Goto(r, cs, c) => SpanInv'
         /\ \A c \in Naming : Goto(r, cs, c) => SpanInv'
<1>1. PICK f, m \in Nat : /\ Waiting(calls, f, m) /\ Waiting(Append(calls, New("access", 0)), f, m)
                          /\ m <= Here(p)
  BY Under
<1>2. PICK under : Waiting(under, f, m) /\ cs = Append(under, fr)
  BY <1>1, Under
<1>3. /\ Here(p) \in Nat /\ Here(q) \in Nat /\ Here(r) \in Nat /\ Here(p) <= Here(q) /\ Here(q) <= Here(r)
      /\ Done(r) \in Nat /\ (r.pos > 1 => Done(r) < Here(r))
  BY DEF Reaches
<1>4. m <= Here(q) /\ fr.from = Here(q) /\ Reaches(r, r)
  BY <1>1, <1>3 DEF Reaches, Opening
<1>5. Here(q) <= Here(q)
  BY <1>3
<1>6. Seg(fr, m, Here(q)) /\ (fr.fn \notin {"record", "typeFields"} => Live(fr))
  BY <1>3, <1>4, <1>5, OpeningSeg
<1>7. fr.fn \notin {"record", "typeFields"} => Waiting(cs, f, Here(q))
  BY <1>2, <1>6, Grows
<1>8. ASSUME fr.fn \notin {"record", "typeFields"}, NEW c \in Closing, Passes(q, r), Goto(r, cs, c)
      PROVE  SpanInv'
  <2>1. r.pos > 1 /\ Here(q) <= Done(r)
    BY <1>8 DEF Passes
  <2>2. Here(q) <= Done(r) + 1 /\ fr.from <= Done(r) /\ Live(fr) /\ Goto(r, Append(under, fr), c)
    BY <1>2, <1>3, <1>4, <1>6, <1>8, <2>1
  <2> QED BY <1>2, <1>4, <1>6, <2>1, <2>2, Completes
<1>9. \A c : c \notin Passing \cup Closing /\ Goto(r, cs, c) /\ fr.fn \notin {"record", "typeFields"} => SpanInv'
  BY <1>3, <1>7, Continues
<1>10. Need(r, cs) /\ fr.fn \notin {"record", "typeFields"} => SpanInv'
  BY <1>3, <1>7, Needs
<1>11. \A c \in Naming : Goto(r, cs, c) => SpanInv'
  BY <1>2, <1>3, <1>6, NamesNext
<1> QED BY <1>8, <1>9, <1>10, <1>11

(* A token is a node.                                                      *)
LEMMA LeafRead ==
  ASSUME IInv, SpanInv, ctl \in Plain, ctl # "error", ctl \notin Passing,
         NEW q, Reaches(p, q), NEW r, Passes(q, r), NEW c \in Passing,
         GotoWith(r, calls, c, Leaf(Here(q), r))
  PROVE  SpanInv'
<1>1. PICK f, m \in Nat : Waiting(calls, f, m) /\ m <= Here(p)
  BY Calling
<1>2. m <= Here(q)
  BY <1>1 DEF Reaches
<1>3. Carries(r, Leaf(Here(q), r), m)
  BY <1>2, LeafCarries
<1> QED BY <1>1, <1>3, Hands

(* A function goes on, its frame as it is.                                 *)
LEMMA Proceeds ==
  ASSUME IInv, SpanInv, ctl \in Plain \cup DOMAIN Owners, ctl # "error", ctl \notin Passing \cup Naming,
         NEW q, Reaches(p, q)
  PROVE  /\ \A c : c \notin Passing \cup Closing /\ Goto(q, calls, c) => SpanInv'
         /\ ctl \in Closing => \A c \in Closing : Goto(q, calls, c) => SpanInv'
<1>1. PICK f, m \in Nat : Waiting(calls, f, m) /\ m <= Here(p)
  BY Calling, Owning
<1>2. m <= Here(q)
  BY <1>1 DEF Reaches
<1>3. \A c : c \notin Passing \cup Closing /\ Goto(q, calls, c) => SpanInv'
  BY <1>1, <1>2, Continues
<1>4. ASSUME ctl \in Closing, NEW c \in Closing, Goto(q, calls, c)
      PROVE  SpanInv'
  <2>1. ctl \in DOMAIN Owners /\ calls # <<>>
    BY <1>4, OwnersAre DEF Closing, IInv, ControlFitsStack, StackFits
  <2>2. PICK g, k \in Nat : /\ Waiting(calls, g, k)
                            /\ p.pos > 1 /\ k <= Done(p) + 1 /\ Top.from <= Done(p) /\ k <= Here(p)
    BY <1>4, <2>1, Owning
  <2>3. Done(p) \in Nat /\ Done(q) \in Nat /\ Done(p) <= Done(q) /\ q.pos > 1 /\ k <= Here(q) /\ Top.from \in Nat
    <3>1. Top.from \in Nat
      BY <2>1, Owned DEF Frame
    <3> QED BY <2>2, <3>1 DEF Reaches
  <2>4. /\ toks' = toks /\ conts' = conts /\ p' = q /\ calls' = calls /\ ctl' = c /\ val' = val /\ c \notin Passing
    BY <1>4 DEF Goto, Closing, Passing
  <2>5. /\ g \in Nat /\ IsStack(calls) /\ Stacked(calls, g, k, "done") /\ Boxed(conts, g) /\ "done" \notin Naming
    BY <2>2 DEF Waiting, Naming
  <2>6. Stacked(calls, g, k, c)
    BY <2>5, StackedFor
  <2>7. k <= Done(q) + 1 /\ Top.from <= Done(q)
    BY <2>2, <2>3
  <2>8. Lies(q, calls, c, val, g)
    BY <2>3, <2>4, <2>6, <2>7 DEF Lies, Free, Top
  <2> QED BY <2>4, <2>5, <2>8, Leaves
<1> QED BY <1>3, <1>4

(* A function goes on with its nodes, other locals changed.                *)
LEMMA Keeps ==
  ASSUME IInv, SpanInv, ctl \in DOMAIN Owners, ctl \notin Passing, NEW fr, Grown(fr, Top, {}),
         Top.fn \notin {"binary", "access"}, fr.fn \notin Special,
         NEW q, Reaches(p, q)
  PROVE  /\ \A c : c \notin Passing \cup Closing /\ Goto(q, Swap(fr), c) => SpanInv'
         /\ Need(q, Swap(fr)) => SpanInv'
         /\ ctl \in Closing => \A c \in Closing : Goto(q, Swap(fr), c) => SpanInv'
<1>1. PICK f, lo, m \in Nat : /\ Waiting(Pop, f, lo) /\ Seg(Top, lo, m) /\ m <= Here(p)
                              /\ ctl \in Closing =>
                                   p.pos > 1 /\ m <= Done(p) + 1 /\ Top.from <= Done(p)
  BY Owning
<1>2. lo <= lo /\ m <= m /\ m <= Here(q)
  BY <1>1 DEF Reaches
<1>3. Shape(Top, lo, m)
  BY <1>1 DEF Seg
<1>4. Shape(fr, lo, m)
  BY <1>2, <1>3, ShapeWider
<1>5. Seg(fr, lo, m) /\ Live(fr)
  BY <1>4, PlainSeg DEF Live, Special, Parted
<1>6. Waiting(Swap(fr), f, m)
  BY <1>1, <1>5, Grows DEF Swap
<1>7. ASSUME ctl \in Closing, NEW c \in Closing, Goto(q, Swap(fr), c)
      PROVE  SpanInv'
  <2>1. fr.from = Top.from /\ Top.from \in Nat
    BY <1>3 DEF Grown, Shape
  <2>2. q.pos > 1 /\ m <= Done(q) + 1 /\ fr.from <= Done(q) /\ Reaches(q, q)
    BY <1>1, <1>7, <2>1 DEF Reaches
  <2>3. Goto(q, Append(Pop, fr), c)
    BY <1>7 DEF Swap
  <2> QED BY <1>1, <1>5, <2>2, <2>3, Completes
<1> QED BY <1>2, <1>6, <1>7, Continues, Needs

(* A function completes its node.                                          *)
LEMMA Ends ==
  ASSUME IInv, SpanInv, ctl \in DOMAIN Owners, ctl \in Closing, NEW q, Reaches(p, q), Return(q, Pop, Close(Top, q)),
         Top.fn \notin {"binary", "access"}
  PROVE  SpanInv'
<1>1. PICK f, lo, m \in Nat : /\ Waiting(Pop, f, lo) /\ Seg(Top, lo, m)
                              /\ p.pos > 1 /\ m <= Done(p) + 1 /\ Top.from <= Done(p)
  BY Owning
<1>2. Shape(Top, lo, m)
  BY <1>1 DEF Seg
<1>3. /\ q.pos > 1 /\ m <= Done(q) + 1 /\ Top.from <= Done(q) /\ Done(q) \in Nat
      /\ Top.from \in Nat /\ lo <= Top.from
  BY <1>1, <1>2 DEF Reaches, Shape
<1>4. NodeFits(Close(Top, q)) /\ Close(Top, q).from = Top.from /\ Close(Top, q).to = Done(q)
  BY <1>2, <1>3, CloseFits
<1>5. Carries(q, Close(Top, q), lo)
  BY <1>3, <1>4 DEF Carries
<1> QED BY <1>1, <1>5, Yields

(* Skipping and passing, in one place.                                     *)
LEMMA Onward ==
  ASSUME Stream, Ordered, NEW q, OK(q)
  PROVE  /\ Reaches(q, q) /\ Reaches(q, Skip(q)) /\ OK(Skip(q))
         /\ Solid(q) => Passes(q, Advance(q)) /\ OK(Advance(q))
BY SameReaches, SkipReaches, AdvancePasses

(* Calls of functions, and where functions without a node go on.           *)
Calls == {"expr", "unary", "app", "atom", "pattern", "consPattern", "appPattern", "atomPattern",
          "type", "typeApp", "atomType", "signature"}

Turns == Calls \cup {"letNext", "letName", "letArgs", "lambdaArgs"}

LEMMA CallsAre ==
  /\ ctl \in Calls => ctl \in Plain /\ ctl # "error" /\ ctl \notin Passing /\ ctl \notin Passing \cup Naming
  /\ \A c \in Turns : c \notin Passing \cup Closing
<1>1. ctl \in Calls => ctl \in Plain /\ ctl # "error"
  BY PlainAre DEF Calls
<1>2. ctl \in Calls => ctl \notin Passing /\ ctl \notin Naming
  BY DEF Calls, Passing, Naming
<1>3. \A c \in Turns : c \notin Passing
  BY DEF Turns, Calls, Passing
<1>4. \A c \in Turns : c \notin Closing
  BY DEF Turns, Calls, Closing
<1> QED BY <1>1, <1>2, <1>3, <1>4

(* A new frame of its own.                                                 *)
LEMMA NewOpens ==
  ASSUME NEW fn, fn \notin Marked, NEW s
  PROVE  Opening(New(fn, s), s) /\ New(fn, s).fn = fn
BY DEF Opening, New

(* A part is added, and the function goes on as another one.               *)
LEMMA PartGrown ==
  ASSUME NEW fn, IInv, Resumes(fn), NEW n, NEW name
  PROVE  /\ Top \in Frame /\ Top.fn = fn
         /\ Whole(AddPart(Top, n)) /\ Grown(AddPart(Top, n), Top, n.sub) /\ AddPart(Top, n).fn = fn
         /\ LET fr == [AddPart(Top, n) EXCEPT !.fn = name]
            IN  Whole(fr) /\ Grown(fr, Top, n.sub) /\ fr.fn = name
<1>1. Top \in Frame /\ Top.fn = fn
  BY Resumed
<1>2. Whole(AddPart(Top, n)) /\ Grown(AddPart(Top, n), Top, n.sub) /\ AddPart(Top, n).fn = fn
  BY <1>1, FramesAreWhole, Parts
<1> DEFINE part == AddPart(Top, n)
<1> HIDE DEF part
<1>3. Whole(part) /\ Grown(part, Top, n.sub) =>
        LET fr == [part EXCEPT !.fn = name]
        IN  Whole(fr) /\ Grown(fr, Top, n.sub) /\ fr.fn = name
  BY DEF Whole, Grown
<1> QED BY <1>1, <1>2, <1>3 DEF part
-----------------------------------------------------------------------------
(* Patterns.                                                               *)

LEMMA OperatorPatternSpans ==
  ASSUME IInv, SpanInv, ParsePattern \/ AfterAsOperand \/ ParseConsPattern \/ AfterConsHead \/ AfterConsTail
  PROVE  SpanInv'
<1>0. Stream /\ Ordered /\ OK(p) /\ Reaches(p, p)
  BY Reading
<1>a. /\ "as" \notin Marked /\ "cons" \notin Marked
      /\ "consTail" \notin Special
      /\ "consPattern" \in Turns /\ "appPattern" \in Turns
  BY DEF Marked, Parted, Special, Turns, Calls
<1> DEFINE q == Skip(p)
<1>b. Reaches(p, q)
  BY <1>0, Onward
<1>1. CASE ParsePattern
  <2> DEFINE fr == New("as", Here(p))
  <2>1. ctl \in Calls /\ Goto(p, Append(calls, fr), "consPattern")
    BY <1>1 DEF ParsePattern, Calls
  <2>2. Opening(fr, Here(p)) /\ fr.fn = "as"
    BY <1>a, NewOpens
  <2> HIDE DEF fr
  <2> QED BY <1>0, <1>a, <2>1, <2>2, CallsAre, Begins
<1>2. CASE AfterAsOperand
  <2> DEFINE r == Skip(Advance(q))
             s == Advance(r)
             fr == AddPart(Top, val)
  <2>1. (Peek(q) = "as" => Solid(q)) /\ (Peek(r) = "lower" => Solid(r))
    BY Solids, Zenon
  <2>2. Resumes("as") /\ (Return(q, Pop, val) \/ Fail(r) \/ (Solid(q) /\ Solid(r) /\ Return(s, Pop, Close(fr, s))))
    BY <1>2, <2>1, Zenon DEF AfterAsOperand
  <2>3. Grown(fr, Top, val.sub)
    BY <2>2, PartGrown
  <2> HIDE DEF fr, q
  <2>4. Solid(q) => Reaches(p, r)
    BY <1>0, <1>b, Onward, ReachesOn DEF Reaches
  <2> HIDE DEF r
  <2>5. Solid(q) /\ Solid(r) => Reaches(p, s)
    BY <1>0, <2>4, Onward, ReachesOn DEF Reaches
  <2> HIDE DEF s
  <2>6. SameSpan(val, val)
    BY DEF SameSpan
  <2>7. CASE Return(q, Pop, val)
    <3>1. Resumes("as")
      BY <2>2
    <3> QED BY <1>b, <2>6, <2>7, <3>1, HandsOn, Zenon
  <2>8. CASE Solid(q) /\ Solid(r) /\ Return(s, Pop, Close(fr, s))
    BY <2>2, <2>3, <2>5, <2>8, Absorbing
  <2> QED BY <2>2, <2>7, <2>8, Stops
<1>3. CASE ParseConsPattern
  <2> DEFINE fr == New("cons", Here(p))
  <2>1. ctl \in Calls /\ Goto(p, Append(calls, fr), "appPattern")
    BY <1>3 DEF ParseConsPattern, Calls
  <2>2. Opening(fr, Here(p)) /\ fr.fn = "cons"
    BY <1>a, NewOpens
  <2> HIDE DEF fr
  <2> QED BY <1>0, <1>a, <2>1, <2>2, CallsAre, Begins
<1>4. CASE AfterConsHead
  <2> DEFINE r == Advance(q)
             fr == [AddPart(Top, val) EXCEPT !.fn = "consTail"]
  <2>1. Peek(q) = "op" => Solid(q)
    BY Solids, Zenon
  <2>2. Resumes("cons") /\ ((Solid(q) /\ Goto(r, Swap(fr), "consPattern")) \/ Return(q, Pop, val))
    BY <1>4, <2>1, Zenon DEF AfterConsHead
  <2>3. Grown(fr, Top, val.sub) /\ fr.fn = "consTail"
    BY <2>2, PartGrown
  <2> HIDE DEF fr, q
  <2>4. Solid(q) => Reaches(q, r)
    BY <1>0, <1>b, Onward, ReachesOn DEF Reaches
  <2>5. SameSpan(val, val)
    BY DEF SameSpan
  <2> HIDE DEF r
  <2>6. CASE Return(q, Pop, val)
    BY <1>b, <2>2, <2>5, <2>6, HandsOn
  <2>7. CASE Solid(q) /\ Goto(r, Swap(fr), "consPattern")
    BY <1>a, <1>b, <2>2, <2>3, <2>4, <2>7, CallsAre, Absorbing
  <2> QED BY <2>2, <2>6, <2>7
<1>5. CASE AfterConsTail
  <2> DEFINE fr == AddPart(Top, val)
  <2>1. Resumes("consTail") /\ Return(p, Pop, Close(fr, p))
    BY <1>5 DEF AfterConsTail
  <2>2. Grown(fr, Top, val.sub)
    BY <2>1, PartGrown
  <2> HIDE DEF fr
  <2> QED BY <1>0, <2>1, <2>2, Absorbing
<1> QED BY <1>1, <1>2, <1>3, <1>4, <1>5

LEMMA CtorPatternSpans ==
  ASSUME IInv, SpanInv,
         ParseAppPattern \/ QualifyCtor \/ CtorArguments \/ AfterCtorArgument \/ AtomicCtorPattern
  PROVE  SpanInv'
<1>0. Stream /\ Ordered /\ OK(p) /\ Reaches(p, p)
  BY Reading
<1>a. /\ "ctor" \notin Marked /\ "ctor" \notin Special /\ "ctor" \notin {"binary", "access"}
      /\ "atomPattern" \in Turns /\ "ctorName" \in Closing /\ "ctorArgs" \in Closing /\ "atomCtor" \in Closing
      /\ "ctorName" \notin Passing \cup Naming /\ "ctorArgs" \notin Passing \cup Naming /\ "atomCtor" \notin Passing \cup Naming
  BY DEF Marked, Parted, Special, Turns, Calls, Closing, Passing, Naming
<1> DEFINE q == Skip(p)
           r == Advance(q)
<1>b. Reaches(p, q) /\ (Solid(q) => Passes(q, r) /\ Passes(p, r))
  <2>1. Reaches(p, q) /\ OK(q)
    BY <1>0, Onward
  <2> HIDE DEF q
  <2> QED BY <1>0, <2>1, Onward, ReachesOn
<1>1. CASE ParseAppPattern
  <2> DEFINE fr == [New("ctor", Here(p)) EXCEPT !.col = HereCol(q), !.n = 1, !.line = toks[q.pos].line]
  <2>1. Peek(q) = "upper" => Solid(q)
    BY Solids, Zenon
  <2>2. ctl \in Calls /\ ((Solid(q) /\ Goto(r, Append(calls, fr), "ctorName")) \/ Goto(q, calls, "atomPattern"))
    BY <1>1, <2>1, Zenon DEF ParseAppPattern, Calls
  <2>3. Opening(fr, Here(p)) /\ fr.fn = "ctor"
    BY <1>a DEF Opening, New
  <2> HIDE DEF fr, q, r
  <2>4. CASE Solid(q) /\ Goto(r, Append(calls, fr), "ctorName")
    <3>1. Passes(p, r) /\ Reaches(p, r)
      BY <1>b, <2>4, ReachesOn
    <3> QED BY <1>0, <1>a, <2>2, <2>3, <2>4, <3>1, CallsAre, Begins
  <2>5. CASE Goto(q, calls, "atomPattern")
    BY <1>a, <1>b, <2>2, <2>5, CallsAre, Proceeds
  <2> QED BY <2>2, <2>4, <2>5
<1>2. CASE QualifyCtor
  <2> DEFINE s == Advance(p)
             t == Advance(s)
  <2>1. (Peek(p) = "." => Solid(p)) /\ (Peek(s) = "upper" => Solid(s))
    BY Solids, Zenon
  <2>2. /\ ctl \in {"ctorName", "atomCtor"}
        /\ \/ Solid(p) /\ Solid(s) /\ Goto(t, calls, ctl)
           \/ Goto(p, calls, "ctorArgs")
           \/ Return(p, Pop, Close(Top, p))
    BY <1>2, <2>1, Zenon DEF QualifyCtor
  <2>3. ctl \in DOMAIN Owners /\ Top.fn = "ctor" /\ ctl \in Closing /\ ctl \notin Passing \cup Naming /\ ctl # "error"
    BY <1>a, <2>2, OwnersAre, Owned
  <2>4. Solid(p) => Reaches(p, s)
    BY <1>0, Onward, ReachesOn
  <2> HIDE DEF s
  <2>5. Solid(p) /\ Solid(s) => Reaches(p, t)
    BY <1>0, <2>4, Onward, ReachesOn DEF Reaches
  <2> HIDE DEF t
  <2>6. CASE Solid(p) /\ Solid(s) /\ Goto(t, calls, ctl)
    BY <2>3, <2>5, <2>6, Proceeds
  <2>7. CASE Goto(p, calls, "ctorArgs")
    BY <1>0, <1>a, <2>3, <2>7, Proceeds
  <2>8. CASE Return(p, Pop, Close(Top, p))
    BY <1>0, <1>a, <2>3, <2>8, Ends
  <2> QED BY <2>2, <2>6, <2>7, <2>8
<1>3. CASE CtorArguments
  <2>1. ctl = "ctorArgs" /\ (Goto(q, calls, "atomPattern") \/ Return(q, Pop, Close(Top, q)))
    BY <1>3, Zenon DEF CtorArguments
  <2>2. ctl \in DOMAIN Owners /\ Top.fn = "ctor" /\ ctl \in Closing /\ ctl \notin Passing \cup Naming /\ ctl # "error"
    BY <1>a, <2>1, OwnersAre, Owned
  <2> HIDE DEF q
  <2>3. CASE Goto(q, calls, "atomPattern")
    BY <1>a, <1>b, <2>2, <2>3, CallsAre, Proceeds
  <2>4. CASE Return(q, Pop, Close(Top, q))
    BY <1>a, <1>b, <2>2, <2>4, Ends
  <2> QED BY <2>1, <2>3, <2>4
<1>4. CASE AfterCtorArgument
  <2> DEFINE fr == AddPart(Top, val)
  <2>1. Resumes("ctor") /\ Goto(p, Swap(fr), "ctorArgs")
    BY <1>4 DEF AfterCtorArgument
  <2>2. Grown(fr, Top, val.sub) /\ fr.fn = "ctor"
    BY <2>1, PartGrown
  <2> HIDE DEF fr
  <2> QED BY <1>0, <1>a, <2>1, <2>2, Absorbing
<1>5. CASE AtomicCtorPattern
  <2> DEFINE fr == New("ctor", Here(q))
  <2>1. Peek(q) = "upper" => Solid(q)
    BY Solids, Zenon
  <2>2. ctl \in Calls /\ Solid(q) /\ Goto(r, Append(calls, fr), "atomCtor")
    BY <1>5, <2>1, Zenon DEF AtomicCtorPattern, Calls
  <2>3. Opening(fr, Here(q)) /\ fr.fn = "ctor"
    BY <1>a, NewOpens
  <2> HIDE DEF fr, q, r
  <2>4. Passes(q, r) /\ Reaches(q, r)
    BY <1>b, <2>2, ReachesOn
  <2> QED BY <1>a, <1>b, <2>2, <2>3, <2>4, CallsAre, Begins
<1> QED BY <1>1, <1>2, <1>3, <1>4, <1>5

(* A bracket with nothing in it, or entered.                               *)
LEMMA BracketSpans ==
  ASSUME IInv, SpanInv, ctl \in Calls, NEW q, Reaches(p, q), Solid(q), NEW r, r = Skip(Advance(q)),
         NEW fn, fn \notin Marked, NEW c \in Turns, fn \notin {"record", "typeFields"},
         \/ Fail(r)
         \/ Solid(r) /\ Return(Advance(r), calls, Leaf(Here(q), Advance(r)))
         \/ Goto(r, Append(calls, New(fn, Here(q))), c)
  PROVE  SpanInv'
<1>0. Stream /\ Ordered /\ OK(p) /\ OK(q)
  BY Reading DEF Reaches
<1> DEFINE fr == New(fn, Here(q))
           s == Advance(r)
<1>1. Opening(fr, Here(q)) /\ fr.fn = fn
  BY NewOpens
<1> HIDE DEF fr
<1>2. Passes(q, r)
  BY <1>0, Onward, ReachesOn
<1>3. Reaches(q, r) /\ OK(r)
  BY <1>2, ReachesOn DEF Reaches
<1>4. Solid(r) => Passes(q, s)
  BY <1>0, <1>2, <1>3, Onward, ReachesOn
<1>5. CASE Solid(r) /\ Return(s, calls, Leaf(Here(q), s))
  BY <1>4, <1>5, CallsAre, LeafRead DEF Return, Passing
<1>6. CASE Goto(r, Append(calls, fr), c)
  BY <1>1, <1>3, <1>6, CallsAre, Begins
<1> QED BY <1>5, <1>6, Stops DEF fr

LEMMA AtomicPatternSpans ==
  ASSUME IInv, SpanInv, SimplePattern \/ NegativePattern \/ ParenPattern \/ ListPattern \/ NotAPattern
  PROVE  SpanInv'
<1>0. Stream /\ Ordered /\ OK(p) /\ Reaches(p, p)
  BY Reading
<1>a. "patParen" \notin Marked /\ "patList" \notin Marked /\ "pattern" \in Turns /\ "done" \in Passing
  BY DEF Marked, Turns, Calls, Passing
<1> DEFINE q == Skip(p)
           open == Advance(q)
           r == Skip(open)
           s == Advance(r)
<1>b. Reaches(p, q) /\ (Solid(q) => Passes(q, open)) /\ OK(q)
  <2>1. Reaches(p, q) /\ OK(q)
    BY <1>0, Onward
  <2> HIDE DEF q
  <2> QED BY <1>0, <2>1, Onward, ReachesOn
<1>1. CASE SimplePattern
  <2>1. Peek(q) \in {"_", "lower", "number", "text"} => Solid(q)
    BY Solids, Zenon
  <2>2. ctl \in Calls /\ Solid(q) /\ Return(open, calls, Leaf(Here(q), open))
    BY <1>1, <2>1, Zenon DEF SimplePattern, Calls
  <2> HIDE DEF q, open
  <2> QED BY <1>a, <1>b, <2>2, CallsAre, LeafRead DEF Return
<1>2. CASE NegativePattern
  <2>1. (Peek(q) = "-" => Solid(q)) /\ (Peek(r) = "number" => Solid(r))
    BY Solids, Zenon
  <2>2. ctl \in Calls /\ Solid(q) /\ ((Solid(r) /\ Return(s, calls, Leaf(Here(q), s))) \/ Fail(r))
    BY <1>2, <2>1, Zenon DEF NegativePattern, Calls
  <2>3. r = Skip(Advance(q)) /\ "patList" \notin {"record", "typeFields"}
    OBVIOUS
  <2> HIDE DEF q, open, r
  <2> QED BY <1>a, <1>b, <2>2, <2>3, BracketSpans
<1>3. CASE ParenPattern
  <2>1. (Peek(q) = "(" => Solid(q)) /\ (Peek(r) = ")" => Solid(r))
    BY Solids, Zenon
  <2>2. /\ ctl \in Calls /\ Solid(q)
        /\ (Solid(r) /\ Return(s, calls, Leaf(Here(q), s))) \/ Goto(r, Append(calls, New("patParen", Here(q))), "pattern")
    BY <1>3, <2>1, Zenon DEF ParenPattern, Calls
  <2>3. r = Skip(Advance(q)) /\ "patParen" \notin {"record", "typeFields"}
    OBVIOUS
  <2> HIDE DEF q, open, r
  <2> QED BY <1>a, <1>b, <2>2, <2>3, BracketSpans
<1>4. CASE ListPattern
  <2>1. (Peek(q) = "[" => Solid(q)) /\ (Peek(r) = "]" => Solid(r))
    BY Solids, Zenon
  <2>2. /\ ctl \in Calls /\ Solid(q)
        /\ (Solid(r) /\ Return(s, calls, Leaf(Here(q), s))) \/ Goto(r, Append(calls, New("patList", Here(q))), "pattern")
    BY <1>4, <2>1, Zenon DEF ListPattern, Calls
  <2>3. r = Skip(Advance(q)) /\ "patList" \notin {"record", "typeFields"}
    OBVIOUS
  <2> HIDE DEF q, open, r
  <2> QED BY <1>a, <1>b, <2>2, <2>3, BracketSpans
<1>5. CASE NotAPattern
  BY <1>5, Stops DEF NotAPattern
<1> QED BY <1>1, <1>2, <1>3, <1>4, <1>5

(* Another element, or the end of the bracket.                             *)
LEMMA ElementSpans ==
  ASSUME IInv, SpanInv, NEW fn, Resumes(fn), fn \notin {"binary", "access"},
         NEW q, Reaches(p, q), NEW fr, Grown(fr, Top, val.sub), NEW part, Grown(part, Top, val.sub),
         fr.fn \notin Special, NEW c \in Turns,
         \/ Solid(q) /\ Goto(Advance(q), Swap(fr), c)
         \/ Solid(q) /\ Return(Advance(q), Pop, Close(part, Advance(q)))
         \/ Fail(q)
  PROVE  SpanInv'
<1>0. Stream /\ Ordered /\ OK(q)
  BY Reading DEF Reaches
<1> DEFINE r == Advance(q)
<1>1. Solid(q) => Reaches(q, r) /\ Reaches(p, r)
  BY <1>0, Onward, ReachesOn
<1> HIDE DEF r
<1>2. CASE Solid(q) /\ Goto(r, Swap(fr), c)
  BY <1>1, <1>2, CallsAre, Absorbing
<1>3. CASE Solid(q) /\ Return(r, Pop, Close(part, r))
  BY <1>1, <1>3, Absorbing
<1> QED BY <1>2, <1>3, Stops DEF r

LEMMA BracketPatternSpans ==
  ASSUME IInv, SpanInv, AfterFirstInParen \/ AfterTuplePattern \/ AfterListPattern \/ RecordPattern \/ PatternField
  PROVE  SpanInv'
<1>0. Stream /\ Ordered /\ OK(p) /\ Reaches(p, p)
  BY Reading
<1>a. /\ "patTuple" \notin Special /\ "patList" \notin Special
      /\ "patRecord" \notin Marked /\ "pattern" \in Turns /\ "patternField" \in Closing /\ "done" \in Passing
      /\ "patternField" \notin Passing \cup Naming
  BY DEF Special, Parted, Marked, Turns, Calls, Closing, Passing, Naming
<1> DEFINE q == Skip(p)
           r == Advance(q)
<1>b. Reaches(p, q) /\ (Solid(q) => Passes(q, r)) /\ OK(q)
  <2>1. Reaches(p, q) /\ OK(q)
    BY <1>0, Onward
  <2> HIDE DEF q
  <2> QED BY <1>0, <2>1, Onward, ReachesOn
<1>1. CASE AfterFirstInParen
  <2> DEFINE part == AddPart(Top, val)
             fr == [part EXCEPT !.fn = "patTuple"]
  <2>1. (Peek(q) = "," => Solid(q)) /\ (Peek(q) = ")" => Solid(q))
    BY Solids, Zenon
  <2>2. Resumes("patParen") /\ \/ Solid(q) /\ Goto(r, Swap(fr), "pattern")
                               \/ Solid(q) /\ Return(r, Pop, Close(part, r))
                               \/ Fail(q)
    BY <1>1, <2>1, Zenon DEF AfterFirstInParen
  <2>3. Grown(part, Top, val.sub) /\ Grown(fr, Top, val.sub) /\ fr.fn = "patTuple"
    BY <2>2, PartGrown
  <2> HIDE DEF part, fr, q
  <2> QED BY <1>a, <1>b, <2>2, <2>3, ElementSpans
<1>2. CASE AfterTuplePattern
  <2> DEFINE fr == AddPart(Top, val)
  <2>1. (Peek(q) = "," => Solid(q)) /\ (Peek(q) = ")" => Solid(q))
    BY Solids, Zenon
  <2>2. Resumes("patTuple") /\ \/ Solid(q) /\ Goto(r, Swap(fr), "pattern")
                               \/ Solid(q) /\ Return(r, Pop, Close(fr, r))
                               \/ Fail(q)
    BY <1>2, <2>1, Zenon DEF AfterTuplePattern, AfterPatternElement
  <2>3. Grown(fr, Top, val.sub) /\ fr.fn = "patTuple"
    BY <2>2, PartGrown
  <2> HIDE DEF fr, q
  <2> QED BY <1>a, <1>b, <2>2, <2>3, ElementSpans
<1>3. CASE AfterListPattern
  <2> DEFINE fr == AddPart(Top, val)
  <2>1. (Peek(q) = "," => Solid(q)) /\ (Peek(q) = "]" => Solid(q))
    BY Solids, Zenon
  <2>2. Resumes("patList") /\ \/ Solid(q) /\ Goto(r, Swap(fr), "pattern")
                              \/ Solid(q) /\ Return(r, Pop, Close(fr, r))
                              \/ Fail(q)
    BY <1>3, <2>1, Zenon DEF AfterListPattern, AfterPatternElement
  <2>3. Grown(fr, Top, val.sub) /\ fr.fn = "patList"
    BY <2>2, PartGrown
  <2> HIDE DEF fr, q
  <2> QED BY <1>a, <1>b, <2>2, <2>3, ElementSpans
<1>4. CASE RecordPattern
  <2> DEFINE s == Skip(r)
             t == Advance(s)
             fr == New("patRecord", Here(q))
  <2>1. (Peek(q) = "{" => Solid(q)) /\ (Peek(s) = "}" => Solid(s))
    BY Solids, Zenon
  <2>2. /\ ctl \in Calls /\ Solid(q)
        /\ \/ Solid(s) /\ Return(t, calls, Leaf(Here(q), t))
           \/ Fail(s)
           \/ Goto(r, Append(calls, fr), "patternField")
    BY <1>4, <2>1, Zenon DEF RecordPattern, Calls
  <2>3. Opening(fr, Here(q)) /\ fr.fn = "patRecord"
    BY <1>a, NewOpens
  <2> HIDE DEF q, fr
  <2>4. Passes(q, r) /\ Reaches(q, r) /\ OK(r)
    BY <1>b, <2>2, ReachesOn DEF Reaches
  <2> HIDE DEF r
  <2>5. Passes(q, s) /\ OK(s)
    BY <1>0, <2>4, Onward, ReachesOn
  <2> HIDE DEF s
  <2>6. Solid(s) => Passes(q, t)
    BY <1>0, <2>5, Onward, ReachesOn
  <2> HIDE DEF t
  <2>7. CASE Solid(s) /\ Return(t, calls, Leaf(Here(q), t))
    BY <1>a, <1>b, <2>2, <2>6, <2>7, CallsAre, LeafRead DEF Return
  <2>8. CASE Goto(r, Append(calls, fr), "patternField")
    BY <1>a, <1>b, <2>2, <2>3, <2>4, <2>8, CallsAre, Begins
  <2> QED BY <2>2, <2>7, <2>8, Stops
<1>5. CASE PatternField
  <2> DEFINE s == Skip(r)
             t == Advance(s)
  <2>1. /\ Peek(q) = "lower" => Solid(q)
        /\ (Peek(s) = "," => Solid(s)) /\ (Peek(s) = "}" => Solid(s))
    BY Solids, Zenon
  <2>2. /\ ctl = "patternField"
        /\ \/ Fail(q)
           \/ Solid(q) /\ Solid(s) /\ Goto(t, calls, "patternField")
           \/ Solid(q) /\ Solid(s) /\ Return(t, Pop, Close(Top, t))
           \/ Fail(s)
    BY <1>5, <2>1, Zenon DEF PatternField
  <2>3. ctl \in DOMAIN Owners /\ Top.fn = "patRecord" /\ ctl \in Closing /\ ctl \notin Passing \cup Naming /\ ctl # "error"
    BY <1>a, <2>2, OwnersAre, Owned
  <2> HIDE DEF q
  <2>4. Solid(q) => Passes(p, r) /\ OK(r)
    BY <1>b, ReachesOn DEF Passes, Reaches
  <2> HIDE DEF r
  <2>5. Solid(q) => Passes(p, s) /\ OK(s)
    BY <1>0, <2>4, Onward, ReachesOn
  <2> HIDE DEF s
  <2>6. Solid(q) /\ Solid(s) => Reaches(p, t)
    BY <1>0, <2>5, Onward, ReachesOn
  <2> HIDE DEF t
  <2>7. CASE Solid(q) /\ Solid(s) /\ Goto(t, calls, "patternField")
    BY <1>a, <2>3, <2>6, <2>7, Proceeds
  <2>8. CASE Solid(q) /\ Solid(s) /\ Return(t, Pop, Close(Top, t))
    BY <2>3, <2>6, <2>8, Ends
  <2> QED BY <2>2, <2>7, <2>8, Stops
<1> QED BY <1>1, <1>2, <1>3, <1>4, <1>5

LEMMA PatternSpans == ASSUME IInv, SpanInv, PatternNext PROVE SpanInv'
BY OperatorPatternSpans, CtorPatternSpans, AtomicPatternSpans, BracketPatternSpans, Zenon DEF PatternNext
-----------------------------------------------------------------------------
(* Types.                                                                  *)

LEMMA ArrowTypeSpans ==
  ASSUME IInv, SpanInv, ParseType \/ AfterFirstArm \/ AfterArrow \/ ParseSignature \/ AfterSignatureType
  PROVE  SpanInv'
<1>0. Stream /\ Ordered /\ OK(p) /\ Reaches(p, p) /\ val \in Node
  BY Reading
<1>a. /\ "type" \notin Marked /\ "signature" \notin Marked /\ "arrow" \notin Special
      /\ "type" \in Turns /\ "typeApp" \in Turns
  BY DEF Marked, Parted, Special, Turns, Calls
<1>1. CASE ParseType
  <2> DEFINE fr == [New("type", Here(p)) EXCEPT !.snap = Snapshot(p), !.lim = FirstTokenOffset(p)]
  <2>1. ctl \in Calls /\ Goto(p, Append(calls, fr), "typeApp")
    BY <1>1 DEF ParseType, Calls
  <2>2. Opening(fr, Here(p)) /\ fr.fn = "type"
    BY <1>a DEF Opening, New
  <2> HIDE DEF fr
  <2> QED BY <1>0, <1>a, <2>1, <2>2, CallsAre, Begins
<1>2. CASE AfterFirstArm
  <2> DEFINE early == Before(p, Top.lim)
             left == Lead(val, Claimed(p, Top.snap, early))
             u == Unclaimed(p, Top.snap, early)
             q == Skip(u)
             gap == Between(q, left.to, Here(q))
             t == Unclaimed(q, 0, gap)
             r == Advance(t)
             part == AddPart(Top, left)
             fr == [part EXCEPT !.fn = "arrow", !.lead = Claimed(q, 0, gap)]
  <2>1. Resumes("type")
    BY <1>2 DEF AfterFirstArm
  <2>2. Peek(q) = "->" => Solid(q)
    BY Solids, Zenon
  <2>3. (Solid(q) /\ Goto(r, Swap(fr), "type")) \/ Return(q, Pop, left)
    BY <1>2, <2>2, Zenon DEF AfterFirstArm
  <2>4. Top.snap \in Nat
    BY <2>1, Resumed, FrameParts
  <2>5. Whole(part) /\ Grown(part, Top, left.sub)
    BY <2>1, PartGrown
  <2>6. SameSpan(left, val) /\ left.sub = val.sub
    BY <1>0, LeadSame DEF SameSpan
  <2> HIDE DEF left, part, early
  <2>7. Grown(fr, Top, val.sub) /\ fr.fn = "arrow"
    BY <2>5, <2>6 DEF Grown, Whole
  <2>8. Reaches(p, u)
    BY <1>0, <2>4, ClaimReaches
  <2> HIDE DEF fr, u, gap
  <2>9. Reaches(p, q) /\ OK(q)
    BY <1>0, <2>8, Onward, ReachesOn DEF Reaches
  <2> HIDE DEF q
  <2>10. Reaches(p, t) /\ OK(t) /\ t.pos = q.pos
    BY <1>0, <2>9, ClaimReaches, ReachesOn DEF Reaches
  <2> HIDE DEF t
  <2>11. Solid(q) => Reaches(p, r)
    BY <1>0, <2>10, Onward, ReachesOn DEF Solid
  <2> HIDE DEF r
  <2>12. Solid(q) => Reaches(r, r)
    BY <1>0, <2>11, Onward DEF Reaches
  <2>13. CASE Solid(q) /\ Goto(r, Swap(fr), "type")
    BY <1>a, <2>1, <2>7, <2>11, <2>12, <2>13, CallsAre, Absorbing
  <2>14. CASE Return(q, Pop, left)
    BY <2>1, <2>6, <2>9, <2>14, HandsOn
  <2> QED BY <2>3, <2>13, <2>14
<1>3. CASE AfterArrow
  <2> DEFINE right == Lead(val, Top.lead)
             part == AddPart(Top, right)
             n == Close(part, p)
  <2>1. Resumes("arrow") /\ Return(p, Pop, [n EXCEPT !.arrow = TRUE])
    BY <1>3 DEF AfterArrow
  <2>2. Grown(part, Top, right.sub)
    BY <2>1, PartGrown
  <2>3. right.sub = val.sub
    BY <1>0, LeadSame DEF SameSpan
  <2>4. SameSpan([n EXCEPT !.arrow = TRUE], n)
    BY DEF SameSpan, Close, SpanNode
  <2> HIDE DEF right
  <2>5. PICK f, lo, m \in Nat : Waiting(Pop, f, lo) /\ Seg(Top, lo, m) /\ Carries(p, val, m) /\ Top.fn = "arrow"
    BY <2>1, Resting
  <2>6. Carries(p, n, lo) /\ lo <= lo
    BY <1>0, <2>2, <2>3, <2>5, Takes
  <2> HIDE DEF n, part
  <2>7. Carries(p, [n EXCEPT !.arrow = TRUE], lo)
    BY <1>0, <2>4, <2>6, CarriesOn
  <2> QED BY <2>1, <2>5, <2>7, Yields
<1>4. CASE ParseSignature
  <2> DEFINE q == Skip(p)
             r == Skip(Advance(q))
             s == Advance(r)
             fr == New("signature", Here(p))
  <2>1. (Peek(q) = "lower" => Solid(q)) /\ (Peek(r) = ":" => Solid(r))
    BY Solids, Zenon
  <2>2. /\ ctl \in Calls
        /\ \/ Fail(q)
           \/ Fail(r)
           \/ Solid(q) /\ Solid(r) /\ Goto(s, Append(calls, fr), "type")
    BY <1>4, <2>1, Zenon DEF ParseSignature, Calls
  <2>3. Opening(fr, Here(p)) /\ fr.fn = "signature"
    BY <1>a, NewOpens
  <2>4. Reaches(p, q) /\ OK(q)
    BY <1>0, Onward
  <2> HIDE DEF fr, q
  <2>5. Solid(q) => Reaches(p, r) /\ OK(r)
    BY <1>0, <2>4, Onward, ReachesOn DEF Reaches
  <2> HIDE DEF r
  <2>6. Solid(q) /\ Solid(r) => Reaches(p, s)
    BY <1>0, <2>5, Onward, ReachesOn
  <2> HIDE DEF s
  <2>7. CASE Solid(q) /\ Solid(r) /\ Goto(s, Append(calls, fr), "type")
    BY <1>0, <1>a, <2>2, <2>3, <2>6, <2>7, CallsAre, Begins
  <2> QED BY <2>2, <2>7, Stops
<1>5. CASE AfterSignatureType
  <2> DEFINE q == DropTrailing(p, val)
             part == AddPart(Top, val)
             fr == Hold(part, Trailing(p, val))
  <2>1. Resumes("signature") /\ Return(q, Pop, Close(fr, q))
    BY <1>5 DEF AfterSignatureType
  <2>2. Whole(part) /\ Grown(part, Top, val.sub)
    BY <2>1, PartGrown
  <2> HIDE DEF part
  <2>3. Grown(fr, Top, val.sub)
    BY <2>2, Parts DEF Grown
  <2>4. Reaches(p, q)
    <3>1. 0 \in Nat
      OBVIOUS
    <3> QED BY <1>0, <3>1, ClaimReaches
  <2> HIDE DEF q, fr
  <2> QED BY <2>1, <2>3, <2>4, Absorbing
<1> QED BY <1>1, <1>2, <1>3, <1>4, <1>5
-----------------------------------------------------------------------------
(* Parts that start at a place of their own.                               *)

(* The next part starts here.                                              *)
LEMMA MarkShape ==
  ASSUME NEW t, NEW lo, NEW m, Shape(t, lo, m), NEW h \in Nat, m <= h,
         NEW fr, fr.from = t.from, fr.sub = t.sub, fr.chain = t.chain, fr.mark = h
  PROVE  Shape(fr, lo, h) /\ fr.from <= fr.mark /\ Splits(h, fr.sub)
<1>1. t.from \in Nat /\ m \in Nat /\ lo \in Nat /\ t.from <= m /\ lo <= t.from /\ Within(t.sub, t.from, m)
  BY DEF Shape, Within
<1>2. Splits(h, t.sub)
  BY <1>1, SplitsAfter
<1>3. t.from <= t.from
  BY <1>1
<1>4. Within(t.sub, t.from, h)
  BY <1>1, <1>3, WithinWider
<1>5. \A c \in Elements(fr.chain) : fr.from <= c /\ c <= h /\ Splits(c, fr.sub)
  <2>1. \A c \in Elements(t.chain) : t.from <= c /\ c <= m /\ Splits(c, t.sub)
    BY DEF Shape
  <2> QED BY <1>1, <2>1 DEF Splits
<1>6. h <= h
  OBVIOUS
<1> QED BY <1>1, <1>2, <1>4, <1>5, <1>6 DEF Shape

(* The part is complete: a node of its own, from the mark to the cursor,   *)
(* with maybe another one inside (the implementation of a declaration).    *)
LEMMA TakesPart ==
  ASSUME NEW t, NEW lo, NEW m, Seg(t, lo, m), t.fn \notin {"binary", "access"}, t.from <= t.mark,
         NEW q, NEW n, Carries(q, n, m), NEW r, Reaches(q, r),
         NEW I, \/ I = {}
                \/ \E l : I = {<<l, Done(r)>>} /\ t.mark <= l /\ l <= m /\ Splits(l, t.sub),
         NEW fr, fr.from = t.from, fr.mark = t.mark, fr.chain = <<>>,
         fr.sub = t.sub \cup n.sub \cup I \cup {<<t.mark, Done(r)>>}
  PROVE  /\ Shape(fr, lo, Done(r) + 1) /\ Done(r) + 1 \in Nat /\ Done(r) + 1 <= Here(r)
         /\ fr.from <= Done(r) /\ r.pos > 1
<1> DEFINE g == [from |-> t.from, mark |-> t.mark, chain |-> t.chain, sub |-> t.sub \cup n.sub]
           to == Done(r)
           S == t.sub \cup n.sub
<1>1. Grown(g, t, n.sub) /\ g.sub = S /\ g.from = t.from /\ g.mark = t.mark
  BY DEF Grown
<1> HIDE DEF g
<1>2. /\ Shape(g, lo, to + 1) /\ to + 1 \in Nat /\ to + 1 <= Here(r)
      /\ r.pos > 1 /\ g.from <= to /\ lo \in Nat
  BY <1>1, Takes
<1>3. /\ Within(S, t.from, to + 1) /\ Splits(t.mark, S) /\ to \in Nat /\ t.from \in Nat /\ lo <= t.from
      /\ t.mark \in Nat
  <2>1. to \in Nat
    BY DEF Reaches
  <2> HIDE DEF to, S
  <2> QED BY <1>1, <1>2, <2>1 DEF Shape, Splits
<1>4. /\ m \in Nat /\ n.from \in Nat /\ m <= n.from /\ m <= to /\ t.mark <= m
      /\ Within(n.sub, n.from, n.to + 1)
  BY DEF Seg, Shape, Splits, Carries, NodeFits, Reaches
<1>5. Within(S \cup I, t.from, to + 1) /\ Splits(t.mark, S \cup I)
  <2>1. CASE I = {}
    BY <1>3, <2>1
  <2>2. CASE I # {}
    <3>1. PICK l : I = {<<l, to>>} /\ t.mark <= l /\ l <= m /\ Splits(l, t.sub)
      BY <2>2
    <3>a. l \in Nat /\ l <= n.from
      BY <1>4, <3>1 DEF Splits
    <3>2. Splits(l, S) /\ l \in Nat
      BY <1>4, <3>1, <3>a, SplitsUnion
    <3>3. t.from <= l /\ l <= to /\ to + 1 <= to + 1
      BY <1>3, <1>4, <3>1, <3>2
    <3> HIDE DEF S, to
    <3>4. Within(S \cup {<<l, to>>}, t.from, to + 1)
      BY <1>3, <3>2, <3>3, WithinSpan
    <3>5. Splits(t.mark, S \cup {<<l, to>>})
      BY <1>3, <3>1 DEF Splits
    <3> QED BY <3>1, <3>4, <3>5
  <2> QED BY <2>1, <2>2
<1> DEFINE T == S \cup I
<1>6. fr.sub = T \cup {<<t.mark, to>>}
  OBVIOUS
<1> HIDE DEF S, T, to
<1>7. t.mark <= to /\ to + 1 <= to + 1
  BY <1>3, <1>4
<1>8. Within(fr.sub, fr.from, to + 1)
  <2>1. Within(T, t.from, to + 1) /\ Splits(t.mark, T)
    BY <1>5 DEF T
  <2> QED BY <1>3, <1>6, <1>7, <2>1, WithinSpan
<1>9. Splits(fr.mark, fr.sub)
  <2>1. Splits(t.mark, T)
    BY <1>5 DEF T
  <2> QED BY <1>3, <1>6, <2>1 DEF Splits
<1>10. Elements(fr.chain) = {}
  BY DEF Elements
<1>11. fr.from <= to + 1 /\ fr.mark <= to + 1 /\ fr.from <= to
  BY <1>1, <1>2, <1>3, <1>7
<1>12. Shape(fr, lo, to + 1)
  BY <1>2, <1>3, <1>8, <1>9, <1>10, <1>11 DEF Shape
<1> QED BY <1>2, <1>11, <1>12 DEF to

(* The node is completed there or further on.                              *)
LEMMA CloseCarries ==
  ASSUME NEW fr, NEW lo, NEW r, Shape(fr, lo, Done(r) + 1), fr.from <= Done(r), r.pos > 1, NEW s, Reaches(r, s)
  PROVE  Carries(s, Close(fr, s), lo)
<1>1. /\ fr.from \in Nat /\ lo \in Nat /\ lo <= fr.from /\ Done(r) \in Nat /\ Done(s) \in Nat
      /\ Done(r) <= Done(s) /\ s.pos > 1
  BY DEF Shape, Reaches
<1>2. fr.from <= Done(s) /\ Done(r) + 1 <= Done(s) + 1 /\ Done(s) <= Done(s)
  BY <1>1
<1>3. NodeFits(Close(fr, s)) /\ Close(fr, s).from = fr.from /\ Close(fr, s).to = Done(s)
  BY <1>1, <1>2, CloseFits
<1> QED BY <1>1, <1>2, <1>3 DEF Carries

(* The frame of a function whose parts start at a mark.                    *)
LEMMA PartedSeg ==
  ASSUME NEW fr, NEW lo, NEW hi, Shape(fr, lo, hi), fr.fn \in Parted, fr.chain = <<>>,
         fr.fn \in Marked => fr.from <= fr.mark,
         fr.fn \in {"letArgs", "letValue"} =>
           fr.lim = 0 \/ (fr.mark <= fr.lim /\ fr.lim <= hi /\ Splits(fr.lim, fr.sub))
  PROVE  Seg(fr, lo, hi)
<1>1. lo \in Nat /\ hi \in Nat /\ lo <= hi
  BY DEF Shape, Within
<1>2. fr.fn \notin {"binary", "access", "app"}
  BY DEF Parted, Marked
<1> QED BY <1>1, <1>2 DEF Seg

(* A field of a record is complete.                                        *)
LEMMA FieldSpans ==
  ASSUME IInv, SpanInv, NEW fn \in {"record", "typeFields"}, Resumes(fn), NEW c, Reaches(p, c),
         NEW fr, fr.fn = fn, fr.from = Top.from, fr.mark = Top.mark, fr.chain = Top.chain,
         fr.sub = Top.sub \cup val.sub \cup {<<Top.mark, Done(c)>>},
         NEW r, Reaches(c, r),
         (\E k \in Naming : Goto(r, Swap(fr), k)) \/ Return(r, Pop, Close(fr, r))
  PROVE  SpanInv'
<1>1. PICK f, lo, m \in Nat : Waiting(Pop, f, lo) /\ Seg(Top, lo, m) /\ Carries(p, val, m) /\ Live(Top) /\ Top.fn = fn
  BY Resting
<1>2. Top.from <= Top.mark /\ Top.chain = <<>> /\ fn \in Parted /\ fn \notin Marked /\ Top.fn \notin {"binary", "access"}
  BY <1>1 DEF Live, Seg, Parted, Marked
<1>3. fr.sub = Top.sub \cup val.sub \cup {} \cup {<<Top.mark, Done(c)>>}
  OBVIOUS
<1>4. /\ Shape(fr, lo, Done(c) + 1) /\ Done(c) + 1 \in Nat /\ Done(c) + 1 <= Here(c)
      /\ fr.from <= Done(c) /\ c.pos > 1
  BY <1>1, <1>2, <1>3, TakesPart
<1>5. Seg(fr, lo, Done(c) + 1)
  BY <1>2, <1>4, PartedSeg DEF Marked
<1>6. Done(c) + 1 <= Here(r)
  BY <1>4 DEF Reaches
<1>7. CASE \E k \in Naming : Goto(r, Swap(fr), k)
  BY <1>1, <1>5, <1>6, <1>7, NamesNext DEF Swap
<1>8. CASE Return(r, Pop, Close(fr, r))
  <2>1. Carries(r, Close(fr, r), lo)
    BY <1>4, CloseCarries
  <2> QED BY <1>1, <1>8, <2>1, Yields
<1> QED BY <1>7, <1>8

(* The name of a field is read, and its value called for.                  *)
LEMMA NameSpans ==
  ASSUME IInv, SpanInv, ctl \in Naming, NEW fr, Top.fn \notin {"binary", "access"},
         fr.fn = Top.fn, fr.fn \in {"record", "typeFields"}, fr.from = Top.from, fr.mark = Here(p), fr.chain = Top.chain,
         fr.sub = Top.sub, NEW r, Reaches(p, r)
  PROVE  /\ \A c \in Turns : Goto(r, Swap(fr), c) => SpanInv'
         /\ Need(r, Swap(fr)) => SpanInv'
<1>1. ctl \in DOMAIN Owners /\ ctl \notin Passing
  BY OwnersAre DEF Naming, Passing
<1>2. PICK f, lo, m \in Nat : Waiting(Pop, f, lo) /\ Seg(Top, lo, m) /\ m <= Here(p)
  BY <1>1, Owning
<1>3. fr.fn \in Parted /\ fr.fn \notin Marked /\ Shape(Top, lo, m) /\ fr.chain = <<>>
  BY <1>2 DEF Seg, Parted, Marked
<1>4. Here(p) \in Nat /\ Here(p) <= Here(r)
  BY DEF Reaches
<1> DEFINE h == Here(p)
<1> HIDE DEF h
<1>5. Shape(fr, lo, h) /\ fr.from <= fr.mark
  BY <1>2, <1>3, <1>4, MarkShape DEF h
<1>6. Seg(fr, lo, h) /\ Live(fr)
  BY <1>3, <1>5, PartedSeg DEF Live, Marked
<1>7. Waiting(Swap(fr), f, h) /\ h <= Here(r)
  BY <1>2, <1>4, <1>6, Grows DEF Swap, h
<1> QED BY <1>7, CallsAre, Continues, Needs

(* The node of a part.                                                     *)
LEMMA PartNode ==
  ASSUME NEW from, NEW q, NEW kept, NEW S, NEW cs
  PROVE  /\ SpanNode(from, q, kept, S).sub = S \cup {<<from, Done(q)>>}
         /\ Lead(SpanNode(from, q, kept, S), cs).sub = S \cup {<<from, Done(q)>>}
BY DEF SpanNode, Lead, Done

LEMMA NamedTypeSpans ==
  ASSUME IInv, SpanInv,
         \/ ParseTypeApp \/ QualifyType \/ TypeArguments \/ AfterTypeArgument
         \/ TypeVariable \/ AtomicTypeName \/ ParenType \/ NotAType
  PROVE  SpanInv'
<1>0. Stream /\ Ordered /\ OK(p) /\ Reaches(p, p)
  BY Reading
<1>a. /\ "typeApp" \notin Marked /\ "typeApp" \notin Special /\ "typeApp" \notin {"binary", "access"}
      /\ "typeParen" \notin Marked /\ "type" \in Turns /\ "done" \in Passing
      /\ "atomType" \in Turns /\ "typeName" \in Closing /\ "typeArgs" \in Closing /\ "atomTypeName" \in Closing
      /\ "typeName" \notin Passing \cup Naming /\ "typeArgs" \notin Passing \cup Naming
      /\ "atomTypeName" \notin Passing \cup Naming
  BY DEF Marked, Parted, Special, Turns, Calls, Closing, Passing, Naming
<1> DEFINE q == Skip(p)
           r == Advance(q)
<1>b. Reaches(p, q) /\ OK(q) /\ (Solid(q) => Passes(q, r) /\ Passes(p, r))
  <2>1. Reaches(p, q) /\ OK(q)
    BY <1>0, Onward
  <2> HIDE DEF q
  <2> QED BY <1>0, <2>1, Onward, ReachesOn
<1>1. CASE ParseTypeApp
  <2> DEFINE fr == New("typeApp", Here(p))
  <2>1. Peek(q) = "upper" => Solid(q)
    BY Solids, Zenon
  <2>2. ctl \in Calls /\ ((Solid(q) /\ Goto(r, Append(calls, fr), "typeName")) \/ Goto(q, calls, "atomType"))
    BY <1>1, <2>1, Zenon DEF ParseTypeApp, Calls
  <2>3. Opening(fr, Here(p)) /\ fr.fn = "typeApp"
    BY <1>a, NewOpens
  <2> HIDE DEF fr, q, r
  <2>4. CASE Solid(q) /\ Goto(r, Append(calls, fr), "typeName")
    <3>1. Passes(p, r) /\ Reaches(p, r)
      BY <1>b, <2>4, ReachesOn
    <3> QED BY <1>0, <1>a, <2>2, <2>3, <2>4, <3>1, CallsAre, Begins
  <2>5. CASE Goto(q, calls, "atomType")
    BY <1>a, <1>b, <2>2, <2>5, CallsAre, Proceeds
  <2> QED BY <2>2, <2>4, <2>5
<1>2. CASE QualifyType
  <2> DEFINE s == Advance(p)
             t == Advance(s)
             name == toks[p.pos - 1]
             fr == [Top EXCEPT !.col = name.col, !.line = name.line]
  <2>1. (Peek(p) = "." => Solid(p)) /\ (Peek(s) = "upper" => Solid(s))
    BY Solids, Zenon
  <2>2. /\ ctl \in {"typeName", "atomTypeName"}
        /\ \/ Solid(p) /\ Solid(s) /\ Goto(t, calls, ctl)
           \/ Goto(p, Swap(fr), "typeArgs")
           \/ Return(p, Pop, Close(Top, p))
    BY <1>2, <2>1, Zenon DEF QualifyType
  <2>3. /\ ctl \in DOMAIN Owners /\ Top.fn = "typeApp" /\ Top \in Frame
        /\ ctl \in Closing /\ ctl \notin Passing \cup Naming /\ ctl # "error"
    BY <1>a, <2>2, OwnersAre, Owned
  <2> HIDE DEF name
  <2>4. Grown(fr, Top, {}) /\ fr.fn = "typeApp"
    BY <2>3 DEF Grown, Frame
  <2>5. Solid(p) => Reaches(p, s)
    BY <1>0, Onward, ReachesOn
  <2> HIDE DEF s, fr
  <2>6. Solid(p) /\ Solid(s) => Reaches(p, t)
    BY <1>0, <2>5, Onward, ReachesOn DEF Reaches
  <2> HIDE DEF t
  <2>7. CASE Solid(p) /\ Solid(s) /\ Goto(t, calls, ctl)
    BY <2>3, <2>6, <2>7, Proceeds
  <2>8. CASE Goto(p, Swap(fr), "typeArgs")
    BY <1>0, <1>a, <2>3, <2>4, <2>8, Keeps
  <2>9. CASE Return(p, Pop, Close(Top, p))
    BY <1>0, <1>a, <2>3, <2>9, Ends
  <2> QED BY <2>2, <2>7, <2>8, <2>9
<1>3. CASE TypeArguments
  <2>1. ctl = "typeArgs" /\ (Goto(q, calls, "atomType") \/ Return(q, Pop, Close(Top, q)))
    BY <1>3, Zenon DEF TypeArguments
  <2>2. ctl \in DOMAIN Owners /\ Top.fn = "typeApp" /\ ctl \in Closing /\ ctl \notin Passing \cup Naming /\ ctl # "error"
    BY <1>a, <2>1, OwnersAre, Owned
  <2> HIDE DEF q
  <2>3. CASE Goto(q, calls, "atomType")
    BY <1>a, <1>b, <2>2, <2>3, CallsAre, Proceeds
  <2>4. CASE Return(q, Pop, Close(Top, q))
    BY <1>a, <1>b, <2>2, <2>4, Ends
  <2> QED BY <2>1, <2>3, <2>4
<1>4. CASE AfterTypeArgument
  <2> DEFINE fr == AddPart(Top, val)
  <2>1. Resumes("typeApp") /\ Goto(p, Swap(fr), "typeArgs")
    BY <1>4 DEF AfterTypeArgument
  <2>2. Grown(fr, Top, val.sub) /\ fr.fn = "typeApp"
    BY <2>1, PartGrown
  <2> HIDE DEF fr
  <2> QED BY <1>0, <1>a, <2>1, <2>2, Absorbing
<1>5. CASE TypeVariable
  <2>1. Peek(q) = "lower" => Solid(q)
    BY Solids, Zenon
  <2>2. ctl \in Calls /\ Solid(q) /\ Return(r, calls, Leaf(Here(q), r))
    BY <1>5, <2>1, Zenon DEF TypeVariable, Calls
  <2> HIDE DEF q, r
  <2> QED BY <1>a, <1>b, <2>2, CallsAre, LeafRead DEF Return
<1>6. CASE AtomicTypeName
  <2> DEFINE fr == New("typeApp", Here(q))
  <2>1. Peek(q) = "upper" => Solid(q)
    BY Solids, Zenon
  <2>2. ctl \in Calls /\ Solid(q) /\ Goto(r, Append(calls, fr), "atomTypeName")
    BY <1>6, <2>1, Zenon DEF AtomicTypeName, Calls
  <2>3. Opening(fr, Here(q)) /\ fr.fn = "typeApp"
    BY <1>a, NewOpens
  <2> HIDE DEF fr, q, r
  <2>4. Passes(q, r) /\ Reaches(q, r)
    BY <1>b, <2>2, ReachesOn
  <2> QED BY <1>a, <1>b, <2>2, <2>3, <2>4, CallsAre, Begins
<1>7. CASE ParenType
  <2> DEFINE s == Skip(r)
             t == Advance(s)
  <2>1. (Peek(q) = "(" => Solid(q)) /\ (Peek(s) = ")" => Solid(s))
    BY Solids, Zenon
  <2>2. /\ ctl \in Calls /\ Solid(q)
        /\ (Solid(s) /\ Return(t, calls, Leaf(Here(q), t))) \/ Goto(s, Append(calls, New("typeParen", Here(q))), "type")
    BY <1>7, <2>1, Zenon DEF ParenType, Calls
  <2>3. s = Skip(Advance(q)) /\ "typeParen" \notin {"record", "typeFields"}
    OBVIOUS
  <2> HIDE DEF q, r, s
  <2> QED BY <1>a, <1>b, <2>2, <2>3, BracketSpans
<1>8. CASE NotAType
  BY <1>8, Stops DEF NotAType
<1> QED BY <1>1, <1>2, <1>3, <1>4, <1>5, <1>6, <1>7, <1>8

LEMMA BracketTypeSpans ==
  ASSUME IInv, SpanInv, AfterFirstInType \/ AfterTupleType \/ RecordType \/ TypeField \/ AfterTypeField
  PROVE  SpanInv'
<1>0. Stream /\ Ordered /\ OK(p) /\ Reaches(p, p) /\ val \in Node
  BY Reading
<1>a. /\ "typeTuple" \notin Special /\ "typeFields" \notin Marked /\ "type" \in Turns /\ "done" \in Passing
      /\ "typeField" \in Naming
  BY DEF Special, Parted, Marked, Turns, Calls, Passing, Naming
<1> DEFINE q == Skip(p)
           r == Advance(q)
<1>b. Reaches(p, q) /\ OK(q) /\ (Solid(q) => Passes(q, r) /\ Passes(p, r) /\ OK(r))
  <2>1. Reaches(p, q) /\ OK(q)
    BY <1>0, Onward
  <2> HIDE DEF q
  <2> QED BY <1>0, <2>1, Onward, ReachesOn
<1>1. CASE AfterFirstInType
  <2> DEFINE part == AddPart(Top, val)
             fr == [part EXCEPT !.fn = "typeTuple"]
             node == SpanNode(Top.from, r, val.kept, val.sub)
             n == IF val.arrow THEN [node EXCEPT !.arrow = TRUE] ELSE val
  <2>1. (Peek(q) = "," => Solid(q)) /\ (Peek(q) = ")" => Solid(q))
    BY Solids, Zenon
  <2>2. /\ Resumes("typeParen")
        /\ (Solid(q) /\ Goto(r, Swap(fr), "type")) \/ (Solid(q) /\ Return(r, Pop, n)) \/ Fail(q)
    BY <1>1, <2>1, Zenon DEF AfterFirstInType
  <2>3. Grown(fr, Top, val.sub) /\ fr.fn = "typeTuple"
    BY <2>2, PartGrown
  <2> HIDE DEF part, fr, q
  <2>4. Solid(q) => Reaches(p, r) /\ Reaches(r, r)
    BY <1>0, <1>b, ReachesOn, Onward DEF Reaches
  <2> HIDE DEF r
  <2>5. CASE Solid(q) /\ Goto(r, Swap(fr), "type")
    BY <1>a, <2>2, <2>3, <2>4, <2>5, CallsAre, Absorbing
  <2>6. CASE Solid(q) /\ Return(r, Pop, n)
    <3>1. CASE val.arrow
      <4>1. PICK f, lo, m \in Nat : Waiting(Pop, f, lo) /\ Seg(Top, lo, m) /\ Carries(p, val, m) /\ Top.fn = "typeParen"
        BY <2>2, Resting
      <4>2. /\ Shape(Top, lo, m) /\ NodeFits(val) /\ m <= val.from /\ val.to <= Done(p) /\ p.pos > 1
            /\ Done(p) \in Nat /\ Done(r) \in Nat /\ Done(p) <= Done(r) /\ r.pos > 1
        BY <2>4, <2>6, <4>1 DEF Seg, Carries, Reaches
      <4>3. /\ Top.from \in Nat /\ Top.from <= m /\ m \in Nat /\ lo <= Top.from /\ lo \in Nat
            /\ val.from \in Nat /\ val.to \in Nat /\ val.from <= val.to
        BY <4>2 DEF Shape, Within, NodeFits
      <4>4. Top.from <= val.from /\ val.to + 1 <= Done(r) + 1 /\ Top.from <= Done(r) /\ Done(r) + 1 \in Nat
        BY <4>2, <4>3
      <4>5. Within(val.sub, Top.from, Done(r) + 1)
        BY <4>2, <4>3, <4>4, WithinWider DEF NodeFits
      <4>6. Done(r) + 1 <= Done(r) + 1 /\ Done(r) <= Done(r)
        BY <4>2
      <4>7. NodeFits(node) /\ node.from = Top.from /\ node.to = Done(r)
        BY <4>2, <4>4, <4>5, <4>6, SpanNodeFits
      <4>8. Carries(r, node, lo)
        BY <4>2, <4>3, <4>6, <4>7 DEF Carries
      <4>9. SameSpan([node EXCEPT !.arrow = TRUE], node)
        BY DEF SameSpan, SpanNode
      <4>10. n = [node EXCEPT !.arrow = TRUE]
        BY <3>1
      <4> HIDE DEF node, n
      <4>11. lo <= lo /\ Reaches(r, r)
        BY <2>4, <2>6, <4>3
      <4>12. Carries(r, n, lo)
        BY <4>3, <4>8, <4>9, <4>10, <4>11, CarriesOn
      <4> QED BY <2>6, <4>1, <4>12, Yields
    <3>2. CASE ~val.arrow
      <4>1. n = val /\ SameSpan(val, val)
        BY <3>2 DEF SameSpan
      <4> HIDE DEF n
      <4> QED BY <2>2, <2>4, <2>6, <4>1, HandsOn
    <3> QED BY <3>1, <3>2
  <2> QED BY <2>2, <2>5, <2>6, Stops
<1>2. CASE AfterTupleType
  <2> DEFINE fr == AddPart(Top, val)
  <2>1. (Peek(q) = "," => Solid(q)) /\ (Peek(q) = ")" => Solid(q))
    BY Solids, Zenon
  <2>2. Resumes("typeTuple") /\ \/ Solid(q) /\ Goto(r, Swap(fr), "type")
                                \/ Solid(q) /\ Return(r, Pop, Close(fr, r))
                                \/ Fail(q)
    BY <1>2, <2>1, Zenon DEF AfterTupleType
  <2>3. Grown(fr, Top, val.sub) /\ fr.fn = "typeTuple"
    BY <2>2, PartGrown
  <2> HIDE DEF fr, q
  <2> QED BY <1>a, <1>b, <2>2, <2>3, ElementSpans
<1>3. CASE RecordType
  <2> DEFINE name == Skip(r)
             s == Advance(name)
             t == Skip(s)
             u == Advance(t)
             back == [t EXCEPT !.pos = name.pos, !.raw = FALSE]
             Fields(c) == [New("typeFields", Here(q)) EXCEPT !.snap = Snapshot(c)]
             one == Fields(u)
             two == Fields(back)
             all == Fields(name)
  <2>1. /\ Peek(q) = "{" => Solid(q)
        /\ Peek(name) = "}" => Solid(name)
        /\ Peek(name) = "lower" => Solid(name)
        /\ Peek(t) = "|" => Solid(t)
    BY Solids, Zenon
  <2>2. /\ ctl \in Calls /\ Solid(q)
        /\ \/ Solid(name) /\ Return(s, calls, Leaf(Here(q), s))
           \/ Solid(name) /\ Solid(t) /\ Goto(u, Append(calls, one), "typeField")
           \/ Solid(name) /\ Goto(back, Append(calls, two), "typeField")
           \/ Goto(name, Append(calls, all), "typeField")
    BY <1>3, <2>1, Zenon DEF RecordType, Calls
  <2>3. Opening(one, Here(q)) /\ Opening(two, Here(q)) /\ Opening(all, Here(q))
    BY <1>a DEF Opening, New
  <2>4. back = Back(name)
    BY DEF Back
  <2> HIDE DEF one, two, all, Fields, q, back
  <2>5. Passes(q, r) /\ Reaches(q, r) /\ OK(r)
    BY <1>b, <2>2, ReachesOn
  <2> HIDE DEF r
  <2>6. Passes(q, name) /\ Reaches(q, name) /\ OK(name)
    BY <1>0, <2>5, Onward, ReachesOn
  <2> HIDE DEF name
  <2>7. Solid(name) => Reaches(q, back)
    BY <1>0, <2>4, <2>6, BackReaches, ReachesOn
  <2>8. Solid(name) => Passes(q, s) /\ OK(s)
    BY <1>0, <2>6, Onward, ReachesOn
  <2> HIDE DEF s
  <2>9. Solid(name) => Passes(q, t) /\ OK(t)
    BY <1>0, <2>8, Onward, ReachesOn
  <2> HIDE DEF t
  <2>10. Solid(name) /\ Solid(t) => Reaches(q, u)
    BY <1>0, <2>9, Onward, ReachesOn
  <2> HIDE DEF u
  <2>11. CASE Solid(name) /\ Return(s, calls, Leaf(Here(q), s))
    BY <1>a, <1>b, <2>2, <2>8, <2>11, CallsAre, LeafRead DEF Return
  <2>12. CASE Solid(name) /\ Solid(t) /\ Goto(u, Append(calls, one), "typeField")
    BY <1>a, <1>b, <2>2, <2>3, <2>10, <2>12, CallsAre, Begins
  <2>13. CASE Solid(name) /\ Goto(back, Append(calls, two), "typeField")
    BY <1>a, <1>b, <2>2, <2>3, <2>7, <2>13, CallsAre, Begins
  <2>14. CASE Goto(name, Append(calls, all), "typeField")
    BY <1>a, <1>b, <2>2, <2>3, <2>6, <2>14, CallsAre, Begins
  <2> QED BY <2>2, <2>11, <2>12, <2>13, <2>14
<1>4. CASE TypeField
  <2> DEFINE s == Skip(r)
             t == Advance(s)
             fr == [Top EXCEPT !.mark = Here(p)]
  <2>1. (Peek(q) = "lower" => Solid(q)) /\ (Peek(s) = ":" => Solid(s))
    BY Solids, Zenon
  <2>2. /\ ctl = "typeField"
        /\ Fail(q) \/ Fail(s) \/ (Solid(q) /\ Solid(s) /\ Goto(t, Swap(fr), "type"))
    BY <1>4, <2>1, Zenon DEF TypeField
  <2>3. Top \in Frame /\ Top.fn = "typeFields" /\ ctl \in Naming
    BY <1>a, <2>2, OwnersAre, Owned
  <2>4. fr.fn = "typeFields" /\ fr.from = Top.from /\ fr.mark = Here(p) /\ fr.chain = Top.chain /\ fr.sub = Top.sub
    BY <2>3 DEF Frame
  <2> HIDE DEF fr, q
  <2>5. Solid(q) => Passes(p, r) /\ OK(r)
    BY <1>b
  <2> HIDE DEF r
  <2>6. Solid(q) => Passes(p, s) /\ OK(s)
    BY <1>0, <2>5, Onward, ReachesOn
  <2> HIDE DEF s
  <2>7. Solid(q) /\ Solid(s) => Reaches(p, t)
    BY <1>0, <2>6, Onward, ReachesOn
  <2> HIDE DEF t
  <2>8. CASE Solid(q) /\ Solid(s) /\ Goto(t, Swap(fr), "type")
    BY <1>a, <2>3, <2>4, <2>7, <2>8, NameSpans
  <2> QED BY <2>2, <2>8, Stops
<1>5. CASE AfterTypeField
  <2> DEFINE field == SpanNode(Top.mark, p, Carried(val), val.sub)
             gap == IF Top.n = 0 THEN {} ELSE Between(p, Top.last.to, field.from)
             part == Lead(field, Claimed(p, Top.snap, gap))
             fr == AddPart(Top, part)
             u == Unclaimed(p, Top.snap, gap)
             s == Skip(u)
             t == Advance(s)
             next == Skip(t)
  <2>1. Resumes("typeFields")
    BY <1>5 DEF AfterTypeField
  <2>2. (Peek(s) = "," => Solid(s)) /\ (Peek(s) = "}" => Solid(s))
    BY Solids, Zenon
  <2>3. \/ Solid(s) /\ Goto(next, Swap(fr), "typeField")
        \/ Solid(s) /\ Return(t, Pop, Close(fr, t))
        \/ Fail(s)
    BY <1>5, <2>2, Zenon DEF AfterTypeField
  <2>4. part.sub = val.sub \cup {<<Top.mark, Done(p)>>}
    BY PartNode
  <2> HIDE DEF part, gap
  <2>5. Top \in Frame /\ fr.fn = "typeFields" /\ Grown(fr, Top, part.sub)
    BY <2>1, PartGrown
  <2>6. /\ fr.from = Top.from /\ fr.mark = Top.mark /\ fr.chain = Top.chain
        /\ fr.sub = Top.sub \cup val.sub \cup {<<Top.mark, Done(p)>>}
    BY <2>4, <2>5 DEF Grown
  <2> HIDE DEF fr
  <2>7. Reaches(p, u)
    BY <1>0, <2>5, ClaimReaches DEF Frame
  <2> HIDE DEF u
  <2>8. Reaches(p, s) /\ OK(s)
    BY <1>0, <2>7, Onward, ReachesOn DEF Reaches
  <2> HIDE DEF s
  <2>9. Solid(s) => Reaches(p, t) /\ OK(t)
    BY <1>0, <2>8, Onward, ReachesOn
  <2> HIDE DEF t
  <2>10. Solid(s) => Reaches(p, next)
    BY <1>0, <2>9, Onward, ReachesOn
  <2> HIDE DEF next
  <2>11. CASE Solid(s) /\ Goto(next, Swap(fr), "typeField")
    BY <1>0, <1>a, <2>1, <2>5, <2>6, <2>10, <2>11, FieldSpans
  <2>12. CASE Solid(s) /\ Return(t, Pop, Close(fr, t))
    BY <1>0, <1>a, <2>1, <2>5, <2>6, <2>9, <2>12, FieldSpans
  <2> QED BY <2>3, <2>11, <2>12, Stops
<1> QED BY <1>1, <1>2, <1>3, <1>4, <1>5

LEMMA TypeSpans == ASSUME IInv, SpanInv, TypeNext PROVE SpanInv'
BY ArrowTypeSpans, NamedTypeSpans, BracketTypeSpans, Zenon DEF TypeNext
-----------------------------------------------------------------------------
(* Operators.                                                              *)

(* Advancing never goes back, not even at the end of the input.            *)
LEMMA AdvanceReaches ==
  ASSUME Stream, Ordered, NEW q, OK(q)
  PROVE  Reaches(q, Advance(q)) /\ OK(Advance(q))
<1> DEFINE r == Advance(q)
<1>1. OK(r)
  BY AdvanceOK
<1>2. q.pos \in Nat \ {0} /\ q.pos \in 1..Len(toks) /\ Len(toks) \in Nat
  BY DEF OK, Cursor, Stream
<1>3. IF q.pos < Len(toks) THEN r.pos = q.pos + 1 ELSE r.pos = q.pos /\ r.raw = q.raw
  BY DEF Advance, OK, Cursor
<1> HIDE DEF r
<1>4. CASE q.pos < Len(toks)
  <2>1. r.pos > 1 /\ r.pos - 1 = q.pos
    BY <1>2, <1>3, <1>4
  <2>2. Done(r) = toks[q.pos].ix
    BY <2>1 DEF Done
  <2>3. /\ Here(q) \in Nat /\ Done(q) \in Nat /\ (q.pos > 1 => Done(q) < Here(q)) /\ Here(q) <= toks[q.pos].ix
        /\ toks[q.pos].ix \in Nat
    BY Places
  <2>4. Here(r) \in Nat /\ Done(r) \in Nat /\ (r.pos > 1 => Done(r) < Here(r))
    BY <1>1, Places
  <2>5. Done(q) <= Done(r)
    <3>1. CASE q.pos > 1
      BY <2>2, <2>3, <3>1
    <3>2. CASE q.pos = 1
      BY <2>2, <2>3, <3>2 DEF Done
    <3> QED BY <1>2, <3>1, <3>2
  <2> QED BY <1>1, <2>1, <2>2, <2>3, <2>4, <2>5 DEF Reaches, r
<1>5. CASE ~(q.pos < Len(toks))
  BY <1>1, <1>3, <1>5, SamePlace DEF AtSamePlace, r
<1> QED BY <1>4, <1>5

(* A frame that has other comments to hand out.                            *)
LEMMA Relead ==
  ASSUME NEW fr \in Frame, NEW x, NEW lo, NEW hi, Seg(fr, lo, hi), Live(fr)
  PROVE  Seg([fr EXCEPT !.lead = x], lo, hi) /\ Live([fr EXCEPT !.lead = x])
<1> DEFINE g == [fr EXCEPT !.lead = x]
<1>1. /\ g.fn = fr.fn /\ g.from = fr.from /\ g.mark = fr.mark /\ g.lim = fr.lim /\ g.n = fr.n
      /\ g.last = fr.last /\ g.sub = fr.sub /\ g.chain = fr.chain /\ g.ops = fr.ops
  BY DEF Frame
<1> HIDE DEF g
<1>2. Shape(fr, lo, hi) => Shape(g, lo, hi)
  BY <1>1 DEF Shape
<1>3. Live(g)
  BY <1>1 DEF Live
<1>4. lo \in Nat /\ hi \in Nat /\ lo <= hi /\ (g.fn \notin {"binary", "access"} => Shape(g, lo, hi))
  BY <1>1, <1>2, Zenon DEF Seg
<1>5. (g.fn \in Marked => g.from <= g.mark) /\ (g.fn \in Parted => g.chain = <<>>)
  BY <1>1, Zenon DEF Seg
<1>6. g.fn \in {"letArgs", "letValue"} => g.lim = 0 \/ (g.mark <= g.lim /\ g.lim <= hi /\ Splits(g.lim, g.sub))
  BY <1>1, Zenon DEF Seg
<1>7. /\ g.fn = "app" /\ g.n >= 1 => NodeFits(g.last) /\ g.from <= g.last.from /\ g.last.to < hi
      /\ g.fn = "binary" => OperandsFit(g.ops, lo, hi)
  BY <1>1, Zenon DEF Seg
<1> QED BY <1>3, <1>4, <1>5, <1>6, <1>7, Zenon DEF Seg, g

(* The stack with nothing but comments changed.                            *)
LEMMA ReleadStack ==
  ASSUME NEW f, NEW lo, NEW m, Waiting(Pop, f, lo), Top \in Frame, Seg(Top, lo, m), Live(Top), NEW x
  PROVE  Waiting(Swap([Top EXCEPT !.lead = x]), f, m)
<1> DEFINE g == [Top EXCEPT !.lead = x]
<1>1. Seg(g, lo, m) /\ Live(g)
  BY Relead
<1> HIDE DEF g
<1> QED BY <1>1, Grows DEF Swap, g

(* The last operator is folded.                                            *)
LEMMA ReduceSpans ==
  ASSUME IInv, SpanInv, ctl \in {"reduce", "fold"}, Top.ops # <<>>, NEW c \in Passing, ReduceLast(c)
  PROVE  SpanInv'
<1>1. ctl \in DOMAIN Owners /\ ctl \in Passing /\ ctl \notin Naming /\ Owners[ctl] = "binary"
  BY OwnersAre DEF Passing, Naming
<1>2. PICK f, lo, m \in Nat : Waiting(Pop, f, lo) /\ Seg(Top, lo, m) /\ Live(Top) /\ Carries(p, val, m)
  BY <1>1, Owning
<1>3. Top \in Frame /\ Top.fn = "binary"
  BY <1>1, Owning
<1> DEFINE ops == Top.ops
           n == Len(ops)
           left == ops[n].left
           rest == SubSeq(ops, 1, n - 1)
           fr == [Top EXCEPT !.ops = rest]
           comb == Combine(ops[n], val)
<1>4. ops \in Seq(PendingOp) /\ OperandsFit(ops, lo, m) /\ ops # <<>> /\ lo <= m
  BY <1>2, <1>3 DEF Frame, Seg
<1>5. GotoWith(p, Swap(fr), c, comb)
  BY DEF ReduceLast
<1>6. fr.fn = "binary" /\ fr.ops = rest
  BY <1>3 DEF Frame
<1>7. n \in Nat \ {0} /\ Len(rest) = n - 1 /\ \A k \in 1..(n - 1) : rest[k] = ops[k]
  <2> HIDE DEF ops
  <2>1. n \in Nat \ {0}
    BY <1>4, EmptySeq
  <2> DEFINE k == n - 1
  <2>2. k \in Nat /\ \A i \in 1..k : ops[i] \in PendingOp
    BY <1>4, <2>1
  <2>3. Len(SubSeq(ops, 1, k)) = k /\ \A i \in 1..k : SubSeq(ops, 1, k)[i] = ops[i]
    <3>1. /\ Len(SubSeq(ops, 1, k)) = IF 1 <= k THEN k - 1 + 1 ELSE 0
          /\ \A i \in 1..(k - 1 + 1) : SubSeq(ops, 1, k)[i] = ops[1 + i - 1]
      <4> HIDE DEF k
      <4> QED BY <2>2, SubSeqProperties
    <3> HIDE DEF k
    <3> QED BY <2>2, <3>1
  <2> QED BY <2>1, <2>3
<1>8. comb.from = left.from /\ comb.to = val.to /\ comb.sub = left.sub \cup val.sub \cup {<<left.from, val.to>>}
  BY DEF Combine
<1> HIDE DEF ops, n, rest, fr, comb
<1>9. /\ NodeFits(left) /\ lo <= left.from /\ left.to < m
      /\ \A k \in 1..(n - 1) : /\ NodeFits(ops[k].left) /\ lo <= ops[k].left.from
                               /\ ops[k].left.to < left.from
  BY <1>4, <1>7 DEF OperandsFit, n
<1>10. /\ NodeFits(val) /\ m <= val.from /\ val.to <= Done(p) /\ p.pos > 1
       /\ left.from \in Nat /\ left.to \in Nat /\ left.from <= left.to
       /\ val.from \in Nat /\ val.to \in Nat /\ val.from <= val.to
       /\ Within(left.sub, left.from, left.to + 1) /\ Within(val.sub, val.from, val.to + 1)
  BY <1>2, <1>9 DEF Carries, NodeFits
<1> HIDE DEF left
<1>11. OperandsFit(rest, lo, left.from)
  BY <1>4, <1>7, <1>9 DEF OperandsFit, n
<1>12. Seg(fr, lo, left.from) /\ Live(fr)
  <2>1. fr.fn \notin Marked /\ fr.fn \notin Parted
    BY <1>6 DEF Marked, Parted
  <2> QED BY <1>6, <1>9, <1>10, <1>11, <2>1 DEF Seg, Live
<1>13. NodeFits(comb)
  <2>1. left.to + 1 <= val.from /\ left.from <= val.from /\ left.to + 1 <= val.to + 1 /\ left.from <= val.to
    BY <1>9, <1>10
  <2>2. Within(left.sub \cup val.sub, left.from, val.to + 1)
    BY <1>10, <2>1, WithinUnion
  <2>3. Splits(left.from, left.sub \cup val.sub)
    BY <1>10, <2>2 DEF Splits, Within
  <2>4. left.from <= left.from /\ val.to + 1 <= val.to + 1
    BY <1>10
  <2>5. Within(left.sub \cup val.sub \cup {<<left.from, val.to>>}, left.from, val.to + 1)
    BY <1>10, <2>1, <2>2, <2>3, <2>4, WithinSpan
  <2> QED BY <1>8, <1>10, <2>1, <2>5 DEF NodeFits
<1>14. Carries(p, comb, left.from)
  BY <1>8, <1>10, <1>13 DEF Carries
<1>15. Waiting(Swap(fr), f, left.from)
  BY <1>2, <1>12, Grows DEF Swap
<1> QED BY <1>5, <1>14, <1>15, Hands

LEMMA OperatorSpans == ASSUME IInv, SpanInv, OperatorNext PROVE SpanInv'
<1>0. Stream /\ Ordered /\ OK(p) /\ Reaches(p, p) /\ val \in Node
  BY Reading
<1>a. "unary" \notin Passing \cup Closing /\ "binary" \in Passing /\ "reduce" \in Passing /\ "fold" \in Passing
      /\ "done" \in Passing
  BY DEF Passing, Closing
<1>1. CASE ParseBinary
  <2> DEFINE fr == New("binary", 0)
  <2>1. ctl \in Calls /\ Goto(p, Append(calls, fr), "unary")
    BY <1>1 DEF ParseBinary, Calls
  <2>2. PICK f, m \in Nat : Waiting(calls, f, m) /\ m <= Here(p)
    BY <2>1, CallsAre, Calling
  <2>3. fr.fn = "binary" /\ fr.ops = <<>>
    BY DEF New
  <2> HIDE DEF fr
  <2>4. Seg(fr, m, m) /\ Live(fr)
    <3>1. OperandsFit(<<>>, m, m)
      BY DEF OperandsFit
    <3>2. m <= m /\ fr.fn \notin Marked /\ fr.fn \notin Parted
      BY <2>3 DEF Marked, Parted
    <3> QED BY <2>3, <3>1, <3>2 DEF Seg, Live
  <2> QED BY <1>a, <2>1, <2>2, <2>4, Grows, Continues
<1>2. CASE AfterOperand
  <2> DEFINE cs == Swap([Top EXCEPT !.lead = <<>>])
             n == Lead(val, Top.lead)
  <2>1. Resumes("binary") /\ GotoWith(p, cs, "binary", n)
    BY <1>2 DEF AfterOperand
  <2>2. Top \in Frame
    BY <2>1, Resumed
  <2>3. PICK f, lo, m \in Nat : Waiting(Pop, f, lo) /\ Seg(Top, lo, m) /\ Live(Top) /\ Carries(p, val, m)
    BY <2>1, Resting
  <2>4. Waiting(cs, f, m)
    BY <2>2, <2>3, ReleadStack
  <2>5. SameSpan(n, val) /\ m <= m
    BY <1>0, LeadSame
  <2> HIDE DEF cs, n
  <2>6. Carries(p, n, m)
    BY <1>0, <2>3, <2>5, CarriesOn
  <2> QED BY <1>a, <2>1, <2>4, <2>6, Hands
<1>3. CASE BinaryLoop
  <2> DEFINE q == Skip(p)
             own == {c \in Between(q, val.to, Here(q)) : ~c.block /\ c.line > val.end}
             r == Unclaimed(q, 0, own)
             cs == Swap([Top EXCEPT !.lead = Claimed(q, 0, own)])
  <2>1. ctl = "binary" /\ (Goto(r, cs, "reduce") \/ Goto(q, calls, "fold"))
    BY <1>3, Zenon DEF BinaryLoop
  <2>2. ctl \in DOMAIN Owners /\ ctl \in Passing /\ ctl \notin Naming
    BY <2>1, OwnersAre DEF Passing, Naming
  <2>3. PICK f, lo, m \in Nat : /\ Waiting(Pop, f, lo) /\ Seg(Top, lo, m) /\ Live(Top) /\ Carries(p, val, m)
                                /\ Waiting(calls, f, m) /\ Top \in Frame
    BY <2>2, Owning
  <2>4. Waiting(cs, f, m)
    BY <2>3, ReleadStack
  <2>5. Reaches(p, q) /\ OK(q)
    BY <1>0, Onward
  <2> HIDE DEF q, own
  <2>6. Reaches(p, r)
    BY <1>0, <2>5, ClaimReaches, ReachesOn
  <2>7. SameSpan(val, val) /\ m <= m
    BY DEF SameSpan
  <2> HIDE DEF r, cs
  <2>8. Carries(q, val, m) /\ Carries(r, val, m)
    BY <2>3, <2>5, <2>6, <2>7, CarriesOn
  <2>9. CASE Goto(r, cs, "reduce")
    BY <1>a, <2>4, <2>8, <2>9, Hands
  <2>10. CASE Goto(q, calls, "fold")
    BY <1>a, <2>3, <2>8, <2>10, Hands
  <2> QED BY <2>1, <2>9, <2>10
<1>4. CASE Reduce
  <2> DEFINE new == [left |-> val, rbp |-> RightPower(toks[p.pos].op)]
             fr == [Top EXCEPT !.ops = Append(@, new)]
             r == Advance(p)
  <2>1. ctl = "reduce" /\ ((Top.ops # <<>> /\ ReduceLast("reduce")) \/ Goto(r, Swap(fr), "unary"))
    BY <1>4, Zenon DEF Reduce
  <2>2. ctl \in DOMAIN Owners /\ ctl \in Passing /\ ctl \notin Naming /\ Owners[ctl] = "binary"
    BY <2>1, OwnersAre DEF Passing, Naming
  <2>3. PICK f, lo, m \in Nat : Waiting(Pop, f, lo) /\ Seg(Top, lo, m) /\ Carries(p, val, m)
    BY <2>2, Owning
  <2>4. Top \in Frame /\ Top.fn = "binary"
    BY <2>2, Owning
  <2>5. CASE Top.ops # <<>> /\ ReduceLast("reduce")
    BY <1>a, <2>1, <2>5, ReduceSpans
  <2>6. CASE Goto(r, Swap(fr), "unary")
    <3> DEFINE ops == Top.ops
               more == Append(ops, new)
    <3>1. ops \in Seq(PendingOp) /\ OperandsFit(ops, lo, m) /\ lo <= m /\ Len(ops) \in Nat
      BY <2>3, <2>4 DEF Frame, Seg
    <3>2. fr.fn = "binary" /\ fr.ops = more
      BY <2>4 DEF Frame
    <3>3. new.left = val
      OBVIOUS
    <3> HIDE DEF ops, fr, new
    <3>4. /\ Len(more) = Len(ops) + 1 /\ more[Len(ops) + 1].left = val
          /\ \A k \in 1..Len(ops) : more[k] = ops[k]
      <4>1. ops \in Seq(PendingOp \cup {new}) /\ new \in PendingOp \cup {new}
        BY <3>1
      <4> QED BY <3>3, <4>1, AppendProperties
    <3>5. /\ NodeFits(val) /\ m <= val.from /\ val.to <= Done(p) /\ p.pos > 1
          /\ val.from \in Nat /\ val.to \in Nat /\ val.from <= val.to
      BY <2>3 DEF Carries, NodeFits
    <3> DEFINE hi == val.to + 1
    <3>6. hi \in Nat /\ m <= hi /\ lo <= hi /\ val.to < hi /\ lo <= val.from
      BY <3>1, <3>5
    <3> HIDE DEF more, hi
    <3>7. OperandsFit(more, lo, hi)
      <4>1. \A k \in 1..Len(ops) : /\ NodeFits(more[k].left) /\ lo <= more[k].left.from
                                   /\ more[k].left.to < hi /\ more[k].left.to < val.from
        <5> SUFFICES ASSUME NEW k \in 1..Len(ops)
                     PROVE  /\ NodeFits(more[k].left) /\ lo <= more[k].left.from
                            /\ more[k].left.to < hi /\ more[k].left.to < val.from
          OBVIOUS
        <5>1. NodeFits(ops[k].left) /\ lo <= ops[k].left.from /\ ops[k].left.to < m /\ more[k] = ops[k]
          BY <3>1, <3>4 DEF OperandsFit
        <5>2. ops[k].left.to \in Nat
          BY <5>1 DEF NodeFits
        <5> QED BY <3>5, <3>6, <5>1, <5>2
      <4>2. \A k, l \in 1..Len(ops) : k < l => more[k].left.to < more[l].left.from
        BY <3>1, <3>4 DEF OperandsFit
      <4>3. \A k \in 1..Len(more) : k \in 1..Len(ops) \/ k = Len(ops) + 1
        BY <3>1, <3>4
      <4>4. \A k, l \in 1..Len(more) : k < l => k \in 1..Len(ops)
        BY <3>1, <3>4
      <4> QED BY <3>4, <3>5, <3>6, <4>1, <4>2, <4>3, <4>4 DEF OperandsFit
    <3>8. Seg(fr, lo, hi) /\ Live(fr)
      <4>1. fr.fn \notin Marked /\ fr.fn \notin Parted
        BY <3>2 DEF Marked, Parted
      <4> QED BY <3>2, <3>6, <3>7, <4>1 DEF Seg, Live
    <3>9. Reaches(p, r)
      BY <1>0, AdvanceReaches
    <3>10. hi <= Here(r)
      BY <3>5, <3>9 DEF Reaches, hi
    <3> HIDE DEF r
    <3> QED BY <1>a, <2>3, <2>6, <3>8, <3>10, Grows, Continues DEF Swap
  <2> QED BY <2>1, <2>5, <2>6
<1>5. CASE FoldRest
  <2>1. ctl = "fold" /\ ((Top.ops # <<>> /\ ReduceLast("fold")) \/ Return(p, Pop, val))
    BY <1>5, Zenon DEF FoldRest
  <2>2. ctl \in DOMAIN Owners /\ ctl \in Passing
    BY <2>1, OwnersAre DEF Passing
  <2>3. PICK f, lo, m \in Nat : Waiting(Pop, f, lo) /\ Seg(Top, lo, m) /\ Carries(p, val, m)
    BY <2>2, Owning
  <2>4. CASE Top.ops # <<>> /\ ReduceLast("fold")
    BY <1>a, <2>1, <2>4, ReduceSpans
  <2>5. CASE Return(p, Pop, val)
    <3>1. lo <= m /\ SameSpan(val, val)
      BY <2>3 DEF Seg, SameSpan
    <3>2. Carries(p, val, lo)
      BY <1>0, <2>3, <3>1, CarriesOn
    <3> QED BY <2>3, <2>5, <3>2, Yields
  <2> QED BY <2>1, <2>4, <2>5
<1> QED BY <1>1, <1>2, <1>3, <1>4, <1>5 DEF OperatorNext
-----------------------------------------------------------------------------
(* Applications.                                                           *)

LEMMA ApplicationSpans == ASSUME IInv, SpanInv, ApplicationNext PROVE SpanInv'
<1>0. Stream /\ Ordered /\ OK(p) /\ Reaches(p, p) /\ val \in Node
  BY Reading
<1>a. /\ "neg" \notin Marked /\ "app" \notin Marked /\ "neg" \notin Special /\ "app" \in Turns /\ "atom" \in Turns
      /\ "args" \in Closing
  BY DEF Marked, Parted, Special, Turns, Calls, Closing
<1> DEFINE q == Skip(p)
<1>b. Reaches(p, q) /\ OK(q)
  BY <1>0, Onward
<1>1. CASE ParseUnary
  <2> DEFINE r == Advance(q)
             fr == New("neg", Here(q))
  <2>1. ctl \in Calls /\ (Goto(r, Append(calls, fr), "app") \/ Goto(q, calls, "app"))
    BY <1>1, Zenon DEF ParseUnary, Calls
  <2>2. Opening(fr, Here(q)) /\ fr.fn = "neg"
    BY <1>a, NewOpens
  <2> HIDE DEF fr, q
  <2>3. Reaches(q, r)
    BY <1>0, <1>b, AdvanceReaches
  <2> HIDE DEF r
  <2>4. CASE Goto(r, Append(calls, fr), "app")
    BY <1>a, <1>b, <2>1, <2>2, <2>3, <2>4, CallsAre, Begins
  <2>5. CASE Goto(q, calls, "app")
    BY <1>a, <1>b, <2>1, <2>5, CallsAre, Proceeds
  <2> QED BY <2>1, <2>4, <2>5
<1>2. CASE AfterNegated
  <2> DEFINE fr == AddPart(Top, val)
  <2>1. Resumes("neg") /\ Return(p, Pop, Close(fr, p))
    BY <1>2 DEF AfterNegated
  <2>2. Grown(fr, Top, val.sub)
    BY <2>1, PartGrown
  <2> HIDE DEF fr
  <2> QED BY <1>0, <2>1, <2>2, Absorbing
<1>3. CASE ParseApplication
  <2> DEFINE r == [p EXCEPT !.ctx = 0]
             fr == [New("app", Here(p)) EXCEPT !.col = HereCol(p), !.ctx = p.ctx, !.line = toks[p.pos].line]
  <2>1. ctl \in Calls /\ Goto(r, Append(calls, fr), "atom")
    BY <1>3 DEF ParseApplication, Calls
  <2>2. Opening(fr, Here(p)) /\ fr.fn = "app"
    BY <1>a DEF Opening, New
  <2>3. Reaches(p, r)
    BY <1>0, ContextReaches
  <2> HIDE DEF fr, r
  <2> QED BY <1>0, <1>a, <2>1, <2>2, <2>3, CallsAre, Begins
<1>4. CASE ApplicationLoop
  <2> DEFINE own == {c \in Elements(q.pending) :
                       \/ c.block /\ c.line = Top.last.end /\ c.end = Top.last.end
                       \/ c.line > Top.last.end}
             r == Unclaimed(q, Snapshot(p), own)
             s == Advance(r)
             cs == Swap([Top EXCEPT !.lead = Claimed(q, Snapshot(p), own)])
             neg == New("neg", Here(q))
  <2>1. /\ ctl = "args"
        /\ \/ Goto(r, cs, "atom")
           \/ Goto(s, Append(cs, neg), "atom")
           \/ Top.n = 1 /\ Return(q, Pop, Top.last)
           \/ Return(q, Pop, Close(Top, q))
    BY <1>4, Zenon DEF ApplicationLoop
  <2>2. /\ ctl \in DOMAIN Owners /\ Top \in Frame /\ Top.fn = "app" /\ ctl \in Closing
        /\ ctl \notin Naming
    BY <1>a, <2>1, OwnersAre, Owned DEF Naming
  <2>3. PICK f, lo, m \in Nat : /\ Waiting(Pop, f, lo) /\ Seg(Top, lo, m) /\ Live(Top) /\ m <= Here(p)
                                /\ p.pos > 1 /\ m <= Done(p) + 1 /\ Top.from <= Done(p)
    BY <2>2, Owning DEF Closing, Passing
  <2>4. Waiting(cs, f, m)
    BY <2>2, <2>3, ReleadStack
  <2>5. Opening(neg, Here(q)) /\ neg.fn = "neg"
    BY <1>a, NewOpens
  <2>6. Snapshot(p) \in Nat
    BY <1>0, PendingType
  <2> HIDE DEF q, own, cs, neg
  <2>7. Reaches(q, r) /\ OK(r)
    BY <1>0, <1>b, <2>6, ClaimReaches DEF Reaches
  <2> HIDE DEF r
  <2>8. Reaches(q, s)
    BY <1>0, <2>7, AdvanceReaches, ReachesOn
  <2> HIDE DEF s
  <2>9. m <= Here(q) /\ m <= Here(r) /\ Here(q) <= Here(s) /\ Here(q) \in Nat
    BY <1>b, <2>3, <2>7, <2>8 DEF Reaches
  <2>10. CASE Goto(r, cs, "atom")
    BY <1>a, <2>4, <2>9, <2>10, CallsAre, Continues
  <2>11. CASE Goto(s, Append(cs, neg), "atom")
    <3>1. Here(q) <= Here(q)
      BY <2>9
    <3>2. Seg(neg, m, Here(q)) /\ Live(neg)
      BY <2>5, <2>9, <3>1, OpeningSeg
    <3>3. Waiting(Append(cs, neg), f, Here(q))
      BY <2>4, <3>2, Grows
    <3> QED BY <1>a, <2>9, <2>11, <3>3, CallsAre, Continues
  <2>12. CASE Top.n = 1 /\ Return(q, Pop, Top.last)
    <3>1. /\ NodeFits(Top.last) /\ Top.from <= Top.last.from /\ Top.last.to < m /\ lo <= Top.from
          /\ Top.from \in Nat /\ Top.last.from \in Nat /\ Top.last.to \in Nat
      BY <2>2, <2>3, <2>12 DEF Seg, Shape, NodeFits
    <3>2. Done(p) \in Nat /\ Done(q) \in Nat /\ Done(p) <= Done(q) /\ q.pos > 1
      BY <1>b, <2>3 DEF Reaches
    <3>3. Carries(q, Top.last, lo)
      BY <2>3, <3>1, <3>2 DEF Carries
    <3> QED BY <2>3, <2>12, <3>3, Yields
  <2>13. CASE Return(q, Pop, Close(Top, q))
    BY <1>b, <2>2, <2>13, Ends
  <2> QED BY <2>1, <2>10, <2>11, <2>12, <2>13
<1>5. CASE AfterArgument
  <2> DEFINE arg == Lead(val, Top.lead)
             part == AddPart(Top, arg)
             fr == [part EXCEPT !.lead = <<>>]
             hi == Done(p) + 1
  <2>1. Resumes("app") /\ Goto(p, Swap(fr), "args")
    BY <1>5 DEF AfterArgument
  <2>2. Whole(part) /\ Grown(part, Top, arg.sub) /\ part.fn = "app" /\ part.last = arg
    <3>1. Top \in Frame
      BY <2>1, Resumed
    <3>2. Whole(Top)
      BY <3>1, FramesAreWhole
    <3>3. part.last = arg
      BY <3>2, Parts
    <3> QED BY <2>1, <3>3, PartGrown
  <2>3. SameSpan(arg, val)
    BY <1>0, LeadSame
  <2> HIDE DEF arg, part
  <2>4. fr.fn = "app" /\ fr.last = arg /\ Grown(fr, Top, val.sub)
    BY <2>2, <2>3 DEF Whole, Grown, SameSpan
  <2> HIDE DEF fr
  <2>5. PICK f, lo, m \in Nat : Waiting(Pop, f, lo) /\ Seg(Top, lo, m) /\ Carries(p, val, m) /\ Top.fn = "app"
    BY <2>1, Resting
  <2>6. /\ Shape(fr, lo, hi) /\ hi \in Nat /\ p.pos > 1 /\ fr.from <= Done(p)
    BY <1>0, <2>4, <2>5, Takes
  <2>7. /\ NodeFits(val) /\ m <= val.from /\ val.to <= Done(p) /\ Done(p) \in Nat
        /\ val.from \in Nat /\ val.to \in Nat /\ fr.from = Top.from /\ Top.from \in Nat /\ Top.from <= m
    BY <1>0, <2>4, <2>5 DEF Carries, NodeFits, Reaches, Grown, Seg, Shape
  <2>8. NodeFits(arg) /\ fr.from <= arg.from /\ arg.to < hi
    BY <2>3, <2>7 DEF SameSpan, NodeFits
  <2>a. hi <= Done(p) + 1
    BY <2>7
  <2> HIDE DEF hi
  <2>9. Seg(fr, lo, hi) /\ Live(fr)
    <3>1. fr.fn \notin Marked /\ fr.fn \notin Parted
      BY <2>4 DEF Marked, Parted
    <3>2. lo <= hi
      BY <2>6 DEF Shape
    <3> QED BY <2>4, <2>6, <2>8, <3>1, <3>2 DEF Seg, Live
  <2>10. Goto(p, Append(Pop, fr), "args")
    BY <2>1 DEF Swap
  <2> QED BY <1>0, <1>a, <2>5, <2>6, <2>a, <2>9, <2>10, Completes
<1> QED BY <1>1, <1>2, <1>3, <1>4, <1>5 DEF ApplicationNext
-----------------------------------------------------------------------------
(* Atoms.                                                                  *)

(* A name or an access chain that goes on from the node in val.            *)
LEMMA LongerCarries ==
  ASSUME NEW q, NEW n, NEW m \in Nat, Carries(q, n, m), NEW r, Reaches(q, r), NEW kept
  PROVE  Carries(r, Leaf(n.from, r), m) /\ Carries(r, SpanNode(n.from, r, kept, n.sub), m)
<1>1. /\ m <= n.from /\ NodeFits(n) /\ n.to <= Done(q) /\ r.pos > 1
      /\ n.from \in Nat /\ n.to \in Nat /\ n.from <= n.to /\ Within(n.sub, n.from, n.to + 1)
      /\ Done(q) \in Nat /\ Done(r) \in Nat /\ Done(q) <= Done(r)
  BY DEF Carries, NodeFits, Reaches
<1>2. n.from <= Done(r) /\ n.to + 1 <= Done(r) + 1 /\ Done(r) <= Done(r)
  BY <1>1
<1>3. Carries(r, Leaf(n.from, r), m)
  BY <1>1, <1>2, LeafFits DEF Carries
<1> DEFINE s == SpanNode(n.from, r, kept, n.sub)
<1>4. NodeFits(s) /\ s.from = n.from /\ s.to = Done(r)
  BY <1>1, <1>2, SpanNodeFits
<1> HIDE DEF s
<1>5. Carries(r, s, m)
  BY <1>1, <1>2, <1>4 DEF Carries
<1> QED BY <1>3, <1>5 DEF s

LEMMA AtomSpans == ASSUME IInv, SpanInv, AtomNext PROVE SpanInv'
<1>0. Stream /\ Ordered /\ OK(p) /\ Reaches(p, p) /\ val \in Node
  BY Reading
<1>a. "access" \in Passing /\ "valueName" \in Passing /\ "atom" \in Calls
  BY DEF Passing, Calls
<1> DEFINE q == Skip(p)
           r == Advance(q)
           s == Advance(r)
<1>b. Reaches(p, q) /\ OK(q) /\ (Solid(q) => Passes(q, r) /\ OK(r))
  <2>1. Reaches(p, q) /\ OK(q)
    BY <1>0, Onward
  <2> HIDE DEF q
  <2> QED BY <1>0, <2>1, Onward
<1>c. Solid(q) /\ Solid(r) => Passes(q, s)
  <2> HIDE DEF q, r
  <2> QED BY <1>0, <1>b, Onward, ReachesOn
<1>1. CASE SimpleAtom
  <2>1. Peek(q) \in {"number", "text", "lower", "glsl"} => Solid(q)
    BY Solids, Zenon
  <2>2. ctl \in Calls /\ Solid(q) /\ GotoWith(r, calls, "access", Leaf(Here(q), r))
    BY <1>1, <2>1, Zenon DEF SimpleAtom, Calls
  <2> HIDE DEF q, r
  <2> QED BY <1>a, <1>b, <2>2, CallsAre, LeafRead
<1>2. CASE QualifiedAtom
  <2>1. Peek(q) = "upper" => Solid(q)
    BY Solids, Zenon
  <2>2. ctl \in Calls /\ Solid(q) /\ GotoWith(r, calls, "valueName", Leaf(Here(q), r))
    BY <1>2, <2>1, Zenon DEF QualifiedAtom, Calls
  <2> HIDE DEF q, r
  <2> QED BY <1>a, <1>b, <2>2, CallsAre, LeafRead
<1>3. CASE QualifyValue
  <2> DEFINE next == Advance(p)
             t == Advance(next)
             name == Leaf(val.from, t)
  <2>1. ctl = "valueName" /\ \/ GotoWith(t, calls, "valueName", name)
                             \/ GotoWith(t, calls, "access", name)
                             \/ Goto(p, calls, "access")
    BY <1>3, Zenon DEF QualifyValue
  <2>2. ctl \in Plain /\ ctl # "error"
    BY <2>1, PlainAre
  <2>3. PICK f, m \in Nat : Waiting(calls, f, m) /\ Carries(p, val, m)
    BY <1>a, <2>1, <2>2, Calling
  <2>4. Reaches(p, next) /\ OK(next)
    BY <1>0, AdvanceReaches
  <2> HIDE DEF next
  <2>5. Reaches(p, t)
    BY <1>0, <2>4, AdvanceReaches, ReachesOn
  <2> HIDE DEF t
  <2>6. Carries(t, name, m)
    BY <2>3, <2>5, LongerCarries
  <2> HIDE DEF name
  <2> QED BY <1>a, <2>1, <2>3, <2>6, Hands
<1>4. CASE AccessorAtom
  <2>1. (Peek(q) = "." => Solid(q)) /\ (Peek(r) = "lower" => Solid(r))
    BY Solids, Zenon
  <2>2. /\ ctl \in Calls
        /\ Fail(r) \/ (Solid(q) /\ Solid(r) /\ GotoWith(s, calls, "access", Leaf(Here(q), s)))
    BY <1>4, <2>1, Zenon DEF AccessorAtom, Calls
  <2> HIDE DEF q, r, s
  <2>3. CASE Solid(q) /\ Solid(r) /\ GotoWith(s, calls, "access", Leaf(Here(q), s))
    BY <1>a, <1>b, <1>c, <2>2, <2>3, CallsAre, LeafRead
  <2> QED BY <2>2, <2>3, Stops
<1>5. CASE NotAnAtom
  BY <1>5, Stops DEF NotAnAtom
<1>6. CASE AccessChain
  <2> DEFINE dot == Advance(p)
             t == Advance(dot)
             n == SpanNode(val.from, t, Carried(val), val.sub)
  <2>1. ctl = "access" /\ (GotoWith(t, calls, "access", n) \/ Fail(dot) \/ Return(p, calls, val))
    BY <1>6, Zenon DEF AccessChain
  <2>2. ctl \in Plain /\ ctl # "error"
    BY <2>1, PlainAre
  <2>3. PICK f, m \in Nat : Waiting(calls, f, m) /\ Carries(p, val, m)
    BY <1>a, <2>1, <2>2, Calling
  <2>4. Reaches(p, dot) /\ OK(dot)
    BY <1>0, AdvanceReaches
  <2> HIDE DEF dot
  <2>5. Reaches(p, t)
    BY <1>0, <2>4, AdvanceReaches, ReachesOn
  <2> HIDE DEF t
  <2>6. Carries(t, n, m)
    BY <2>3, <2>5, LongerCarries
  <2> HIDE DEF n
  <2>7. CASE GotoWith(t, calls, "access", n)
    BY <1>a, <2>3, <2>6, <2>7, Hands
  <2>8. CASE Return(p, calls, val)
    BY <2>3, <2>8, Yields
  <2> QED BY <2>1, <2>7, <2>8, Stops
<1>7. CASE AfterCompound
  <2>1. Resumes("access") /\ Goto(p, Pop, "access")
    BY <1>7 DEF AfterCompound
  <2>2. PICK f, lo, m \in Nat : Waiting(Pop, f, lo) /\ Seg(Top, lo, m) /\ Carries(p, val, m)
    BY <2>1, Resting
  <2>3. lo <= m /\ SameSpan(val, val)
    BY <2>2 DEF Seg, SameSpan
  <2>4. Carries(p, val, lo)
    BY <1>0, <2>2, <2>3, CarriesOn
  <2> QED BY <1>a, <2>1, <2>2, <2>4, Hands
<1> QED BY <1>1, <1>2, <1>3, <1>4, <1>5, <1>6, <1>7 DEF AtomNext
-----------------------------------------------------------------------------
(* Parentheses, tuples and lists.                                          *)

(* What a function does with the value it gets back, at one place.         *)
LEMMA Absorbed ==
  ASSUME IInv, SpanInv, NEW fn, Resumes(fn), fn \notin {"binary", "access"},
         NEW fr, Grown(fr, Top, val.sub), NEW q, Reaches(p, q)
  PROVE  /\ Return(q, Pop, Close(fr, q)) => SpanInv'
         /\ fr.fn \notin Special => /\ Need(q, Swap(fr)) => SpanInv'
                                    /\ \A c \in Turns \cup Closing : Goto(q, Swap(fr), c) => SpanInv'
<1>1. Reaches(q, q)
  BY DEF Reaches
<1>2. Return(q, Pop, Close(fr, q)) => SpanInv'
  BY Absorbing
<1>3. ASSUME fr.fn \notin Special
      PROVE  /\ Need(q, Swap(fr)) => SpanInv'
             /\ \A c \in Closing : Goto(q, Swap(fr), c) => SpanInv'
             /\ \A c : c \notin Passing \cup Closing /\ Goto(q, Swap(fr), c) => SpanInv'
  BY <1>1, <1>3, Absorbing
<1> QED BY <1>2, <1>3, CallsAre

(* The value, with the comments before it, becomes a part.                 *)
LEMMA Attaches ==
  ASSUME IInv, SpanInv, NEW fn, Resumes(fn), NEW snap \in Nat
  PROVE  LET part == AddPart(Top, WithPre(p, val, snap))
             q    == AfterPre(p, val, snap)
         IN  /\ Whole(part) /\ Grown(part, Top, val.sub) /\ part.fn = fn
             /\ Reaches(p, q) /\ OK(q)
<1>1. Stream /\ Ordered /\ OK(p) /\ val \in Node
  BY Reading
<1>2. WithPre(p, val, snap).sub = val.sub
  BY <1>1, LeadSame DEF SameSpan
<1>3. Reaches(p, AfterPre(p, val, snap))
  BY <1>1, ClaimReaches
<1>4. OK(AfterPre(p, val, snap))
  BY <1>3 DEF Reaches
<1> QED BY <1>2, <1>3, <1>4, PartGrown

(* Comments are kept.                                                      *)
LEMMA HoldGrown ==
  ASSUME NEW part, NEW t, NEW S, Whole(part), Grown(part, t, S), NEW cs
  PROVE  Whole(Hold(part, cs)) /\ Grown(Hold(part, cs), t, S) /\ Hold(part, cs).fn = part.fn
<1>1. Whole(Hold(part, cs)) /\ Grown(Hold(part, cs), part, {}) /\ Hold(part, cs).fn = part.fn
  BY Parts
<1> QED BY <1>1 DEF Grown

LEMMA ParenSpans ==
  ASSUME IInv, SpanInv, ParenAtom \/ AfterParenNegated \/ AfterParenFirst \/ AfterTupleElement
  PROVE  SpanInv'
<1>0. Stream /\ Ordered /\ OK(p) /\ Reaches(p, p) /\ val \in Node
  BY Reading
<1>a. /\ "access" \in Passing /\ "binary" \in Passing /\ "app" \in Turns /\ "paren" \notin Marked
      /\ "parenNeg" \in Marked /\ "tuple" \notin Special
  BY DEF Passing, Turns, Calls, Marked, Parted, Special
<1>1. CASE ParenAtom
  <2> DEFINE q == Skip(p)
             open == Advance(q)
             r == Skip(open)
             t == Advance(r)
             s == Skip(t)
             u == Advance(s)
             neg == [New("parenNeg", Here(q)) EXCEPT !.mark = Here(r)]
             fr == [New("paren", Here(q)) EXCEPT !.snap = Snapshot(open)]
  <2>1. /\ Peek(q) = "(" => Solid(q)
        /\ Peek(r) = ")" => Solid(r)
        /\ Peek(r) \in {"op", "-"} => Solid(r)
        /\ Peek(s) = ")" => Solid(s)
    BY Solids, Zenon
  <2>2. /\ ctl \in Calls /\ Solid(q)
        /\ \/ Solid(r) /\ GotoWith(t, calls, "access", Leaf(Here(q), t))
           \/ Solid(r) /\ Solid(s) /\ GotoWith(u, calls, "access", Leaf(Here(q), u))
           \/ Fail(s)
           \/ Solid(r) /\ Goto(s, Compound(neg), "app")
           \/ Need(r, Compound(fr))
    <3>1. ctl \in Calls /\ Peek(q) = "("
      BY <1>1, Zenon DEF ParenAtom, Calls
    <3>2. \/ Peek(r) = ")" /\ GotoWith(t, calls, "access", Leaf(Here(q), t))
          \/ Peek(r) \in {"op", "-"} /\ Peek(s) = ")" /\ GotoWith(u, calls, "access", Leaf(Here(q), u))
          \/ Fail(s)
          \/ Peek(r) = "-" /\ Goto(s, Compound(neg), "app")
          \/ Need(r, Compound(fr))
      BY <1>1, Zenon DEF ParenAtom
    <3> QED BY <2>1, <3>1, <3>2, Zenon
  <2>3. Reaches(p, q) /\ OK(q)
    BY <1>0, Onward
  <2>4. neg.fn = "parenNeg" /\ neg.from = Here(q) /\ neg.mark = Here(r) /\ neg.sub = {} /\ neg.chain = <<>>
    BY DEF New
  <2>5. Opening(fr, Here(q)) /\ fr.fn = "paren"
    BY <1>a DEF Opening, New
  <2> HIDE DEF neg, fr, q
  <2>6. Passes(q, open) /\ OK(open)
    BY <1>0, <2>2, <2>3, Onward
  <2> HIDE DEF open
  <2>7. Passes(q, r) /\ Reaches(q, r) /\ OK(r)
    BY <1>0, <2>6, Onward, ReachesOn
  <2> HIDE DEF r
  <2>8. Solid(r) => Passes(q, t) /\ Reaches(r, t) /\ OK(t)
    BY <1>0, <2>7, Onward, ReachesOn
  <2> HIDE DEF t
  <2>9. Solid(r) => Passes(q, s) /\ Reaches(r, s) /\ OK(s)
    BY <1>0, <2>8, Onward, ReachesOn
  <2> HIDE DEF s
  <2>10. Solid(r) /\ Solid(s) => Passes(q, u)
    BY <1>0, <2>9, Onward, ReachesOn
  <2> HIDE DEF u
  <2>11. CASE Solid(r) /\ GotoWith(t, calls, "access", Leaf(Here(q), t))
    BY <1>a, <2>2, <2>3, <2>8, <2>11, CallsAre, LeafRead
  <2>12. CASE Solid(r) /\ Solid(s) /\ GotoWith(u, calls, "access", Leaf(Here(q), u))
    BY <1>a, <2>2, <2>3, <2>10, <2>12, CallsAre, LeafRead
  <2>13. CASE Solid(r) /\ Goto(s, Compound(neg), "app")
    <3>1. PICK f, m \in Nat : Waiting(Append(calls, New("access", 0)), f, m) /\ m <= Here(p)
      BY <2>2, CallsAre, Under
    <3>2. Compound(neg) = Append(Append(calls, New("access", 0)), neg)
      BY <2>2, CallsAre, Under
    <3>3. /\ Here(q) \in Nat /\ Here(r) \in Nat /\ m <= Here(q) /\ Here(q) <= Here(r) /\ Here(r) <= Here(s)
          /\ Here(r) <= Here(r)
      BY <2>3, <2>7, <2>9, <2>13, <3>1 DEF Reaches
    <3>4. \A c \in Elements(neg.chain) : c \in Nat /\ neg.from <= c /\ c <= Here(r)
      BY <2>4 DEF Elements
    <3>5. Shape(neg, m, Here(r))
      BY <2>4, <3>1, <3>3, <3>4, FreshShape
    <3>6. neg.fn \in Parted /\ neg.fn \notin {"letArgs", "letValue"} /\ neg.from <= neg.mark
      BY <1>a, <2>4, <3>3 DEF Parted
    <3>7. Seg(neg, m, Here(r)) /\ Live(neg)
      BY <2>4, <3>5, <3>6, PartedSeg DEF Live
    <3>8. Waiting(Compound(neg), f, Here(r))
      BY <3>1, <3>2, <3>7, Grows
    <3> QED BY <1>a, <2>13, <3>3, <3>8, CallsAre, Continues
  <2>14. CASE Need(r, Compound(fr))
    BY <2>2, <2>3, <2>5, <2>7, <2>14, CallsAre, Begins
  <2> QED BY <2>2, <2>11, <2>12, <2>13, <2>14, Stops
<1>2. CASE AfterParenNegated
  <2> DEFINE neg == [val EXCEPT !.from = Top.mark, !.cs = <<>>, !.kept = Carried(val),
                                !.sub = @ \cup {<<Top.mark, val.to>>}]
             fr == [New("paren", Top.from) EXCEPT !.snap = Snapshot(p)]
             bin == New("binary", 0)
             cs == Pop \o <<fr, bin>>
  <2>1. Resumes("parenNeg") /\ GotoWith(p, cs, "binary", neg)
    BY <1>2 DEF AfterParenNegated
  <2>2. PICK f, lo, m \in Nat : Waiting(Pop, f, lo) /\ Seg(Top, lo, m) /\ Carries(p, val, m) /\ Top.fn = "parenNeg"
    BY <2>1, Resting
  <2>3. neg.from = Top.mark /\ neg.to = val.to /\ neg.sub = val.sub \cup {<<Top.mark, val.to>>}
    BY <1>0 DEF Node
  <2>4. Opening(fr, Top.from) /\ fr.fn = "paren" /\ bin.fn = "binary" /\ bin.ops = <<>>
    BY <1>a DEF Opening, New
  <2> HIDE DEF neg, fr, bin
  <2>5. cs = Append(Append(Pop, fr), bin)
    <3>1. Pop \in Seq(Frame)
      BY <2>1, Resumed
    <3>2. Pop \in Seq(Frame \cup {fr, bin})
      BY <3>1
    <3> QED BY <3>2
  <2> HIDE DEF cs
  <2>6. /\ lo <= Top.from /\ Top.from \in Nat /\ Top.from <= Top.mark /\ Top.mark \in Nat /\ Top.mark <= m
    BY <1>a, <2>2 DEF Seg, Shape, Splits
  <2>7. /\ NodeFits(val) /\ m <= val.from /\ val.to <= Done(p) /\ p.pos > 1
        /\ val.from \in Nat /\ val.to \in Nat /\ val.from <= val.to /\ Within(val.sub, val.from, val.to + 1)
    BY <2>2 DEF Carries, NodeFits
  <2>8. Top.mark <= val.from /\ Top.mark <= val.to /\ val.to + 1 <= val.to + 1 /\ Top.mark <= Top.mark /\ val.to + 1 \in Nat
    BY <2>6, <2>7
  <2>9. Within(val.sub, Top.mark, val.to + 1)
    BY <2>6, <2>7, <2>8, WithinWider
  <2>10. Splits(Top.mark, val.sub)
    BY <2>6, <2>9 DEF Splits, Within
  <2>11. Within(val.sub \cup {<<Top.mark, val.to>>}, Top.mark, val.to + 1)
    BY <2>6, <2>7, <2>8, <2>9, <2>10, WithinSpan
  <2>12. Carries(p, neg, Top.mark)
    BY <2>3, <2>6, <2>7, <2>8, <2>11 DEF Carries, NodeFits
  <2>13. Seg(fr, lo, Top.mark) /\ Live(fr)
    BY <2>4, <2>6, OpeningSeg
  <2>14. Seg(bin, Top.mark, Top.mark) /\ Live(bin)
    <3>1. OperandsFit(<<>>, Top.mark, Top.mark)
      BY DEF OperandsFit
    <3>2. bin.fn \notin Marked /\ bin.fn \notin Parted
      BY <2>4 DEF Marked, Parted
    <3> QED BY <2>4, <2>6, <2>8, <3>1, <3>2 DEF Seg, Live
  <2>15. Waiting(Append(Pop, fr), f, Top.mark)
    BY <2>2, <2>13, Grows
  <2>16. Waiting(cs, f, Top.mark)
    BY <2>5, <2>14, <2>15, Grows
  <2> QED BY <1>a, <2>1, <2>12, <2>16, Hands
<1>3. CASE AfterParenFirst
  <2> DEFINE part == AddPart(Top, WithPre(p, val, Top.snap))
             a == AfterPre(p, val, Top.snap)
             q == Skip(a)
             gap == Between(q, val.to, Here(q))
             r == Advance(q)
             t == Unclaimed(q, 0, gap)
             s == Advance(t)
             fr == [part EXCEPT !.fn = "tuple", !.snap = Snapshot(r)]
             last == Hold(part, Claimed(q, 0, gap))
  <2>1. Resumes("paren") /\ (Need(r, Swap(fr)) \/ Return(s, Pop, Close(last, s)) \/ Fail(q))
    BY <1>3, Zenon DEF AfterParenFirst
  <2>2. Top.snap \in Nat
    BY <2>1, Resumed, FrameParts
  <2>3. Whole(part) /\ Grown(part, Top, val.sub) /\ Reaches(p, a) /\ OK(a)
    BY <2>1, <2>2, Attaches
  <2> HIDE DEF part, gap
  <2>4. Grown(last, Top, val.sub)
    BY <2>3, HoldGrown
  <2>a. Grown(fr, Top, val.sub) /\ fr.fn = "tuple"
    BY <2>3 DEF Grown, Whole
  <2> HIDE DEF fr, last, a
  <2>5. Reaches(p, q) /\ OK(q)
    BY <1>0, <2>3, Onward, ReachesOn
  <2> HIDE DEF q
  <2>6. Reaches(p, r)
    BY <1>0, <2>5, AdvanceReaches, ReachesOn
  <2>7. Reaches(p, t) /\ OK(t)
    BY <1>0, <2>5, ClaimReaches, ReachesOn DEF Reaches
  <2> HIDE DEF r, t
  <2>8. Reaches(p, s)
    BY <1>0, <2>7, AdvanceReaches, ReachesOn
  <2> HIDE DEF s
  <2>9. CASE Need(r, Swap(fr))
    BY <1>a, <2>1, <2>a, <2>6, <2>9, Absorbed
  <2>10. CASE Return(s, Pop, Close(last, s))
    BY <2>1, <2>4, <2>8, <2>10, Absorbed
  <2> QED BY <2>1, <2>9, <2>10, Stops
<1>4. CASE AfterTupleElement
  <2> DEFINE fr == AddPart(Top, WithPre(p, val, Top.snap))
             a == AfterPre(p, val, Top.snap)
             q == Skip(a)
             r == Advance(q)
  <2>1. Resumes("tuple") /\ (Need(r, Swap(fr)) \/ Return(r, Pop, Close(fr, r)) \/ Fail(q))
    BY <1>4, Zenon DEF AfterTupleElement
  <2>2. Top.snap \in Nat
    BY <2>1, Resumed, FrameParts
  <2>3. Grown(fr, Top, val.sub) /\ fr.fn = "tuple" /\ Reaches(p, a) /\ OK(a)
    BY <2>1, <2>2, Attaches
  <2> HIDE DEF fr, a
  <2>4. Reaches(p, q) /\ OK(q)
    BY <1>0, <2>3, Onward, ReachesOn
  <2> HIDE DEF q
  <2>5. Reaches(p, r)
    BY <1>0, <2>4, AdvanceReaches, ReachesOn
  <2> HIDE DEF r
  <2>6. CASE Need(r, Swap(fr))
    BY <1>a, <2>1, <2>3, <2>5, <2>6, Absorbed
  <2>7. CASE Return(r, Pop, Close(fr, r))
    BY <2>1, <2>3, <2>5, <2>7, Absorbed
  <2> QED BY <2>1, <2>6, <2>7, Stops
<1> QED BY <1>1, <1>2, <1>3, <1>4

LEMMA ListSpans ==
  ASSUME IInv, SpanInv, ListAtom \/ AfterListElement
  PROVE  SpanInv'
<1>0. Stream /\ Ordered /\ OK(p) /\ Reaches(p, p) /\ val \in Node
  BY Reading
<1>a. "access" \in Passing /\ "list" \notin Marked /\ "list" \notin Special /\ 0 \in Nat
  BY DEF Passing, Marked, Parted, Special
<1>1. CASE ListAtom
  <2> DEFINE q == Skip(p)
             open == Advance(q)
             r == Skip(open)
             t == Advance(r)
             col == HereCol(q)
             s == [r EXCEPT !.ctx = col]
             fr == [New("list", Here(q)) EXCEPT !.col = col, !.snap = Snapshot(open)]
  <2>1. (Peek(q) = "[" => Solid(q)) /\ (Peek(r) = "]" => Solid(r))
    BY Solids, Zenon
  <2>2. /\ ctl \in Calls /\ Solid(q)
        /\ (Solid(r) /\ GotoWith(t, calls, "access", Leaf(Here(q), t))) \/ Need(s, Compound(fr))
    BY <1>1, <2>1, Zenon DEF ListAtom, Calls
  <2>3. Reaches(p, q) /\ OK(q)
    BY <1>0, Onward
  <2>4. Opening(fr, Here(q)) /\ fr.fn = "list"
    BY <1>a DEF Opening, New
  <2> HIDE DEF fr, q
  <2>5. col \in Nat
    BY <1>0, <2>3, HereType
  <2>6. Passes(q, open) /\ OK(open)
    BY <1>0, <2>2, <2>3, Onward
  <2> HIDE DEF open, col
  <2>7. Passes(q, r) /\ OK(r)
    BY <1>0, <2>6, Onward, ReachesOn
  <2> HIDE DEF r
  <2>8. Solid(r) => Passes(q, t)
    BY <1>0, <2>7, Onward, ReachesOn
  <2>9. Reaches(q, s)
    BY <1>0, <2>5, <2>7, ContextReaches, ReachesOn
  <2> HIDE DEF s, t
  <2>10. CASE Solid(r) /\ GotoWith(t, calls, "access", Leaf(Here(q), t))
    BY <1>a, <2>2, <2>3, <2>8, <2>10, CallsAre, LeafRead
  <2>11. CASE Need(s, Compound(fr))
    BY <2>2, <2>3, <2>4, <2>9, <2>11, CallsAre, Begins
  <2> QED BY <2>2, <2>10, <2>11
<1>2. CASE AfterListElement
  <2> DEFINE body == WithPre(p, val, Top.snap)
             part == AddPart(Top, body)
             q == AfterPre(p, val, Top.snap)
             fr == Hold(part, Inline(q, body))
             rest == DropInline(q, body)
             r == Skip(rest)
             trailing == {c \in Elements(r.pending) : c.line > body.end /\ c.end < toks[r.pos].line}
             s == Unclaimed(r, 0, trailing)
             last == Hold(fr, Claimed(r, 0, trailing))
             t == Advance(r)
             next == [t EXCEPT !.ctx = Top.col]
             u == Advance(s)
  <2>1. Resumes("list") /\ (Need(next, Swap(fr)) \/ Return(u, Pop, Close(last, u)) \/ Fail(s))
    BY <1>2, Zenon DEF AfterListElement
  <2>2. Top.snap \in Nat /\ Top.col \in Nat
    BY <2>1, Resumed, FrameParts
  <2>3. Whole(part) /\ Grown(part, Top, val.sub) /\ part.fn = "list" /\ Reaches(p, q) /\ OK(q)
    BY <2>1, <2>2, Attaches
  <2> HIDE DEF part, q, trailing
  <2>4. Whole(fr) /\ Grown(fr, Top, val.sub) /\ fr.fn = "list"
    BY <2>3, HoldGrown
  <2> HIDE DEF fr
  <2>5. Grown(last, Top, val.sub)
    BY <2>4, HoldGrown
  <2> HIDE DEF last
  <2>6. Reaches(p, rest) /\ OK(rest)
    BY <1>0, <1>a, <2>3, ClaimReaches, ReachesOn DEF Reaches
  <2> HIDE DEF rest, body
  <2>7. Reaches(p, r) /\ OK(r)
    BY <1>0, <2>6, Onward, ReachesOn
  <2> HIDE DEF r
  <2>8. Reaches(p, s) /\ OK(s)
    BY <1>0, <1>a, <2>7, ClaimReaches, ReachesOn DEF Reaches
  <2> HIDE DEF s
  <2>9. Reaches(p, u)
    BY <1>0, <2>8, AdvanceReaches, ReachesOn
  <2>10. Reaches(p, t) /\ OK(t)
    BY <1>0, <2>7, AdvanceReaches, ReachesOn
  <2> HIDE DEF t, u
  <2>11. Reaches(p, next)
    BY <1>0, <2>2, <2>10, ContextReaches, ReachesOn
  <2> HIDE DEF next
  <2>12. CASE Need(next, Swap(fr))
    BY <1>a, <2>1, <2>4, <2>11, <2>12, Absorbed
  <2>13. CASE Return(u, Pop, Close(last, u))
    BY <2>1, <2>5, <2>9, <2>13, Absorbed
  <2> QED BY <2>1, <2>12, <2>13, Stops
<1> QED BY <1>1, <1>2
-----------------------------------------------------------------------------
(* Records.                                                                *)

LEMMA RecordSpans ==
  ASSUME IInv, SpanInv, RecordAtom \/ ParseSetter \/ AfterSetterValue
  PROVE  SpanInv'
<1>0. Stream /\ Ordered /\ OK(p) /\ Reaches(p, p) /\ val \in Node
  BY Reading
<1>a. "access" \in Passing /\ "record" \notin Marked /\ "setter" \in Naming /\ 0 \in Nat
  BY DEF Passing, Marked, Naming
<1>1. CASE RecordAtom
  <2> DEFINE q == Skip(p)
             open == Advance(q)
             r == Skip(open)
             t == Advance(r)
             s == Skip(t)
             u == Advance(s)
             back == [s EXCEPT !.pos = r.pos, !.raw = FALSE]
             Frm(lim) == [New("record", Here(q)) EXCEPT !.col = HereCol(q), !.lim = lim]
             one == Frm(Here(s))
             all == Frm(Here(q))
  <2>1. /\ Peek(q) = "{" => Solid(q)
        /\ Peek(r) = "}" => Solid(r)
        /\ Peek(r) = "lower" => Solid(r)
        /\ Peek(s) = "|" => Solid(s)
    BY Solids, Zenon
  <2>2. /\ ctl \in Calls /\ Solid(q)
        /\ \/ Solid(r) /\ GotoWith(t, calls, "access", Leaf(Here(q), t))
           \/ Solid(r) /\ Solid(s) /\ Goto(u, Compound(one), "setter")
           \/ Solid(r) /\ Goto(back, Compound(all), "setter")
           \/ Goto(r, Compound(all), "setter")
    BY <1>1, <2>1, Zenon DEF RecordAtom, Calls
  <2>3. Opening(one, Here(q)) /\ Opening(all, Here(q))
    BY <1>a DEF Opening, New
  <2>4. back = Back(r)
    BY DEF Back
  <2>5. Reaches(p, q) /\ OK(q)
    BY <1>0, Onward
  <2> HIDE DEF one, all, Frm, q, back
  <2>6. Passes(q, open) /\ OK(open)
    BY <1>0, <2>2, <2>5, Onward
  <2> HIDE DEF open
  <2>7. Passes(q, r) /\ Reaches(q, r) /\ OK(r)
    BY <1>0, <2>6, Onward, ReachesOn
  <2> HIDE DEF r
  <2>8. Solid(r) => Reaches(q, back)
    BY <1>0, <2>4, <2>7, BackReaches, ReachesOn
  <2>9. Solid(r) => Passes(q, t) /\ OK(t)
    BY <1>0, <2>7, Onward, ReachesOn
  <2> HIDE DEF t
  <2>10. Solid(r) => Passes(q, s) /\ OK(s)
    BY <1>0, <2>9, Onward, ReachesOn
  <2> HIDE DEF s
  <2>11. Solid(r) /\ Solid(s) => Reaches(q, u)
    BY <1>0, <2>10, Onward, ReachesOn
  <2> HIDE DEF u
  <2>12. CASE Solid(r) /\ GotoWith(t, calls, "access", Leaf(Here(q), t))
    BY <1>a, <2>2, <2>5, <2>9, <2>12, CallsAre, LeafRead
  <2>13. CASE Solid(r) /\ Solid(s) /\ Goto(u, Compound(one), "setter")
    BY <1>a, <2>2, <2>3, <2>5, <2>11, <2>13, CallsAre, Begins
  <2>14. CASE Solid(r) /\ Goto(back, Compound(all), "setter")
    BY <1>a, <2>2, <2>3, <2>5, <2>8, <2>14, CallsAre, Begins
  <2>15. CASE Goto(r, Compound(all), "setter")
    BY <1>a, <2>2, <2>3, <2>5, <2>7, <2>15, CallsAre, Begins
  <2> QED BY <2>2, <2>12, <2>13, <2>14, <2>15
<1>2. CASE ParseSetter
  <2> DEFINE q == Skip(p)
             t == Advance(q)
             r == Skip(t)
             u == Advance(r)
             s == [u EXCEPT !.ctx = Top.col]
             fr == [Top EXCEPT !.mark = Here(p)]
  <2>1. ctl = "setter" /\ (Fail(q) \/ Fail(r) \/ Need(s, Swap(fr)))
    BY <1>2, Zenon DEF ParseSetter
  <2>2. Top \in Frame /\ Top.fn = "record" /\ ctl \in Naming
    BY <1>a, <2>1, OwnersAre, Owned
  <2>3. fr.fn = "record" /\ fr.from = Top.from /\ fr.mark = Here(p) /\ fr.chain = Top.chain /\ fr.sub = Top.sub
    BY <2>2 DEF Frame
  <2>4. Top.col \in Nat
    BY <2>2, FrameParts
  <2>5. Reaches(p, q) /\ OK(q)
    BY <1>0, Onward
  <2> HIDE DEF fr, q
  <2>6. Reaches(p, t) /\ OK(t)
    BY <1>0, <2>5, AdvanceReaches, ReachesOn
  <2> HIDE DEF t
  <2>7. Reaches(p, r) /\ OK(r)
    BY <1>0, <2>6, Onward, ReachesOn
  <2> HIDE DEF r
  <2>8. Reaches(p, u) /\ OK(u)
    BY <1>0, <2>7, AdvanceReaches, ReachesOn
  <2> HIDE DEF u
  <2>9. Reaches(p, s)
    BY <1>0, <2>4, <2>8, ContextReaches, ReachesOn
  <2> HIDE DEF s
  <2>10. CASE Need(s, Swap(fr))
    BY <2>2, <2>3, <2>9, <2>10, NameSpans
  <2> QED BY <2>1, <2>10, Stops
<1>3. CASE AfterSetterValue
  <2> DEFINE a == DropTrailing(p, val)
             leading == Between(a, Top.lim, Top.mark)
             b == Unclaimed(a, 0, leading)
             inner == Between(b, Top.mark - 1, val.from)
             c == Unclaimed(b, 0, inner)
             value == Lead(val, Claimed(b, 0, inner))
             kept == Carried(value) \o Trailing(p, val)
             setter == SpanNode(Top.mark, c, kept, val.sub)
             field == Lead(setter, Claimed(a, 0, leading))
             part == AddPart(Top, field)
             fr == [part EXCEPT !.lim = val.to]
             q == Skip(c)
             r == Advance(q)
  <2>1. Resumes("record") /\ (Goto(r, Swap(fr), "setter") \/ Return(r, Pop, Close(fr, r)) \/ Fail(q))
    BY <1>3, Zenon DEF AfterSetterValue
  <2>2. Reaches(p, a) /\ OK(a)
    BY <1>0, <1>a, ClaimReaches DEF Reaches
  <2> HIDE DEF kept, value
  <2>3. field.sub = val.sub \cup {<<Top.mark, Done(c)>>}
    BY PartNode
  <2> HIDE DEF a, leading, field
  <2>4. Reaches(p, b) /\ OK(b)
    BY <1>0, <1>a, <2>2, ClaimReaches, ReachesOn DEF Reaches
  <2> HIDE DEF b, inner
  <2>5. Reaches(p, c) /\ OK(c)
    BY <1>0, <1>a, <2>4, ClaimReaches, ReachesOn DEF Reaches
  <2> HIDE DEF c
  <2>6. Whole(part) /\ Grown(part, Top, field.sub) /\ part.fn = "record"
    BY <2>1, PartGrown
  <2> HIDE DEF part
  <2>7. /\ fr.fn = "record" /\ fr.from = Top.from /\ fr.mark = Top.mark /\ fr.chain = Top.chain
        /\ fr.sub = Top.sub \cup val.sub \cup {<<Top.mark, Done(c)>>}
    BY <2>3, <2>6 DEF Whole, Grown
  <2> HIDE DEF fr
  <2>8. Reaches(c, q) /\ OK(q)
    BY <1>0, <2>5, Onward
  <2> HIDE DEF q
  <2>9. Reaches(c, r)
    BY <1>0, <2>8, AdvanceReaches, ReachesOn
  <2> HIDE DEF r
  <2>10. CASE Goto(r, Swap(fr), "setter")
    BY <1>a, <2>1, <2>5, <2>7, <2>9, <2>10, FieldSpans
  <2>11. CASE Return(r, Pop, Close(fr, r))
    BY <2>1, <2>5, <2>7, <2>9, <2>11, FieldSpans
  <2> QED BY <2>1, <2>10, <2>11, Stops
<1> QED BY <1>1, <1>2, <1>3
-----------------------------------------------------------------------------
(* Conditions.                                                             *)

(* Spans from places that split the family, all to the end of it.          *)
LEMMA WithinSpans ==
  ASSUME NEW S, NEW lo, NEW hi, Within(S, lo, hi), NEW to \in Nat, hi <= to + 1, NEW T,
         \A y \in T : y \in Span /\ y[2] = to /\ Splits(y[1], S) /\ lo <= y[1] /\ y[1] <= to
  PROVE  Within(S \cup T, lo, to + 1)
<1>1. \A x \in S : x[1] \in Nat /\ x[2] \in Nat /\ lo <= x[1] /\ x[1] <= x[2] /\ x[2] <= to
  BY DEF Within, Span
<1>2. \A y \in T : y[2] = to /\ y \in Span /\ y[1] \in Nat /\ lo <= y[1] /\ y[1] <= to
  BY DEF Splits
<1>3. \A x \in S, y \in T : Nested(x, y) /\ Nested(y, x)
  <2> SUFFICES ASSUME NEW x \in S, NEW y \in T PROVE Nested(x, y) /\ Nested(y, x)
    OBVIOUS
  <2>1. x[2] < y[1] \/ y[1] <= x[1]
    BY <1>2 DEF Splits
  <2> QED BY <1>1, <1>2, <2>1 DEF Nested
<1>4. \A x, y \in T : Nested(x, y)
  BY <1>2 DEF Nested
<1>5. \A x, y \in S : Nested(x, y)
  BY DEF Within
<1>6. \A x, y \in S \cup T : Nested(x, y)
  BY <1>3, <1>4, <1>5, Zenon
<1>7. \A x \in S \cup T : lo <= x[1] /\ x[1] <= x[2] /\ x[2] < to + 1
  BY <1>1, <1>2
<1>8. S \cup T \subseteq Span /\ lo \in Nat /\ to + 1 \in Nat
  BY <1>2 DEF Within
<1> QED BY <1>6, <1>7, <1>8 DEF Within

LEMMA IfSpans ==
  ASSUME IInv, SpanInv, IfAtom \/ AfterCondition \/ AfterThen \/ AfterElse
  PROVE  SpanInv'
<1>0. Stream /\ Ordered /\ OK(p) /\ Reaches(p, p) /\ val \in Node
  BY Reading
<1>a. "ifCond" \notin Marked \cup Parted /\ "then" \notin Special /\ "else" \notin Special /\ "elifCond" \notin Special
  BY DEF Marked, Parted, Special
<1>1. CASE IfAtom
  <2> DEFINE q == Skip(p)
             r == Advance(q)
             fr == [New("ifCond", Here(q)) EXCEPT !.snap = Snapshot(r), !.chain = <<Here(q)>>]
  <2>1. ctl \in Calls /\ Need(r, Compound(fr))
    BY <1>1, Zenon DEF IfAtom, Calls
  <2>2. Opening(fr, Here(q)) /\ fr.fn = "ifCond"
    BY <1>a DEF Opening, New
  <2>3. Reaches(p, q) /\ OK(q)
    BY <1>0, Onward
  <2> HIDE DEF fr, q
  <2>4. Reaches(q, r)
    BY <1>0, <2>3, AdvanceReaches
  <2> HIDE DEF r
  <2> QED BY <2>1, <2>2, <2>3, <2>4, CallsAre, Begins
<1>2. CASE AfterCondition
  <2> DEFINE first == Top.fn = "ifCond"
             cond == IF first THEN WithPre(p, val, Top.snap) ELSE val
             a == IF first THEN AfterPre(p, val, Top.snap) ELSE p
             q == Skip(a)
             r == Advance(q)
             s == Skip(r)
             part == AddPart(Top, cond)
             fr == [part EXCEPT !.fn = "then", !.snap = Snapshot(r)]
  <2>1. (Resumes("ifCond") \/ Resumes("elifCond")) /\ (Need(s, Swap(fr)) \/ Fail(q))
    BY <1>2, Zenon DEF AfterCondition
  <2>2. PICK fn : Resumes(fn) /\ fn \notin {"binary", "access"}
    BY <2>1
  <2>3. Top.snap \in Nat
    BY <2>2, Resumed, FrameParts
  <2>4. cond.sub = val.sub
    BY <1>0, LeadSame DEF SameSpan
  <2>5. Whole(part) /\ Grown(part, Top, cond.sub)
    BY <2>2, PartGrown
  <2> HIDE DEF part, cond
  <2>6. Grown(fr, Top, val.sub) /\ fr.fn = "then"
    BY <2>4, <2>5 DEF Grown, Whole
  <2>7. Reaches(p, a) /\ OK(a)
    BY <1>0, <2>2, <2>3, Attaches
  <2> HIDE DEF fr, a
  <2>8. Reaches(p, q) /\ OK(q)
    BY <1>0, <2>7, Onward, ReachesOn
  <2> HIDE DEF q
  <2>9. Reaches(p, r) /\ OK(r)
    BY <1>0, <2>8, AdvanceReaches, ReachesOn
  <2> HIDE DEF r
  <2>10. Reaches(p, s)
    BY <1>0, <2>9, Onward, ReachesOn
  <2> HIDE DEF s
  <2>11. CASE Need(s, Swap(fr))
    BY <1>a, <2>2, <2>6, <2>10, <2>11, Absorbed
  <2> QED BY <2>1, <2>11, Stops
<1>3. CASE AfterThen
  <2> DEFINE a == AfterPre(p, val, Top.snap)
             q == Skip(a)
             r == Advance(q)
             s == DropSince(r, Top.snap)
             t == Skip(s)
             u == Advance(t)
             part == AddPart(Top, WithPre(p, val, Top.snap))
             fr == Hold(part, Since(r, Top.snap))
             elif == [fr EXCEPT !.fn = "elifCond", !.chain = Append(@, Here(t))]
             else == [fr EXCEPT !.fn = "else", !.snap = Snapshot(s)]
  <2>1. Resumes("then") /\ (Fail(q) \/ Need(u, Swap(elif)) \/ Need(t, Swap(else)))
    BY <1>3, Zenon DEF AfterThen
  <2>2. Top.snap \in Nat /\ Top.chain \in Seq(Nat)
    BY <2>1, Resumed, FrameParts
  <2>3. Whole(part) /\ Grown(part, Top, val.sub) /\ Reaches(p, a) /\ OK(a)
    BY <2>1, <2>2, Attaches
  <2> HIDE DEF part
  <2>4. Whole(fr) /\ Grown(fr, Top, val.sub)
    BY <2>3, HoldGrown
  <2> HIDE DEF fr, a
  <2>5. Grown(else, Top, val.sub) /\ else.fn = "else"
    BY <2>4 DEF Grown, Whole
  <2>6. /\ elif.fn = "elifCond" /\ elif.from = fr.from /\ elif.mark = fr.mark /\ elif.sub = fr.sub
        /\ elif.chain = Append(Top.chain, Here(t))
    BY <2>4 DEF Grown, Whole
  <2> HIDE DEF elif, else
  <2>7. Reaches(p, q) /\ OK(q)
    BY <1>0, <2>3, Onward, ReachesOn
  <2> HIDE DEF q
  <2>8. Reaches(p, r) /\ OK(r)
    BY <1>0, <2>7, AdvanceReaches, ReachesOn
  <2> HIDE DEF r
  <2>9. Reaches(p, s) /\ OK(s)
    BY <1>0, <2>2, <2>8, ClaimReaches, ReachesOn DEF Reaches
  <2> HIDE DEF s
  <2>10. Reaches(p, t) /\ OK(t)
    BY <1>0, <2>9, Onward, ReachesOn
  <2> HIDE DEF t
  <2>11. Reaches(t, u)
    BY <1>0, <2>10, AdvanceReaches
  <2> HIDE DEF u
  <2>12. CASE Need(t, Swap(else))
    BY <1>a, <2>1, <2>5, <2>10, <2>12, Absorbed
  <2>13. CASE Need(u, Swap(elif))
    <3>1. PICK f, lo, m \in Nat : Waiting(Pop, f, lo) /\ Seg(Top, lo, m) /\ Carries(p, val, m) /\ Top.fn = "then"
      BY <2>1, Resting
    <3> DEFINE d == Done(t) + 1
               h == Here(t)
    <3>2. Shape(fr, lo, d) /\ d \in Nat /\ d <= h /\ lo \in Nat
      BY <2>4, <2>10, <3>1, Takes
    <3>3. h \in Nat /\ lo <= lo /\ h <= h /\ h <= Here(u)
      BY <2>11, <3>2 DEF Reaches
    <3> HIDE DEF d, h
    <3>4. Grown(fr, fr, {})
      BY DEF Grown
    <3>5. Shape(fr, lo, h)
      BY <3>2, <3>3, <3>4, ShapeWider
    <3>6. Splits(h, fr.sub) /\ fr.from <= h
      BY <3>2, <3>3, <3>5, SplitsAfter DEF Shape
    <3>7. \A c \in Elements(elif.chain) : c \in Elements(fr.chain) \/ c = h
      <4>1. elif.chain = Append(Top.chain, h) /\ fr.chain = Top.chain
        BY <2>4, <2>6 DEF Grown, h
      <4>2. Top.chain \in Seq(Nat) /\ h \in Nat /\ Len(Top.chain) \in Nat
        BY <2>2, <3>3
      <4> QED BY <4>1, <4>2, AppendProperties DEF Elements
    <3>8. \A c \in Elements(elif.chain) : elif.from <= c /\ c <= h /\ Splits(c, elif.sub)
      BY <2>6, <3>3, <3>5, <3>6, <3>7 DEF Shape
    <3>9. Shape(elif, lo, h)
      BY <2>6, <3>5, <3>8 DEF Shape
    <3>10. Seg(elif, lo, h) /\ Live(elif)
      BY <1>a, <2>6, <3>9, PlainSeg DEF Live
    <3>11. Waiting(Swap(elif), f, h)
      BY <3>1, <3>10, Grows DEF Swap
    <3> QED BY <2>13, <3>3, <3>11, Needs
  <2> QED BY <2>1, <2>12, <2>13, Stops
<1>4. CASE AfterElse
  <2> DEFINE q == AfterPre(p, val, Top.snap)
             part == AddPart(Top, WithPre(p, val, Top.snap))
             ifs == Close(part, q)
             n == [ifs EXCEPT !.sub = @ \cup {<<start, ifs.to>> : start \in Elements(Top.chain)}]
             to == Done(q)
  <2>1. Resumes("else") /\ Return(q, Pop, n)
    BY <1>4, Zenon DEF AfterElse
  <2>2. Top.snap \in Nat
    BY <2>1, Resumed, FrameParts
  <2>3. Whole(part) /\ Grown(part, Top, val.sub) /\ Reaches(p, q) /\ OK(q)
    BY <2>1, <2>2, Attaches
  <2> HIDE DEF part, q
  <2>4. PICK f, lo, m \in Nat : Waiting(Pop, f, lo) /\ Seg(Top, lo, m) /\ Carries(p, val, m) /\ Top.fn = "else"
    BY <2>1, Resting
  <2>5. /\ Shape(part, lo, to + 1) /\ to + 1 \in Nat /\ q.pos > 1 /\ part.from <= to
    BY <2>3, <2>4, Takes
  <2>6. /\ n.from = part.from /\ n.to = to
        /\ n.sub = part.sub \cup {<<part.from, to>>} \cup {<<start, to>> : start \in Elements(Top.chain)}
    BY DEF Close, SpanNode, Done
  <2> HIDE DEF n, ifs
  <2> DEFINE C == Elements(Top.chain) \cup {part.from}
             T == {<<c, to>> : c \in C}
  <2>7. n.sub = part.sub \cup T
    BY <2>6
  <2>8. /\ m <= to /\ to \in Nat /\ part.from = Top.from /\ part.chain = Top.chain
        /\ part.from \in Nat /\ lo <= part.from /\ Within(part.sub, part.from, to + 1)
    BY <2>3, <2>4, <2>5 DEF Reaches, Carries, NodeFits, Grown, Shape
  <2>9. \A c \in Elements(Top.chain) : Splits(c, part.sub) /\ part.from <= c /\ c <= to
    <3>1. \A c \in Elements(Top.chain) : c <= m /\ part.from <= c
      BY <2>4, <2>8 DEF Seg, Shape
    <3>2. \A c \in Elements(Top.chain) : Splits(c, part.sub)
      BY <2>5, <2>8 DEF Shape
    <3> QED BY <2>8, <3>1, <3>2 DEF Splits
  <2>10. Splits(part.from, part.sub) /\ part.from <= part.from
    BY <2>8 DEF Splits, Within
  <2>11. \A c \in C : Splits(c, part.sub) /\ part.from <= c /\ c <= to
    BY <2>5, <2>9, <2>10
  <2>12. to + 1 <= to + 1
    BY <2>8
  <2>a. \A y \in T : y \in Span /\ y[2] = to /\ Splits(y[1], part.sub) /\ part.from <= y[1] /\ y[1] <= to
    BY <2>8, <2>11 DEF Span, Splits
  <2> HIDE DEF C, T, to
  <2>13. Within(n.sub, part.from, to + 1)
    <3>1. Within(part.sub, part.from, to + 1) /\ to \in Nat
      BY <2>8
    <3>2. Within(part.sub \cup T, part.from, to + 1)
      BY <3>1, <2>12, <2>a, WithinSpans
    <3> QED BY <2>7, <3>2
  <2>14. Carries(q, n, lo)
    BY <2>5, <2>6, <2>8, <2>13 DEF Carries, NodeFits, to
  <2> QED BY <2>1, <2>4, <2>14, Yields
<1> QED BY <1>1, <1>2, <1>3, <1>4

LEMMA CaseSpans ==
  ASSUME IInv, SpanInv, CaseAtom \/ AfterCaseSubject \/ NextBranch \/ AfterBranchPattern \/ AfterBranchBody
  PROVE  SpanInv'
<1>0. Stream /\ Ordered /\ OK(p) /\ Reaches(p, p) /\ val \in Node
  BY Reading
<1>a. /\ "caseSubject" \notin Marked /\ "casePattern" \notin Special /\ "caseBody" \notin Special
      /\ "branch" \in Closing /\ "pattern" \in Turns /\ "branch" \notin Passing /\ 0 \in Nat
  BY DEF Marked, Parted, Special, Closing, Turns, Calls, Passing
<1> DEFINE q == Skip(p)
           r == Advance(q)
<1>b. Reaches(p, q) /\ OK(q) /\ Reaches(q, r) /\ Reaches(p, r) /\ OK(r)
  <2>1. Reaches(p, q) /\ OK(q)
    BY <1>0, Onward
  <2> HIDE DEF q
  <2> QED BY <1>0, <2>1, AdvanceReaches, ReachesOn
<1>1. CASE CaseAtom
  <2> DEFINE fr == [New("caseSubject", Here(q)) EXCEPT !.col = HereCol(q), !.snap = Snapshot(q)]
  <2>1. ctl \in Calls /\ Need(r, Compound(fr))
    BY <1>1, Zenon DEF CaseAtom, Calls
  <2>2. Opening(fr, Here(q)) /\ fr.fn = "caseSubject"
    BY <1>a DEF Opening, New
  <2> HIDE DEF fr, q, r
  <2> QED BY <1>b, <2>1, <2>2, CallsAre, Begins
<1>2. CASE AfterCaseSubject
  <2> DEFINE s == Skip(r)
             part == AddPart(Top, val)
             fr == [part EXCEPT !.fn = "casePattern", !.n = 0, !.ref = HereCol(s)]
  <2>1. Resumes("caseSubject") /\ (Goto(s, Swap(fr), "branch") \/ Fail(q))
    BY <1>2, Zenon DEF AfterCaseSubject
  <2>2. Whole(part) /\ Grown(part, Top, val.sub)
    BY <2>1, PartGrown
  <2> HIDE DEF part, q, r
  <2>3. Grown(fr, Top, val.sub) /\ fr.fn = "casePattern"
    BY <2>2 DEF Grown, Whole
  <2> HIDE DEF fr
  <2>4. Reaches(p, s)
    BY <1>0, <1>b, Onward, ReachesOn
  <2> HIDE DEF s
  <2>5. CASE Goto(s, Swap(fr), "branch")
    BY <1>a, <2>1, <2>3, <2>4, <2>5, Absorbed
  <2> QED BY <2>1, <2>5, Stops
<1>3. CASE NextBranch
  <2> DEFINE s == DropSince(q, Top.snap)
             fr == [Top EXCEPT !.lead = Since(q, Top.snap)]
  <2>1. ctl = "branch" /\ (Goto(s, Swap(fr), "pattern") \/ Fail(q) \/ Return(q, Pop, Close(Top, q)))
    BY <1>3, Zenon DEF NextBranch
  <2>2. /\ ctl \in DOMAIN Owners /\ Top \in Frame /\ Top.fn = "casePattern" /\ ctl \in Closing /\ ctl \notin Passing
        /\ Top.fn \notin {"binary", "access"}
    BY <1>a, <2>1, OwnersAre, Owned
  <2>3. Top.snap \in Nat
    BY <2>2, FrameParts
  <2>4. Grown(fr, Top, {}) /\ fr.fn = "casePattern"
    BY <2>2 DEF Grown, Frame
  <2> HIDE DEF q, fr
  <2>5. Reaches(p, s)
    BY <1>0, <1>b, <2>3, ClaimReaches, ReachesOn
  <2> HIDE DEF s
  <2>6. CASE Goto(s, Swap(fr), "pattern")
    BY <1>a, <2>2, <2>4, <2>5, <2>6, CallsAre, Keeps
  <2>7. CASE Return(q, Pop, Close(Top, q))
    BY <1>b, <2>2, <2>7, Ends
  <2> QED BY <2>1, <2>6, <2>7, Stops
<1>4. CASE AfterBranchPattern
  <2> DEFINE pat == IF Top.lead = <<>> THEN val ELSE [val EXCEPT !.cs = Top.lead]
             own == [Top EXCEPT !.sub = @ \cup val.sub, !.lead = <<>>]
             part == Hold(own, Carried(pat))
             s == [r EXCEPT !.ctx = 0]
             fr == [part EXCEPT !.fn = "caseBody", !.body = Snapshot(s)]
  <2>1. Resumes("casePattern") /\ (Need(s, Swap(fr)) \/ Fail(q))
    BY <1>4, Zenon DEF AfterBranchPattern
  <2>2. Whole(Top)
    BY <2>1, Resumed, FramesAreWhole
  <2>3. Whole(own) /\ Grown(own, Top, val.sub)
    BY <2>2 DEF Whole, Grown
  <2> HIDE DEF own, pat, q, r
  <2>4. Whole(part) /\ Grown(part, Top, val.sub)
    BY <2>3, HoldGrown
  <2> HIDE DEF part
  <2>5. Grown(fr, Top, val.sub) /\ fr.fn = "caseBody"
    BY <2>4 DEF Grown, Whole
  <2>6. Reaches(p, s)
    BY <1>0, <1>a, <1>b, ContextReaches, ReachesOn
  <2> HIDE DEF fr, s
  <2>7. CASE Need(s, Swap(fr))
    BY <1>a, <2>1, <2>5, <2>6, <2>7, Absorbed
  <2> QED BY <2>1, <2>7, Stops
<1>5. CASE AfterBranchBody
  <2> DEFINE part == AddPart(Top, WithPre(p, val, Top.body))
             a == AfterPre(p, val, Top.body)
             fr == [part EXCEPT !.fn = "casePattern"]
  <2>1. Resumes("caseBody") /\ Goto(a, Swap(fr), "branch")
    BY <1>5 DEF AfterBranchBody
  <2>2. Top.body \in Nat
    BY <2>1, Resumed, FrameParts
  <2>3. Whole(part) /\ Grown(part, Top, val.sub) /\ Reaches(p, a)
    BY <2>1, <2>2, Attaches
  <2> HIDE DEF part, a
  <2>4. Grown(fr, Top, val.sub) /\ fr.fn = "casePattern"
    BY <2>3 DEF Grown, Whole
  <2> HIDE DEF fr
  <2> QED BY <1>a, <2>1, <2>3, <2>4, Absorbed
<1> QED BY <1>1, <1>2, <1>3, <1>4, <1>5

LEMMA LambdaSpans == ASSUME IInv, SpanInv, LambdaNext PROVE SpanInv'
<1>0. Stream /\ Ordered /\ OK(p) /\ Reaches(p, p) /\ val \in Node
  BY Reading
<1>a. /\ "lambda" \notin Marked /\ "lambda" \notin Special /\ "lambdaBody" \notin Special
      /\ "lambdaArgs" \in Turns /\ "pattern" \in Turns /\ "lambdaArgs" \notin Passing \cup Naming
  BY DEF Marked, Parted, Special, Turns, Calls, Passing, Naming
<1> DEFINE q == Skip(p)
           r == Advance(q)
<1>b. Reaches(p, q) /\ OK(q) /\ Reaches(q, r) /\ Reaches(p, r)
  <2>1. Reaches(p, q) /\ OK(q)
    BY <1>0, Onward
  <2> HIDE DEF q
  <2> QED BY <1>0, <2>1, AdvanceReaches, ReachesOn
<1>1. CASE LambdaAtom
  <2> DEFINE fr == New("lambda", Here(q))
  <2>1. ctl \in Calls /\ Goto(r, Compound(fr), "lambdaArgs")
    BY <1>1, Zenon DEF LambdaAtom, Calls
  <2>2. Opening(fr, Here(q)) /\ fr.fn = "lambda"
    BY <1>a, NewOpens
  <2> HIDE DEF fr, q, r
  <2> QED BY <1>a, <1>b, <2>1, <2>2, CallsAre, Begins
<1>2. CASE LambdaArguments
  <2> DEFINE fr == [Top EXCEPT !.fn = "lambdaBody", !.body = Snapshot(r)]
  <2>1. ctl = "lambdaArgs" /\ (Goto(q, calls, "pattern") \/ Fail(q) \/ Need(r, Swap(fr)))
    BY <1>2, Zenon DEF LambdaArguments
  <2>2. /\ ctl \in DOMAIN Owners /\ Top \in Frame /\ Top.fn = "lambda" /\ ctl \notin Passing \cup Naming
        /\ ctl # "error" /\ ctl \notin Passing
    BY <1>a, <2>1, OwnersAre, Owned
  <2>3. Grown(fr, Top, {}) /\ fr.fn = "lambdaBody"
    BY <2>2 DEF Grown, Frame
  <2> HIDE DEF q, r, fr
  <2>4. CASE Goto(q, calls, "pattern")
    BY <1>a, <1>b, <2>2, <2>4, CallsAre, Proceeds
  <2>5. CASE Need(r, Swap(fr))
    BY <1>a, <1>b, <2>2, <2>3, <2>5, Keeps
  <2> QED BY <2>1, <2>4, <2>5, Stops
<1>3. CASE AfterLambdaArgument
  <2> DEFINE fr == AddPart(Top, val)
  <2>1. Resumes("lambda") /\ Goto(p, Swap(fr), "lambdaArgs")
    BY <1>3 DEF AfterLambdaArgument
  <2>2. Grown(fr, Top, val.sub) /\ fr.fn = "lambda"
    BY <2>1, PartGrown
  <2> HIDE DEF fr
  <2> QED BY <1>0, <1>a, <2>1, <2>2, Absorbed
<1>4. CASE AfterLambdaBody
  <2> DEFINE fr == AddPart(Top, WithPre(p, val, Top.body))
             a == AfterPre(p, val, Top.body)
  <2>1. Resumes("lambdaBody") /\ Return(a, Pop, Close(fr, a))
    BY <1>4 DEF AfterLambdaBody
  <2>2. Top.body \in Nat
    BY <2>1, Resumed, FrameParts
  <2>3. Grown(fr, Top, val.sub) /\ Reaches(p, a)
    BY <2>1, <2>2, Attaches
  <2> HIDE DEF fr, a
  <2> QED BY <2>1, <2>3, Absorbed
<1> QED BY <1>1, <1>2, <1>3, <1>4 DEF LambdaNext
-----------------------------------------------------------------------------
(* let ... in.                                                             *)

(* The next declaration starts at q.                                       *)
LEMMA DeclBegins ==
  ASSUME IInv, SpanInv, ctl \in DOMAIN Owners, ctl \notin Passing, Top.fn = "let",
         NEW q, Reaches(p, q), NEW r, Reaches(q, r),
         NEW fr, fr.from = Top.from, fr.sub = Top.sub, fr.chain = Top.chain, fr.mark = Here(q),
         fr.fn \in {"letSig", "letArgs", "letPattern"}, fr.fn = "letArgs" => fr.lim = Here(q),
         NEW c \in Turns, Goto(r, Swap(fr), c)
  PROVE  SpanInv'
<1>1. PICK f, lo, m \in Nat : Waiting(Pop, f, lo) /\ Seg(Top, lo, m) /\ m <= Here(p)
  BY Owning
<1>2. fr.fn \in Parted /\ fr.fn \notin {"record", "typeFields"} /\ Top.fn \in Parted /\ Top.fn \notin {"binary", "access"}
  BY DEF Parted, Marked
<1>3. Shape(Top, lo, m) /\ fr.chain = <<>>
  BY <1>1, <1>2 DEF Seg
<1> DEFINE h == Here(q)
<1>4. h \in Nat /\ m <= h /\ h <= Here(r)
  BY <1>1 DEF Reaches
<1>5. fr.mark = h /\ (fr.fn = "letArgs" => fr.lim = h) /\ h <= h
  BY <1>4
<1> HIDE DEF h
<1>6. Shape(fr, lo, h) /\ fr.from <= fr.mark /\ Splits(h, fr.sub)
  BY <1>3, <1>4, <1>5, MarkShape
<1>7. fr.fn \in {"letArgs", "letValue"} => fr.lim = 0 \/ (fr.mark <= fr.lim /\ fr.lim <= h /\ Splits(fr.lim, fr.sub))
  BY <1>5, <1>6
<1>8. Seg(fr, lo, h) /\ Live(fr)
  BY <1>2, <1>3, <1>6, <1>7, PartedSeg DEF Live
<1>9. Waiting(Swap(fr), f, h)
  BY <1>1, <1>8, Grows DEF Swap
<1> QED BY <1>4, <1>9, CallsAre, Continues

(* A part of the declaration is read, and the next one called for.         *)
LEMMA DeclGrows ==
  ASSUME IInv, SpanInv, NEW fn, Resumes(fn), fn \in Marked, NEW q, Reaches(p, q), NEW r, Reaches(q, r),
         NEW fr, Grown(fr, Top, val.sub), fr.fn \in Marked,
         \/ fr.fn \notin {"letArgs", "letValue"} \/ fr.lim = 0 \/ fr.lim = Here(q)
         \/ fr.lim = Top.lim /\ fn \in {"letArgs", "letValue"}
  PROVE  /\ Need(r, Swap(fr)) => SpanInv'
         /\ \A c \in Turns : Goto(r, Swap(fr), c) => SpanInv'
<1>1. PICK f, lo, m \in Nat : Waiting(Pop, f, lo) /\ Seg(Top, lo, m) /\ Carries(p, val, m) /\ Top.fn = fn
  BY Resting
<1>2. /\ Top.fn \notin {"binary", "access"} /\ fn \in Parted /\ fr.fn \in Parted /\ fr.fn \notin {"record", "typeFields"}
  BY <1>1 DEF Parted, Marked
<1> DEFINE h == Here(q)
           hi == Done(q) + 1
<1>3. Shape(fr, lo, hi) /\ hi \in Nat /\ hi <= h
  BY <1>1, <1>2, Takes
<1>4. h \in Nat /\ h <= Here(r) /\ lo \in Nat
  BY <1>1 DEF Reaches
<1>5. m <= val.from /\ val.from \in Nat /\ m <= hi /\ m \in Nat
  BY <1>1 DEF Carries, NodeFits, Reaches
<1> HIDE DEF h, hi
<1>6. Grown(fr, fr, {}) /\ lo <= lo
  BY <1>4 DEF Grown
<1>7. Shape(fr, lo, h)
  BY <1>3, <1>4, <1>6, ShapeWider
<1>8. fr.chain = <<>> /\ fr.from <= fr.mark /\ fr.mark <= hi /\ fr.mark \in Nat
  BY <1>1, <1>2, <1>3 DEF Seg, Grown, Shape, Splits
<1>9. Within(fr.sub, fr.from, hi)
  BY <1>3 DEF Shape
<1>10. ASSUME fr.fn \in {"letArgs", "letValue"}
       PROVE  fr.lim = 0 \/ (fr.mark <= fr.lim /\ fr.lim <= h /\ Splits(fr.lim, fr.sub))
  <2>1. CASE fr.lim = h
    <3>1. Splits(h, fr.sub) /\ h <= h
      BY <1>3, <1>4, <1>9, SplitsAfter
    <3> QED BY <1>3, <1>4, <1>8, <2>1, <3>1
  <2>2. CASE fr.lim = Top.lim /\ fn \in {"letArgs", "letValue"} /\ fr.lim # 0
    <3>1. Top.mark <= fr.lim /\ fr.lim <= m /\ Splits(fr.lim, Top.sub)
      BY <1>1, <2>2 DEF Seg
    <3>2. fr.lim \in Nat
      BY <3>1 DEF Splits
    <3>3. fr.lim <= val.from /\ Within(val.sub, val.from, val.to + 1)
      BY <1>1, <1>5, <3>1, <3>2 DEF Carries, NodeFits
    <3>4. Splits(fr.lim, Top.sub \cup val.sub)
      BY <3>1, <3>3, SplitsUnion
    <3> QED BY <1>3, <1>4, <1>5, <3>1, <3>2, <3>4 DEF Grown
  <2> QED BY <1>10, <2>1, <2>2 DEF h
<1>11. Seg(fr, lo, h) /\ Live(fr)
  BY <1>2, <1>7, <1>8, <1>10, PartedSeg DEF Live
<1>12. Waiting(Swap(fr), f, h)
  BY <1>1, <1>11, Grows DEF Swap
<1> QED BY <1>4, <1>12, CallsAre, Continues, Needs

LEMMA LetHeadSpans ==
  ASSUME IInv, SpanInv, LetAtom \/ EndOfLet \/ NextLetDecl \/ LetName \/ AfterLetBody
  PROVE  SpanInv'
<1>0. Stream /\ Ordered /\ OK(p) /\ Reaches(p, p) /\ val \in Node
  BY Reading
<1>a. /\ "let" \notin Marked /\ "letBody" \notin Special /\ 0 \in Nat
      /\ {"letNext", "letArgs", "letName", "pattern", "signature"} \subseteq Turns
      /\ "letNext" \notin Passing /\ "letName" \notin Passing \cup Naming
  BY DEF Marked, Parted, Special, Turns, Calls, Passing, Naming
<1> DEFINE q == Skip(p)
           r == Advance(q)
<1>b. Reaches(p, q) /\ OK(q) /\ Reaches(q, r) /\ Reaches(p, r) /\ OK(r)
  <2>1. Reaches(p, q) /\ OK(q)
    BY <1>0, Onward
  <2> HIDE DEF q
  <2> QED BY <1>0, <2>1, AdvanceReaches, ReachesOn
<1>1. CASE LetAtom
  <2> DEFINE s == Skip(r)
             fr == [New("let", Here(q)) EXCEPT !.col = HereCol(q), !.ref = HereCol(s), !.snap = Snapshot(q)]
  <2>1. ctl \in Calls /\ Goto(s, Compound(fr), "letNext")
    BY <1>1, Zenon DEF LetAtom, Calls
  <2>2. Opening(fr, Here(q)) /\ fr.fn = "let"
    BY <1>a DEF Opening, New
  <2> HIDE DEF fr, q, r
  <2>3. Reaches(q, s)
    BY <1>0, <1>b, Onward, ReachesOn
  <2> HIDE DEF s
  <2> QED BY <1>a, <1>b, <2>1, <2>2, <2>3, CallsAre, Begins
<1>2. CASE EndOfLet
  <2> DEFINE d == DropSince(q, Top.snap)
             e == Advance(d)
             s == [e EXCEPT !.ctx = 0]
             held == Hold(Top, Since(q, Top.snap))
             fr == [held EXCEPT !.fn = "letBody", !.body = Snapshot(s)]
  <2>1. ctl = "letNext" /\ (Need(s, Swap(fr)) \/ Fail(d))
    BY <1>2, Zenon DEF EndOfLet
  <2>2. ctl \in DOMAIN Owners /\ Top \in Frame /\ Top.fn = "let" /\ Top.fn \notin {"binary", "access"}
    BY <2>1, OwnersAre, Owned
  <2>3. Top.snap \in Nat /\ Whole(Top) /\ Grown(Top, Top, {})
    BY <2>2, FrameParts, FramesAreWhole
  <2>4. Whole(held) /\ Grown(held, Top, {})
    BY <2>3, HoldGrown
  <2> HIDE DEF held, q
  <2>5. Reaches(p, d) /\ OK(d)
    BY <1>0, <1>b, <2>3, ClaimReaches, ReachesOn DEF Reaches
  <2> HIDE DEF d
  <2>6. Reaches(p, e) /\ OK(e)
    BY <1>0, <2>5, AdvanceReaches, ReachesOn
  <2> HIDE DEF e
  <2>7. Reaches(p, s)
    BY <1>0, <1>a, <2>6, ContextReaches, ReachesOn
  <2> HIDE DEF s
  <2>8. Grown(fr, Top, {}) /\ fr.fn = "letBody"
    BY <2>4 DEF Grown, Whole
  <2> HIDE DEF fr
  <2>9. CASE Need(s, Swap(fr))
    BY <1>a, <2>1, <2>2, <2>7, <2>8, <2>9, Keeps
  <2> QED BY <2>1, <2>9, Stops
<1>3. CASE NextLetDecl
  <2> DEFINE d == DropSince(q, Top.snap)
             fr == [Top EXCEPT !.lead = Since(q, Top.snap), !.mark = Here(q)]
             sig == [fr EXCEPT !.fn = "letSig"]
             fun == [fr EXCEPT !.fn = "letArgs", !.lim = Here(q)]
             pat == [fr EXCEPT !.fn = "letPattern"]
  <2>1. /\ ctl = "letNext"
        /\ Goto(d, Swap(sig), "signature") \/ Goto(d, Swap(fun), "letName") \/ Goto(d, Swap(pat), "pattern")
    BY <1>3, Zenon DEF NextLetDecl
  <2>2. ctl \in DOMAIN Owners /\ Top \in Frame /\ Top.fn = "let"
    BY <2>1, OwnersAre, Owned
  <2>3. Top.snap \in Nat
    BY <2>2, FrameParts
  <2>4. Reaches(q, d)
    BY <1>0, <1>b, <2>3, ClaimReaches
  <2> HIDE DEF q, d
  <2>5. /\ sig.fn = "letSig" /\ sig.from = Top.from /\ sig.sub = Top.sub /\ sig.chain = Top.chain /\ sig.mark = Here(q)
        /\ fun.fn = "letArgs" /\ fun.from = Top.from /\ fun.sub = Top.sub /\ fun.chain = Top.chain
        /\ fun.mark = Here(q) /\ fun.lim = Here(q)
        /\ pat.fn = "letPattern" /\ pat.from = Top.from /\ pat.sub = Top.sub /\ pat.chain = Top.chain
        /\ pat.mark = Here(q)
    BY <2>2 DEF Frame
  <2> HIDE DEF fr, sig, fun, pat
  <2>6. CASE Goto(d, Swap(sig), "signature")
    BY <1>a, <1>b, <2>1, <2>2, <2>4, <2>5, <2>6, DeclBegins
  <2>7. CASE Goto(d, Swap(fun), "letName")
    BY <1>a, <1>b, <2>1, <2>2, <2>4, <2>5, <2>7, DeclBegins
  <2>8. CASE Goto(d, Swap(pat), "pattern")
    BY <1>a, <1>b, <2>1, <2>2, <2>4, <2>5, <2>8, DeclBegins
  <2> QED BY <2>1, <2>6, <2>7, <2>8
<1>4. CASE LetName
  <2>1. ctl = "letName" /\ (Goto(r, calls, "letArgs") \/ Fail(q))
    BY <1>4, Zenon DEF LetName
  <2>2. ctl \in DOMAIN Owners /\ ctl # "error" /\ ctl \notin Passing \cup Naming
    BY <1>a, <2>1, OwnersAre
  <2> HIDE DEF q, r
  <2>3. CASE Goto(r, calls, "letArgs")
    BY <1>a, <1>b, <2>2, <2>3, CallsAre, Proceeds
  <2> QED BY <2>1, <2>3, Stops
<1>5. CASE AfterLetBody
  <2> DEFINE fr == AddPart(Top, WithPre(p, val, Top.body))
             a == AfterPre(p, val, Top.body)
  <2>1. Resumes("letBody") /\ Return(a, Pop, Close(fr, a))
    BY <1>5 DEF AfterLetBody
  <2>2. Top.body \in Nat
    BY <2>1, Resumed, FrameParts
  <2>3. Grown(fr, Top, val.sub) /\ Reaches(p, a)
    BY <2>1, <2>2, Attaches
  <2> HIDE DEF fr, a
  <2> QED BY <2>1, <2>3, Absorbed
<1> QED BY <1>1, <1>2, <1>3, <1>4, <1>5

LEMMA LetPartSpans ==
  ASSUME IInv, SpanInv, AfterLetSignature \/ LetArguments \/ AfterLetArgument \/ AfterLetPattern
  PROVE  SpanInv'
<1>0. Stream /\ Ordered /\ OK(p) /\ Reaches(p, p) /\ val \in Node
  BY Reading
<1>a. /\ {"letSig", "letArgs", "letPattern", "letValue"} \subseteq Marked /\ 0 \in Nat
      /\ {"letArgs", "letName", "pattern"} \subseteq Turns
      /\ "letArgs" \notin Passing \cup Naming /\ "letArgs" \notin Passing
  BY DEF Marked, Turns, Calls, Passing, Naming
<1> DEFINE q == Skip(p)
           r == Advance(q)
           s == [r EXCEPT !.ctx = 0]
<1>b. Reaches(p, q) /\ OK(q) /\ Reaches(q, r) /\ Reaches(p, r) /\ OK(r) /\ Reaches(q, s)
  <2>1. Reaches(p, q) /\ OK(q)
    BY <1>0, Onward
  <2> HIDE DEF q
  <2>2. Reaches(q, r) /\ OK(r)
    BY <1>0, <2>1, AdvanceReaches
  <2> HIDE DEF r
  <2>3. Reaches(r, s)
    BY <1>0, <1>a, <2>2, ContextReaches
  <2> HIDE DEF s
  <2> QED BY <2>1, <2>2, <2>3, ReachesOn
<1>1. CASE AfterLetSignature
  <2> DEFINE own == [Top EXCEPT !.sub = @ \cup val.sub]
             part == Hold(own, Carried(val))
             fr == [part EXCEPT !.fn = "letArgs", !.lim = Here(q)]
  <2>1. Resumes("letSig") /\ Goto(q, Swap(fr), "letName")
    BY <1>1 DEF AfterLetSignature
  <2>2. Whole(Top)
    BY <2>1, Resumed, FramesAreWhole
  <2>3. Whole(own) /\ Grown(own, Top, val.sub)
    BY <2>2 DEF Whole, Grown
  <2> HIDE DEF own, q
  <2>4. Whole(part) /\ Grown(part, Top, val.sub)
    BY <2>3, HoldGrown
  <2> HIDE DEF part
  <2>5. Grown(fr, Top, val.sub) /\ fr.fn = "letArgs" /\ fr.lim = Here(q)
    BY <2>4 DEF Grown, Whole
  <2> HIDE DEF fr
  <2>6. Reaches(q, q)
    BY <1>b DEF Reaches
  <2> QED BY <1>a, <1>b, <2>1, <2>5, <2>6, DeclGrows
<1>2. CASE LetArguments
  <2> DEFINE fr == [Top EXCEPT !.fn = "letValue", !.body = Snapshot(s)]
  <2>1. ctl = "letArgs" /\ (Goto(q, calls, "pattern") \/ Need(s, Swap(fr)) \/ Fail(q))
    BY <1>2, Zenon DEF LetArguments, NeedLetValue
  <2>2. /\ ctl \in DOMAIN Owners /\ Top \in Frame /\ Top.fn = "letArgs" /\ ctl # "error"
        /\ ctl \notin Passing \cup Naming /\ ctl \notin Passing
    BY <1>a, <2>1, OwnersAre, Owned
  <2> HIDE DEF q, r, s
  <2>3. /\ fr.fn = "letValue" /\ fr.from = Top.from /\ fr.sub = Top.sub /\ fr.chain = Top.chain
        /\ fr.mark = Top.mark /\ fr.lim = Top.lim
    BY <2>2 DEF Frame
  <2> HIDE DEF fr
  <2>4. PICK f, lo, m \in Nat : Waiting(Pop, f, lo) /\ Seg(Top, lo, m) /\ m <= Here(p)
    BY <2>2, Owning
  <2>5. /\ fr.fn \in Parted /\ fr.fn \notin {"record", "typeFields"} /\ Top.fn \in Parted
        /\ Top.fn \in Marked /\ Top.fn \notin {"binary", "access"}
    BY <2>2, <2>3 DEF Parted, Marked
  <2>6. /\ Shape(Top, lo, m) /\ Top.chain = <<>> /\ Top.from <= Top.mark
        /\ Top.lim = 0 \/ (Top.mark <= Top.lim /\ Top.lim <= m /\ Splits(Top.lim, Top.sub))
    BY <2>2, <2>4, <2>5 DEF Seg
  <2>7. Shape(fr, lo, m)
    BY <2>3, <2>6 DEF Shape
  <2>8. Seg(fr, lo, m) /\ Live(fr)
    BY <2>3, <2>5, <2>6, <2>7, PartedSeg DEF Live
  <2>9. Waiting(Swap(fr), f, m) /\ m <= Here(s)
    BY <1>b, <2>4, <2>8, Grows DEF Swap, Reaches
  <2>10. CASE Goto(q, calls, "pattern")
    BY <1>a, <1>b, <2>2, <2>10, CallsAre, Proceeds
  <2>11. CASE Need(s, Swap(fr))
    BY <2>9, <2>11, Needs
  <2> QED BY <2>1, <2>10, <2>11, Stops
<1>3. CASE AfterLetArgument
  <2> DEFINE own == [Top EXCEPT !.sub = @ \cup val.sub]
             fr == Hold(own, Carried(val))
  <2>1. Resumes("letArgs") /\ Goto(p, Swap(fr), "letArgs")
    BY <1>3 DEF AfterLetArgument
  <2>2. Whole(Top) /\ Top.fn = "letArgs"
    BY <2>1, Resumed, FramesAreWhole
  <2>3. Whole(own) /\ Grown(own, Top, val.sub) /\ own.fn = "letArgs" /\ own.lim = Top.lim
    BY <2>2 DEF Whole, Grown
  <2> HIDE DEF own
  <2>4. Grown(fr, Top, val.sub) /\ fr.fn = "letArgs" /\ fr.lim = Top.lim
    BY <2>3, HoldGrown, Parts
  <2> HIDE DEF fr
  <2> QED BY <1>0, <1>a, <2>1, <2>4, DeclGrows
<1>4. CASE AfterLetPattern
  <2> DEFINE own == [Top EXCEPT !.sub = @ \cup val.sub, !.lim = 0]
             part == Hold(own, Carried(val))
             fr == [part EXCEPT !.fn = "letValue", !.body = Snapshot(s)]
  <2>1. Resumes("letPattern") /\ (Need(s, Swap(fr)) \/ Fail(q))
    BY <1>4, Zenon DEF AfterLetPattern, NeedLetValue
  <2>2. Whole(Top)
    BY <2>1, Resumed, FramesAreWhole
  <2>3. Whole(own) /\ Grown(own, Top, val.sub) /\ own.lim = 0
    BY <2>2 DEF Whole, Grown
  <2> HIDE DEF own, q, r, s
  <2>4. Whole(part) /\ Grown(part, Top, val.sub) /\ part.lim = 0
    BY <2>3, HoldGrown, Parts
  <2> HIDE DEF part
  <2>5. Grown(fr, Top, val.sub) /\ fr.fn = "letValue" /\ fr.lim = 0
    BY <2>4 DEF Grown, Whole
  <2> HIDE DEF fr
  <2>6. CASE Need(s, Swap(fr))
    BY <1>a, <1>b, <2>1, <2>5, <2>6, DeclGrows
  <2> QED BY <2>1, <2>6, Stops
<1> QED BY <1>1, <1>2, <1>3, <1>4

(* The declaration is complete, its implementation inside it.              *)
LEMMA DeclSpans == ASSUME IInv, SpanInv, AfterLetValue PROVE SpanInv'
<1>0. Stream /\ Ordered /\ OK(p) /\ Reaches(p, p) /\ val \in Node
  BY Reading
<1> DEFINE q == AfterPre(p, val, Top.body)
           impl == IF Top.lim = 0 THEN {} ELSE SpanNode(Top.lim, q, <<>>, {}).sub
           decl == SpanNode(Top.mark, q, Carried(WithPre(p, val, Top.body)), val.sub \cup impl)
           led == Lead(decl, Top.lead)
           part == AddPart(Top, led)
           fr == [part EXCEPT !.fn = "let", !.lead = <<>>]
<1>1. Resumes("letValue") /\ Goto(q, Swap(fr), "letNext")
  BY DEF AfterLetValue
<1>2. Top.body \in Nat
  BY <1>1, Resumed, FrameParts
<1>3. Reaches(p, q)
  BY <1>1, <1>2, Attaches
<1>5. impl = IF Top.lim = 0 THEN {} ELSE {<<Top.lim, Done(q)>>}
  BY DEF SpanNode, Done
<1> HIDE DEF impl
<1>4. led.sub = val.sub \cup impl \cup {<<Top.mark, Done(q)>>}
  BY DEF SpanNode, Lead, Done
<1> HIDE DEF led, decl, q
<1>6. Whole(part) /\ Grown(part, Top, led.sub)
  BY <1>1, PartGrown
<1> HIDE DEF part
<1>7. /\ fr.fn = "let" /\ fr.from = Top.from /\ fr.mark = Top.mark /\ fr.chain = Top.chain
      /\ fr.sub = Top.sub \cup val.sub \cup impl \cup {<<Top.mark, Done(q)>>}
  BY <1>4, <1>6 DEF Whole, Grown
<1> HIDE DEF fr
<1>8. PICK f, lo, m \in Nat : Waiting(Pop, f, lo) /\ Seg(Top, lo, m) /\ Carries(p, val, m) /\ Top.fn = "letValue"
  BY <1>1, Resting
<1>9. /\ Top.fn \in Marked /\ Top.fn \in Parted /\ Top.fn \notin {"binary", "access"}
      /\ fr.fn \in Parted /\ fr.fn \notin Marked /\ fr.fn \notin {"record", "typeFields"}
      /\ fr.fn \notin {"letArgs", "letValue"} /\ "letNext" \in Turns
  BY <1>7, <1>8 DEF Parted, Marked, Turns
<1>10. /\ Top.from <= Top.mark /\ fr.chain = <<>>
       /\ Top.lim = 0 \/ (Top.mark <= Top.lim /\ Top.lim <= m /\ Splits(Top.lim, Top.sub))
  BY <1>7, <1>8, <1>9 DEF Seg
<1>11. \/ impl = {}
       \/ \E l : impl = {<<l, Done(q)>>} /\ Top.mark <= l /\ l <= m /\ Splits(l, Top.sub)
  BY <1>5, <1>10
<1>12. Shape(fr, lo, Done(q) + 1) /\ Done(q) + 1 \in Nat /\ Done(q) + 1 <= Here(q)
  <2>1. Reaches(p, q) /\ Carries(p, val, m) /\ Seg(Top, lo, m)
    BY <1>3, <1>8
  <2>2. fr.from = Top.from /\ fr.mark = Top.mark /\ Top.from <= Top.mark /\ fr.chain = <<>>
        /\ fr.sub = Top.sub \cup val.sub \cup impl \cup {<<Top.mark, Done(q)>>}
    BY <1>7, <1>10
  <2> QED BY <1>9, <1>11, <2>1, <2>2, TakesPart, Zenon
<1> DEFINE hi == Done(q) + 1
<1> HIDE DEF hi
<1>13. Seg(fr, lo, hi) /\ Live(fr)
  BY <1>9, <1>10, <1>12, PartedSeg DEF Live, hi
<1>14. Waiting(Swap(fr), f, hi) /\ hi <= Here(q)
  BY <1>8, <1>12, <1>13, Grows DEF Swap, hi
<1> QED BY <1>1, <1>9, <1>14, CallsAre, Continues

LEMMA LetSpans == ASSUME IInv, SpanInv, LetNext PROVE SpanInv'
BY LetHeadSpans, LetPartSpans, DeclSpans DEF LetNext
-----------------------------------------------------------------------------
(* The specification.                                                      *)

(* A new parser holds nothing.                                             *)
LEMMA InitiallySpans == ASSUME ExprInit PROVE SpanInv
<1>1. toks \in Sources /\ conts = <<>> /\ calls = <<>> /\ ctl = "expr" /\ "expr" \notin Passing \cup Closing
  BY DEF ExprInit, Passing, Closing
<1>2. Ordered
  BY <1>1, OrderAssumption DEF Ordered
<1>3. Stream /\ OK(p)
  BY InitiallyIInv, State
<1>4. 0 \in Nat /\ 0 <= 0 /\ Here(p) \in Nat
  BY <1>2, <1>3, Places
<1>5. Boxed(<<>>, 0)
  <2> DEFINE base == [i \in 1..1 |-> 0]
  <2>1. base \in [1..(Len(<<>>) + 1) -> Nat] /\ base[Len(<<>>) + 1] <= 0 /\ 1..Len(<<>>) = {}
    OBVIOUS
  <2> HIDE DEF base
  <2> QED BY <2>1 DEF Boxed
<1>6. Stacked(<<>>, 0, 0, "expr")
  BY <1>4, EmptyStacked
<1>7. Lies(p, calls, ctl, val, 0)
  BY <1>1, <1>4, <1>6 DEF Lies, Free
<1> QED BY <1>1, <1>2, <1>4, <1>5, <1>7 DEF SpanInv

(* Returning the result of parse_expr.                                     *)
LEMMA FinishSpans == ASSUME IInv, SpanInv, Finish PROVE SpanInv'
<1>1. ctl = "done" /\ Goto(p, calls, "ok") /\ "done" \in Plain /\ "done" # "error" /\ "done" \in Passing /\ "ok" \in Passing
  BY PlainAre DEF Finish, Passing
<1>2. PICK f, m \in Nat : Waiting(calls, f, m) /\ Carries(p, val, m)
  BY <1>1, Calling
<1> QED BY <1>1, <1>2, Hands

(* Every step of the parser, and every stutter, keeps the nodes apart.     *)
LEMMA StepsKeepSpans == ASSUME IInv, SpanInv, [ExprStep]_vars PROVE SpanInv'
<1>1. CASE UNCHANGED vars
  <2>1. toks' = toks /\ p' = p /\ conts' = conts /\ calls' = calls /\ ctl' = ctl /\ val' = val
    BY <1>1 DEF vars
  <2>2. Ordered'
    BY <2>1 DEF SpanInv, Ordered
  <2>3. ASSUME ctl # "error" PROVE SpanInv'
    <3>1. PICK f \in Nat : Boxed(conts, f) /\ Lies(p, calls, ctl, val, f)
      BY <2>3 DEF SpanInv
    <3> QED BY <2>1, <3>1, Leaves
  <2> QED BY <2>1, <2>2, <2>3 DEF SpanInv
<1>2. CASE Finish
  BY <1>2, FinishSpans
<1>3. CASE OperatorNext \/ ApplicationNext \/ AtomNext \/ BracketNext
  BY <1>3, OperatorSpans, ApplicationSpans, AtomSpans, ParenSpans, ListSpans, RecordSpans, Zenon DEF BracketNext
<1>4. CASE BranchNext \/ LetNext \/ LambdaNext
  BY <1>4, IfSpans, CaseSpans, LetSpans, LambdaSpans, Zenon DEF BranchNext
<1>5. CASE Resume \/ PatternNext \/ TypeNext
  BY <1>5, ResumeSpans, PatternSpans, TypeSpans
<1>6. ExprNext => \/ OperatorNext \/ ApplicationNext \/ AtomNext \/ BracketNext
                  \/ BranchNext \/ LetNext \/ LambdaNext
                  \/ Resume \/ PatternNext \/ TypeNext
  BY Zenon DEF ExprNext, OperatorNext, ApplicationNext, AtomNext, BracketNext, BranchNext, LetNext, LambdaNext
<1> QED BY <1>1, <1>2, <1>3, <1>4, <1>5, <1>6 DEF ExprStep

LEMMA Spans == ExprSpec => []SpanInv
<1>1. ExprInit => SpanInv
  BY InitiallySpans
<1>2. IInv /\ SpanInv /\ [ExprStep]_vars => SpanInv'
  BY StepsKeepSpans
<1> QED BY <1>1, <1>2, Invariance, PTL DEF ExprSpec

(* Whatever the text, the spans of the tree in hand nest: two nodes are    *)
(* disjoint or one has the other inside, and all lie inside the root,      *)
(* whichever of the parser's functions gave the nodes their start and      *)
(* their end, and however often it went back or had its stack boxed.       *)
THEOREM SpansAlwaysNest == ExprSpec => []SpansNest
<1>1. SpanInv => SpansNest
  <2> SUFFICES ASSUME SpanInv, ctl \in Passing
               PROVE  \A x \in val.sub :
                        /\ val.from <= x[1] /\ x[1] <= x[2] /\ x[2] <= val.to
                        /\ \A y \in val.sub : Nested(x, y)
    BY DEF SpansNest, Nested
  <2>1. ctl # "error"
    BY DEF Passing
  <2>2. PICK f \in Nat, m \in Nat : Carries(p, val, m)
    BY <2>1 DEF SpanInv, Lies
  <2>3. val.to \in Nat /\ Within(val.sub, val.from, val.to + 1)
    BY <2>2 DEF Carries, NodeFits
  <2>4. \A x \in val.sub : x[2] \in Nat
    BY <2>3 DEF Within, Span
  <2> QED BY <2>3, <2>4 DEF Within
<1> QED BY <1>1, Spans, PTL
=============================================================================
