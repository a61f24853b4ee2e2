----------------------------- MODULE ExprProofs -----------------------------
(***************************************************************************)
(* First what the operators of ParserState return: cursors that stay in    *)
(* the token stream, nodes, frames and sequences of comments.  Then that   *)
(* IInv is an inductive invariant of the parser of expressions, patterns   *)
(* and types, for every set of token streams and every limit.  An action   *)
(* either returns to, calls from, or fails out of a stack of waiting       *)
(* functions: three lemmas about these steps reduce each action to the     *)
(* types of what it computes.                                              *)
(*                                                                         *)
(* At the end what the operations on a cursor do to the state kept beside  *)
(* the stack (BalInv: bracket depth, context column, pending comments):    *)
(* the claiming loops only thin out the pending buffer, skipping trivia    *)
(* only adds to its end, and only the passing of a bracket moves the       *)
(* depth.  BalanceProofs takes these through the actions.                  *)
(***************************************************************************)
EXTENDS ExprSafety, TLAPS
LOCAL INSTANCE FiniteSetTheorems
LOCAL INSTANCE SequenceTheorems
LOCAL INSTANCE WellFoundedInduction

(* A token stream, and a cursor in it.                                     *)
Stream == toks \in Seq(Token) /\ Len(toks) > 0 /\ toks[Len(toks)].kind = "eof"

OK(q) == q \in Cursor /\ q.pos \in 1..Len(toks)
-----------------------------------------------------------------------------
(* Selecting from a sequence.                                              *)

(* A set of natural numbers has a least element (the induction theorems of *)
(* the library take an operator; this is the form usable here).            *)
LEMMA LeastNat ==
  ASSUME NEW T \in SUBSET Nat, T # {}
  PROVE  \E m \in T : \A k \in T : m <= k
<1> DEFINE U == {0..k : k \in T}
           R == StrictSubsetOrdering(Nat)
<1>1. U \subseteq FiniteSubsetsOf(Nat)
  <2> SUFFICES ASSUME NEW k \in T PROVE 0..k \in FiniteSubsetsOf(Nat)
    OBVIOUS
  <2>1. IsFiniteSet(0..k)
    BY FS_Interval
  <2> QED BY <2>1 DEF FiniteSubsetsOf
<1>2. U # {}
  OBVIOUS
<1>3. IsWellFoundedOn(R, FiniteSubsetsOf(Nat))
  BY FS_StrictSubsetOrderingWellFounded
<1>4. \E X \in U : \A Y \in U : ~(<<Y, X>> \in R)
  <2> HIDE DEF U, R
  <2> QED BY <1>1, <1>2, <1>3, WFMin
<1>5. PICK m \in T : \A k \in T : ~(<<0..k, 0..m>> \in R)
  BY <1>4
<1>6. ASSUME NEW k \in T, k < m PROVE FALSE
  <2>1. m \in 0..m /\ m \notin 0..k /\ 0..k \subseteq 0..m
    BY <1>6
  <2>2. <<0..k, 0..m>> \in R
    BY <2>1 DEF StrictSubsetOrdering
  <2> QED BY <2>2, <1>5
<1> QED BY <1>6

(* The recursion of Select has a solution on every prefix of s, and the    *)
(* elements selected are elements of s that are in S.                      *)
LEMMA SelectSolved ==
  ASSUME NEW C, NEW s \in Seq(C), NEW S
  PROVE  \E G : /\ Select(s, S) = G[Len(s)]
                /\ \A n \in 0..Len(s) :
                     /\ G[n] \in Seq(C \cap S)
                     /\ G[n] = IF n = 0 THEN <<>>
                               ELSE IF s[n] \in S THEN Append(G[n - 1], s[n]) ELSE G[n - 1]
<1> DEFINE D == Seq(C \cap S)
           N == Len(s)
           Rec(f, n) == [i \in 0..n |-> IF i = 0 THEN <<>>
                                        ELSE IF s[i] \in S THEN Append(f[i - 1], s[i]) ELSE f[i - 1]]
           Solved(n) == \E f \in [0..n -> D] : f = Rec(f, n)
<1>0. N \in Nat /\ \A i \in 1..N : s[i] \in C
  OBVIOUS
<1>1. \A n \in 0..N : Solved(n)
  <2> DEFINE T == {n \in 0..N : ~Solved(n)}
  <2> SUFFICES ASSUME T # {} PROVE FALSE
    OBVIOUS
  <2>1. PICK n \in T : \A k \in T : n <= k
    <3>1. T \in SUBSET Nat
      BY <1>0
    <3> HIDE DEF T
    <3> QED BY <3>1, LeastNat
  <2>2. n \in 0..N /\ ~Solved(n)
    OBVIOUS
  <2>3. CASE n = 0
    <3> DEFINE g == [i \in 0..0 |-> <<>>]
    <3>1. g \in [0..n -> D] /\ g = Rec(g, n)
      BY <2>3
    <3> QED BY <3>1, <2>2
  <2>4. CASE n # 0
    <3>1. n - 1 \in 0..N /\ ~(n <= n - 1)
      BY <1>0, <2>2, <2>4
    <3>2. Solved(n - 1)
      BY <3>1, <2>1
    <3>3. PICK f \in [0..(n - 1) -> D] : f = Rec(f, n - 1)
      BY <3>2
    <3> DEFINE last == IF s[n] \in S THEN Append(f[n - 1], s[n]) ELSE f[n - 1]
               g == [i \in 0..n |-> IF i = n THEN last ELSE f[i]]
    <3>4. last \in D
      <4>1. n - 1 \in 0..(n - 1) /\ n \in 1..N
        BY <1>0, <2>2, <2>4
      <4>2. f[n - 1] \in D /\ s[n] \in C
        BY <4>1, <1>0
      <4>3. s[n] \in S => Append(f[n - 1], s[n]) \in D
        BY <4>2
      <4> QED BY <4>2, <4>3
    <3>5. g \in [0..n -> D]
      <4> SUFFICES ASSUME NEW i \in 0..n PROVE g[i] \in D
        OBVIOUS
      <4>1. i # n => i \in 0..(n - 1)
        BY <2>2
      <4> HIDE DEF D, last
      <4> QED BY <3>4, <4>1
    <3>6. \A i \in 0..n : g[i] = Rec(g, n)[i]
      <4> SUFFICES ASSUME NEW i \in 0..n PROVE g[i] = Rec(g, n)[i]
        OBVIOUS
      <4>1. CASE i = n
        BY <4>1, <2>2, <2>4
      <4>2. CASE i # n
        <5>1. i \in 0..(n - 1) /\ g[i] = f[i] /\ (i # 0 => g[i - 1] = f[i - 1])
          BY <4>2, <2>2
        <5>2. f[i] = Rec(f, n - 1)[i]
          BY <3>3
        <5> QED BY <5>1, <5>2
      <4> QED BY <4>1, <4>2
    <3>7. g = Rec(g, n)
      BY <3>5, <3>6
    <3> QED BY <3>5, <3>7, <2>2
  <2> QED BY <2>3, <2>4
<1> DEFINE G == CHOOSE f : f = Rec(f, N)
<1>2. G = Rec(G, N)
  <2>1. \E f : f = Rec(f, N)
    <3>1. Solved(N)
      <4> HIDE DEF Solved
      <4> QED BY <1>0, <1>1
    <3> HIDE DEF Rec
    <3> QED BY <3>1
  <2> HIDE DEF Rec
  <2> QED BY <2>1
<1>3. \A n \in 0..N : G[n] \in D
  <2> DEFINE T == {n \in 0..N : G[n] \notin D}
  <2> SUFFICES ASSUME T # {} PROVE FALSE
    OBVIOUS
  <2>1. PICK n \in T : \A k \in T : n <= k
    <3>1. T \in SUBSET Nat
      BY <1>0
    <3> HIDE DEF T
    <3> QED BY <3>1, LeastNat
  <2>2. n \in 0..N /\ G[n] \notin D
    OBVIOUS
  <2>3. G[n] = IF n = 0 THEN <<>>
               ELSE IF s[n] \in S THEN Append(G[n - 1], s[n]) ELSE G[n - 1]
    BY <1>2, <2>2
  <2>4. n # 0 => n - 1 \in 0..N /\ ~(n <= n - 1) /\ n \in 1..N
    BY <1>0, <2>2
  <2>5. n # 0 => G[n - 1] \in D /\ s[n] \in C
    BY <2>1, <2>4, <1>0
  <2> HIDE DEF G
  <2>6. n # 0 /\ s[n] \in S => Append(G[n - 1], s[n]) \in D
    BY <2>5
  <2>7. <<>> \in D
    OBVIOUS
  <2> HIDE DEF D
  <2> QED BY <2>2, <2>3, <2>5, <2>6, <2>7
<1>4. Select(s, S) = G[N]
  BY DEF Select
<1>5. \A n \in 0..N : G[n] = IF n = 0 THEN <<>>
                             ELSE IF s[n] \in S THEN Append(G[n - 1], s[n]) ELSE G[n - 1]
  <2> HIDE DEF G
  <2> QED BY <1>2
<1> HIDE DEF G
<1> QED BY <1>3, <1>4, <1>5

LEMMA SelectType ==
  ASSUME NEW C, NEW s \in Seq(C), NEW S
  PROVE  Select(s, S) \in Seq(C \cap S)
BY SelectSolved
-----------------------------------------------------------------------------
(* Cursors.                                                                *)

(* Every token of the stream is well formed.                               *)
LEMMA TokenAt == ASSUME Stream, NEW i \in 1..Len(toks) PROVE toks[i] \in Token
BY DEF Stream

(* skip_whitespace keeps the cursor well formed and on the same token.     *)
LEMMA SkipOK ==
  ASSUME Stream, NEW q, OK(q)
  PROVE  OK(Skip(q)) /\ Skip(q).pos = q.pos
<1>1. toks[q.pos].before \in Seq(Comment)
  BY TokenAt DEF OK, Token
<1>2. q.pending \o toks[q.pos].before \in Seq(Comment)
  BY <1>1 DEF OK, Cursor
<1> QED BY <1>2 DEF OK, Cursor, Skip

(* Only the end of the input is not passed.                                *)
LEMMA AdvanceOK ==
  ASSUME Stream, NEW q, OK(q)
  PROVE  /\ OK(Advance(q))
         /\ Advance(q).pos >= q.pos
         /\ toks[q.pos].kind # "eof" => Advance(q).pos = q.pos + 1
<1> DEFINE d == CASE toks[q.pos].kind \in Openers -> q.depth + 1
                  [] toks[q.pos].kind \in Closers -> IF q.depth > 0 THEN q.depth - 1 ELSE 0
                  [] OTHER -> q.depth
           r == IF q.pos < Len(toks) THEN TRUE ELSE q.raw
           s == IF q.pos < Len(toks) THEN q.pos + 1 ELSE q.pos
<1>1. s \in Nat /\ s \in 1..Len(toks) /\ s >= q.pos /\ (toks[q.pos].kind # "eof" => s = q.pos + 1)
  BY DEF OK, Cursor, Stream
<1>2. d \in Nat
  BY DEF OK, Cursor
<1>3. r \in BOOLEAN
  BY DEF OK, Cursor
<1>4. Advance(q) = [q EXCEPT !.depth = d, !.pos = s, !.raw = r]
  BY DEF Advance
<1> HIDE DEF d, r, s
<1>5. Advance(q).pos = s /\ Advance(q) \in Cursor
  BY <1>1, <1>2, <1>3, <1>4 DEF OK, Cursor
<1> QED BY <1>1, <1>5 DEF OK

(* Where the cursor stands: offset, column and line are numbers.           *)
LEMMA HereType ==
  ASSUME Stream, NEW q, OK(q)
  PROVE  Here(q) \in Nat /\ HereCol(q) \in Nat /\ toks[q.pos].line \in Nat
BY TokenAt DEF OK, Token, Here, HereCol

(* Replacing the pending comments moves nothing.                           *)
LEMMA PendingOK ==
  ASSUME NEW q, OK(q), NEW s \in Seq(Comment)
  PROVE  OK([q EXCEPT !.pending = s]) /\ [q EXCEPT !.pending = s].pos = q.pos
BY DEF OK, Cursor

(* Setting app_context_col moves nothing.                                  *)
LEMMA ContextOK ==
  ASSUME NEW q, OK(q), NEW c \in Nat
  PROVE  OK([q EXCEPT !.ctx = c]) /\ [q EXCEPT !.ctx = c].pos = q.pos
BY DEF OK, Cursor
-----------------------------------------------------------------------------
(* Taking comments from the pending buffer, and putting some back.         *)

(* The pending buffer, and a snapshot of it.                               *)
LEMMA PendingType ==
  ASSUME NEW q, OK(q)
  PROVE  q.pending \in Seq(Comment) /\ Snapshot(q) \in Nat
BY DEF OK, Cursor, Snapshot

(* Any slice of the pending buffer is a sequence of comments.              *)
LEMMA PartOfPending ==
  ASSUME NEW q, OK(q), NEW i \in Nat \ {0}, NEW j \in Int, j <= Len(q.pending)
  PROVE  SubSeq(q.pending, i, j) \in Seq(Comment)
<1>1. \A k \in i..j : q.pending[k] \in Comment
  BY PendingType
<1> QED BY <1>1, SubSeqProperties

(* take_pending_comments_since splits the buffer in two.                   *)
LEMMA SinceType ==
  ASSUME NEW q, OK(q), NEW snap \in Nat
  PROVE  /\ Since(q, snap) \in Seq(Comment)
         /\ OK(DropSince(q, snap)) /\ DropSince(q, snap).pos = q.pos
<1>1. Len(q.pending) \in Nat
  BY PendingType
<1>2. SubSeq(q.pending, snap + 1, Len(q.pending)) \in Seq(Comment)
  BY <1>1, PartOfPending
<1>3. snap < Len(q.pending) => SubSeq(q.pending, 1, snap) \in Seq(Comment)
  BY <1>1, PartOfPending
<1>4. CASE snap >= Len(q.pending)
  BY <1>4 DEF Since, DropSince
<1>5. CASE ~(snap >= Len(q.pending))
  <2>1. SubSeq(q.pending, 1, snap) \in Seq(Comment)
    BY <1>1, <1>3, <1>5
  <2> QED BY <1>2, <1>5, <2>1, PendingOK DEF Since, DropSince
<1> QED BY <1>4, <1>5

(* A claiming loop splits the buffer in what it takes and what it leaves.  *)
LEMMA ClaimedType ==
  ASSUME NEW q, OK(q), NEW snap \in Nat, NEW S
  PROVE  /\ Claimed(q, snap, S) \in Seq(Comment)
         /\ OK(Unclaimed(q, snap, S)) /\ Unclaimed(q, snap, S).pos = q.pos
<1>1. \A X : Select(Since(q, snap), X) \in Seq(Comment)
  <2> TAKE X
  <2>1. Select(Since(q, snap), X) \in Seq(Comment \cap X)
    BY SinceType, SelectType
  <2> QED BY <2>1
<1>2. DropSince(q, snap).pending \in Seq(Comment)
  BY SinceType, PendingType
<1> DEFINE rest == Select(Since(q, snap), Elements(q.pending) \ S)
<1>3. DropSince(q, snap).pending \o rest \in Seq(Comment)
  <2>1. rest \in Seq(Comment)
    BY <1>1
  <2> HIDE DEF rest
  <2> QED BY <1>2, <2>1
<1>4. OK(Unclaimed(q, snap, S)) /\ Unclaimed(q, snap, S).pos = q.pos
  BY <1>3, PendingOK DEF Unclaimed
<1> QED BY <1>1, <1>4 DEF Claimed

(* Taking the last comment, when it trails a node.                         *)
LEMMA TrailingType ==
  ASSUME NEW q, OK(q), NEW n
  PROVE  /\ Trailing(q, n) \in Seq(Comment)
         /\ OK(DropTrailing(q, n)) /\ DropTrailing(q, n).pos = q.pos
<1>1. q.pending \in Seq(Comment) /\ Len(q.pending) \in Nat
  BY PendingType
<1>2. SubSeq(q.pending, 1, Len(q.pending) - 1) \in Seq(Comment)
  BY <1>1, PartOfPending
<1>3. q.pending # <<>> => q.pending[Len(q.pending)] \in Comment
  BY <1>1, EmptySeq
<1>4. Trailing(q, n) \in Seq(Comment)
  BY <1>3 DEF Trailing
<1>5. OK(DropTrailing(q, n)) /\ DropTrailing(q, n).pos = q.pos
  BY <1>2, PendingOK DEF DropTrailing
<1> QED BY <1>4, <1>5

(* take_element_inline_trailing: taking a comment out of the middle.       *)
LEMMA InlineType ==
  ASSUME NEW q, OK(q), NEW n
  PROVE  /\ Inline(q, n) \in Seq(Comment)
         /\ OK(DropInline(q, n)) /\ DropInline(q, n).pos = q.pos
<1> DEFINE at == InlineIndex(q, n)
           i == CHOOSE k \in at : TRUE
<1>1. q.pending \in Seq(Comment) /\ Len(q.pending) \in Nat
  BY PendingType
<1>2. at # {} => i \in 1..Len(q.pending)
  BY DEF InlineIndex
<1>3. at # {} => <<q.pending[i]>> \in Seq(Comment)
  BY <1>1, <1>2
<1>4. at # {} => /\ SubSeq(q.pending, 1, i - 1) \in Seq(Comment)
                 /\ SubSeq(q.pending, i + 1, Len(q.pending)) \in Seq(Comment)
  <2> HIDE DEF i
  <2> QED BY <1>1, <1>2, PartOfPending
<1>5. at # {} => SubSeq(q.pending, 1, i - 1) \o SubSeq(q.pending, i + 1, Len(q.pending)) \in Seq(Comment)
  <2> HIDE DEF i, at
  <2> QED BY <1>4
<1>6. Inline(q, n) \in Seq(Comment)
  BY <1>3 DEF Inline
<1>7. OK(DropInline(q, n)) /\ DropInline(q, n).pos = q.pos
  BY <1>5, PendingOK DEF DropInline
<1> QED BY <1>6, <1>7
-----------------------------------------------------------------------------
(* Nodes and frames.                                                       *)

(* The value before anything is parsed is a node.                          *)
LEMMA NoNodeType == NoNode \in Node
BY DEF NoNode, Node, Span

(* The parts of a node have their types.                                   *)
LEMMA NodeParts ==
  ASSUME NEW n \in Node
  PROVE  /\ n.from \in Nat /\ n.to \in Nat /\ n.end \in Nat
         /\ n.kept \in Seq(Comment) /\ n.sub \in SUBSET Span
         /\ Carried(n) \in Seq(Comment)
BY DEF Node, Carried

(* Giving a node leading comments keeps it a node.                         *)
LEMMA LeadType ==
  ASSUME NEW n \in Node, NEW cs \in Seq(Comment)
  PROVE  Lead(n, cs) \in Node
<1>1. cs \o n.cs \in Seq(Comment)
  BY DEF Node
<1> QED BY <1>1 DEF Lead, Node

(* span_from builds a node from any start and contents.                    *)
LEMMA SpanNodeType ==
  ASSUME Stream, NEW q, OK(q), NEW from \in Nat, NEW kept \in Seq(Comment), NEW sub \in SUBSET Span
  PROVE  SpanNode(from, q, kept, sub) \in Node
<1> DEFINE i == IF q.pos > 1 THEN q.pos - 1 ELSE 1
<1>1. i \in 1..Len(toks)
  BY DEF OK, Cursor, Stream
<1>2. toks[i].ix \in Nat /\ toks[i].end \in Nat
  BY <1>1, TokenAt DEF Token
<1> DEFINE u == sub \cup {<<from, toks[i].ix>>}
<1>3. u \in SUBSET Span
  BY <1>2 DEF Span
<1>4. SpanNode(from, q, kept, sub) = [from |-> from, to |-> toks[i].ix, end |-> toks[i].end,
                                      arrow |-> FALSE, cs |-> <<>>, kept |-> kept, sub |-> u]
  BY DEF SpanNode
<1> HIDE DEF i, u
<1> QED BY <1>2, <1>3, <1>4 DEF Node

(* spanned_from a token alone builds a node.                               *)
LEMMA LeafType ==
  ASSUME Stream, NEW q, OK(q), NEW from \in Nat
  PROVE  Leaf(from, q) \in Node
<1>1. <<>> \in Seq(Comment) /\ {} \in SUBSET Span
  OBVIOUS
<1> QED BY <1>1, SpanNodeType DEF Leaf

(* attach_pre_body_comments: a node, and what is left of the buffer.       *)
LEMMA PreType ==
  ASSUME NEW q, OK(q), NEW body \in Node, NEW snap \in Nat
  PROVE  /\ WithPre(q, body, snap) \in Node
         /\ OK(AfterPre(q, body, snap)) /\ AfterPre(q, body, snap).pos = q.pos
BY ClaimedType, LeadType DEF WithPre, AfterPre

(* A function starts with well-typed locals.                               *)
LEMMA NewType ==
  ASSUME NEW fn \in FrameNames, NEW from \in Nat
  PROVE  New(fn, from) \in Frame /\ New(fn, from).fn = fn
BY NoNodeType DEF New, Frame

(* The locals of a function have their types.                              *)
LEMMA FrameParts ==
  ASSUME NEW fr \in Frame
  PROVE  /\ fr.from \in Nat /\ fr.col \in Nat /\ fr.ref \in Nat /\ fr.line \in Nat /\ fr.ctx \in Nat
         /\ fr.snap \in Nat /\ fr.body \in Nat /\ fr.mark \in Nat /\ fr.lim \in Nat /\ fr.n \in Nat
         /\ fr.last \in Node /\ fr.lead \in Seq(Comment) /\ fr.kept \in Seq(Comment)
         /\ fr.sub \in SUBSET Span /\ fr.chain \in Seq(Nat) /\ fr.ops \in Seq(PendingOp)
BY DEF Frame

(* Taking over a completed part keeps the locals well typed.               *)
LEMMA AddPartType ==
  ASSUME NEW fr \in Frame, NEW n \in Node
  PROVE  AddPart(fr, n) \in Frame /\ AddPart(fr, n).fn = fr.fn
<1> DEFINE a == fr.n + 1
           k == fr.kept \o Carried(n)
           u == fr.sub \cup n.sub
<1>1. a \in Nat /\ k \in Seq(Comment) /\ u \in SUBSET Span
  BY FrameParts, NodeParts
<1>2. AddPart(fr, n) = [fr EXCEPT !.n = a, !.last = n, !.kept = k, !.sub = u]
  BY DEF AddPart, Frame
<1> HIDE DEF a, k, u
<1> QED BY <1>1, <1>2, ZenonT(60) DEF Frame

(* Keeping comments without a node keeps the locals well typed.            *)
LEMMA HoldType ==
  ASSUME NEW fr \in Frame, NEW cs \in Seq(Comment)
  PROVE  Hold(fr, cs) \in Frame /\ Hold(fr, cs).fn = fr.fn
<1> DEFINE k == fr.kept \o cs
<1>1. k \in Seq(Comment)
  BY FrameParts
<1>2. Hold(fr, cs) = [fr EXCEPT !.kept = k]
  BY DEF Hold, Frame
<1> HIDE DEF k
<1> QED BY <1>1, <1>2 DEF Frame

(* The node a function completes is a node.                                *)
LEMMA CloseType ==
  ASSUME Stream, NEW q, OK(q), NEW fr \in Frame
  PROVE  Close(fr, q) \in Node
BY SpanNodeType, FrameParts DEF Close
-----------------------------------------------------------------------------
(* The stack.                                                              *)

(* Every function of the stack waits for a value.                          *)
Await(cs) == \A i \in 1..Len(cs) : cs[i].fn \in Awaiting

(* fr may be the top frame when control goes to c.                         *)
Fits(fr, c) == IF c \in DOMAIN Owners THEN fr.fn = Owners[c] ELSE fr.fn \in Awaiting

Plain == Controls \ DOMAIN Owners
-----------------------------------------------------------------------------
(* Owners, written out.                                                    *)
LEMMA OwnersAre ==
  /\ DOMAIN Owners = {"binary", "reduce", "fold", "args", "setter", "branch", "letNext", "letName",
                      "letArgs", "lambdaArgs", "ctorName", "atomCtor", "ctorArgs", "patternField",
                      "typeName", "atomTypeName", "typeArgs", "typeField"}
  /\ Owners["binary"] = "binary" /\ Owners["reduce"] = "binary" /\ Owners["fold"] = "binary"
  /\ Owners["args"] = "app" /\ Owners["setter"] = "record" /\ Owners["branch"] = "casePattern"
  /\ Owners["letNext"] = "let" /\ Owners["letName"] = "letArgs" /\ Owners["letArgs"] = "letArgs"
  /\ Owners["lambdaArgs"] = "lambda" /\ Owners["ctorName"] = "ctor" /\ Owners["atomCtor"] = "ctor"
  /\ Owners["ctorArgs"] = "ctor" /\ Owners["patternField"] = "patRecord"
  /\ Owners["typeName"] = "typeApp" /\ Owners["atomTypeName"] = "typeApp"
  /\ Owners["typeArgs"] = "typeApp" /\ Owners["typeField"] = "typeFields"
BY DEF Owners

(* The functions without locals of their own, written out.                 *)
LEMMA PlainAre ==
  Plain = {"expr", "unary", "app", "atom", "valueName", "access",
           "pattern", "consPattern", "appPattern", "atomPattern",
           "type", "typeApp", "atomType", "signature", "done", "error", "ok"}
BY OwnersAre DEF Plain, Controls

(* A closure that takes an expression waits for a value.                   *)
LEMMA HolesAwait == Holes \subseteq Awaiting
BY DEF Awaiting

(* The parts of the state have the types the lemmas on operations need.    *)
LEMMA State ==
  ASSUME IInv
  PROVE  Stream /\ OK(p) /\ val \in Node /\ calls \in Seq(Frame) /\ Len(calls) \in Nat
BY DEF IInv, TypeOK, Stream, OK

(* The stack under a function that runs.                                   *)
LEMMA TopAndPop ==
  ASSUME IInv, calls # <<>>
  PROVE  /\ Top \in Frame /\ Pop \in Seq(Frame) /\ Len(Pop) = Len(calls) - 1
         /\ \A i \in 1..Len(Pop) : Pop[i] = calls[i]
<1>1. calls \in Seq(Frame) /\ Len(calls) \in Nat \ {0}
  BY EmptySeq DEF IInv, TypeOK
<1>2. Top \in Frame
  BY <1>1 DEF Top
<1> DEFINE n == Len(calls) - 1
<1>3. n \in Nat /\ \A i \in 1..n : calls[i] \in Frame
  BY <1>1
<1>4. /\ SubSeq(calls, 1, n) \in Seq(Frame)
      /\ Len(SubSeq(calls, 1, n)) = IF 1 <= n THEN n - 1 + 1 ELSE 0
      /\ \A i \in 1..(n - 1 + 1) : SubSeq(calls, 1, n)[i] = calls[1 + i - 1]
  <2> HIDE DEF n
  <2> QED BY <1>3, SubSeqProperties
<1>5. Pop = SubSeq(calls, 1, n)
  BY DEF Pop
<1> HIDE DEF n
<1>6. Pop \in Seq(Frame) /\ Len(Pop) = n /\ \A i \in 1..n : Pop[i] = calls[i]
  BY <1>3, <1>4, <1>5
<1> QED BY <1>2, <1>6 DEF n

(* Where control is at no frame's own function, all of the stack waits.    *)
LEMMA Called ==
  ASSUME IInv, ctl \in Plain
  PROVE  Await(calls)
BY State DEF IInv, ControlFitsStack, StackFits, Await, Plain

(* A function that gets its value back finds its locals on top.            *)
LEMMA Resumed ==
  ASSUME IInv, NEW fn, Resumes(fn)
  PROVE  Top \in Frame /\ Top.fn = fn /\ Pop \in Seq(Frame) /\ Await(Pop) /\ Await(calls)
<1>1. Await(calls)
  BY Called, PlainAre DEF Resumes
<1> QED BY <1>1, TopAndPop, State DEF Resumes, Await

(* A function that works on its own locals finds them on top.              *)
LEMMA Owned ==
  ASSUME IInv, ctl \in DOMAIN Owners
  PROVE  /\ Top \in Frame /\ Top.fn = Owners[ctl] /\ Pop \in Seq(Frame) /\ Await(Pop)
         /\ Owners[ctl] \in Awaiting => Await(calls)
<1>1. calls # <<>> /\ calls[Len(calls)].fn = Owners[ctl]
  BY DEF IInv, ControlFitsStack, StackFits
<1>2. \A i \in 1..Len(calls) : i < Len(calls) => calls[i].fn \in Awaiting
  BY DEF IInv, ControlFitsStack, StackFits
<1>3. Await(Pop)
  BY <1>1, <1>2, TopAndPop, State DEF Await
<1>4. Owners[ctl] \in Awaiting => Await(calls)
  BY <1>1, <1>2, State DEF Await
<1> QED BY <1>1, <1>3, <1>4, TopAndPop DEF Top
-----------------------------------------------------------------------------
(* The kinds of step.                                                      *)

(* A frame that control fits goes on top of waiting ones.                  *)
LEMMA PushFits ==
  ASSUME NEW cs \in Seq(Frame), Await(cs), NEW fr \in Frame, NEW c, Fits(fr, c)
  PROVE  Append(cs, fr) \in Seq(Frame) /\ StackFits(Append(cs, fr), c)
<1> DEFINE s == Append(cs, fr)
<1>1. /\ s \in Seq(Frame) /\ s # <<>> /\ Len(s) = Len(cs) + 1 /\ Len(cs) \in Nat
      /\ s[Len(s)] = fr /\ \A i \in 1..Len(cs) : s[i] = cs[i]
  BY AppendProperties
<1> HIDE DEF s
<1> QED BY <1>1 DEF Await, Fits, StackFits

(* Any waiting stack fits a function without locals.                       *)
LEMMA PlainFits ==
  ASSUME NEW cs, Await(cs), NEW c \in Plain
  PROVE  StackFits(cs, c)
BY DEF Await, StackFits, Plain

(* A step that stays in one round of the trampoline.                       *)
LEMMA Steps ==
  ASSUME IInv, NEW q, OK(q), NEW cs \in Seq(Frame), NEW c \in Controls, StackFits(cs, c),
         c \in {"typeName", "atomTypeName"} => q.pos > 1,
         NEW n \in Node, Goto(q, cs, c) \/ GotoWith(q, cs, c, n)
  PROVE  IInv'
<1>1. /\ toks' = toks /\ p' = q /\ conts' = conts /\ calls' = cs /\ ctl' = c
      /\ val' \in Node
  BY State DEF Goto, GotoWith
<1>2. TypeOK'
  BY <1>1 DEF IInv, TypeOK, OK
<1>3. DepthBound'
  BY <1>1 DEF IInv, DepthBound
<1>4. ControlFitsStack'
  BY <1>1 DEF IInv, ControlFitsStack, StackFits, BoxFits
<1>5. NameConsumed'
  BY <1>1 DEF NameConsumed
<1> QED BY <1>2, <1>3, <1>4, <1>5 DEF IInv

(* Control goes to a function whose frame is on top of waiting ones.       *)
LEMMA FramedStep ==
  ASSUME IInv, NEW q, OK(q), NEW cs \in Seq(Frame), Await(cs), NEW fr \in Frame,
         NEW c \in Controls, Fits(fr, c), c \in {"typeName", "atomTypeName"} => q.pos > 1,
         NEW n \in Node, Goto(q, Append(cs, fr), c) \/ GotoWith(q, Append(cs, fr), c, n)
  PROVE  IInv'
BY PushFits, Steps

(* Control goes to a function that has no frame yet, or back to the top.   *)
LEMMA PlainStep ==
  ASSUME IInv, NEW q, OK(q), NEW cs \in Seq(Frame), Await(cs), NEW c \in Plain,
         NEW n \in Node, Goto(q, cs, c) \/ GotoWith(q, cs, c, n)
  PROVE  IInv'
<1>1. c \in Controls /\ c \notin {"typeName", "atomTypeName"}
  BY OwnersAre DEF Plain
<1> QED BY <1>1, PlainFits, Steps

(* A value is returned to a waiting stack.                                 *)
LEMMA ReturnStep ==
  ASSUME IInv, NEW q, OK(q), NEW cs \in Seq(Frame), Await(cs), NEW n \in Node, Return(q, cs, n)
  PROVE  IInv'
<1>1. "done" \in Plain
  BY PlainAre
<1> QED BY <1>1, PlainStep DEF Return

(* An error unwinds everything.                                            *)
LEMMA FailStep ==
  ASSUME IInv, NEW q, OK(q), Fail(q)
  PROVE  IInv'
<1>1. /\ toks' = toks /\ p' = q /\ conts' = <<>> /\ calls' = <<>> /\ ctl' = "error" /\ val' = val
  BY DEF Fail
<1>2. TypeOK'
  BY <1>1, PlainAre DEF IInv, TypeOK, OK, Plain
<1>3. DepthBound'
  BY <1>1, DepthAssumption DEF DepthBound
<1>4. ControlFitsStack'
  BY <1>1, OwnersAre DEF ControlFitsStack, StackFits
<1>5. NameConsumed'
  BY <1>1 DEF NameConsumed
<1> QED BY <1>2, <1>3, <1>4, <1>5 DEF IInv

(* A stack whose innermost function takes an expression is boxed.          *)
LEMMA NeedStep ==
  ASSUME IInv, NEW q, OK(q), NEW cs \in Seq(Frame), Await(cs), NEW fr \in Frame, fr.fn \in Holes,
         Need(q, Append(cs, fr))
  PROVE  IInv'
<1> DEFINE box == Append(cs, fr)
<1>1. CASE Fail(q)
  BY <1>1, FailStep
<1>2. CASE ~Fail(q)
  <2>1. /\ Len(conts) < MaxExprDepth /\ toks' = toks /\ p' = q /\ conts' = Append(conts, box)
        /\ calls' = <<>> /\ ctl' = "expr" /\ val' = val
    BY <1>2 DEF Need
  <2>2. /\ box \in Seq(Frame) /\ box # <<>> /\ Len(box) = Len(cs) + 1 /\ Len(cs) \in Nat
        /\ box[Len(box)] = fr /\ \A i \in 1..Len(cs) : box[i] = cs[i]
    BY AppendProperties
  <2>3. BoxFits(box)
    <3> HIDE DEF box
    <3> QED BY <2>2, HolesAwait DEF BoxFits, Await
  <2> HIDE DEF box
  <2>4. /\ conts' \in Seq(Seq(Frame)) /\ Len(conts') = Len(conts) + 1 /\ Len(conts) \in Nat
        /\ conts'[Len(conts')] = box /\ \A i \in 1..Len(conts) : conts'[i] = conts[i]
    BY <2>1, <2>2, AppendProperties DEF IInv, TypeOK
  <2>5. TypeOK'
    BY <2>1, <2>4, PlainAre DEF IInv, TypeOK, OK, Plain
  <2>6. DepthBound'
    BY <2>1, <2>4, DepthAssumption DEF DepthBound
  <2>7. StackFits(calls', ctl')
    BY <2>1, OwnersAre DEF StackFits
  <2>8. \A i \in 1..Len(conts') : BoxFits(conts'[i])
    <3> SUFFICES ASSUME NEW i \in 1..Len(conts') PROVE BoxFits(conts'[i])
      OBVIOUS
    <3>1. \A j \in 1..Len(conts) : BoxFits(conts[j])
      BY DEF IInv, ControlFitsStack
    <3>2. i \in 1..Len(conts) \/ i = Len(conts')
      BY <2>4
    <3> QED BY <2>3, <2>4, <3>1, <3>2
  <2>9. NameConsumed'
    BY <2>1 DEF NameConsumed
  <2> QED BY <2>5, <2>6, <2>7, <2>8, <2>9 DEF IInv, ControlFitsStack
<1> QED BY <1>1, <1>2
-----------------------------------------------------------------------------
(* Patterns.                                                               *)

(* No action of the pattern parser breaks the invariant.                   *)
LEMMA PatternSteps == ASSUME IInv, PatternNext PROVE IInv'
<1> USE State
<1>1. CASE ParsePattern
  <2>1. New("as", Here(p)) \in Frame /\ Fits(New("as", Here(p)), "consPattern")
    BY HereType, NewType, PlainAre DEF FrameNames, Fits, Awaiting, Plain
  <2> QED BY <1>1, <2>1, PlainAre, Called, FramedStep DEF ParsePattern, Plain
<1>2. CASE AfterAsOperand
  <2> DEFINE q == Skip(p)
             r == Skip(Advance(q))
  <2>1. OK(q) /\ OK(r) /\ OK(Advance(r))
    BY SkipOK, AdvanceOK
  <2>2. Close(AddPart(Top, val), Advance(r)) \in Node /\ Pop \in Seq(Frame) /\ Await(Pop)
    BY <1>2, <2>1, Resumed, AddPartType, CloseType DEF AfterAsOperand
  <2> HIDE DEF q, r
  <2> QED BY <1>2, <2>1, <2>2, ReturnStep, FailStep DEF AfterAsOperand, q, r
<1>3. CASE ParseConsPattern
  <2>1. New("cons", Here(p)) \in Frame /\ Fits(New("cons", Here(p)), "appPattern")
    BY HereType, NewType, PlainAre DEF FrameNames, Fits, Awaiting, Plain
  <2> QED BY <1>3, <2>1, PlainAre, Called, FramedStep DEF ParseConsPattern, Plain
<1>4. CASE AfterConsHead
  <2> DEFINE q == Skip(p)
             fr == [AddPart(Top, val) EXCEPT !.fn = "consTail"]
  <2>1. OK(q) /\ OK(Advance(q))
    BY SkipOK, AdvanceOK
  <2>2. Pop \in Seq(Frame) /\ Await(Pop) /\ AddPart(Top, val) \in Frame
    BY <1>4, Resumed, AddPartType DEF AfterConsHead
  <2>3. fr \in Frame /\ fr.fn = "consTail"
    <3> DEFINE base == AddPart(Top, val)
    <3> HIDE DEF base
    <3> QED BY <2>2 DEF base, Frame, FrameNames
  <2>4. Fits(fr, "consPattern")
    BY <2>3, OwnersAre DEF Fits, Awaiting
  <2> HIDE DEF q, fr
  <2> QED BY <1>4, <2>1, <2>2, <2>3, <2>4, ReturnStep, FramedStep, PlainAre
          DEF AfterConsHead, Swap, Plain, q, fr
<1>5. CASE AfterConsTail
  <2>1. Close(AddPart(Top, val), p) \in Node /\ Pop \in Seq(Frame) /\ Await(Pop)
    BY <1>5, Resumed, AddPartType, CloseType DEF AfterConsTail
  <2> QED BY <1>5, <2>1, ReturnStep DEF AfterConsTail
<1>6. CASE ParseAppPattern
  <2> DEFINE q == Skip(p)
             new == New("ctor", Here(p))
             c == HereCol(q)
             l == toks[q.pos].line
             fr == [new EXCEPT !.col = c, !.n = 1, !.line = l]
  <2>1. OK(q) /\ OK(Advance(q)) /\ Await(calls)
    BY <1>6, SkipOK, AdvanceOK, Called, PlainAre DEF ParseAppPattern
  <2>2. new \in Frame /\ new.fn = "ctor" /\ c \in Nat /\ l \in Nat
    <3>1. Here(p) \in Nat /\ c \in Nat /\ l \in Nat
      BY <2>1, HereType
    <3>2. "ctor" \in FrameNames
      BY DEF FrameNames
    <3>3. new \in Frame /\ new.fn = "ctor"
      BY <3>1, <3>2, NewType
    <3> HIDE DEF new, c, l
    <3> QED BY <3>1, <3>3
  <2> HIDE DEF new, c, l
  <2>3. fr \in Frame /\ fr.fn = "ctor"
    BY <2>2 DEF Frame
  <2>4. Fits(fr, "ctorName") /\ "ctorName" \in Controls
    BY <2>3, OwnersAre DEF Fits, Controls
  <2> HIDE DEF q, fr
  <2>5. CASE Peek(q) = "upper"
    BY <1>6, <2>1, <2>3, <2>4, <2>5, FramedStep DEF ParseAppPattern, q, fr, new, c, l
  <2>6. CASE Peek(q) # "upper"
    BY <1>6, <2>1, <2>6, PlainStep, PlainAre DEF ParseAppPattern, q
  <2> QED BY <2>5, <2>6
<1>7. CASE QualifyCtor
  <2> DEFINE next == Advance(p)
  <2>1. OK(next) /\ OK(Advance(next))
    BY AdvanceOK
  <2>2. /\ ctl \in {"ctorName", "atomCtor"} /\ ctl \in DOMAIN Owners /\ Owners[ctl] = "ctor"
        /\ Owners["ctorArgs"] = "ctor" /\ "ctorArgs" \in DOMAIN Owners /\ "ctorArgs" \in Controls
        /\ ctl \in Controls
    BY <1>7, OwnersAre DEF QualifyCtor, Controls
  <2>3. Top \in Frame /\ Pop \in Seq(Frame) /\ Await(Pop) /\ Close(Top, p) \in Node
    BY <2>2, Owned, CloseType
  <2>4. StackFits(calls, ctl) /\ StackFits(calls, "ctorArgs")
    BY <2>2 DEF IInv, ControlFitsStack, StackFits
  <2> HIDE DEF next
  <2> QED BY <1>7, <2>1, <2>2, <2>3, <2>4, Steps, ReturnStep DEF QualifyCtor, next
<1>8. CASE CtorArguments
  <2> DEFINE q == Skip(p)
  <2>1. OK(q)
    BY SkipOK
  <2>2. ctl \in DOMAIN Owners /\ Owners[ctl] = "ctor"
    BY <1>8, OwnersAre DEF CtorArguments
  <2>3. Pop \in Seq(Frame) /\ Await(Pop) /\ Await(calls) /\ Close(Top, q) \in Node
    BY <2>1, <2>2, Owned, CloseType DEF Awaiting
  <2> HIDE DEF q
  <2> QED BY <1>8, <2>1, <2>3, PlainStep, PlainAre, ReturnStep DEF CtorArguments, q
<1>9. CASE AfterCtorArgument
  <2> DEFINE fr == AddPart(Top, val)
  <2>1. Pop \in Seq(Frame) /\ Await(Pop) /\ fr \in Frame /\ fr.fn = "ctor"
    BY <1>9, Resumed, AddPartType DEF AfterCtorArgument
  <2>2. Fits(fr, "ctorArgs") /\ "ctorArgs" \in Controls
    BY <2>1, OwnersAre DEF Fits, Controls
  <2> HIDE DEF fr
  <2> QED BY <1>9, <2>1, <2>2, FramedStep DEF AfterCtorArgument, Swap, fr
<1>10. CASE SimplePattern
  <2> DEFINE q == Skip(p)
             r == Advance(q)
  <2>1. OK(q) /\ OK(r) /\ Leaf(Here(q), r) \in Node /\ Await(calls)
    BY <1>10, SkipOK, AdvanceOK, LeafType, HereType, Called, PlainAre DEF SimplePattern
  <2> HIDE DEF q, r
  <2> QED BY <1>10, <2>1, ReturnStep DEF SimplePattern, q, r
<1>11. CASE AtomicCtorPattern
  <2> DEFINE q == Skip(p)
             fr == New("ctor", Here(q))
  <2>1. OK(q) /\ OK(Advance(q)) /\ fr \in Frame /\ fr.fn = "ctor" /\ Await(calls)
    <3>1. OK(q) /\ OK(Advance(q)) /\ Here(q) \in Nat
      BY SkipOK, AdvanceOK, HereType
    <3>2. "ctor" \in FrameNames
      BY DEF FrameNames
    <3>3. Await(calls)
      BY <1>11, Called, PlainAre DEF AtomicCtorPattern
    <3> QED BY <3>1, <3>2, <3>3, NewType
  <2>2. Fits(fr, "atomCtor") /\ "atomCtor" \in Controls
    BY <2>1, OwnersAre DEF Fits, Controls
  <2> HIDE DEF q, fr
  <2> QED BY <1>11, <2>1, <2>2, FramedStep DEF AtomicCtorPattern, q, fr
<1>12. CASE NegativePattern
  <2> DEFINE q == Skip(p)
             r == Skip(Advance(q))
  <2>1. OK(q) /\ OK(r) /\ OK(Advance(r)) /\ Leaf(Here(q), Advance(r)) \in Node /\ Await(calls)
    BY <1>12, SkipOK, AdvanceOK, LeafType, HereType, Called, PlainAre DEF NegativePattern
  <2> HIDE DEF q, r
  <2> QED BY <1>12, <2>1, ReturnStep, FailStep DEF NegativePattern, q, r
<1>13. CASE ParenPattern
  <2> DEFINE q == Skip(p)
             r == Skip(Advance(q))
             fr == New("patParen", Here(q))
  <2>1. OK(q) /\ OK(r) /\ OK(Advance(r)) /\ Leaf(Here(q), Advance(r)) \in Node /\ Await(calls)
    BY <1>13, SkipOK, AdvanceOK, LeafType, HereType, Called, PlainAre DEF ParenPattern
  <2>2. fr \in Frame /\ Fits(fr, "pattern") /\ "pattern" \in Plain /\ "pattern" \in Controls
    <3>1. Here(q) \in Nat
      BY <2>1, HereType
    <3> HIDE DEF q
    <3>2. "patParen" \in FrameNames
      BY DEF FrameNames
    <3>3. fr \in Frame /\ fr.fn = "patParen"
      BY <3>1, <3>2, NewType
    <3> HIDE DEF fr
    <3> QED BY <3>3, PlainAre DEF Fits, Awaiting, Plain
  <2> HIDE DEF q, r, fr
  <2> QED BY <1>13, <2>1, <2>2, ReturnStep, FramedStep DEF ParenPattern, q, r, fr
<1>14. CASE AfterFirstInParen
  <2> DEFINE q == Skip(p)
             part == AddPart(Top, val)
             fr == [part EXCEPT !.fn = "patTuple"]
  <2>1. OK(q) /\ OK(Advance(q))
    BY SkipOK, AdvanceOK
  <2>2. Pop \in Seq(Frame) /\ Await(Pop) /\ part \in Frame /\ Close(part, Advance(q)) \in Node
    BY <1>14, <2>1, Resumed, AddPartType, CloseType DEF AfterFirstInParen
  <2> HIDE DEF q, part
  <2>3. fr \in Frame /\ fr.fn = "patTuple"
    BY <2>2 DEF Frame, FrameNames
  <2>4. Fits(fr, "pattern") /\ "pattern" \in Controls
    BY <2>3, OwnersAre DEF Fits, Awaiting, Controls
  <2> HIDE DEF fr
  <2> QED BY <1>14, <2>1, <2>2, <2>3, <2>4, ReturnStep, FailStep, FramedStep
          DEF AfterFirstInParen, Swap, q, part, fr
<1>15. ASSUME NEW fn \in {"patTuple", "patList"}, NEW closer, AfterPatternElement(fn, closer)
       PROVE  IInv'
  <2> DEFINE q == Skip(p)
             fr == AddPart(Top, val)
  <2>1. OK(q) /\ OK(Advance(q))
    BY SkipOK, AdvanceOK
  <2>2. Pop \in Seq(Frame) /\ Await(Pop) /\ fr \in Frame /\ fr.fn = fn /\ Close(fr, Advance(q)) \in Node
    BY <1>15, <2>1, Resumed, AddPartType, CloseType DEF AfterPatternElement
  <2>3. Fits(fr, "pattern") /\ "pattern" \in Controls
    BY <2>2, OwnersAre DEF Fits, Awaiting, Controls
  <2> HIDE DEF q, fr
  <2> QED BY <1>15, <2>1, <2>2, <2>3, ReturnStep, FailStep, FramedStep
          DEF AfterPatternElement, Swap, q, fr
<1>16. CASE ListPattern
  <2> DEFINE q == Skip(p)
             r == Skip(Advance(q))
             fr == New("patList", Here(q))
  <2>1. OK(q) /\ OK(r) /\ OK(Advance(r)) /\ Leaf(Here(q), Advance(r)) \in Node /\ Await(calls)
    BY <1>16, SkipOK, AdvanceOK, LeafType, HereType, Called, PlainAre DEF ListPattern
  <2>2. fr \in Frame /\ Fits(fr, "pattern") /\ "pattern" \in Controls
    <3>1. Here(q) \in Nat
      BY <2>1, HereType
    <3> HIDE DEF q
    <3>2. "patList" \in FrameNames
      BY DEF FrameNames
    <3>3. fr \in Frame /\ fr.fn = "patList"
      BY <3>1, <3>2, NewType
    <3> HIDE DEF fr
    <3> QED BY <3>3, PlainAre DEF Fits, Awaiting, Plain
  <2> HIDE DEF q, r, fr
  <2> QED BY <1>16, <2>1, <2>2, ReturnStep, FramedStep DEF ListPattern, q, r, fr
<1>17. CASE RecordPattern
  <2> DEFINE q == Skip(p)
             r == Advance(q)
             s == Skip(r)
             fr == New("patRecord", Here(q))
  <2>1. /\ OK(q) /\ OK(r) /\ OK(s) /\ OK(Advance(s)) /\ Leaf(Here(q), Advance(s)) \in Node
        /\ Await(calls)
    BY <1>17, SkipOK, AdvanceOK, LeafType, HereType, Called, PlainAre DEF RecordPattern
  <2>2. fr \in Frame /\ fr.fn = "patRecord"
    BY <2>1, HereType, NewType DEF FrameNames
  <2>3. Fits(fr, "patternField") /\ "patternField" \in Controls
    BY <2>2, OwnersAre DEF Fits, Controls
  <2> HIDE DEF q, r, s, fr
  <2> QED BY <1>17, <2>1, <2>2, <2>3, ReturnStep, FailStep, FramedStep DEF RecordPattern, q, r, s, fr
<1>18. CASE PatternField
  <2> DEFINE q == Skip(p)
             r == Skip(Advance(q))
  <2>1. OK(q) /\ OK(r) /\ OK(Advance(r))
    BY SkipOK, AdvanceOK
  <2>2. ctl = "patternField" /\ ctl \in DOMAIN Owners /\ ctl \in Controls
    BY <1>18, OwnersAre DEF PatternField, Controls
  <2>3. Pop \in Seq(Frame) /\ Await(Pop) /\ Close(Top, Advance(r)) \in Node
    BY <2>1, <2>2, Owned, CloseType
  <2>4. StackFits(calls, ctl)
    BY DEF IInv, ControlFitsStack
  <2> HIDE DEF q, r
  <2> QED BY <1>18, <2>1, <2>2, <2>3, <2>4, Steps, ReturnStep, FailStep DEF PatternField, q, r
<1>19. CASE NotAPattern
  BY <1>19, SkipOK, FailStep DEF NotAPattern
<1> QED BY <1>1, <1>2, <1>3, <1>4, <1>5, <1>6, <1>7, <1>8, <1>9, <1>10, <1>11, <1>12, <1>13, <1>14,
           <1>15, <1>16, <1>17, <1>18, <1>19 DEF PatternNext, AfterTuplePattern, AfterListPattern
-----------------------------------------------------------------------------
(* Type annotations.                                                       *)

(* No action of the type parser breaks the invariant.                      *)
LEMMA TypeSteps == ASSUME IInv, TypeNext PROVE IInv'
<1> USE State
<1>1. CASE ParseType
  <2> DEFINE new == New("type", Here(p))
             k == Snapshot(p)
             l == FirstTokenOffset(p)
             fr == [new EXCEPT !.snap = k, !.lim = l]
  <2>1. Await(calls) /\ new \in Frame /\ new.fn = "type" /\ k \in Nat
    <3>1. Await(calls) /\ Here(p) \in Nat
      BY <1>1, Called, PlainAre, HereType DEF ParseType
    <3>2. "type" \in FrameNames
      BY DEF FrameNames
    <3> QED BY <3>1, <3>2, NewType, PendingType
  <2>2. l \in Nat
    BY TokenAt DEF FirstTokenOffset, OK, Token
  <2> HIDE DEF new, k, l
  <2>3. fr \in Frame /\ fr.fn = "type"
    BY <2>1, <2>2 DEF Frame
  <2>4. Fits(fr, "typeApp") /\ "typeApp" \in Controls
    BY <2>3, OwnersAre DEF Fits, Awaiting, Controls
  <2> HIDE DEF fr
  <2> QED BY <1>1, <2>1, <2>3, <2>4, FramedStep DEF ParseType, fr, new, k, l
<1>2. CASE AfterFirstArm
  <2> DEFINE early == Before(p, Top.lim)
             left == Lead(val, Claimed(p, Top.snap, early))
             q == Skip(Unclaimed(p, Top.snap, early))
             gap == Between(q, left.to, Here(q))
             rest == Unclaimed(q, 0, gap)
             lead == Claimed(q, 0, gap)
             part == AddPart(Top, left)
             fr == [part EXCEPT !.fn = "arrow", !.lead = lead]
  <2>1. Top \in Frame /\ Pop \in Seq(Frame) /\ Await(Pop) /\ Top.snap \in Nat
    BY <1>2, Resumed, FrameParts DEF AfterFirstArm
  <2>2. left \in Node /\ OK(Unclaimed(p, Top.snap, early))
    BY <2>1, ClaimedType, LeadType
  <2>3. OK(q)
    BY <2>2, SkipOK
  <2> HIDE DEF early, left, q
  <2>4. OK(rest) /\ OK(Advance(rest)) /\ lead \in Seq(Comment) /\ part \in Frame
    BY <2>1, <2>2, <2>3, ClaimedType, AdvanceOK, AddPartType
  <2> HIDE DEF gap, rest, lead, part
  <2>5. fr \in Frame /\ fr.fn = "arrow"
    BY <2>4 DEF Frame, FrameNames
  <2>6. Fits(fr, "type") /\ "type" \in Controls
    BY <2>5, OwnersAre DEF Fits, Awaiting, Controls
  <2> HIDE DEF fr
  <2> QED BY <1>2, <2>1, <2>2, <2>3, <2>4, <2>5, <2>6, ReturnStep, FramedStep
          DEF AfterFirstArm, Swap, fr, part, lead, rest, gap, q, left, early
<1>3. CASE AfterArrow
  <2> DEFINE right == Lead(val, Top.lead)
             whole == Close(AddPart(Top, right), p)
  <2>1. Top \in Frame /\ Pop \in Seq(Frame) /\ Await(Pop)
    BY <1>3, Resumed DEF AfterArrow
  <2>2. whole \in Node
    BY <2>1, FrameParts, LeadType, AddPartType, CloseType
  <2> HIDE DEF whole
  <2>3. [whole EXCEPT !.arrow = TRUE] \in Node
    BY <2>2 DEF Node
  <2> QED BY <1>3, <2>1, <2>3, ReturnStep DEF AfterArrow, whole
<1>4. CASE ParseTypeApp
  <2> DEFINE q == Skip(p)
             fr == New("typeApp", Here(p))
  <2>1. OK(q) /\ OK(Advance(q)) /\ Await(calls)
    BY <1>4, SkipOK, AdvanceOK, Called, PlainAre DEF ParseTypeApp
  <2>2. fr \in Frame /\ fr.fn = "typeApp"
    BY HereType, NewType DEF FrameNames
  <2>3. Fits(fr, "typeName") /\ "typeName" \in Controls
    BY <2>2, OwnersAre DEF Fits, Controls
  <2>4. Peek(q) = "upper" => Advance(q).pos > 1
    BY <2>1, AdvanceOK DEF Peek, OK
  <2> HIDE DEF q, fr
  <2>5. CASE Peek(q) = "upper"
    BY <1>4, <2>1, <2>2, <2>3, <2>4, <2>5, FramedStep DEF ParseTypeApp, q, fr
  <2>6. CASE Peek(q) # "upper"
    BY <1>4, <2>1, <2>6, PlainStep, PlainAre DEF ParseTypeApp, q
  <2> QED BY <2>5, <2>6
<1>5. CASE QualifyType
  <2> DEFINE next == Advance(p)
             name == toks[p.pos - 1]
             c == name.col
             l == name.line
             fr == [Top EXCEPT !.col = c, !.line = l]
  <2>1. /\ OK(next) /\ OK(Advance(next)) /\ next.pos >= p.pos /\ Advance(next).pos >= next.pos
        /\ p.pos \in Nat /\ next.pos \in Nat /\ Advance(next).pos \in Nat
    BY AdvanceOK DEF OK
  <2>2. /\ ctl \in {"typeName", "atomTypeName"} /\ ctl \in DOMAIN Owners /\ Owners[ctl] = "typeApp"
        /\ Owners["typeArgs"] = "typeApp" /\ "typeArgs" \in DOMAIN Owners /\ "typeArgs" \in Controls
        /\ ctl \in Controls
    BY <1>5, OwnersAre DEF QualifyType, Controls
  <2>3. /\ Top \in Frame /\ Top.fn = "typeApp" /\ Pop \in Seq(Frame) /\ Await(Pop)
        /\ Close(Top, p) \in Node
    BY <2>2, Owned, CloseType
  <2>4. StackFits(calls, ctl)
    BY DEF IInv, ControlFitsStack
  <2>5. p.pos > 1
    BY <2>2 DEF IInv, NameConsumed
  <2>6. c \in Nat /\ l \in Nat
    <3>1. p.pos - 1 \in 1..Len(toks)
      BY <2>5 DEF OK, Stream
    <3>2. name \in Token
      BY <3>1, TokenAt
    <3> HIDE DEF name
    <3> QED BY <3>2 DEF Token
  <2> HIDE DEF c, l
  <2>7. fr \in Frame /\ fr.fn = "typeApp"
    BY <2>3, <2>6 DEF Frame
  <2>8. Fits(fr, "typeArgs")
    BY <2>2, <2>7 DEF Fits
  <2> HIDE DEF next, name, fr
  <2>9. CASE Goto(Advance(next), calls, ctl)
    BY <2>1, <2>2, <2>4, <2>5, <2>9, Steps
  <2>10. CASE Goto(p, Swap(fr), "typeArgs")
    BY <2>2, <2>3, <2>7, <2>8, <2>10, FramedStep DEF Swap
  <2>11. CASE Return(p, Pop, Close(Top, p))
    BY <2>3, <2>11, ReturnStep
  <2> QED BY <1>5, <2>9, <2>10, <2>11 DEF QualifyType, next, name, fr, c, l
<1>6. CASE TypeArguments
  <2> DEFINE q == Skip(p)
  <2>1. OK(q)
    BY SkipOK
  <2>2. ctl \in DOMAIN Owners /\ Owners[ctl] = "typeApp"
    BY <1>6, OwnersAre DEF TypeArguments
  <2>3. Pop \in Seq(Frame) /\ Await(Pop) /\ Await(calls) /\ Close(Top, q) \in Node
    BY <2>1, <2>2, Owned, CloseType DEF Awaiting
  <2> HIDE DEF q
  <2> QED BY <1>6, <2>1, <2>3, PlainStep, PlainAre, ReturnStep DEF TypeArguments, q
<1>7. CASE AfterTypeArgument
  <2> DEFINE fr == AddPart(Top, val)
  <2>1. Pop \in Seq(Frame) /\ Await(Pop) /\ fr \in Frame /\ fr.fn = "typeApp"
    BY <1>7, Resumed, AddPartType DEF AfterTypeArgument
  <2>2. Fits(fr, "typeArgs") /\ "typeArgs" \in Controls
    BY <2>1, OwnersAre DEF Fits, Controls
  <2> HIDE DEF fr
  <2> QED BY <1>7, <2>1, <2>2, FramedStep DEF AfterTypeArgument, Swap, fr
<1>8. CASE TypeVariable
  <2> DEFINE q == Skip(p)
             r == Advance(q)
  <2>1. OK(q) /\ OK(r) /\ Leaf(Here(q), r) \in Node /\ Await(calls)
    BY <1>8, SkipOK, AdvanceOK, LeafType, HereType, Called, PlainAre DEF TypeVariable
  <2> HIDE DEF q, r
  <2> QED BY <1>8, <2>1, ReturnStep DEF TypeVariable, q, r
<1>9. CASE AtomicTypeName
  <2> DEFINE q == Skip(p)
             fr == New("typeApp", Here(q))
  <2>1. OK(q) /\ OK(Advance(q)) /\ fr \in Frame /\ fr.fn = "typeApp" /\ Await(calls)
    <3>1. OK(q) /\ OK(Advance(q)) /\ Here(q) \in Nat
      BY SkipOK, AdvanceOK, HereType
    <3>2. "typeApp" \in FrameNames
      BY DEF FrameNames
    <3>3. Await(calls)
      BY <1>9, Called, PlainAre DEF AtomicTypeName
    <3> QED BY <3>1, <3>2, <3>3, NewType
  <2>2. Fits(fr, "atomTypeName") /\ "atomTypeName" \in Controls
    BY <2>1, OwnersAre DEF Fits, Controls
  <2>3. Peek(q) = "upper" => Advance(q).pos > 1
    BY <2>1, AdvanceOK DEF Peek, OK
  <2> HIDE DEF q, fr
  <2> QED BY <1>9, <2>1, <2>2, <2>3, FramedStep DEF AtomicTypeName, q, fr
<1>10. CASE ParenType
  <2> DEFINE q == Skip(p)
             r == Skip(Advance(q))
             fr == New("typeParen", Here(q))
  <2>1. OK(q) /\ OK(r) /\ OK(Advance(r)) /\ Leaf(Here(q), Advance(r)) \in Node /\ Await(calls)
    BY <1>10, SkipOK, AdvanceOK, LeafType, HereType, Called, PlainAre DEF ParenType
  <2>2. fr \in Frame /\ Fits(fr, "type") /\ "type" \in Controls
    <3>1. Here(q) \in Nat
      BY <2>1, HereType
    <3> HIDE DEF q
    <3>2. "typeParen" \in FrameNames
      BY DEF FrameNames
    <3>3. fr \in Frame /\ fr.fn = "typeParen"
      BY <3>1, <3>2, NewType
    <3> HIDE DEF fr
    <3> QED BY <3>3, PlainAre DEF Fits, Awaiting, Plain
  <2> HIDE DEF q, r, fr
  <2> QED BY <1>10, <2>1, <2>2, ReturnStep, FramedStep DEF ParenType, q, r, fr
<1>11. CASE AfterFirstInType
  <2> DEFINE q == Skip(p)
             r == Advance(q)
             whole == SpanNode(Top.from, r, val.kept, val.sub)
             rewrapped == [whole EXCEPT !.arrow = TRUE]
             part == AddPart(Top, val)
             fr == [part EXCEPT !.fn = "typeTuple"]
  <2>1. OK(q) /\ OK(r)
    BY SkipOK, AdvanceOK
  <2>2. Top \in Frame /\ Pop \in Seq(Frame) /\ Await(Pop) /\ part \in Frame
    BY <1>11, Resumed, AddPartType DEF AfterFirstInType
  <2>3. whole \in Node
    BY <2>1, <2>2, FrameParts, NodeParts, SpanNodeType
  <2> HIDE DEF q, r, whole, part
  <2>4. rewrapped \in Node
    BY <2>3 DEF Node
  <2>5. fr \in Frame /\ fr.fn = "typeTuple"
    BY <2>2, ZenonT(40) DEF Frame, FrameNames
  <2>6. Fits(fr, "type") /\ "type" \in Controls
    BY <2>5, OwnersAre DEF Fits, Awaiting, Controls
  <2> HIDE DEF fr, rewrapped
  <2>7. (IF val.arrow THEN rewrapped ELSE val) \in Node
    BY <2>4
  <2> QED BY <1>11, <2>1, <2>2, <2>5, <2>6, <2>7, ReturnStep, FailStep, FramedStep
          DEF AfterFirstInType, Swap, q, r, whole, rewrapped, part, fr
<1>12. CASE AfterTupleType
  <2> DEFINE q == Skip(p)
             fr == AddPart(Top, val)
  <2>1. OK(q) /\ OK(Advance(q))
    BY SkipOK, AdvanceOK
  <2>2. /\ Pop \in Seq(Frame) /\ Await(Pop) /\ fr \in Frame /\ fr.fn = "typeTuple"
        /\ Close(fr, Advance(q)) \in Node
    BY <1>12, <2>1, Resumed, AddPartType, CloseType DEF AfterTupleType
  <2>3. Fits(fr, "type") /\ "type" \in Controls
    BY <2>2, OwnersAre DEF Fits, Awaiting, Controls
  <2> HIDE DEF q, fr
  <2> QED BY <1>12, <2>1, <2>2, <2>3, ReturnStep, FailStep, FramedStep
          DEF AfterTupleType, Swap, q, fr
<1>13. CASE RecordType
  <2> DEFINE q == Skip(p)
             r == Skip(Advance(q))
             s == Skip(Advance(r))
             back == [s EXCEPT !.pos = r.pos, !.raw = FALSE]
             new == New("typeFields", Here(q))
             Fields(c) == [new EXCEPT !.snap = Snapshot(c)]
  <2>1. /\ OK(q) /\ OK(r) /\ OK(Advance(r)) /\ OK(s) /\ OK(Advance(s))
        /\ Leaf(Here(q), Advance(r)) \in Node /\ Await(calls)
    BY <1>13, SkipOK, AdvanceOK, LeafType, HereType, Called, PlainAre DEF RecordType
  <2>2. new \in Frame /\ new.fn = "typeFields"
    BY <2>1, HereType, NewType, ZenonT(60) DEF FrameNames
  <2> HIDE DEF q, r, s, new
  <2>3. OK(back)
    BY <2>1 DEF OK, Cursor
  <2>4. ASSUME NEW c, OK(c)
        PROVE  Fields(c) \in Frame /\ Fits(Fields(c), "typeField")
    <3> DEFINE k == Snapshot(c)
               fr == [new EXCEPT !.snap = k]
    <3>1. k \in Nat
      BY <2>4, PendingType
    <3> HIDE DEF k
    <3>2. fr \in Frame /\ fr.fn = "typeFields"
      BY <2>2, <3>1 DEF Frame
    <3>3. Fits(fr, "typeField")
      BY <3>2, OwnersAre DEF Fits
    <3> QED BY <3>2, <3>3 DEF k
  <2>5. "typeField" \in Controls
    BY OwnersAre DEF Controls
  <2> HIDE DEF back
  <2>6. ASSUME NEW c, OK(c), Goto(c, Append(calls, Fields(c)), "typeField")
        PROVE  IInv'
    BY <2>1, <2>4, <2>5, <2>6, FramedStep
  <2>7. ASSUME Return(Advance(r), calls, Leaf(Here(q), Advance(r)))
        PROVE  IInv'
    BY <2>1, <2>7, AdvanceOK, ReturnStep
  <2> QED BY <1>13, <2>1, <2>3, <2>6, <2>7, AdvanceOK DEF RecordType, q, r, s, back, new
<1>14. CASE TypeField
  <2> DEFINE q == Skip(p)
             r == Skip(Advance(q))
             m == Here(p)
             fr == [Top EXCEPT !.mark = m]
  <2>1. OK(q) /\ OK(r) /\ OK(Advance(r)) /\ m \in Nat
    BY SkipOK, AdvanceOK, HereType
  <2>2. ctl \in DOMAIN Owners /\ Owners[ctl] = "typeFields"
    BY <1>14, OwnersAre DEF TypeField
  <2>3. Top \in Frame /\ Top.fn = "typeFields" /\ Pop \in Seq(Frame) /\ Await(Pop)
    BY <2>2, Owned
  <2> HIDE DEF q, r, m
  <2>4. fr \in Frame /\ fr.fn = "typeFields"
    BY <2>1, <2>3 DEF Frame
  <2>5. Fits(fr, "type") /\ "type" \in Controls
    BY <2>4, OwnersAre DEF Fits, Awaiting, Controls
  <2> HIDE DEF fr
  <2> QED BY <1>14, <2>1, <2>3, <2>4, <2>5, FailStep, FramedStep DEF TypeField, Swap, q, r, m, fr
<1>15. CASE AfterTypeField
  <2> DEFINE field == SpanNode(Top.mark, p, Carried(val), val.sub)
             gap == IF Top.n = 0 THEN {} ELSE Between(p, Top.last.to, field.from)
             rest == Unclaimed(p, Top.snap, gap)
             q == Skip(rest)
             fr == AddPart(Top, Lead(field, Claimed(p, Top.snap, gap)))
  <2>1. Top \in Frame /\ Top.fn = "typeFields" /\ Pop \in Seq(Frame) /\ Await(Pop) /\ Top.snap \in Nat
    BY <1>15, Resumed, FrameParts DEF AfterTypeField
  <2>2. field \in Node
    BY <2>1, FrameParts, NodeParts, SpanNodeType
  <2> HIDE DEF field, gap
  <2>3. OK(rest) /\ fr \in Frame /\ fr.fn = "typeFields"
    BY <2>1, <2>2, ClaimedType, LeadType, AddPartType
  <2>4. OK(q) /\ OK(Advance(q)) /\ OK(Skip(Advance(q))) /\ Close(fr, Advance(q)) \in Node
    BY <2>3, SkipOK, AdvanceOK, CloseType
  <2>5. Fits(fr, "typeField") /\ "typeField" \in Controls
    BY <2>3, OwnersAre DEF Fits, Controls
  <2> HIDE DEF rest, q, fr
  <2> QED BY <1>15, <2>1, <2>3, <2>4, <2>5, ReturnStep, FailStep, FramedStep
          DEF AfterTypeField, Swap, field, gap, rest, q, fr
<1>16. CASE ParseSignature
  <2> DEFINE q == Skip(p)
             r == Skip(Advance(q))
             fr == New("signature", Here(p))
  <2>1. OK(q) /\ OK(r) /\ OK(Advance(r)) /\ Await(calls)
    BY <1>16, SkipOK, AdvanceOK, Called, PlainAre DEF ParseSignature
  <2>2. fr \in Frame /\ Fits(fr, "type") /\ "type" \in Controls
    BY HereType, NewType, PlainAre DEF FrameNames, Fits, Awaiting, Plain
  <2> HIDE DEF q, r, fr
  <2> QED BY <1>16, <2>1, <2>2, FailStep, FramedStep DEF ParseSignature, q, r, fr
<1>17. CASE AfterSignatureType
  <2> DEFINE q == DropTrailing(p, val)
             fr == Hold(AddPart(Top, val), Trailing(p, val))
  <2>1. Top \in Frame /\ Pop \in Seq(Frame) /\ Await(Pop)
    BY <1>17, Resumed DEF AfterSignatureType
  <2>2. OK(q) /\ fr \in Frame
    BY <2>1, TrailingType, AddPartType, HoldType
  <2>3. Close(fr, q) \in Node
    BY <2>2, CloseType
  <2> HIDE DEF q, fr
  <2> QED BY <1>17, <2>1, <2>2, <2>3, ReturnStep DEF AfterSignatureType, q, fr
<1>18. CASE NotAType
  BY <1>18, SkipOK, FailStep DEF NotAType
<1> QED BY <1>1, <1>2, <1>3, <1>4, <1>5, <1>6, <1>7, <1>8, <1>9, <1>10, <1>11, <1>12, <1>13, <1>14,
           <1>15, <1>16, <1>17, <1>18 DEF TypeNext
-----------------------------------------------------------------------------
(* The expression parser.                                                  *)

(* The actions of ExprNext by the form of expression they belong to.       *)
OperatorNext == ParseBinary \/ AfterOperand \/ BinaryLoop \/ Reduce \/ FoldRest

ApplicationNext == ParseUnary \/ AfterNegated \/ ParseApplication \/ ApplicationLoop \/ AfterArgument

AtomNext == \/ SimpleAtom \/ QualifiedAtom \/ QualifyValue \/ AccessorAtom \/ NotAnAtom
            \/ AccessChain \/ AfterCompound

BracketNext == \/ ParenAtom \/ AfterParenNegated \/ AfterParenFirst \/ AfterTupleElement
               \/ ListAtom \/ AfterListElement
               \/ RecordAtom \/ ParseSetter \/ AfterSetterValue

BranchNext ==
  \/ IfAtom \/ AfterCondition \/ AfterThen \/ AfterElse
  \/ CaseAtom \/ AfterCaseSubject \/ NextBranch \/ AfterBranchPattern \/ AfterBranchBody

LetNext == \/ LetAtom \/ EndOfLet \/ NextLetDecl \/ AfterLetSignature \/ LetName \/ LetArguments
           \/ AfterLetArgument \/ AfterLetPattern \/ AfterLetValue \/ AfterLetBody

LambdaNext == LambdaAtom \/ LambdaArguments \/ AfterLambdaArgument \/ AfterLambdaBody

(* The frame that chains field accesses goes under a compound expression.  *)
LEMMA CompoundIs ==
  ASSUME calls \in Seq(Frame), NEW fr \in Frame, Await(calls)
  PROVE  /\ Compound(fr) = Append(Append(calls, New("access", 0)), fr)
         /\ Append(calls, New("access", 0)) \in Seq(Frame)
         /\ Await(Append(calls, New("access", 0)))
<1> DEFINE new == New("access", 0)
<1>1. new \in Frame /\ new.fn = "access"
  BY NewType DEF FrameNames
<1> HIDE DEF new
<1>2. calls \o <<new, fr>> = Append(Append(calls, new), fr)
  BY <1>1
<1>3. Append(calls, new) \in Seq(Frame) /\ Await(Append(calls, new))
  BY <1>1, AppendProperties DEF Await, Awaiting
<1> QED BY <1>2, <1>3 DEF Compound, new

(* The pending operators of a binary expression.                           *)
LEMMA OpsType ==
  ASSUME NEW fr \in Frame, fr.ops # <<>>
  PROVE  /\ fr.ops[Len(fr.ops)] \in PendingOp
         /\ SubSeq(fr.ops, 1, Len(fr.ops) - 1) \in Seq(PendingOp)
<1> DEFINE s == fr.ops
           n == Len(s) - 1
<1>1. s \in Seq(PendingOp) /\ Len(s) \in Nat \ {0}
  BY FrameParts, EmptySeq
<1>2. n \in Nat /\ \A i \in 1..n : s[i] \in PendingOp
  BY <1>1
<1>3. SubSeq(s, 1, n) \in Seq(PendingOp)
  <2> HIDE DEF s, n
  <2> QED BY <1>1, <1>2, SubSeqProperties
<1> QED BY <1>1, <1>3
-----------------------------------------------------------------------------
(* Binary operators.                                                       *)

(* The node of a folded operator spans its operands.                       *)
LEMMA CombineType ==
  ASSUME NEW op \in PendingOp, NEW right \in Node
  PROVE  Combine(op, right) \in Node
<1> DEFINE k == Carried(op.left) \o Carried(right)
           u == op.left.sub \cup right.sub \cup {<<op.left.from, right.to>>}
<1>1. op.left \in Node
  BY DEF PendingOp
<1>2. k \in Seq(Comment) /\ u \in SUBSET Span /\ op.left.from \in Nat /\ right.to \in Nat /\ right.end \in Nat
  BY <1>1, NodeParts DEF Span
<1> HIDE DEF k, u
<1>3. [from |-> op.left.from, to |-> right.to, end |-> right.end, arrow |-> FALSE, cs |-> <<>>,
       kept |-> k, sub |-> u] \in Node
  BY <1>2 DEF Node
<1> QED BY <1>3 DEF Combine, k, u

(* Folding one pending operator.                                           *)
LEMMA ReduceLastStep ==
  ASSUME IInv, ctl \in DOMAIN Owners, Owners[ctl] = "binary", Top.ops # <<>>,
         NEW c \in {"reduce", "fold"}, ReduceLast(c)
  PROVE  IInv'
<1> USE State
<1> DEFINE rest == SubSeq(Top.ops, 1, Len(Top.ops) - 1)
           fr == [Top EXCEPT !.ops = rest]
           n == Combine(Top.ops[Len(Top.ops)], val)
<1>1. Top \in Frame /\ Top.fn = "binary" /\ Pop \in Seq(Frame) /\ Await(Pop)
  BY Owned
<1>2. rest \in Seq(PendingOp) /\ n \in Node
  BY <1>1, OpsType, CombineType
<1> HIDE DEF rest, n
<1>3. fr \in Frame /\ fr.fn = "binary"
  BY <1>1, <1>2 DEF Frame
<1>4. Fits(fr, c) /\ c \in Controls
  BY <1>3, OwnersAre DEF Fits, Controls
<1> HIDE DEF fr
<1> QED BY <1>1, <1>2, <1>3, <1>4, FramedStep DEF ReduceLast, Swap, rest, fr, n

(* No action of the Pratt parser breaks the invariant.                     *)
LEMMA OperatorSteps == ASSUME IInv, OperatorNext PROVE IInv'
<1> USE State
<1>1. CASE ParseBinary
  <2>1. New("binary", 0) \in Frame /\ Fits(New("binary", 0), "unary") /\ "unary" \in Controls
    BY NewType, PlainAre DEF FrameNames, Fits, Awaiting, Plain
  <2> QED BY <1>1, <2>1, PlainAre, Called, FramedStep DEF ParseBinary
<1>2. CASE AfterOperand
  <2> DEFINE none == <<>>
             fr == [Top EXCEPT !.lead = none]
             n == Lead(val, Top.lead)
  <2>1. Top \in Frame /\ Top.fn = "binary" /\ Pop \in Seq(Frame) /\ Await(Pop)
    BY <1>2, Resumed DEF AfterOperand
  <2>2. n \in Node
    BY <2>1, FrameParts, LeadType
  <2>3. fr \in Frame /\ fr.fn = "binary"
    <3>1. none \in Seq(Comment)
      OBVIOUS
    <3> HIDE DEF none
    <3> QED BY <2>1, <3>1 DEF Frame
  <2>4. Fits(fr, "binary") /\ "binary" \in Controls
    BY <2>3, OwnersAre DEF Fits, Controls
  <2> HIDE DEF fr, n
  <2> QED BY <1>2, <2>1, <2>2, <2>3, <2>4, FramedStep DEF AfterOperand, Swap, fr, n
<1>3. CASE BinaryLoop
  <2> DEFINE q == Skip(p)
             own == {c \in Between(q, val.to, Here(q)) : ~c.block /\ c.line > val.end}
             lead == Claimed(q, 0, own)
             fr == [Top EXCEPT !.lead = lead]
  <2>1. OK(q)
    BY SkipOK
  <2>2. ctl = "binary" /\ ctl \in DOMAIN Owners /\ Owners[ctl] = "binary"
    BY <1>3, OwnersAre DEF BinaryLoop
  <2>3. Top \in Frame /\ Top.fn = "binary" /\ Pop \in Seq(Frame) /\ Await(Pop)
    BY <2>2, Owned
  <2> HIDE DEF own
  <2>4. OK(Unclaimed(q, 0, own)) /\ lead \in Seq(Comment)
    BY <2>1, ClaimedType
  <2> HIDE DEF lead
  <2>5. fr \in Frame /\ fr.fn = "binary"
    BY <2>3, <2>4 DEF Frame
  <2>6. Fits(fr, "reduce") /\ "reduce" \in Controls /\ "fold" \in Controls
    BY <2>5, OwnersAre DEF Fits, Controls
  <2>7. StackFits(calls, "fold")
    BY <2>2, OwnersAre DEF IInv, ControlFitsStack, StackFits
  <2> HIDE DEF q, fr
  <2> QED BY <1>3, <2>1, <2>3, <2>4, <2>5, <2>6, <2>7, FramedStep, Steps
          DEF BinaryLoop, Swap, q, own, lead, fr
<1>4. CASE Reduce
  <2> DEFINE op == toks[p.pos].op
             tighter == Top.ops # <<>> /\ Top.ops[Len(Top.ops)].rbp > LeftPower(op)
             shifted == [left |-> val, rbp |-> RightPower(op)]
             ops == Append(Top.ops, shifted)
             fr == [Top EXCEPT !.ops = ops]
  <2>1. ctl \in DOMAIN Owners /\ Owners[ctl] = "binary"
    BY <1>4, OwnersAre DEF Reduce
  <2>2. Top \in Frame /\ Top.fn = "binary" /\ Pop \in Seq(Frame) /\ Await(Pop)
    BY <2>1, Owned
  <2>3. RightPower(op) \in Nat
    <3>1. Precedence(op) \in Nat
      BY DEF Precedence
    <3> QED BY <3>1 DEF RightPower
  <2>4. shifted \in PendingOp
    BY <2>3 DEF PendingOp
  <2> HIDE DEF shifted
  <2>5. ops \in Seq(PendingOp)
    BY <2>2, <2>4, FrameParts, AppendProperties
  <2> HIDE DEF ops
  <2>6. fr \in Frame /\ fr.fn = "binary"
    BY <2>2, <2>5 DEF Frame
  <2>7. Fits(fr, "unary") /\ "unary" \in Controls
    BY <2>6, OwnersAre DEF Fits, Awaiting, Controls
  <2> HIDE DEF fr
  <2>8. CASE Top.ops # <<>> /\ ReduceLast("reduce")
    BY <2>1, <2>8, ReduceLastStep
  <2>9. CASE Goto(Advance(p), Swap(fr), "unary")
    BY <2>2, <2>6, <2>7, <2>9, AdvanceOK, FramedStep DEF Swap
  <2> QED BY <1>4, <2>8, <2>9 DEF Reduce, fr, ops, shifted
<1>5. CASE FoldRest
  <2>1. ctl \in DOMAIN Owners /\ Owners[ctl] = "binary"
    BY <1>5, OwnersAre DEF FoldRest
  <2>2. Pop \in Seq(Frame) /\ Await(Pop)
    BY <2>1, Owned
  <2> QED BY <1>5, <2>1, <2>2, ReduceLastStep, ReturnStep DEF FoldRest
<1> QED BY <1>1, <1>2, <1>3, <1>4, <1>5 DEF OperatorNext
-----------------------------------------------------------------------------
(* Negation and application.                                               *)

(* No action of negation or application breaks the invariant.              *)
LEMMA ApplicationSteps == ASSUME IInv, ApplicationNext PROVE IInv'
<1> USE State
<1>1. CASE ParseUnary
  <2> DEFINE q == Skip(p)
             fr == New("neg", Here(q))
  <2>1. OK(q) /\ OK(Advance(q)) /\ Await(calls)
    BY <1>1, SkipOK, AdvanceOK, Called, PlainAre DEF ParseUnary
  <2>2. fr \in Frame /\ Fits(fr, "app") /\ "app" \in Controls /\ "app" \in Plain
    <3>1. Here(q) \in Nat
      BY <2>1, HereType
    <3> HIDE DEF q
    <3>2. fr \in Frame /\ fr.fn = "neg"
      BY <3>1, NewType DEF FrameNames
    <3>3. "app" \in Plain
      BY PlainAre
    <3> HIDE DEF fr
    <3>4. Fits(fr, "app") /\ "app" \in Controls
      BY <3>2, <3>3 DEF Fits, Awaiting, Plain
    <3> QED BY <3>2, <3>3, <3>4
  <2> HIDE DEF q, fr
  <2>3. CASE Peek(q) = "-"
    BY <1>1, <2>1, <2>2, <2>3, FramedStep DEF ParseUnary, q, fr
  <2>4. CASE Peek(q) # "-"
    BY <1>1, <2>1, <2>2, <2>4, PlainStep DEF ParseUnary, q
  <2> QED BY <2>3, <2>4
<1>2. CASE AfterNegated
  <2>1. Close(AddPart(Top, val), p) \in Node /\ Pop \in Seq(Frame) /\ Await(Pop)
    BY <1>2, Resumed, AddPartType, CloseType DEF AfterNegated
  <2> QED BY <1>2, <2>1, ReturnStep DEF AfterNegated
<1>3. CASE ParseApplication
  <2> DEFINE q == [p EXCEPT !.ctx = 0]
             new == New("app", Here(p))
             c == HereCol(p)
             x == p.ctx
             l == toks[p.pos].line
             fr == [new EXCEPT !.col = c, !.ctx = x, !.line = l]
  <2>1. OK(q) /\ Await(calls)
    BY <1>3, ContextOK, Called, PlainAre DEF ParseApplication
  <2>2. new \in Frame /\ new.fn = "app" /\ c \in Nat /\ l \in Nat
    BY HereType, NewType DEF FrameNames
  <2>3. x \in Nat
    BY DEF OK, Cursor
  <2> HIDE DEF new, c, x, l
  <2>4. fr \in Frame /\ fr.fn = "app"
    BY <2>2, <2>3 DEF Frame
  <2>5. Fits(fr, "atom") /\ "atom" \in Controls
    BY <2>4, OwnersAre DEF Fits, Awaiting, Controls
  <2> HIDE DEF q, fr
  <2> QED BY <1>3, <2>1, <2>4, <2>5, FramedStep DEF ParseApplication, q, new, c, x, l, fr
<1>4. CASE ApplicationLoop
  <2> DEFINE q == Skip(p)
             own == {c \in Elements(q.pending) :
                       \/ c.block /\ c.line = Top.last.end /\ c.end = Top.last.end
                       \/ c.line > Top.last.end}
             r == Unclaimed(q, Snapshot(p), own)
             lead == Claimed(q, Snapshot(p), own)
             fr == [Top EXCEPT !.lead = lead]
             neg == New("neg", Here(q))
  <2>1. OK(q)
    BY SkipOK
  <2>2. ctl \in DOMAIN Owners /\ Owners[ctl] = "app"
    BY <1>4, OwnersAre DEF ApplicationLoop
  <2>3. /\ Top \in Frame /\ Top.fn = "app" /\ Pop \in Seq(Frame) /\ Await(Pop)
        /\ Top.last \in Node /\ Close(Top, q) \in Node
    BY <2>1, <2>2, Owned, FrameParts, CloseType
  <2> HIDE DEF own
  <2>4. OK(r) /\ OK(Advance(r)) /\ lead \in Seq(Comment)
    BY <2>1, ClaimedType, PendingType, AdvanceOK
  <2> HIDE DEF r, lead
  <2>5. fr \in Frame /\ fr.fn = "app" /\ neg \in Frame /\ neg.fn = "neg"
    <3>1. fr \in Frame /\ fr.fn = "app"
      BY <2>3, <2>4 DEF Frame
    <3>2. neg \in Frame /\ neg.fn = "neg"
      BY <2>1, HereType, NewType, SMTT(40) DEF FrameNames
    <3> QED BY <3>1, <3>2
  <2>6. Fits(fr, "atom") /\ Fits(neg, "atom") /\ "atom" \in Controls
    BY <2>5, OwnersAre DEF Fits, Awaiting, Controls
  <2>7. Append(Pop, fr) \in Seq(Frame) /\ Await(Append(Pop, fr))
    <3> HIDE DEF fr
    <3> QED BY <2>3, <2>5, AppendProperties DEF Await, Awaiting
  <2> HIDE DEF q, fr, neg
  <2>8. CASE Goto(r, Append(Pop, fr), "atom")
    BY <2>3, <2>4, <2>5, <2>6, <2>8, FramedStep
  <2>9. CASE Goto(Advance(r), Append(Append(Pop, fr), neg), "atom")
    BY <2>4, <2>5, <2>6, <2>7, <2>9, FramedStep
  <2>10. CASE Return(q, Pop, Top.last) \/ Return(q, Pop, Close(Top, q))
    BY <2>1, <2>3, <2>10, ReturnStep
  <2> QED BY <1>4, <2>8, <2>9, <2>10 DEF ApplicationLoop, Swap, q, own, r, lead, fr, neg
<1>5. CASE AfterArgument
  <2> DEFINE part == AddPart(Top, Lead(val, Top.lead))
             none == <<>>
             fr == [part EXCEPT !.lead = none]
  <2>1. Top \in Frame /\ Top.fn = "app" /\ Pop \in Seq(Frame) /\ Await(Pop)
    BY <1>5, Resumed DEF AfterArgument
  <2>2. part \in Frame /\ part.fn = "app"
    BY <2>1, FrameParts, LeadType, AddPartType
  <2> HIDE DEF part
  <2>3. fr \in Frame /\ fr.fn = "app"
    <3>1. none \in Seq(Comment)
      OBVIOUS
    <3> HIDE DEF none
    <3> QED BY <2>2, <3>1 DEF Frame
  <2>4. Fits(fr, "args") /\ "args" \in Controls
    BY <2>3, OwnersAre DEF Fits, Controls
  <2> HIDE DEF fr
  <2> QED BY <1>5, <2>1, <2>3, <2>4, FramedStep DEF AfterArgument, Swap, part, fr
<1> QED BY <1>1, <1>2, <1>3, <1>4, <1>5 DEF ApplicationNext
-----------------------------------------------------------------------------
(* Atomic expressions without sub-expressions, and field access.           *)

(* No atomic expression and no field access breaks the invariant.          *)
LEMMA AtomSteps == ASSUME IInv, AtomNext PROVE IInv'
<1> USE State
<1>a. "access" \in Plain /\ "valueName" \in Plain /\ "atom" \in Plain
  BY PlainAre
<1>1. CASE SimpleAtom
  <2> DEFINE q == Skip(p)
             r == Advance(q)
  <2>1. OK(q) /\ OK(r) /\ Leaf(Here(q), r) \in Node /\ Await(calls)
    BY <1>1, <1>a, SkipOK, AdvanceOK, LeafType, HereType, Called DEF SimpleAtom
  <2> HIDE DEF q, r
  <2> QED BY <1>1, <1>a, <2>1, PlainStep DEF SimpleAtom, q, r
<1>2. CASE QualifiedAtom
  <2> DEFINE q == Skip(p)
             r == Advance(q)
  <2>1. OK(q) /\ OK(r) /\ Leaf(Here(q), r) \in Node /\ Await(calls)
    BY <1>2, <1>a, SkipOK, AdvanceOK, LeafType, HereType, Called DEF QualifiedAtom
  <2> HIDE DEF q, r
  <2> QED BY <1>2, <1>a, <2>1, PlainStep DEF QualifiedAtom, q, r
<1>3. CASE QualifyValue
  <2> DEFINE next == Advance(p)
             name == Leaf(val.from, Advance(next))
  <2>1. OK(next) /\ OK(Advance(next)) /\ name \in Node /\ Await(calls)
    BY <1>3, <1>a, AdvanceOK, LeafType, NodeParts, Called DEF QualifyValue
  <2> HIDE DEF next, name
  <2> QED BY <1>3, <1>a, <2>1, PlainStep DEF QualifyValue, next, name
<1>4. CASE AccessorAtom
  <2> DEFINE q == Skip(p)
             r == Advance(q)
  <2>1. OK(q) /\ OK(r) /\ OK(Advance(r)) /\ Leaf(Here(q), Advance(r)) \in Node /\ Await(calls)
    BY <1>4, <1>a, SkipOK, AdvanceOK, LeafType, HereType, Called DEF AccessorAtom
  <2> HIDE DEF q, r
  <2> QED BY <1>4, <1>a, <2>1, PlainStep, FailStep DEF AccessorAtom, q, r
<1>5. CASE NotAnAtom
  BY <1>5, SkipOK, FailStep DEF NotAnAtom
<1>6. CASE AccessChain
  <2> DEFINE r == Advance(p)
             n == SpanNode(val.from, Advance(r), Carried(val), val.sub)
  <2>1. OK(r) /\ OK(Advance(r)) /\ Await(calls)
    BY <1>6, <1>a, AdvanceOK, Called DEF AccessChain
  <2>2. n \in Node
    BY <2>1, NodeParts, SpanNodeType
  <2> HIDE DEF r, n
  <2> QED BY <1>6, <1>a, <2>1, <2>2, PlainStep, ReturnStep, FailStep DEF AccessChain, r, n
<1>7. CASE AfterCompound
  <2>1. Pop \in Seq(Frame) /\ Await(Pop)
    BY <1>7, Resumed DEF AfterCompound
  <2> QED BY <1>7, <1>a, <2>1, PlainStep DEF AfterCompound
<1> QED BY <1>1, <1>2, <1>3, <1>4, <1>5, <1>6, <1>7 DEF AtomNext
-----------------------------------------------------------------------------
(* Brackets.                                                               *)

(* A compound expression waits for its first sub-expression.               *)
LEMMA NeedCompound ==
  ASSUME IInv, ctl = "atom", NEW q, OK(q), NEW fr \in Frame, fr.fn \in Holes, Need(q, Compound(fr))
  PROVE  IInv'
BY State, Called, PlainAre, CompoundIs, NeedStep

(* A compound expression goes on with its own locals on top.               *)
LEMMA GotoCompound ==
  ASSUME IInv, ctl = "atom", NEW q, OK(q), NEW fr \in Frame, NEW c \in Controls, Fits(fr, c),
         c \notin {"typeName", "atomTypeName"}, Goto(q, Compound(fr), c)
  PROVE  IInv'
BY State, Called, PlainAre, CompoundIs, FramedStep

(* A compound form resumes, to wait for its next sub-expression.           *)
LEMMA NeedNext ==
  ASSUME IInv, Pop \in Seq(Frame), Await(Pop), NEW q, OK(q), NEW fr \in Frame, fr.fn \in Holes,
         Need(q, Swap(fr))
  PROVE  IInv'
BY NeedStep DEF Swap

(* No parenthesis, tuple, list or record breaks the invariant.             *)
LEMMA BracketSteps == ASSUME IInv, BracketNext PROVE IInv'
<1> USE State
<1>1. CASE ParenAtom
  <2> DEFINE q == Skip(p)
             open == Advance(q)
             r == Skip(open)
             s == Skip(Advance(r))
             neg == New("parenNeg", Here(q))
             par == New("paren", Here(q))
             m == Here(r)
             k == Snapshot(open)
             negated == [neg EXCEPT !.mark = m]
             paren == [par EXCEPT !.snap = k]
  <2>1. ctl = "atom" /\ OK(q) /\ OK(open) /\ OK(r) /\ OK(s) /\ Await(calls)
    BY <1>1, SkipOK, AdvanceOK, Called, PlainAre DEF ParenAtom
  <2>2. /\ OK(Advance(r)) /\ Leaf(Here(q), Advance(r)) \in Node
        /\ OK(Advance(s)) /\ Leaf(Here(q), Advance(s)) \in Node
    BY <2>1, AdvanceOK, LeafType, HereType
  <2>3. neg \in Frame /\ neg.fn = "parenNeg" /\ par \in Frame /\ par.fn = "paren" /\ m \in Nat /\ k \in Nat
    <3>1. Here(q) \in Nat /\ m \in Nat /\ k \in Nat
      BY <2>1, HereType, PendingType
    <3> QED BY <3>1, NewType DEF FrameNames
  <2> HIDE DEF q, open, r, s, neg, par, m, k
  <2>4. negated \in Frame /\ negated.fn = "parenNeg"
    BY <2>3 DEF Frame
  <2>5. paren \in Frame /\ paren.fn \in Holes
    BY <2>3 DEF Frame, Holes
  <2>6. Fits(negated, "app") /\ "app" \in Controls
    BY <2>4, OwnersAre DEF Fits, Awaiting, Controls
  <2> HIDE DEF negated, paren
  <2>7. CASE \/ GotoWith(Advance(r), calls, "access", Leaf(Here(q), Advance(r)))
             \/ GotoWith(Advance(s), calls, "access", Leaf(Here(q), Advance(s)))
    BY <2>1, <2>2, <2>7, PlainAre, PlainStep
  <2>8. CASE Fail(s)
    BY <2>1, <2>8, FailStep
  <2>9. CASE Goto(s, Compound(negated), "app")
    BY <2>1, <2>4, <2>6, <2>9, GotoCompound
  <2>10. CASE Need(r, Compound(paren))
    BY <2>1, <2>5, <2>10, NeedCompound
  <2> QED BY <1>1, <2>7, <2>8, <2>9, <2>10
          DEF ParenAtom, q, open, r, s, neg, par, m, k, negated, paren
<1>2. CASE AfterParenNegated
  <2> DEFINE k == Snapshot(p)
             kept == Carried(val)
             none == <<>>
             sub == val.sub \cup {<<Top.mark, val.to>>}
             m == Top.mark
             neg == [val EXCEPT !.from = m, !.cs = none, !.kept = kept, !.sub = sub]
             par == New("paren", Top.from)
             paren == [par EXCEPT !.snap = k]
             binary == New("binary", 0)
  <2>1. Top \in Frame /\ Pop \in Seq(Frame) /\ Await(Pop) /\ Top.mark \in Nat /\ Top.from \in Nat
    BY <1>2, Resumed, FrameParts DEF AfterParenNegated
  <2>2. k \in Nat /\ par \in Frame /\ par.fn = "paren" /\ binary \in Frame /\ binary.fn = "binary"
    BY <2>1, PendingType, NewType, SMTT(40) DEF FrameNames
  <2>3. kept \in Seq(Comment) /\ none \in Seq(Comment) /\ sub \in SUBSET Span
    BY <2>1, NodeParts DEF Span
  <2> HIDE DEF m, none, kept, sub
  <2>4. neg \in Node
    BY <2>1, <2>3 DEF Node, m
  <2> HIDE DEF k, neg, par, binary
  <2>5. paren \in Frame /\ paren.fn = "paren"
    BY <2>2 DEF Frame
  <2> HIDE DEF paren
  <2>6. Append(Pop, paren) \in Seq(Frame) /\ Await(Append(Pop, paren))
    BY <2>1, <2>5, AppendProperties DEF Await, Awaiting, Holes
  <2>7. Pop \o <<paren, binary>> = Append(Append(Pop, paren), binary)
    BY <2>1, <2>2, <2>5
  <2>8. Fits(binary, "binary") /\ "binary" \in Controls
    BY <2>2, OwnersAre DEF Fits, Controls
  <2>9. ASSUME GotoWith(p, Append(Append(Pop, paren), binary), "binary", neg)
        PROVE  IInv'
    BY <2>2, <2>4, <2>6, <2>8, <2>9, FramedStep
  <2> QED BY <1>2, <2>7, <2>9 DEF AfterParenNegated, k, kept, none, sub, m, neg, par, paren, binary
<1>3. CASE AfterParenFirst
  <2> DEFINE body == WithPre(p, val, Top.snap)
             part == AddPart(Top, body)
             q == Skip(AfterPre(p, val, Top.snap))
             gap == Between(q, val.to, Here(q))
             r == Advance(q)
             s == Advance(Unclaimed(q, 0, gap))
             k == Snapshot(r)
             last == Hold(part, Claimed(q, 0, gap))
             next == [part EXCEPT !.fn = "tuple", !.snap = k]
  <2>1. Top \in Frame /\ Pop \in Seq(Frame) /\ Await(Pop) /\ Top.snap \in Nat
    BY <1>3, Resumed, FrameParts DEF AfterParenFirst
  <2>2. OK(q) /\ OK(r) /\ part \in Frame
    BY <2>1, PreType, AddPartType, SkipOK, AdvanceOK
  <2> HIDE DEF body, part, q, gap
  <2>3. OK(s) /\ last \in Frame /\ k \in Nat
    BY <2>2, ClaimedType, AdvanceOK, HoldType, PendingType
  <2>4. Close(last, s) \in Node
    BY <2>3, CloseType
  <2> HIDE DEF r, s, k, last
  <2>5. next \in Frame /\ next.fn \in Holes
    BY <2>2, <2>3 DEF Frame, FrameNames, Holes
  <2> HIDE DEF next
  <2> QED BY <1>3, <2>1, <2>2, <2>3, <2>4, <2>5, NeedNext, ReturnStep, FailStep
          DEF AfterParenFirst, body, part, q, gap, r, s, k, last, next
<1>4. CASE AfterTupleElement
  <2> DEFINE fr == AddPart(Top, WithPre(p, val, Top.snap))
             q == Skip(AfterPre(p, val, Top.snap))
             r == Advance(q)
  <2>1. Top \in Frame /\ Top.fn = "tuple" /\ Pop \in Seq(Frame) /\ Await(Pop) /\ Top.snap \in Nat
    BY <1>4, Resumed, FrameParts DEF AfterTupleElement
  <2>2. OK(q) /\ OK(r) /\ fr \in Frame /\ fr.fn = "tuple"
    BY <2>1, PreType, AddPartType, SkipOK, AdvanceOK
  <2>3. Close(fr, r) \in Node /\ fr.fn \in Holes
    BY <2>2, CloseType DEF Holes
  <2> HIDE DEF fr, q, r
  <2> QED BY <1>4, <2>1, <2>2, <2>3, NeedNext, ReturnStep, FailStep DEF AfterTupleElement, fr, q, r
<1>5. CASE ListAtom
  <2> DEFINE q == Skip(p)
             open == Advance(q)
             r == Skip(open)
             c == HereCol(q)
             k == Snapshot(open)
             new == New("list", Here(q))
             fr == [new EXCEPT !.col = c, !.snap = k]
             s == [r EXCEPT !.ctx = c]
  <2>1. ctl = "atom" /\ OK(q) /\ OK(open) /\ OK(r) /\ Await(calls)
    BY <1>5, SkipOK, AdvanceOK, Called, PlainAre DEF ListAtom
  <2>2. /\ OK(Advance(r)) /\ Leaf(Here(q), Advance(r)) \in Node
        /\ c \in Nat /\ k \in Nat /\ new \in Frame /\ new.fn = "list"
    <3>1. Here(q) \in Nat /\ c \in Nat /\ k \in Nat /\ OK(Advance(r))
      BY <2>1, AdvanceOK, HereType, PendingType
    <3> QED BY <2>1, <3>1, LeafType, NewType DEF FrameNames
  <2> HIDE DEF q, open, r, c, k, new
  <2>3. OK(s)
    BY <2>1, <2>2, ContextOK
  <2>4. fr \in Frame /\ fr.fn \in Holes
    BY <2>2 DEF Frame, Holes
  <2> HIDE DEF fr, s
  <2>5. CASE GotoWith(Advance(r), calls, "access", Leaf(Here(q), Advance(r)))
    BY <2>1, <2>2, <2>5, PlainAre, PlainStep
  <2>6. CASE Need(s, Compound(fr))
    BY <2>1, <2>3, <2>4, <2>6, NeedCompound
  <2> QED BY <1>5, <2>5, <2>6 DEF ListAtom, q, open, r, c, k, new, fr, s
<1>6. CASE AfterListElement
  <2> DEFINE body == WithPre(p, val, Top.snap)
             q == AfterPre(p, val, Top.snap)
             fr == Hold(AddPart(Top, body), Inline(q, body))
             r == Skip(DropInline(q, body))
             trailing == {c \in Elements(r.pending) : c.line > body.end /\ c.end < toks[r.pos].line}
             s == Unclaimed(r, 0, trailing)
             last == Hold(fr, Claimed(r, 0, trailing))
             t == [Advance(r) EXCEPT !.ctx = Top.col]
  <2>1. /\ Top \in Frame /\ Top.fn = "list" /\ Pop \in Seq(Frame) /\ Await(Pop)
        /\ Top.snap \in Nat /\ Top.col \in Nat
    BY <1>6, Resumed, FrameParts DEF AfterListElement
  <2>2. OK(q) /\ body \in Node
    BY <2>1, PreType
  <2> HIDE DEF q, body
  <2>3. OK(r) /\ fr \in Frame /\ fr.fn = "list"
    BY <2>1, <2>2, InlineType, SkipOK, AddPartType, HoldType
  <2> HIDE DEF r, fr, trailing
  <2>4. OK(s) /\ OK(Advance(s)) /\ last \in Frame /\ OK(t)
    BY <2>1, <2>3, ClaimedType, AdvanceOK, HoldType, ContextOK
  <2>5. Close(last, Advance(s)) \in Node /\ fr.fn \in Holes
    BY <2>3, <2>4, CloseType DEF Holes
  <2> HIDE DEF s, last, t
  <2> QED BY <1>6, <2>1, <2>3, <2>4, <2>5, NeedNext, ReturnStep, FailStep
          DEF AfterListElement, q, body, fr, r, trailing, s, last, t
<1>7. CASE RecordAtom
  <2> DEFINE q == Skip(p)
             r == Skip(Advance(q))
             s == Skip(Advance(r))
             back == [s EXCEPT !.pos = r.pos, !.raw = FALSE]
             new == New("record", Here(q))
             c == HereCol(q)
             Setters(lim) == [new EXCEPT !.col = c, !.lim = lim]
  <2>1. /\ ctl = "atom" /\ OK(q) /\ OK(r) /\ OK(Advance(r)) /\ OK(s) /\ OK(Advance(s))
        /\ Leaf(Here(q), Advance(r)) \in Node /\ Await(calls)
    BY <1>7, SkipOK, AdvanceOK, LeafType, HereType, Called, PlainAre DEF RecordAtom
  <2>2. new \in Frame /\ new.fn = "record" /\ c \in Nat /\ Here(q) \in Nat /\ Here(s) \in Nat
    <3>1. Here(q) \in Nat /\ c \in Nat /\ Here(s) \in Nat
      BY <2>1, HereType
    <3> QED BY <3>1, NewType DEF FrameNames
  <2> HIDE DEF q, r, s, new, c
  <2>3. OK(back)
    BY <2>1 DEF OK, Cursor
  <2>4. ASSUME NEW lim \in Nat
        PROVE  Setters(lim) \in Frame /\ Fits(Setters(lim), "setter")
    <3> DEFINE fr == Setters(lim)
    <3>1. fr \in Frame /\ fr.fn = "record"
      BY <2>2 DEF Frame
    <3> HIDE DEF fr
    <3>2. Fits(fr, "setter")
      BY <3>1, OwnersAre DEF Fits
    <3> QED BY <3>1, <3>2 DEF fr
  <2>5. "setter" \in Controls
    BY OwnersAre DEF Controls
  <2> HIDE DEF back
  <2>6. ASSUME NEW a, OK(a), NEW lim \in Nat, Goto(a, Compound(Setters(lim)), "setter")
        PROVE  IInv'
    <3> HIDE DEF Setters
    <3> QED BY <2>1, <2>4, <2>5, <2>6, GotoCompound
  <2>7. ASSUME GotoWith(Advance(r), calls, "access", Leaf(Here(q), Advance(r)))
        PROVE  IInv'
    BY <2>1, <2>7, AdvanceOK, PlainAre, PlainStep
  <2> QED BY <1>7, <2>1, <2>2, <2>3, <2>6, <2>7, AdvanceOK DEF RecordAtom, q, r, s, back, new, c
<1>8. CASE ParseSetter
  <2> DEFINE q == Skip(p)
             r == Skip(Advance(q))
             s == [Advance(r) EXCEPT !.ctx = Top.col]
             m == Here(p)
             fr == [Top EXCEPT !.mark = m]
  <2>1. OK(q) /\ OK(r) /\ OK(Advance(r)) /\ m \in Nat
    BY SkipOK, AdvanceOK, HereType
  <2>2. ctl \in DOMAIN Owners /\ Owners[ctl] = "record"
    BY <1>8, OwnersAre DEF ParseSetter
  <2>3. Top \in Frame /\ Top.fn = "record" /\ Pop \in Seq(Frame) /\ Await(Pop)
    BY <2>2, Owned
  <2>4. OK(s)
    BY <2>1, <2>3, FrameParts, ContextOK
  <2> HIDE DEF q, r, s, m
  <2>5. fr \in Frame /\ fr.fn \in Holes
    BY <2>1, <2>3 DEF Frame, Holes
  <2> HIDE DEF fr
  <2> QED BY <1>8, <2>1, <2>3, <2>4, <2>5, FailStep, NeedNext DEF ParseSetter, q, r, s, m, fr
<1>9. CASE AfterSetterValue
  <2> DEFINE a == DropTrailing(p, val)
             leading == Between(a, Top.lim, Top.mark)
             b == Unclaimed(a, 0, leading)
             inner == Between(b, Top.mark - 1, val.from)
             c == Unclaimed(b, 0, inner)
             value == Lead(val, Claimed(b, 0, inner))
             setter == SpanNode(Top.mark, c, Carried(value) \o Trailing(p, val), val.sub)
             part == AddPart(Top, Lead(setter, Claimed(a, 0, leading)))
             l == val.to
             fr == [part EXCEPT !.lim = l]
             q == Skip(c)
             r == Advance(q)
  <2>1. Top \in Frame /\ Top.fn = "record" /\ Pop \in Seq(Frame) /\ Await(Pop) /\ Top.mark \in Nat
    BY <1>9, Resumed, FrameParts DEF AfterSetterValue
  <2>2. OK(a) /\ Trailing(p, val) \in Seq(Comment)
    BY TrailingType
  <2> HIDE DEF a, leading
  <2>3. OK(b) /\ Claimed(a, 0, leading) \in Seq(Comment)
    BY <2>2, ClaimedType
  <2> HIDE DEF b, inner
  <2>4. OK(c) /\ value \in Node
    BY <2>3, ClaimedType, LeadType
  <2> HIDE DEF c, value
  <2>5. setter \in Node
    <3>1. Carried(value) \o Trailing(p, val) \in Seq(Comment)
      BY <2>2, <2>4, NodeParts
    <3> QED BY <2>1, <2>4, <3>1, NodeParts, SpanNodeType
  <2> HIDE DEF setter
  <2>6. part \in Frame /\ part.fn = "record" /\ l \in Nat
    BY <2>1, <2>3, <2>5, LeadType, AddPartType, NodeParts
  <2> HIDE DEF part, l
  <2>7. fr \in Frame /\ fr.fn = "record"
    BY <2>6 DEF Frame
  <2> HIDE DEF fr
  <2>8. OK(q) /\ OK(r) /\ Close(fr, r) \in Node
    BY <2>4, <2>7, SkipOK, AdvanceOK, CloseType
  <2>9. Fits(fr, "setter") /\ "setter" \in Controls
    BY <2>7, OwnersAre DEF Fits, Controls
  <2> HIDE DEF q, r
  <2> QED BY <1>9, <2>1, <2>7, <2>8, <2>9, ReturnStep, FailStep, FramedStep
          DEF AfterSetterValue, Swap, a, leading, b, inner, c, value, setter, part, l, fr, q, r
<1> QED BY <1>1, <1>2, <1>3, <1>4, <1>5, <1>6, <1>7, <1>8, <1>9 DEF BracketNext
-----------------------------------------------------------------------------
(* Conditionals and case expressions.                                      *)

(* No conditional and no case expression breaks the invariant.             *)
LEMMA BranchSteps == ASSUME IInv, BranchNext PROVE IInv'
<1> USE State
<1>1. CASE IfAtom
  <2> DEFINE q == Skip(p)
             r == Advance(q)
             k == Snapshot(r)
             start == <<Here(q)>>
             new == New("ifCond", Here(q))
             fr == [new EXCEPT !.snap = k, !.chain = start]
  <2>1. OK(q) /\ OK(r)
    BY SkipOK, AdvanceOK
  <2>2. Here(q) \in Nat /\ k \in Nat
    BY <2>1, HereType, PendingType
  <2>3. new \in Frame /\ new.fn = "ifCond" /\ start \in Seq(Nat)
    BY <2>2, NewType DEF FrameNames
  <2> HIDE DEF q, r, k, start, new
  <2>4. fr \in Frame /\ fr.fn \in Holes
    BY <2>2, <2>3 DEF Frame, Holes
  <2> HIDE DEF fr
  <2> QED BY <1>1, <2>1, <2>4, NeedCompound DEF IfAtom, q, r, k, start, new, fr
<1>2. CASE AfterCondition
  <2> DEFINE first == Top.fn = "ifCond"
             cond == IF first THEN WithPre(p, val, Top.snap) ELSE val
             s == IF first THEN AfterPre(p, val, Top.snap) ELSE p
             q == Skip(s)
             r == Advance(q)
             part == AddPart(Top, cond)
             k == Snapshot(r)
             fr == [part EXCEPT !.fn = "then", !.snap = k]
  <2>1. Top \in Frame /\ Pop \in Seq(Frame) /\ Await(Pop) /\ Top.snap \in Nat
    BY <1>2, Resumed, FrameParts DEF AfterCondition
  <2>2. OK(s) /\ cond \in Node
    BY <2>1, PreType
  <2> HIDE DEF s, cond
  <2>3. OK(q) /\ OK(r) /\ OK(Skip(r)) /\ k \in Nat
    BY <2>2, SkipOK, AdvanceOK, PendingType
  <2>4. part \in Frame
    BY <2>1, <2>2, AddPartType
  <2> HIDE DEF q, r, part, k
  <2>5. fr \in Frame /\ fr.fn \in Holes
    BY <2>3, <2>4 DEF Frame, FrameNames, Holes
  <2> HIDE DEF fr
  <2> QED BY <1>2, <2>1, <2>3, <2>5, NeedNext, FailStep
          DEF AfterCondition, cond, s, q, r, part, k, fr
<1>3. CASE AfterThen
  <2> DEFINE q == Skip(AfterPre(p, val, Top.snap))
             r == Advance(q)
             s == DropSince(r, Top.snap)
             t == Skip(s)
             fr == Hold(AddPart(Top, WithPre(p, val, Top.snap)), Since(r, Top.snap))
             c == Append(fr.chain, Here(t))
             k == Snapshot(s)
             elif == [fr EXCEPT !.fn = "elifCond", !.chain = c]
             else == [fr EXCEPT !.fn = "else", !.snap = k]
  <2>1. Top \in Frame /\ Pop \in Seq(Frame) /\ Await(Pop) /\ Top.snap \in Nat
    BY <1>3, Resumed, FrameParts DEF AfterThen
  <2>2. OK(q) /\ OK(r)
    BY <2>1, PreType, SkipOK, AdvanceOK
  <2>3. OK(s) /\ OK(t) /\ OK(Advance(t)) /\ k \in Nat
    BY <2>1, <2>2, SinceType, SkipOK, AdvanceOK, PendingType
  <2>4. fr \in Frame
    BY <2>1, <2>2, PreType, AddPartType, SinceType, HoldType
  <2> HIDE DEF q, r, s, t, fr, k
  <2>5. c \in Seq(Nat)
    BY <2>3, <2>4, FrameParts, HereType, AppendProperties
  <2> HIDE DEF c
  <2>6. elif \in Frame /\ elif.fn \in Holes /\ else \in Frame /\ else.fn \in Holes
    BY <2>3, <2>4, <2>5, ZenonT(40) DEF Frame, FrameNames, Holes
  <2> HIDE DEF elif, else
  <2> QED BY <1>3, <2>1, <2>2, <2>3, <2>6, NeedNext, FailStep
          DEF AfterThen, q, r, s, t, fr, c, k, elif, else
<1>4. CASE AfterElse
  <2> DEFINE q == AfterPre(p, val, Top.snap)
             ifs == Close(AddPart(Top, WithPre(p, val, Top.snap)), q)
             u == ifs.sub \cup {<<start, ifs.to>> : start \in Elements(Top.chain)}
             n == [ifs EXCEPT !.sub = u]
  <2>1. Top \in Frame /\ Pop \in Seq(Frame) /\ Await(Pop) /\ Top.snap \in Nat /\ Top.chain \in Seq(Nat)
    BY <1>4, Resumed, FrameParts DEF AfterElse
  <2>2. OK(q) /\ ifs \in Node
    BY <2>1, PreType, AddPartType, CloseType
  <2> HIDE DEF q, ifs
  <2>3. u \in SUBSET Span
    <3>1. Elements(Top.chain) \subseteq Nat
      BY <2>1 DEF Elements
    <3> QED BY <2>2, <3>1, NodeParts DEF Span
  <2> HIDE DEF u
  <2>4. n \in Node
    BY <2>2, <2>3 DEF Node
  <2> HIDE DEF n
  <2> QED BY <1>4, <2>1, <2>2, <2>4, ReturnStep DEF AfterElse, q, ifs, u, n
<1>5. CASE CaseAtom
  <2> DEFINE q == Skip(p)
             c == HereCol(q)
             k == Snapshot(q)
             new == New("caseSubject", Here(q))
             fr == [new EXCEPT !.col = c, !.snap = k]
  <2>1. OK(q) /\ OK(Advance(q))
    BY SkipOK, AdvanceOK
  <2>2. Here(q) \in Nat /\ c \in Nat /\ k \in Nat
    BY <2>1, HereType, PendingType
  <2>3. new \in Frame /\ new.fn = "caseSubject"
    BY <2>2, NewType DEF FrameNames
  <2> HIDE DEF q, c, k, new
  <2>4. fr \in Frame /\ fr.fn \in Holes
    BY <2>2, <2>3 DEF Frame, Holes
  <2> HIDE DEF fr
  <2> QED BY <1>5, <2>1, <2>4, NeedCompound DEF CaseAtom, q, c, k, new, fr
<1>6. CASE AfterCaseSubject
  <2> DEFINE q == Skip(p)
             r == Skip(Advance(q))
             part == AddPart(Top, val)
             c == HereCol(r)
             fr == [part EXCEPT !.fn = "casePattern", !.n = 0, !.ref = c]
  <2>1. OK(q) /\ OK(r) /\ c \in Nat
    BY SkipOK, AdvanceOK, HereType
  <2>2. Top \in Frame /\ Pop \in Seq(Frame) /\ Await(Pop) /\ part \in Frame
    BY <1>6, Resumed, AddPartType DEF AfterCaseSubject
  <2> HIDE DEF q, r, part, c
  <2>3. fr \in Frame /\ fr.fn = "casePattern"
    BY <2>1, <2>2 DEF Frame, FrameNames
  <2>4. Fits(fr, "branch") /\ "branch" \in Controls
    BY <2>3, OwnersAre DEF Fits, Controls
  <2> HIDE DEF fr
  <2> QED BY <1>6, <2>1, <2>2, <2>3, <2>4, FailStep, FramedStep
          DEF AfterCaseSubject, Swap, q, r, part, c, fr
<1>7. CASE NextBranch
  <2> DEFINE q == Skip(p)
             cs == Since(q, Top.snap)
             r == DropSince(q, Top.snap)
             fr == [Top EXCEPT !.lead = cs]
  <2>1. ctl \in DOMAIN Owners /\ Owners[ctl] = "casePattern"
    BY <1>7, OwnersAre DEF NextBranch
  <2>2. Top \in Frame /\ Top.fn = "casePattern" /\ Pop \in Seq(Frame) /\ Await(Pop) /\ Top.snap \in Nat
    BY <2>1, Owned, FrameParts
  <2>3. OK(q) /\ OK(r) /\ cs \in Seq(Comment) /\ Close(Top, q) \in Node
    BY <2>2, SkipOK, SinceType, CloseType
  <2> HIDE DEF q, cs, r
  <2>4. fr \in Frame /\ fr.fn = "casePattern"
    BY <2>2, <2>3 DEF Frame
  <2>5. Fits(fr, "pattern") /\ "pattern" \in Controls
    BY <2>4, OwnersAre DEF Fits, Awaiting, Controls
  <2> HIDE DEF fr
  <2>6. CASE Goto(r, Append(Pop, fr), "pattern")
    BY <2>2, <2>3, <2>4, <2>5, <2>6, FramedStep
  <2>7. CASE Fail(q)
    BY <2>3, <2>7, FailStep
  <2>8. CASE Return(q, Pop, Close(Top, q))
    BY <2>2, <2>3, <2>8, ReturnStep
  <2> QED BY <1>7, <2>6, <2>7, <2>8 DEF NextBranch, Swap, q, cs, r, fr
<1>8. CASE AfterBranchPattern
  <2> DEFINE cs == Top.lead
             led == [val EXCEPT !.cs = cs]
             pat == IF Top.lead = <<>> THEN val ELSE led
             none == <<>>
             u == Top.sub \cup val.sub
             seen == [Top EXCEPT !.sub = u, !.lead = none]
             held == Hold(seen, Carried(pat))
             q == Skip(p)
             r == [Advance(q) EXCEPT !.ctx = 0]
             k == Snapshot(r)
             fr == [held EXCEPT !.fn = "caseBody", !.body = k]
  <2>1. /\ Top \in Frame /\ Top.fn = "casePattern" /\ Pop \in Seq(Frame) /\ Await(Pop)
        /\ cs \in Seq(Comment) /\ none \in Seq(Comment)
    BY <1>8, Resumed, FrameParts DEF AfterBranchPattern
  <2>2. OK(q) /\ OK(r) /\ k \in Nat
    BY SkipOK, AdvanceOK, ContextOK, PendingType
  <2>3. u \in SUBSET Span
    BY <2>1, FrameParts, NodeParts
  <2> HIDE DEF cs, none, u
  <2>4. led \in Node
    BY <2>1 DEF Node
  <2>5. pat \in Node
    <3> HIDE DEF led
    <3> QED BY <2>4
  <2>6. seen \in Frame
    BY <2>1, <2>3 DEF Frame
  <2> HIDE DEF led, pat, seen
  <2>7. held \in Frame
    BY <2>5, <2>6, NodeParts, HoldType
  <2> HIDE DEF held, q, r, k
  <2>8. fr \in Frame /\ fr.fn \in Holes
    BY <2>2, <2>7 DEF Frame, FrameNames, Holes
  <2> HIDE DEF fr
  <2> QED BY <1>8, <2>1, <2>2, <2>8, NeedNext, FailStep
          DEF AfterBranchPattern, cs, led, pat, none, u, seen, held, q, r, k, fr
<1>9. CASE AfterBranchBody
  <2> DEFINE q == AfterPre(p, val, Top.body)
             part == AddPart(Top, WithPre(p, val, Top.body))
             fr == [part EXCEPT !.fn = "casePattern"]
  <2>1. Top \in Frame /\ Pop \in Seq(Frame) /\ Await(Pop) /\ Top.body \in Nat
    BY <1>9, Resumed, FrameParts DEF AfterBranchBody
  <2>2. OK(q) /\ part \in Frame
    BY <2>1, PreType, AddPartType
  <2> HIDE DEF q, part
  <2>3. fr \in Frame /\ fr.fn = "casePattern"
    BY <2>2 DEF Frame, FrameNames
  <2>4. Fits(fr, "branch") /\ "branch" \in Controls
    BY <2>3, OwnersAre DEF Fits, Controls
  <2> HIDE DEF fr
  <2> QED BY <1>9, <2>1, <2>2, <2>3, <2>4, FramedStep DEF AfterBranchBody, Swap, q, part, fr
<1> QED BY <1>1, <1>2, <1>3, <1>4, <1>5, <1>6, <1>7, <1>8, <1>9 DEF BranchNext
-----------------------------------------------------------------------------
(* Let expressions.                                                        *)

(* A declaration has its name and arguments, and waits for its value.      *)
LEMMA LetValueStep ==
  ASSUME IInv, Pop \in Seq(Frame), Await(Pop), NEW q, OK(q), NEW fr \in Frame, NeedLetValue(q, fr)
  PROVE  IInv'
<1> USE State
<1> DEFINE r == [Advance(q) EXCEPT !.ctx = 0]
           k == Snapshot(r)
           box == [fr EXCEPT !.fn = "letValue", !.body = k]
<1>1. OK(r) /\ k \in Nat
  BY AdvanceOK, ContextOK, PendingType
<1> HIDE DEF r, k
<1>2. box \in Frame /\ box.fn \in Holes
  BY <1>1 DEF Frame, FrameNames, Holes
<1> HIDE DEF box
<1> QED BY <1>1, <1>2, NeedNext, FailStep DEF NeedLetValue, r, k, box

(* No let expression breaks the invariant.                                 *)
LEMMA LetSteps == ASSUME IInv, LetNext PROVE IInv'
<1> USE State
<1>1. CASE LetAtom
  <2> DEFINE q == Skip(p)
             r == Skip(Advance(q))
             c == HereCol(q)
             d == HereCol(r)
             k == Snapshot(q)
             new == New("let", Here(q))
             fr == [new EXCEPT !.col = c, !.ref = d, !.snap = k]
  <2>1. OK(q) /\ OK(r)
    BY SkipOK, AdvanceOK
  <2>2. Here(q) \in Nat /\ c \in Nat /\ d \in Nat /\ k \in Nat
    BY <2>1, HereType, PendingType
  <2>3. new \in Frame /\ new.fn = "let"
    BY <2>2, NewType, SMTT(40) DEF FrameNames
  <2> HIDE DEF q, r, c, d, k, new
  <2>4. fr \in Frame /\ fr.fn = "let"
    BY <2>2, <2>3 DEF Frame
  <2>5. Fits(fr, "letNext") /\ "letNext" \in Controls
    BY <2>4, OwnersAre DEF Fits, Controls
  <2> HIDE DEF fr
  <2> QED BY <1>1, <2>1, <2>4, <2>5, GotoCompound DEF LetAtom, q, r, c, d, k, new, fr
<1>2. CASE EndOfLet
  <2> DEFINE q == Skip(p)
             r == DropSince(q, Top.snap)
             s == [Advance(r) EXCEPT !.ctx = 0]
             held == Hold(Top, Since(q, Top.snap))
             k == Snapshot(s)
             fr == [held EXCEPT !.fn = "letBody", !.body = k]
  <2>1. ctl \in DOMAIN Owners /\ Owners[ctl] = "let"
    BY <1>2, OwnersAre DEF EndOfLet
  <2>2. Top \in Frame /\ Pop \in Seq(Frame) /\ Await(Pop) /\ Top.snap \in Nat
    BY <2>1, Owned, FrameParts
  <2>3. OK(q) /\ OK(r) /\ held \in Frame
    BY <2>2, SkipOK, SinceType, HoldType
  <2> HIDE DEF q, r, held
  <2>4. OK(s) /\ k \in Nat
    BY <2>3, AdvanceOK, ContextOK, PendingType
  <2> HIDE DEF s, k
  <2>5. fr \in Frame /\ fr.fn \in Holes
    BY <2>3, <2>4 DEF Frame, FrameNames, Holes
  <2> HIDE DEF fr
  <2> QED BY <1>2, <2>2, <2>3, <2>4, <2>5, NeedNext, FailStep DEF EndOfLet, q, r, s, held, k, fr
<1>3. CASE NextLetDecl
  <2> DEFINE q == Skip(p)
             r == DropSince(q, Top.snap)
             cs == Since(q, Top.snap)
             m == Here(q)
             fr == [Top EXCEPT !.lead = cs, !.mark = m]
             sig == [fr EXCEPT !.fn = "letSig"]
             args == [fr EXCEPT !.fn = "letArgs", !.lim = m]
             pat == [fr EXCEPT !.fn = "letPattern"]
  <2>1. ctl \in DOMAIN Owners /\ Owners[ctl] = "let"
    BY <1>3, OwnersAre DEF NextLetDecl
  <2>2. Top \in Frame /\ Pop \in Seq(Frame) /\ Await(Pop) /\ Top.snap \in Nat
    BY <2>1, Owned, FrameParts
  <2>3. OK(q) /\ OK(r) /\ cs \in Seq(Comment) /\ m \in Nat
    BY <2>2, SkipOK, SinceType, HereType
  <2> HIDE DEF q, r, cs, m
  <2>4. fr \in Frame
    BY <2>2, <2>3 DEF Frame
  <2> HIDE DEF fr
  <2>5. /\ sig \in Frame /\ sig.fn = "letSig" /\ args \in Frame /\ args.fn = "letArgs"
        /\ pat \in Frame /\ pat.fn = "letPattern"
    BY <2>3, <2>4, ZenonT(40) DEF Frame, FrameNames
  <2>6. /\ Fits(sig, "signature") /\ Fits(args, "letName") /\ Fits(pat, "pattern")
        /\ "signature" \in Controls /\ "letName" \in Controls /\ "pattern" \in Controls
    BY <2>5, OwnersAre DEF Fits, Awaiting, Controls
  <2> HIDE DEF sig, args, pat
  <2>7. CASE Goto(r, Append(Pop, sig), "signature")
    BY <2>2, <2>3, <2>5, <2>6, <2>7, FramedStep
  <2>8. CASE Goto(r, Append(Pop, args), "letName")
    BY <2>2, <2>3, <2>5, <2>6, <2>8, FramedStep
  <2>9. CASE Goto(r, Append(Pop, pat), "pattern")
    BY <2>2, <2>3, <2>5, <2>6, <2>9, FramedStep
  <2> QED BY <1>3, <2>7, <2>8, <2>9 DEF NextLetDecl, Swap, q, r, cs, m, fr, sig, args, pat
<1>4. CASE AfterLetSignature
  <2> DEFINE q == Skip(p)
             u == Top.sub \cup val.sub
             seen == [Top EXCEPT !.sub = u]
             held == Hold(seen, Carried(val))
             m == Here(q)
             fr == [held EXCEPT !.fn = "letArgs", !.lim = m]
  <2>1. Top \in Frame /\ Pop \in Seq(Frame) /\ Await(Pop)
    BY <1>4, Resumed DEF AfterLetSignature
  <2>2. OK(q) /\ m \in Nat /\ u \in SUBSET Span
    BY <2>1, SkipOK, HereType, FrameParts, NodeParts
  <2> HIDE DEF q, u, m
  <2>3. seen \in Frame
    BY <2>1, <2>2 DEF Frame
  <2> HIDE DEF seen
  <2>4. held \in Frame
    BY <2>3, NodeParts, HoldType
  <2> HIDE DEF held
  <2>5. fr \in Frame /\ fr.fn = "letArgs"
    BY <2>2, <2>4 DEF Frame, FrameNames
  <2>6. Fits(fr, "letName") /\ "letName" \in Controls
    BY <2>5, OwnersAre DEF Fits, Controls
  <2> HIDE DEF fr
  <2> QED BY <1>4, <2>1, <2>2, <2>5, <2>6, FramedStep
          DEF AfterLetSignature, Swap, q, u, seen, held, m, fr
<1>5. CASE LetName
  <2> DEFINE q == Skip(p)
  <2>1. OK(q) /\ OK(Advance(q))
    BY SkipOK, AdvanceOK
  <2>2. ctl = "letName" /\ "letArgs" \in Controls
    BY <1>5, OwnersAre DEF LetName, Controls
  <2>3. StackFits(calls, "letArgs")
    BY <2>2, OwnersAre DEF IInv, ControlFitsStack, StackFits
  <2> HIDE DEF q
  <2> QED BY <1>5, <2>1, <2>2, <2>3, Steps, FailStep DEF LetName, q
<1>6. CASE LetArguments
  <2> DEFINE q == Skip(p)
  <2>1. OK(q)
    BY SkipOK
  <2>2. ctl \in DOMAIN Owners /\ Owners[ctl] = "letArgs"
    BY <1>6, OwnersAre DEF LetArguments
  <2>3. Top \in Frame /\ Pop \in Seq(Frame) /\ Await(Pop) /\ Await(calls)
    BY <2>2, Owned DEF Awaiting
  <2> HIDE DEF q
  <2> QED BY <1>6, <2>1, <2>3, PlainStep, PlainAre, LetValueStep DEF LetArguments, q
<1>7. CASE AfterLetArgument
  <2> DEFINE u == Top.sub \cup val.sub
             seen == [Top EXCEPT !.sub = u]
             fr == Hold(seen, Carried(val))
  <2>1. Top \in Frame /\ Top.fn = "letArgs" /\ Pop \in Seq(Frame) /\ Await(Pop)
    BY <1>7, Resumed DEF AfterLetArgument
  <2>2. u \in SUBSET Span
    BY <2>1, FrameParts, NodeParts
  <2> HIDE DEF u
  <2>3. seen \in Frame /\ seen.fn = "letArgs"
    BY <2>1, <2>2 DEF Frame
  <2> HIDE DEF seen
  <2>4. fr \in Frame /\ fr.fn = "letArgs"
    BY <2>3, NodeParts, HoldType
  <2>5. Fits(fr, "letArgs") /\ "letArgs" \in Controls
    BY <2>4, OwnersAre DEF Fits, Controls
  <2> HIDE DEF fr
  <2> QED BY <1>7, <2>1, <2>4, <2>5, FramedStep DEF AfterLetArgument, Swap, u, seen, fr
<1>8. CASE AfterLetPattern
  <2> DEFINE u == Top.sub \cup val.sub
             seen == [Top EXCEPT !.sub = u, !.lim = 0]
             fr == Hold(seen, Carried(val))
  <2>1. Top \in Frame /\ Pop \in Seq(Frame) /\ Await(Pop)
    BY <1>8, Resumed DEF AfterLetPattern
  <2>2. u \in SUBSET Span
    BY <2>1, FrameParts, NodeParts
  <2> HIDE DEF u
  <2>3. seen \in Frame
    BY <2>1, <2>2 DEF Frame
  <2> HIDE DEF seen
  <2>4. fr \in Frame
    BY <2>3, NodeParts, HoldType
  <2> HIDE DEF fr
  <2> QED BY <1>8, <2>1, <2>4, SkipOK, LetValueStep DEF AfterLetPattern, u, seen, fr
<1>9. CASE AfterLetValue
  <2> DEFINE q == AfterPre(p, val, Top.body)
             body == WithPre(p, val, Top.body)
             impl == IF Top.lim = 0 THEN {} ELSE SpanNode(Top.lim, q, <<>>, {}).sub
             decl == SpanNode(Top.mark, q, Carried(body), val.sub \cup impl)
             part == AddPart(Top, Lead(decl, Top.lead))
             none == <<>>
             fr == [part EXCEPT !.fn = "let", !.lead = none]
  <2>1. /\ Top \in Frame /\ Pop \in Seq(Frame) /\ Await(Pop) /\ Top.body \in Nat
        /\ Top.lim \in Nat /\ Top.mark \in Nat /\ Top.lead \in Seq(Comment)
    BY <1>9, Resumed, FrameParts DEF AfterLetValue
  <2>2. OK(q) /\ body \in Node /\ none \in Seq(Comment)
    <3>1. OK(q) /\ body \in Node
      BY <2>1, PreType
    <3> QED BY <3>1
  <2> HIDE DEF q, body, none
  <2>3. impl \in SUBSET Span
    <3>1. SpanNode(Top.lim, q, <<>>, {}) \in Node
      BY <2>1, <2>2, LeafType DEF Leaf
    <3> QED BY <3>1, NodeParts
  <2> HIDE DEF impl
  <2>4. decl \in Node
    BY <2>1, <2>2, <2>3, NodeParts, SpanNodeType
  <2> HIDE DEF decl
  <2>5. part \in Frame
    BY <2>1, <2>4, LeadType, AddPartType
  <2> HIDE DEF part
  <2>6. fr \in Frame /\ fr.fn = "let"
    BY <2>2, <2>5 DEF Frame, FrameNames
  <2>7. Fits(fr, "letNext") /\ "letNext" \in Controls
    BY <2>6, OwnersAre DEF Fits, Controls
  <2> HIDE DEF fr
  <2> QED BY <1>9, <2>1, <2>2, <2>6, <2>7, FramedStep
          DEF AfterLetValue, Swap, q, body, impl, decl, part, none, fr
<1>10. CASE AfterLetBody
  <2> DEFINE q == AfterPre(p, val, Top.body)
             n == Close(AddPart(Top, WithPre(p, val, Top.body)), q)
  <2>1. Top \in Frame /\ Pop \in Seq(Frame) /\ Await(Pop) /\ Top.body \in Nat
    BY <1>10, Resumed, FrameParts DEF AfterLetBody
  <2>2. OK(q) /\ n \in Node
    BY <2>1, PreType, AddPartType, CloseType
  <2> HIDE DEF q, n
  <2> QED BY <1>10, <2>1, <2>2, ReturnStep DEF AfterLetBody, q, n
<1> QED BY <1>1, <1>2, <1>3, <1>4, <1>5, <1>6, <1>7, <1>8, <1>9, <1>10 DEF LetNext
-----------------------------------------------------------------------------
(* Lambdas.                                                                *)

(* No lambda breaks the invariant.                                         *)
LEMMA LambdaSteps == ASSUME IInv, LambdaNext PROVE IInv'
<1> USE State
<1>1. CASE LambdaAtom
  <2> DEFINE q == Skip(p)
             fr == New("lambda", Here(q))
  <2>1. OK(q) /\ OK(Advance(q))
    BY SkipOK, AdvanceOK
  <2>2. fr \in Frame /\ fr.fn = "lambda"
    <3>1. "lambda" \in FrameNames
      BY DEF FrameNames
    <3>2. Here(q) \in Nat
      BY <2>1, HereType
    <3> QED BY <3>1, <3>2, NewType
  <2>3. Fits(fr, "lambdaArgs") /\ "lambdaArgs" \in Controls
    BY <2>2, OwnersAre DEF Fits, Controls
  <2> HIDE DEF q, fr
  <2> QED BY <1>1, <2>1, <2>2, <2>3, GotoCompound DEF LambdaAtom, q, fr
<1>2. CASE LambdaArguments
  <2> DEFINE q == Skip(p)
             r == Advance(q)
             k == Snapshot(r)
             fr == [Top EXCEPT !.fn = "lambdaBody", !.body = k]
  <2>1. OK(q) /\ OK(r) /\ k \in Nat
    BY SkipOK, AdvanceOK, PendingType
  <2>2. ctl \in DOMAIN Owners /\ Owners[ctl] = "lambda"
    BY <1>2, OwnersAre DEF LambdaArguments
  <2>3. Top \in Frame /\ Pop \in Seq(Frame) /\ Await(Pop) /\ Await(calls)
    BY <2>2, Owned DEF Awaiting
  <2> HIDE DEF q, r, k
  <2>4. fr \in Frame /\ fr.fn \in Holes
    BY <2>1, <2>3 DEF Frame, FrameNames, Holes
  <2> HIDE DEF fr
  <2> QED BY <1>2, <2>1, <2>3, <2>4, PlainStep, PlainAre, NeedNext, FailStep
          DEF LambdaArguments, q, r, k, fr
<1>3. CASE AfterLambdaArgument
  <2> DEFINE fr == AddPart(Top, val)
  <2>1. Pop \in Seq(Frame) /\ Await(Pop) /\ fr \in Frame /\ fr.fn = "lambda"
    BY <1>3, Resumed, AddPartType DEF AfterLambdaArgument
  <2>2. Fits(fr, "lambdaArgs") /\ "lambdaArgs" \in Controls
    BY <2>1, OwnersAre DEF Fits, Controls
  <2> HIDE DEF fr
  <2> QED BY <1>3, <2>1, <2>2, FramedStep DEF AfterLambdaArgument, Swap, fr
<1>4. CASE AfterLambdaBody
  <2> DEFINE q == AfterPre(p, val, Top.body)
             n == Close(AddPart(Top, WithPre(p, val, Top.body)), q)
  <2>1. Top \in Frame /\ Pop \in Seq(Frame) /\ Await(Pop) /\ Top.body \in Nat
    BY <1>4, Resumed, FrameParts DEF AfterLambdaBody
  <2>2. OK(q) /\ n \in Node
    BY <2>1, PreType, AddPartType, CloseType
  <2> HIDE DEF q, n
  <2> QED BY <1>4, <2>1, <2>2, ReturnStep DEF AfterLambdaBody, q, n
<1> QED BY <1>1, <1>2, <1>3, <1>4 DEF LambdaNext
-----------------------------------------------------------------------------
(* The trampoline, and the whole.                                          *)

(* A boxed continuation is reopened by the value it waited for.            *)
LEMMA ResumeStep == ASSUME IInv, Resume PROVE IInv'
<1> DEFINE n == Len(conts) - 1
<1>1. conts \in Seq(Seq(Frame)) /\ conts # <<>> /\ ctl = "done" /\ Len(conts) \in Nat \ {0}
  BY EmptySeq DEF IInv, TypeOK, Resume
<1>2. n \in Nat /\ \A i \in 1..n : conts[i] \in Seq(Frame)
  BY <1>1
<1>3. /\ toks' = toks /\ p' = p /\ ctl' = ctl /\ val' = val
      /\ calls' = conts[Len(conts)] /\ conts' = SubSeq(conts, 1, n)
  BY DEF Resume
<1>4. /\ conts' \in Seq(Seq(Frame)) /\ Len(conts') = n
      /\ \A i \in 1..n : conts'[i] = conts[i]
  <2> HIDE DEF n
  <2>1. /\ SubSeq(conts, 1, n) \in Seq(Seq(Frame))
        /\ Len(SubSeq(conts, 1, n)) = IF 1 <= n THEN n - 1 + 1 ELSE 0
        /\ \A i \in 1..(n - 1 + 1) : SubSeq(conts, 1, n)[i] = conts[1 + i - 1]
    BY <1>2, SubSeqProperties
  <2> QED BY <1>2, <1>3, <2>1
<1>5. TypeOK'
  BY <1>1, <1>3, <1>4 DEF IInv, TypeOK
<1>6. DepthBound'
  BY <1>1, <1>4, DepthAssumption DEF IInv, DepthBound
<1>7. \A i \in 1..Len(conts) : BoxFits(conts[i])
  BY DEF IInv, ControlFitsStack
<1>8. StackFits(calls', ctl')
  BY <1>1, <1>3, <1>7, OwnersAre DEF BoxFits, StackFits
<1>9. \A i \in 1..Len(conts') : BoxFits(conts'[i])
  BY <1>1, <1>4, <1>7
<1>10. NameConsumed'
  BY <1>1, <1>3 DEF NameConsumed
<1> QED BY <1>5, <1>6, <1>8, <1>9, <1>10 DEF IInv, ControlFitsStack

(* Returning the result of parse_expr keeps the invariant.                 *)
LEMMA FinishStep == ASSUME IInv, Finish PROVE IInv'
<1>1. Await(calls) /\ "ok" \in Plain
  BY Called, PlainAre DEF Finish
<1> QED BY <1>1, State, PlainStep DEF Finish

(* A new parser satisfies the invariant.                                   *)
LEMMA InitiallyIInv == ASSUME ExprInit PROVE IInv
<1>1. toks \in Seq(Token) /\ Len(toks) > 0 /\ toks[Len(toks)].kind = "eof"
  BY SourcesAssumption DEF ExprInit
<1>2. p \in Cursor /\ p.pos \in 1..Len(toks)
  <2>1. p = Start
    BY DEF ExprInit
  <2>2. Start \in Cursor /\ Start.pos = 1
    BY DEF Start, Cursor
  <2>3. Len(toks) \in Nat
    BY <1>1
  <2> QED BY <1>1, <2>1, <2>2, <2>3
<1>3. TypeOK
  BY <1>1, <1>2, NoNodeType, PlainAre DEF ExprInit, TypeOK, Plain
<1>4. DepthBound
  BY DepthAssumption DEF ExprInit, DepthBound
<1>5. ControlFitsStack /\ NameConsumed
  BY OwnersAre DEF ExprInit, ControlFitsStack, StackFits, NameConsumed
<1> QED BY <1>3, <1>4, <1>5 DEF IInv

(* Every step of the parser, and every stutter, keeps the invariant.       *)
LEMMA StepsKeepIInv == ASSUME IInv, [ExprStep]_vars PROVE IInv'
<1>1. CASE UNCHANGED vars
  BY <1>1 DEF vars, IInv, TypeOK, DepthBound, ControlFitsStack, NameConsumed, StackFits, BoxFits
<1>2. CASE Finish
  BY <1>2, FinishStep
<1>3. CASE ExprNext
  BY <1>3, ResumeStep, OperatorSteps, ApplicationSteps, AtomSteps, BracketSteps, BranchSteps,
     LetSteps, LambdaSteps, PatternSteps, TypeSteps
     DEF ExprNext, OperatorNext, ApplicationNext, AtomNext, BracketNext, BranchNext, LetNext, LambdaNext
<1> QED BY <1>1, <1>2, <1>3 DEF ExprStep

(* Whatever the text, the parser keeps its state well typed, its nesting   *)
(* bounded, and its control and its stack (also when boxed in the          *)
(* trampoline) together: the pushdown machine of parse_expr cannot hand a  *)
(* value to a closure that does not take one.                              *)
THEOREM Invariance == ExprSpec => []IInv
<1>1. ExprInit => IInv
  BY InitiallyIInv
<1>2. IInv /\ [ExprStep]_vars => IInv'
  BY StepsKeepIInv
<1> QED BY <1>1, <1>2, PTL DEF ExprSpec

(* The resource guard of parse_expr: the trampoline never holds more than  *)
(* MAX_EXPR_DEPTH continuations.                                           *)
THEOREM DepthIsBounded == ExprSpec => []DepthBound
<1>1. IInv => DepthBound
  BY DEF IInv
<1> QED BY <1>1, Invariance, PTL
-----------------------------------------------------------------------------
(* The state beside the stack.                                             *)

(* The stream is in the order of the text (OrderAssumption).               *)
Ordered ==
  \A i \in 1..Len(toks) :
    /\ toks[i].tix <= toks[i].ix
    /\ i < Len(toks) => toks[i].ix < toks[i + 1].tix
    /\ \A k \in 1..Len(toks[i].before) :
          /\ toks[i].tix <= toks[i].before[k].ix /\ toks[i].before[k].ix < toks[i].ix
          /\ \A j \in 1..(k - 1) : toks[i].before[j].ix < toks[i].before[k].ix

(* Comments in source order, but for those read twice; all before a place. *)
Rising(s) == \A i, j \in 1..Len(s) : i < j /\ {s[i], s[j]} \cap Reread = {} => s[i].ix < s[j].ix

AllBefore(s, ix) == \A i \in 1..Len(s) : s[i] \notin Reread => s[i].ix < ix

Sorted(q) == Rising(q.pending) /\ AllBefore(q.pending, Here(q))

(* How many brackets a stack holds, and whether a function holds one.      *)
Count(cs) == Cardinality(BracketsOf(cs))

Weight(fr) == IF fr.fn \in Brackets THEN 1 ELSE 0

(* An operator is shifted only where there is one.                         *)
AtOperator == ctl = "reduce" => toks[p.pos].kind \in {"op", "-"}

(* paren_depth is what the boxes hold and what the stack holds.            *)
DepthIsOpen == /\ IsFiniteSet(Open(conts))
               /\ ctl # "error" => p.depth = Cardinality(Open(conts)) + Count(calls)

BalInv == Ordered /\ Sorted(p) /\ DepthIsOpen /\ AtOperator /\ ContextIsFresh
-----------------------------------------------------------------------------
(* Taking comments out of the pending buffer.                              *)

(* t is what is left of s.                                                 *)
PartOf(t, s) ==
  \E at \in [1..Len(t) -> 1..Len(s)] :
    \A k \in 1..Len(t) : t[k] = s[at[k]] /\ \A j \in 1..(k - 1) : at[j] < at[k]

(* What Select leaves is part of the sequence.                             *)
LEMMA SelectPart ==
  ASSUME NEW C, NEW s \in Seq(C), NEW S
  PROVE  PartOf(Select(s, S), s)
<1>1. PICK G : /\ Select(s, S) = G[Len(s)]
               /\ \A n \in 0..Len(s) :
                    /\ G[n] \in Seq(C \cap S)
                    /\ G[n] = IF n = 0 THEN <<>>
                              ELSE IF s[n] \in S THEN Append(G[n - 1], s[n]) ELSE G[n - 1]
  BY SelectSolved
<1> DEFINE N == Len(s)
           Follows(at, n) == \A k \in 1..Len(G[n]) : G[n][k] = s[at[k]] /\ \A j \in 1..(k - 1) : at[j] < at[k]
           Found(n) == \E at \in [1..Len(G[n]) -> 1..n] : Follows(at, n)
<1>2. N \in Nat /\ \A k \in 1..N : s[k] \in C
  OBVIOUS
<1>3. \A n \in 0..N : G[n] \in Seq(C \cap S)
  BY <1>1
<1>4. \A n \in 1..N : G[n] = IF s[n] \in S THEN Append(G[n - 1], s[n]) ELSE G[n - 1]
  BY <1>1, <1>2
<1>5. N \in 0..N /\ G[0] = <<>>
  BY <1>1, <1>2
<1> HIDE DEF N
<1>6. \A n \in 0..N : Found(n)
  <2> DEFINE T == {n \in 0..N : ~Found(n)}
  <2> SUFFICES ASSUME T # {} PROVE FALSE
    OBVIOUS
  <2>1. PICK n \in T : \A k \in T : n <= k
    <3>1. T \in SUBSET Nat
      BY <1>2
    <3> HIDE DEF T
    <3> QED BY <3>1, LeastNat
  <2>2. n \in 0..N /\ ~Found(n)
    OBVIOUS
  <2>3. CASE n = 0
    <3>1. G[n] = <<>> /\ Len(G[n]) = 0
      BY <1>5, <2>3
    <3>2. [k \in 1..0 |-> 0] \in [1..Len(G[n]) -> 1..n] /\ Follows([k \in 1..0 |-> 0], n)
      BY <3>1
    <3> QED BY <3>2, <2>2
  <2>4. CASE n # 0
    <3>1. n - 1 \in 0..N /\ ~(n <= n - 1) /\ n \in 1..N /\ n \in Nat
      BY <1>2, <2>2, <2>4
    <3>2. Found(n - 1)
      BY <3>1, <2>1
    <3> DEFINE g == G[n - 1]
               m == Len(g)
    <3>3. PICK at \in [1..m -> 1..(n - 1)] : Follows(at, n - 1)
      BY <3>2
    <3>4. g \in Seq(C \cap S) /\ m \in Nat
      BY <1>3, <3>1
    <3>5. CASE s[n] \in S
      <4> DEFINE new == [k \in 1..(m + 1) |-> IF k = m + 1 THEN n ELSE at[k]]
      <4>1. G[n] = Append(g, s[n]) /\ s[n] \in C \cap S
        BY <1>2, <1>4, <3>1, <3>5
      <4>2. Len(G[n]) = m + 1 /\ G[n][m + 1] = s[n] /\ \A k \in 1..m : G[n][k] = g[k]
        <5> HIDE DEF g
        <5> QED BY <3>4, <4>1
      <4>3. \A k \in 1..m : at[k] \in 1..(n - 1) /\ g[k] = s[at[k]] /\ \A j \in 1..(k - 1) : at[j] < at[k]
        BY <3>3
      <4> HIDE DEF g, m
      <4>4. new \in [1..(m + 1) -> 1..n]
        BY <3>1, <3>4, <4>3
      <4>5. \A k \in 1..(m + 1) : G[n][k] = s[new[k]] /\ \A j \in 1..(k - 1) : new[j] < new[k]
        BY <3>1, <3>4, <4>2, <4>3, SMTT(30)
      <4>6. new \in [1..Len(G[n]) -> 1..n] /\ Follows(new, n)
        BY <4>2, <4>4, <4>5
      <4> QED BY <4>6, <2>2
    <3>6. CASE s[n] \notin S
      <4>1. G[n] = g
        BY <1>4, <3>1, <3>6
      <4>2. at \in [1..Len(G[n]) -> 1..n] /\ Follows(at, n)
        BY <3>1, <3>3, <4>1
      <4> QED BY <4>2, <2>2
    <3> QED BY <3>5, <3>6
  <2> QED BY <2>3, <2>4
<1>7. Found(N)
  BY <1>6, <1>5
<1> QED BY <1>1, <1>7 DEF PartOf, N

(* The first n elements, and part of the others.                           *)
LEMMA JoinPart ==
  ASSUME NEW C, NEW s \in Seq(C), NEW n \in Nat, n <= Len(s),
         NEW t \in Seq(C), PartOf(t, SubSeq(s, n + 1, Len(s)))
  PROVE  PartOf(SubSeq(s, 1, n) \o t, s)
<1> DEFINE N == Len(s)
           a == SubSeq(s, 1, n)
           b == SubSeq(s, n + 1, N)
           u == a \o t
<1>1. N \in Nat /\ n <= N /\ Len(t) \in Nat
  OBVIOUS
<1>2. a \in Seq(C) /\ Len(a) = n /\ \A k \in 1..n : a[k] = s[k]
  BY <1>1, SubSeqProperties
<1>3. b \in Seq(C) /\ Len(b) = N - n /\ \A k \in 1..(N - n) : b[k] = s[n + k]
  <2>1. \A k \in (n + 1)..N : s[k] \in C
    BY <1>1
  <2>2. /\ b \in Seq(C) /\ Len(b) = IF n + 1 <= N THEN N - (n + 1) + 1 ELSE 0
        /\ \A k \in 1..(N - (n + 1) + 1) : b[k] = s[n + 1 + k - 1]
    <3> HIDE DEF N
    <3> QED BY <1>1, <2>1, SubSeqProperties
  <2> HIDE DEF b, N
  <2> QED BY <1>1, <2>2
<1>4. PICK at \in [1..Len(t) -> 1..Len(b)] :
        \A k \in 1..Len(t) : t[k] = b[at[k]] /\ \A j \in 1..(k - 1) : at[j] < at[k]
  BY DEF PartOf
<1>5. /\ Len(u) = n + Len(t)
      /\ \A k \in 1..n : u[k] = s[k]
      /\ \A k \in (n + 1)..(n + Len(t)) : u[k] = t[k - n]
  <2> HIDE DEF a, b, N
  <2>1. /\ Len(u) = Len(a) + Len(t)
        /\ \A k \in 1..(Len(a) + Len(t)) : u[k] = IF k <= Len(a) THEN a[k] ELSE t[k - Len(a)]
    BY <1>2, ConcatProperties
  <2> HIDE DEF u
  <2>2. \A k \in 1..(n + Len(t)) : u[k] = IF k <= n THEN a[k] ELSE t[k - n]
    BY <1>2, <2>1
  <2> QED BY <1>1, <1>2, <2>1, <2>2
<1>6. \A k \in 1..Len(t) : at[k] \in 1..(N - n) /\ t[k] = s[n + at[k]] /\ \A j \in 1..(k - 1) : at[j] < at[k]
  <2> HIDE DEF b, N
  <2> QED BY <1>3, <1>4
<1> DEFINE all == [k \in 1..(n + Len(t)) |-> IF k <= n THEN k ELSE n + at[k - n]]
<1> HIDE DEF a, b, u, N
<1>7. all \in [1..(n + Len(t)) -> 1..N]
  <2> SUFFICES ASSUME NEW k \in 1..(n + Len(t)) PROVE all[k] \in 1..N
    OBVIOUS
  <2>1. k > n => k - n \in 1..Len(t)
    BY <1>1
  <2>2. k > n => at[k - n] \in 1..(N - n)
    BY <1>6, <2>1
  <2> QED BY <1>1, <2>2
<1>8. ASSUME NEW k \in 1..(n + Len(t))
      PROVE  u[k] = s[all[k]] /\ \A j \in 1..(k - 1) : all[j] < all[k]
  <2>1. CASE k <= n
    BY <1>1, <1>5, <2>1
  <2>2. CASE k > n
    <3>1. k - n \in 1..Len(t) /\ k \in (n + 1)..(n + Len(t))
      BY <1>1, <2>2
    <3>2. all[k] = n + at[k - n] /\ at[k - n] \in 1..(N - n) /\ u[k] = s[all[k]]
      BY <1>1, <1>5, <1>6, <2>2, <3>1
    <3>3. ASSUME NEW j \in 1..(k - 1) PROVE all[j] < all[k]
      <4>1. CASE j <= n
        BY <1>1, <3>2, <4>1
      <4>2. CASE j > n
        <5>1. j - n \in 1..(k - n - 1) /\ j - n \in 1..Len(t)
          BY <1>1, <3>1, <4>2
        <5>2. at[j - n] < at[k - n] /\ at[j - n] \in 1..(N - n)
          BY <1>6, <3>1, <5>1
        <5>3. j \in 1..(n + Len(t)) /\ ~(j <= n)
          BY <1>1, <4>2
        <5>4. all[j] = n + at[j - n]
          BY <5>3
        <5> QED BY <1>1, <3>2, <5>2, <5>4, SMTT(30)
      <4> QED BY <1>1, <4>1, <4>2
    <3> QED BY <3>2, <3>3
  <2>3. k <= n \/ k > n
    BY <1>1
  <2> HIDE DEF all
  <2> QED BY <2>1, <2>2, <2>3
<1> QED BY <1>5, <1>7, <1>8 DEF PartOf, u, a, N

(* Nothing at all, and everything, are part of a sequence.                 *)
LEMMA TrivialParts ==
  ASSUME NEW C, NEW s \in Seq(C)
  PROVE  PartOf(<<>>, s) /\ PartOf(s, s)
<1>1. [k \in 1..0 |-> 0] \in [1..Len(<<>>) -> 1..Len(s)] /\ Len(<<>>) = 0
  OBVIOUS
<1>2. [k \in 1..Len(s) |-> k] \in [1..Len(s) -> 1..Len(s)] /\ Len(s) \in Nat
  OBVIOUS
<1>3. \A k \in 1..Len(s) : \A j \in 1..(k - 1) : j \in 1..Len(s) /\ j < k
  BY <1>2
<1>4. PartOf(<<>>, s)
  <2> DEFINE at == [k \in 1..0 |-> 0]
  <2>1. at \in [1..Len(<<>>) -> 1..Len(s)] /\ \A k \in 1..Len(<<>>) : FALSE
    BY <1>1
  <2> HIDE DEF at
  <2> QED BY <2>1 DEF PartOf
<1>5. PartOf(s, s)
  <2> DEFINE at == [k \in 1..Len(s) |-> k]
  <2>1. \A k \in 1..Len(s) : s[k] = s[at[k]] /\ \A j \in 1..(k - 1) : at[j] < at[k]
    BY <1>3
  <2> HIDE DEF at
  <2> QED BY <1>2, <2>1 DEF PartOf, at
<1> QED BY <1>4, <1>5

(* Part of a sequence in order is in order.                                *)
LEMMA PartSorted ==
  ASSUME NEW C, NEW s \in Seq(C), NEW t \in Seq(C), PartOf(t, s)
  PROVE  /\ Rising(s) => Rising(t)
         /\ \A ix : AllBefore(s, ix) => AllBefore(t, ix)
<1>1. PICK at \in [1..Len(t) -> 1..Len(s)] :
        \A k \in 1..Len(t) : t[k] = s[at[k]] /\ \A j \in 1..(k - 1) : at[j] < at[k]
  BY DEF PartOf
<1>2. Len(t) \in Nat /\ Len(s) \in Nat
  OBVIOUS
<1>3. \A k \in 1..Len(t) : at[k] \in 1..Len(s) /\ t[k] = s[at[k]]
  BY <1>1
<1>4. ASSUME NEW i \in 1..Len(t), NEW j \in 1..Len(t), i < j PROVE at[i] < at[j]
  BY <1>1, <1>2, <1>4
<1> QED BY <1>3, <1>4, ZenonT(60) DEF Rising, AllBefore
-----------------------------------------------------------------------------
(* Cursors: what the operations on them do to depth, context and comments. *)

(* A cursor that parsing from p may have reached inside one action.        *)
Good(q) == OK(q) /\ Sorted(q) /\ q.ctx = p.ctx

(* r is q with fewer comments pending.                                     *)
Thinner(r, q) == /\ OK(r) /\ PartOf(r.pending, q.pending)
                 /\ r.pos = q.pos /\ r.raw = q.raw /\ r.depth = q.depth /\ r.ctx = q.ctx

LEMMA ThinGood ==
  ASSUME NEW q, Good(q), NEW r, Thinner(r, q)
  PROVE  Good(r) /\ r.depth = q.depth /\ r.pos = q.pos /\ Peek(r) = Peek(q) /\ Here(r) = Here(q)
<1>1. Peek(r) = Peek(q) /\ Here(r) = Here(q)
  BY DEF Thinner, Peek, OnTrivia, Here
<1>2. q.pending \in Seq(Comment) /\ r.pending \in Seq(Comment)
  BY PendingType DEF Good, Thinner
<1>3. Sorted(r)
  BY <1>1, <1>2, PartSorted DEF Good, Sorted, Thinner
<1> QED BY <1>1, <1>3 DEF Good, Thinner

LEMMA PendingThinner ==
  ASSUME NEW q, OK(q), NEW t \in Seq(Comment), PartOf(t, q.pending)
  PROVE  Thinner([q EXCEPT !.pending = t], q)
BY PendingOK DEF Thinner, OK, Cursor

LEMMA SelfThinner == ASSUME NEW q, OK(q) PROVE Thinner(q, q)
BY PendingType, TrivialParts DEF Thinner

(* take_pending_comments_since.                                            *)
LEMMA DropSinceThinner ==
  ASSUME NEW q, OK(q), NEW snap \in Nat
  PROVE  Thinner(DropSince(q, snap), q)
<1>1. CASE snap >= Len(q.pending)
  BY <1>1, SelfThinner DEF DropSince
<1>2. CASE ~(snap >= Len(q.pending))
  <2>1. snap <= Len(q.pending) /\ q.pending \in Seq(Comment)
    BY <1>2, PendingType
  <2>2. PartOf(<<>>, SubSeq(q.pending, snap + 1, Len(q.pending)))
    <3>1. SubSeq(q.pending, snap + 1, Len(q.pending)) \in Seq(Comment)
      BY <2>1, PartOfPending
    <3> QED BY <3>1, TrivialParts
  <2>3. SubSeq(q.pending, 1, snap) \in Seq(Comment)
    BY <2>1, <1>2, PartOfPending
  <2>4. SubSeq(q.pending, 1, snap) \o <<>> = SubSeq(q.pending, 1, snap)
    BY <2>3
  <2>5. PartOf(SubSeq(q.pending, 1, snap) \o <<>>, q.pending)
    <3>1. <<>> \in Seq(Comment)
      OBVIOUS
    <3> QED BY <2>1, <2>2, <3>1, JoinPart
  <2> QED BY <1>2, <2>3, <2>4, <2>5, PendingThinner DEF DropSince
<1> QED BY <1>1, <1>2

(* The claiming loops.                                                     *)
LEMMA UnclaimedThinner ==
  ASSUME NEW q, OK(q), NEW snap \in Nat, NEW S
  PROVE  Thinner(Unclaimed(q, snap, S), q)
<1> DEFINE rest == Select(Since(q, snap), Elements(q.pending) \ S)
           t == DropSince(q, snap).pending \o rest
<1>1. q.pending \in Seq(Comment) /\ Len(q.pending) \in Nat
  BY PendingType
<1>2. Since(q, snap) \in Seq(Comment)
  BY SinceType
<1>3. rest \in Seq(Comment) /\ PartOf(rest, Since(q, snap))
  <2>1. rest \in Seq(Comment \cap (Elements(q.pending) \ S))
    BY <1>2, SelectType
  <2> QED BY <1>2, <2>1, SelectPart
<1> HIDE DEF rest
<1>4. CASE snap >= Len(q.pending)
  <2>1. Since(q, snap) = <<>> /\ DropSince(q, snap) = q
    BY <1>4 DEF Since, DropSince
  <2>2. rest = <<>>
    <3>1. Len(rest) = 0
      <4>1. PICK at \in [1..Len(rest) -> 1..0] : TRUE
        BY <1>3, <2>1 DEF PartOf
      <4>2. Len(rest) \in Nat /\ 1 \notin 1..Len(rest)
        BY <1>3, <4>1
      <4> QED BY <4>2
    <3> QED BY <1>3, <3>1, EmptySeq
  <2>3. t = q.pending
    BY <1>1, <2>1, <2>2
  <2> QED BY <1>1, <2>3, TrivialParts, PendingThinner DEF Unclaimed, rest
<1>5. CASE ~(snap >= Len(q.pending))
  <2>1. /\ Since(q, snap) = SubSeq(q.pending, snap + 1, Len(q.pending))
        /\ DropSince(q, snap) = [q EXCEPT !.pending = SubSeq(@, 1, snap)]
    BY <1>5 DEF Since, DropSince
  <2>2. DropSince(q, snap).pending = SubSeq(q.pending, 1, snap)
    BY <2>1 DEF OK, Cursor
  <2>3. PartOf(t, q.pending)
    <3>1. snap <= Len(q.pending) /\ PartOf(rest, SubSeq(q.pending, snap + 1, Len(q.pending)))
      BY <1>1, <1>3, <1>5, <2>1
    <3>2. PartOf(SubSeq(q.pending, 1, snap) \o rest, q.pending)
      BY <1>1, <1>3, <3>1, JoinPart
    <3> QED BY <2>2, <3>2
  <2>4. t \in Seq(Comment)
    <3>1. DropSince(q, snap).pending \in Seq(Comment)
      BY SinceType, PendingType
    <3> QED BY <1>3, <3>1
  <2> QED BY <2>3, <2>4, PendingThinner DEF Unclaimed, rest
<1> QED BY <1>4, <1>5

(* Taking the last comment, or one from the middle.                        *)
LEMMA TrailingThinner ==
  ASSUME NEW q, OK(q), NEW n
  PROVE  Thinner(DropTrailing(q, n), q)
<1>1. CASE Trailing(q, n) = <<>>
  BY <1>1, SelfThinner DEF DropTrailing
<1>2. CASE Trailing(q, n) # <<>>
  <2> DEFINE N == Len(q.pending)
  <2>1. q.pending # <<>> /\ q.pending \in Seq(Comment) /\ N \in Nat /\ N # 0
    BY <1>2, PendingType, EmptySeq DEF Trailing
  <2>2. SubSeq(q.pending, N - 1 + 1, N) \in Seq(Comment) /\ SubSeq(q.pending, 1, N - 1) \in Seq(Comment)
    BY <2>1, PartOfPending
  <2>3. SubSeq(q.pending, 1, N - 1) \o <<>> = SubSeq(q.pending, 1, N - 1)
    BY <2>2
  <2>4. PartOf(<<>>, SubSeq(q.pending, N - 1 + 1, N))
    BY <2>2, TrivialParts
  <2>5. <<>> \in Seq(Comment) /\ N - 1 \in Nat /\ N - 1 <= N
    BY <2>1
  <2>6. PartOf(SubSeq(q.pending, 1, N - 1), q.pending)
    <3> HIDE DEF N
    <3>1. PartOf(SubSeq(q.pending, 1, N - 1) \o <<>>, q.pending)
      BY <2>1, <2>4, <2>5, JoinPart DEF N
    <3> QED BY <2>3, <3>1
  <2> QED BY <1>2, <2>2, <2>6, PendingThinner DEF DropTrailing
<1> QED BY <1>1, <1>2

LEMMA InlineThinner ==
  ASSUME NEW q, OK(q), NEW n
  PROVE  Thinner(DropInline(q, n), q)
<1> DEFINE at == InlineIndex(q, n)
           i == CHOOSE k \in at : TRUE
           s == q.pending
           N == Len(s)
<1>1. s \in Seq(Comment) /\ N \in Nat
  BY PendingType
<1>2. CASE at = {}
  BY <1>2, SelfThinner DEF DropInline
<1>3. CASE at # {}
  <2>1. i \in 1..N /\ i - 1 \in Nat /\ i - 1 <= N
    BY <1>1, <1>3, SMTT(30) DEF InlineIndex
  <2> HIDE DEF i, at, N
  <2> DEFINE a == SubSeq(s, 1, i - 1)
             b == SubSeq(s, i - 1 + 1, N)
             c == SubSeq(s, i + 1, N)
             up == [k \in 1..(N - i) |-> k + 1]
  <2>2. a \in Seq(Comment) /\ b \in Seq(Comment) /\ c \in Seq(Comment)
    BY <1>1, <2>1, PartOfPending DEF N
  <2>3. Len(b) = N - i + 1 /\ \A k \in 1..(N - i + 1) : b[k] = s[i + k - 1]
    <3>1. \A k \in i..N : s[k] \in Comment
      BY <1>1, <2>1 DEF N
    <3>2. /\ Len(SubSeq(s, i, N)) = IF i <= N THEN N - i + 1 ELSE 0
          /\ \A k \in 1..(N - i + 1) : SubSeq(s, i, N)[k] = s[i + k - 1]
      <4> HIDE DEF s
      <4> QED BY <1>1, <2>1, <3>1, SubSeqProperties
    <3>3. b = SubSeq(s, i, N)
      <4>1. i - 1 + 1 = i
        BY <2>1
      <4> QED BY <4>1
    <3> HIDE DEF b
    <3> QED BY <2>1, <1>1, <3>2, <3>3
  <2>4. Len(c) = N - i /\ \A k \in 1..(N - i) : c[k] = s[i + 1 + k - 1]
    <3>1. \A k \in (i + 1)..N : s[k] \in Comment
      BY <1>1, <2>1 DEF N
    <3>2. /\ Len(c) = IF i + 1 <= N THEN N - (i + 1) + 1 ELSE 0
          /\ \A k \in 1..(N - (i + 1) + 1) : c[k] = s[i + 1 + k - 1]
      <4> HIDE DEF s
      <4> QED BY <1>1, <2>1, <3>1, SubSeqProperties
    <3> HIDE DEF c
    <3> QED BY <1>1, <2>1, <3>2
  <2>5. PartOf(c, b)
    <3> HIDE DEF b, c, s
    <3>1. up \in [1..Len(c) -> 1..Len(b)]
      BY <1>1, <2>1, <2>3, <2>4
    <3>2. \A k \in 1..Len(c) : up[k] = k + 1 /\ c[k] = b[k + 1]
      BY <1>1, <2>1, <2>3, <2>4
    <3>3. ASSUME NEW k \in 1..Len(c) PROVE \A j \in 1..(k - 1) : up[j] < up[k]
      BY <1>1, <2>1, <2>4, SMTT(30)
    <3> HIDE DEF up
    <3> QED BY <3>1, <3>2, <3>3 DEF PartOf
  <2>6. PartOf(a \o c, s)
    <3> HIDE DEF s
    <3> QED BY <1>1, <2>1, <2>2, <2>5, JoinPart DEF N
  <2>7. a \o c \in Seq(Comment)
    <3> HIDE DEF a, c
    <3> QED BY <2>2
  <2>8. DropInline(q, n) = [q EXCEPT !.pending = a \o c]
    <3>1. [q EXCEPT !.pending = SubSeq(@, 1, i - 1) \o SubSeq(@, i + 1, Len(@))] = [q EXCEPT !.pending = a \o c]
      BY DEF N
    <3> QED BY <1>3, <3>1 DEF DropInline, at, i
  <2> HIDE DEF a, c, s
  <2> QED BY <2>6, <2>7, <2>8, PendingThinner DEF s
<1> QED BY <1>2, <1>3

(* What every claim on a cursor leaves alone.                              *)
LEMMA Thins ==
  ASSUME NEW q, Good(q), NEW snap \in Nat, NEW S, NEW n
  PROVE  /\ Thinner(DropSince(q, snap), q) /\ Thinner(Unclaimed(q, snap, S), q)
         /\ Thinner(DropTrailing(q, n), q) /\ Thinner(DropInline(q, n), q)
         /\ Thinner(AfterPre(q, n, snap), q)
BY DropSinceThinner, UnclaimedThinner, TrailingThinner, InlineThinner DEF Good, AfterPre

(* Comments stand between the token before them and the one after.         *)
LEMMA SkipGood ==
  ASSUME Stream, Ordered, NEW q, Good(q)
  PROVE  /\ Good(Skip(q)) /\ Skip(q).depth = q.depth /\ Skip(q).pos = q.pos
         /\ ~Skip(q).raw /\ Peek(Skip(q)) = toks[q.pos].kind
<1> DEFINE r == Skip(q)
           t == toks[q.pos]
<1>1. OK(q) /\ q \in Cursor /\ q.pos \in 1..Len(toks) /\ OK(r) /\ r.pos = q.pos
  BY SkipOK DEF Good, OK
<1>2. CASE q.raw
  <2>1. r = [q EXCEPT !.raw = FALSE, !.pending = @ \o t.before]
    BY <1>2 DEF Skip
  <2>2. r.depth = q.depth /\ r.ctx = q.ctx /\ ~r.raw /\ r.pending = q.pending \o t.before
    BY <1>1, <2>1 DEF Cursor
  <2>3. q.pending \in Seq(Comment) /\ t.before \in Seq(Comment) /\ t.ix \in Nat /\ t.tix \in Nat
    BY <1>1, PendingType, TokenAt DEF Token
  <2> DEFINE a == q.pending
             b == t.before
             c == r.pending
  <2>4. /\ Len(a) \in Nat /\ Len(b) \in Nat /\ Len(c) = Len(a) + Len(b)
        /\ \A i \in 1..Len(a) : c[i] = a[i] /\ a[i].ix \in Nat
        /\ \A i \in (Len(a) + 1)..(Len(a) + Len(b)) : c[i] = b[i - Len(a)]
    <3>1. a \in Seq(Comment) /\ b \in Seq(Comment) /\ c = a \o b
      BY <2>2, <2>3
    <3> HIDE DEF a, b, c
    <3>2. \A i \in 1..Len(a) : a[i] \in Comment
      BY <3>1
    <3>3. /\ Len(c) = Len(a) + Len(b)
          /\ \A i \in 1..(Len(a) + Len(b)) : c[i] = IF i <= Len(a) THEN a[i] ELSE b[i - Len(a)]
      BY <3>1, ConcatProperties
    <3>4. Len(a) \in Nat /\ Len(b) \in Nat
      BY <3>1
    <3> QED BY <3>2, <3>3, <3>4 DEF Comment
  <2>5. /\ t.tix <= t.ix
        /\ \A k \in 1..Len(b) : /\ t.tix <= b[k].ix /\ b[k].ix < t.ix /\ b[k].ix \in Nat
                                /\ \A j \in 1..(k - 1) : b[j].ix < b[k].ix
    <3>1. \A k \in 1..Len(b) : b[k].ix \in Nat
      <4>1. b \in Seq(Comment)
        BY <2>3
      <4> HIDE DEF b
      <4>2. \A k \in 1..Len(b) : b[k] \in Comment
        BY <4>1
      <4> QED BY <4>2 DEF Comment
    <3> QED BY <1>1, <3>1 DEF Ordered
  <2>6. Rising(a) /\ AllBefore(a, t.tix)
    BY <1>2 DEF Good, Sorted, Here
  <2>7. Here(r) = t.ix
    BY <1>1, <2>2 DEF Here
  <2> HIDE DEF a, b, c, t
  <2>8. AllBefore(c, t.ix)
    <3> SUFFICES ASSUME NEW i \in 1..Len(c), c[i] \notin Reread PROVE c[i].ix < t.ix
      BY DEF AllBefore
    <3>1. CASE i \in 1..Len(a)
      BY <2>3, <2>4, <2>5, <2>6, <3>1 DEF AllBefore
    <3>2. CASE i \notin 1..Len(a)
      <4>1. i - Len(a) \in 1..Len(b) /\ c[i] = b[i - Len(a)]
        BY <2>4, <3>2
      <4> QED BY <2>5, <4>1
    <3> QED BY <3>1, <3>2
  <2>9. Rising(c)
    <3> SUFFICES ASSUME NEW i \in 1..Len(c), NEW j \in 1..Len(c), i < j,
                        {c[i], c[j]} \cap Reread = {}
                 PROVE  c[i].ix < c[j].ix
      BY DEF Rising
    <3>1. CASE j \in 1..Len(a)
      <4>1. i \in 1..Len(a)
        BY <2>4, <3>1
      <4>2. c[i] = a[i] /\ c[j] = a[j]
        BY <2>4, <3>1, <4>1
      <4> QED BY <2>6, <3>1, <4>1, <4>2 DEF Rising
    <3>2. CASE j \notin 1..Len(a)
      <4>1. j - Len(a) \in 1..Len(b) /\ c[j] = b[j - Len(a)]
        BY <2>4, <3>2
      <4>2. t.tix <= b[j - Len(a)].ix /\ b[j - Len(a)].ix \in Nat
            /\ \A k \in 1..(j - Len(a) - 1) : b[k].ix < b[j - Len(a)].ix
        BY <2>5, <4>1
      <4>3. CASE i \in 1..Len(a)
        <5>1. a[i].ix \in Nat /\ c[i] = a[i]
          BY <2>4, <4>3
        <5>2. a[i].ix < t.tix
          BY <2>6, <4>3, <5>1 DEF AllBefore
        <5>3. c[i].ix \in Nat /\ c[j].ix \in Nat /\ c[i].ix < t.tix /\ t.tix <= c[j].ix
          BY <4>1, <4>2, <5>1, <5>2
        <5>4. t.tix \in Nat
          BY <2>3
        <5> QED BY <5>3, <5>4
      <4>4. CASE i \notin 1..Len(a)
        <5>1. i - Len(a) \in 1..(j - Len(a) - 1) /\ c[i] = b[i - Len(a)]
          BY <2>4, <4>4
        <5> QED BY <4>1, <4>2, <5>1
      <4> QED BY <4>3, <4>4
    <3> QED BY <3>1, <3>2
  <2>10. Sorted(r)
    BY <2>7, <2>8, <2>9 DEF Sorted, c
  <2> QED BY <1>1, <2>2, <2>10 DEF Good, Peek, OnTrivia, t
<1>3. CASE ~q.raw
  BY <1>1, <1>3 DEF Skip, Peek, OnTrivia, Good, OK, Cursor
<1> QED BY <1>1, <1>2, <1>3 DEF OK, Cursor

(* The token at the cursor: an opening or closing bracket, or neither.     *)
Opens(q) == toks[q.pos].kind \in Openers

Closes(q) == toks[q.pos].kind \in Closers

Flat(q) == ~Opens(q) /\ ~Closes(q)

(* Passing a token claims nothing, and counts its bracket.                 *)
LEMMA AdvanceGood ==
  ASSUME Stream, Ordered, NEW q, Good(q)
  PROVE  /\ Good(Advance(q)) /\ q.depth \in Nat
         /\ Opens(q) => Advance(q).depth = q.depth + 1
         /\ Closes(q) /\ q.depth > 0 => Advance(q).depth = q.depth - 1
         /\ Flat(q) => Advance(q).depth = q.depth
<1> DEFINE r == Advance(q)
           t == toks[q.pos]
           next == toks[q.pos + 1]
<1>1. OK(q) /\ q \in Cursor /\ q.pos \in 1..Len(toks) /\ OK(r) /\ Len(toks) \in Nat
  BY AdvanceOK DEF Good, OK, Stream
<1>2. /\ r.pending = q.pending /\ r.ctx = q.ctx
      /\ r.pos = IF q.pos < Len(toks) THEN q.pos + 1 ELSE q.pos
      /\ r.raw = IF q.pos < Len(toks) THEN TRUE ELSE q.raw
      /\ r.depth = CASE t.kind \in Openers -> q.depth + 1
                     [] t.kind \in Closers -> IF q.depth > 0 THEN q.depth - 1 ELSE 0
                     [] OTHER -> q.depth
  BY <1>1 DEF Advance, Cursor
<1>3. q.depth \in Nat
  BY <1>1 DEF Cursor
<1>4. t \in Token /\ t.tix <= t.ix /\ t.kind \in Kinds
  BY <1>1, TokenAt DEF Ordered, Token
<1>5. AllBefore(r.pending, Here(r))
  <2>1. CASE q.pos < Len(toks)
    <3>1. Here(r) = next.tix /\ t.ix < next.tix /\ next \in Token
      BY <1>1, <1>2, <2>1, TokenAt DEF Here, Ordered
    <3>2. Here(q) \in Nat /\ Here(q) <= t.ix /\ t.ix \in Nat /\ next.tix \in Nat
      <4>1. Here(q) = IF q.raw THEN t.tix ELSE t.ix
        BY DEF Here
      <4> HIDE DEF t, next, r
      <4>2. t.ix \in Nat /\ t.tix \in Nat /\ next.tix \in Nat
        BY <1>4, <3>1 DEF Token
      <4> QED BY <1>4, <4>1, <4>2
    <3>3. \A i \in 1..Len(q.pending) : q.pending[i].ix \in Nat
      <4>1. \A i \in 1..Len(q.pending) : q.pending[i] \in Comment
        BY <1>1, PendingType
      <4> QED BY <4>1 DEF Comment
    <3>4. AllBefore(q.pending, Here(q))
      BY DEF Good, Sorted
    <3> HIDE DEF r, t, next
    <3>5. Here(q) < Here(r) /\ Here(r) \in Nat
      BY <3>1, <3>2
    <3> QED BY <1>2, <3>2, <3>3, <3>4, <3>5 DEF AllBefore
  <2>2. CASE ~(q.pos < Len(toks))
    BY <1>2, <2>2 DEF Good, Sorted, Here
  <2> QED BY <2>1, <2>2
<1>6. Good(r)
  BY <1>1, <1>2, <1>5 DEF Good, Sorted
<1>7. t.kind \in Closers => t.kind \notin Openers
  BY DEF Openers, Closers
<1> HIDE DEF r
<1> QED BY <1>2, <1>3, <1>6, <1>7 DEF Opens, Closes, Flat, r

(* The comments after `{ name` are read twice.                             *)
RecordName(i) == toks[i].kind = "{" /\ toks[i + 1].kind = "lower"

LEMMA ReadTwice ==
  ASSUME Stream, NEW i \in Nat \ {0}, i + 2 <= Len(toks), RecordName(i)
  PROVE  Elements(toks[i + 2].before) \subseteq Reread
<1> DEFINE j == i + 2
<1>1. j - 2 = i /\ j - 1 = i + 1 /\ j \in 3..Len(toks)
  BY DEF Stream
<1>2. toks[j - 2].kind = "{" /\ toks[j - 1].kind = "lower"
  BY <1>1, Zenon DEF RecordName
<1> HIDE DEF j
<1>3. Elements(toks[j].before) \subseteq Reread
  BY <1>1, <1>2, Zenon DEF Reread
<1> QED BY <1>3 DEF j

(* Looking for the `|` of a record: the comments read twice are pending    *)
(* already when the cursor goes back before them.                          *)
Back(q) == [Skip(Advance(q)) EXCEPT !.pos = q.pos, !.raw = FALSE]

LEMMA BackGood ==
  ASSUME Stream, Ordered, NEW q, Good(q), ~q.raw, NEW i \in Nat, q.pos = i, toks[i].kind = "lower",
         Elements(toks[i + 1].before) \subseteq Reread
  PROVE  Good(Back(q)) /\ Back(q).depth = q.depth
<1> DEFINE back == Back(q)
           a == Advance(q)
           s == Skip(a)
           j == i + 1
           more == toks[j].before
<1>1. /\ OK(q) /\ q \in Cursor /\ i \in 1..Len(toks) /\ Len(toks) \in Nat
      /\ i < Len(toks) /\ j \in 1..Len(toks)
  BY DEF Good, OK, Stream
<1>2. Good(a) /\ a.depth = q.depth /\ Good(s) /\ s.depth = a.depth
  <2>1. Flat(q)
    BY DEF Flat, Opens, Closes, Openers, Closers
  <2> QED BY <2>1, AdvanceGood, SkipGood
<1>3. a.pos = j /\ a.raw /\ a.pending = q.pending
  BY <1>1 DEF Advance, Cursor
<1>4. s.pending = q.pending \o more /\ s \in Cursor
  BY <1>2, <1>3 DEF Skip, Good, OK, Cursor
<1>5. Elements(more) \subseteq Reread
  OBVIOUS
<1> HIDE DEF a
<1>6. /\ back.pending = s.pending /\ back.depth = s.depth /\ back.ctx = s.ctx
      /\ back.pos = q.pos /\ ~back.raw /\ back \in Cursor
  <2>1. q.pos \in Nat
    BY <1>1
  <2>2. back = [s EXCEPT !.pos = q.pos, !.raw = FALSE]
    BY DEF Back, a
  <2> HIDE DEF s, back
  <2> QED BY <1>4, <2>1, <2>2 DEF Cursor
<1>7. Here(back) = Here(q)
  BY <1>6 DEF Here
<1>8. AllBefore(s.pending, Here(q))
  <2> DEFINE c == s.pending
             b == q.pending
  <2>1. b \in Seq(Comment) /\ more \in Seq(Comment)
    BY <1>1, PendingType, TokenAt DEF Token
  <2>2. \A m \in 1..Len(c) : \/ m \in 1..Len(b) /\ c[m] = b[m]
                             \/ \E k \in 1..Len(more) : c[m] = more[k]
    <3>1. c = b \o more
      BY <1>4
    <3> HIDE DEF b, c, more
    <3>2. /\ Len(c) = Len(b) + Len(more) /\ Len(b) \in Nat /\ Len(more) \in Nat
          /\ \A m \in 1..(Len(b) + Len(more)) : c[m] = IF m <= Len(b) THEN b[m] ELSE more[m - Len(b)]
      BY <2>1, <3>1, ConcatProperties
    <3> SUFFICES ASSUME NEW m \in 1..Len(c), m \notin 1..Len(b) PROVE \E k \in 1..Len(more) : c[m] = more[k]
      BY <3>2
    <3>3. m - Len(b) \in 1..Len(more) /\ c[m] = more[m - Len(b)]
      BY <3>2
    <3> QED BY <3>3
  <2>3. \A k \in 1..Len(more) : more[k] \in Reread
    BY <1>5 DEF Elements
  <2>4. AllBefore(b, Here(q))
    BY DEF Good, Sorted
  <2> HIDE DEF b, c, more
  <2>5. AllBefore(c, Here(q))
    BY <2>2, <2>3, <2>4 DEF AllBefore
  <2> QED BY <2>5 DEF c
<1>9. Sorted(back)
  BY <1>2, <1>6, <1>7, <1>8 DEF Good, Sorted
<1> QED BY <1>1, <1>2, <1>6, <1>9 DEF Good, OK
-----------------------------------------------------------------------------
(* Where a cursor is, seen from the state the action starts in: at its     *)
(* depth, inside one more bracket, or outside the innermost one.           *)
Level(q) == Good(q) /\ q.depth = p.depth

Inside(q) == Good(q) /\ q.depth = p.depth + 1

Outside(q) == Good(q) /\ q.depth + 1 = p.depth

(* The kind of token a cursor that sees one is at.                         *)
LEMMA Reads ==
  ASSUME NEW q
  PROVE  /\ Peek(q) \in {"(", "[", "{"} => Opens(q)
         /\ Peek(q) \in {")", "]", "}"} => Closes(q)
         /\ Peek(q) \in {"lower", "upper", "number", "text", "glsl", "op", "-", ".", ",", "|", "=", ":",
                         "->", "\\", "_", "if", "then", "else", "case", "of", "let", "in", "as"}
            => Flat(q)
         /\ \A r : Peek(r) = Peek(q) /\ r.pos = q.pos => (Opens(r) <=> Opens(q)) /\ (Closes(r) <=> Closes(q))
BY Zenon DEF Peek, Opens, Closes, Flat, Openers, Closers

(* Skipping trivia leaves no bracket and enters none.                      *)
LEMMA SkipMoves ==
  ASSUME Stream, Ordered, NEW q
  PROVE  /\ Level(q) => Level(Skip(q))
         /\ Inside(q) => Inside(Skip(q))
         /\ Good(q) => Good(Skip(q)) /\ Skip(q).pos = q.pos /\ ~Skip(q).raw
BY SkipGood, Zenon DEF Level, Inside

(* Passing a token.                                                        *)
LEMMA AdvanceMoves ==
  ASSUME Stream, Ordered, OK(p), NEW q
  PROVE  /\ Level(q) /\ Flat(q) => Level(Advance(q))
         /\ Level(q) /\ Opens(q) => Inside(Advance(q))
         /\ Inside(q) /\ Flat(q) => Inside(Advance(q))
         /\ Inside(q) /\ Closes(q) => Level(Advance(q))
         /\ Level(q) /\ Closes(q) /\ p.depth > 0 => Outside(Advance(q))
         /\ Good(q) => Good(Advance(q))
<1>1. p.depth \in Nat
  BY DEF OK, Cursor
<1>2. CASE Good(q)
  <2> DEFINE r == Advance(q)
  <2>1. /\ Good(r) /\ q.depth \in Nat
        /\ Opens(q) => r.depth = q.depth + 1
        /\ Closes(q) /\ q.depth > 0 => r.depth = q.depth - 1
        /\ Flat(q) => r.depth = q.depth
    BY <1>2, AdvanceGood
  <2> HIDE DEF r
  <2>2. q.depth = p.depth + 1 /\ Closes(q) => r.depth = p.depth
    BY <1>1, <2>1
  <2>3. q.depth = p.depth /\ Closes(q) /\ p.depth > 0 => r.depth + 1 = p.depth
    BY <1>1, <2>1
  <2> QED BY <1>1, <2>1, <2>2, <2>3 DEF Level, Inside, Outside, r
<1>3. CASE ~Good(q)
  BY <1>3 DEF Level, Inside, Outside
<1> QED BY <1>2, <1>3

(* Claiming comments moves nothing.                                        *)
LEMMA ThinMoves ==
  ASSUME NEW q, NEW r, Thinner(r, q)
  PROVE  /\ Level(q) => Level(r)
         /\ Inside(q) => Inside(r)
         /\ Good(q) => Good(r) /\ r.pos = q.pos /\ Peek(r) = Peek(q)
BY ThinGood DEF Level, Inside

(* The look for the `|` of a record ends where it began.                   *)
AtRecord(q) == Peek(q) = "{"

LEMMA BackMoves ==
  ASSUME Stream, Ordered, OK(p), NEW q, Level(q), AtRecord(q),
         NEW r, r = Skip(Advance(q)), Peek(r) = "lower"
  PROVE  Inside(Back(r))
<1> DEFINE i == q.pos
<1>1. OK(q) /\ Good(q) /\ Opens(q) /\ i \in 1..Len(toks) /\ Len(toks) \in Nat
  <2>1. Opens(q)
    BY Reads, Zenon DEF AtRecord
  <2> QED BY <2>1 DEF Level, Good, OK, Stream
<1>2. Inside(Advance(q)) /\ Inside(r) /\ ~r.raw /\ r.pos = Advance(q).pos
  BY <1>1, AdvanceMoves, SkipMoves DEF Inside
<1>3. toks[i].kind = "{" /\ toks[i].kind # "eof" /\ toks[r.pos].kind = "lower" /\ toks[r.pos].kind # "eof"
  BY Zenon DEF AtRecord, Peek, i
<1> DEFINE NotLast(k) == toks[k].kind # "eof"
<1>a. NotLast(i) /\ NotLast(r.pos)
  BY <1>3, Zenon
<1>4. r.pos = i + 1
  BY <1>1, <1>2, <1>a, AdvanceOK
<1>5. i + 2 <= Len(toks) /\ i \in Nat \ {0}
  <2>1. r.pos \in 1..Len(toks) /\ toks[r.pos].kind # "eof"
    BY <1>2, <1>a, Zenon DEF Inside, Good, OK
  <2>2. r.pos # Len(toks)
    BY <2>1 DEF Stream
  <2> QED BY <1>1, <1>4, <2>1, <2>2
<1> HIDE DEF i
<1>6. RecordName(i)
  BY <1>3, <1>4, Zenon DEF RecordName
<1>7. Elements(toks[r.pos + 1].before) \subseteq Reread
  <2>1. i + 2 = r.pos + 1
    BY <1>4, <1>5
  <2> QED BY <1>5, <1>6, <2>1, ReadTwice
<1>8. r.pos \in Nat
  BY <1>4, <1>5
<1>9. Good(Back(r)) /\ Back(r).depth = r.depth
  <2>1. toks[r.pos].kind = "lower"
    BY <1>3, Zenon
  <2> QED BY <1>2, <1>7, <1>8, <2>1, BackGood DEF Inside
<1> QED BY <1>2, <1>9 DEF Inside
=============================================================================
