---------------------------- MODULE ParserState ----------------------------
(***************************************************************************)
(* The state that every parsing function of the library works on, and the  *)
(* operations of `struct Parser` (src/src/parse/mod.rs).                   *)
(*                                                                         *)
(* The Rust parser is recursive descent for patterns and types and a       *)
(* trampolined continuation-passing machine for expressions.  Both are     *)
(* pushdown machines, and are modelled as one:                             *)
(*                                                                         *)
(*   calls  the frames of the functions in progress: Rust's call stack     *)
(*          inside one trampoline round, or, for an expression, the nest   *)
(*          of closures being rebuilt around a `Step`;                     *)
(*   conts  the trampoline's `Vec<Cont>`: each element is the sequence of  *)
(*          frames that one boxed continuation closes over;                *)
(*   ctl    which function runs next ("done": a value returns to the       *)
(*          innermost frame);                                              *)
(*   val    the node just completed.                                       *)
(*                                                                         *)
(* A token stream is given as its significant tokens, each with the trivia *)
(* (newlines and comments) that precede it: the parser never stops inside  *)
(* a run of trivia, so the cursor is the index of a significant token and  *)
(* a flag `raw` that says the trivia before it has not been skipped yet.   *)
(* Positions in the source are numbered by raw token (`ix`), which orders  *)
(* them as byte offsets do.  A node records its span and every comment it  *)
(* carries; names, literals and the other contents are left out, but for    *)
(* whether a type is a function type (`arrow`), which parse_type_atomic asks. *)
(***************************************************************************)
EXTENDS Integers, Sequences

CONSTANTS Sources,       \* the token streams a parser may be created with
          MaxExprDepth   \* MAX_EXPR_DEPTH, 256 in the code

VARIABLES toks, p, conts, calls, ctl, val

vars == <<toks, p, conts, calls, ctl, val>>
-----------------------------------------------------------------------------
(* Tokens and comments, as the lexer hands them over.                      *)

Operators == {"<|", "|>", "||", "&&", "==", "::", "+", "-", "*", "^", "<<", ">>", "?"}

Kinds == {"lower", "upper", "number", "text", "glsl", "op", "-", ".", "..", ",", "|", "=", ":",
          "->", "\\", "_", "(", ")", "[", "]", "{", "}", "if", "then", "else", "case", "of",
          "let", "in", "as", "type", "alias", "port", "infix", "module", "exposing", "import",
          "effect", "where", "left", "key", "doc", "eof"}

Comment == [ix : Nat, line : Nat, end : Nat, block : BOOLEAN]

(* tix, tcol: where the trivia before the token starts (the token itself   *)
(* when there is none).  gap "none" is an adjacent token, "space" only     *)
(* blanks before it, "trivia" at least one newline or comment.             *)
Token == [kind : Kinds, op : Operators \cup {""}, ix : Nat, tix : Nat, line : Nat, end : Nat,
          col : Nat, tcol : Nat, gap : {"none", "space", "trivia"}, before : Seq(Comment)]

ASSUME SourcesAssumption ==
  \A s \in Sources : /\ s \in Seq(Token)
                     /\ Len(s) > 0
                     /\ s[Len(s)].kind = "eof"

(* Tokens and comments stand one after the other in the text.              *)
ASSUME OrderAssumption ==
  \A s \in Sources : \A i \in 1..Len(s) :
    /\ s[i].tix <= s[i].ix
    /\ i < Len(s) => s[i].ix < s[i + 1].tix
    /\ \A k \in 1..Len(s[i].before) :
          /\ s[i].tix <= s[i].before[k].ix /\ s[i].before[k].ix < s[i].ix
          /\ \A j \in 1..(k - 1) : s[i].before[j].ix < s[i].before[k].ix

(* Comments stand among the trivia before a token.                         *)
ASSUME GapAssumption ==
  \A s \in Sources : \A i \in 1..Len(s) : s[i].gap # "trivia" => s[i].before = <<>>

ASSUME DepthAssumption == MaxExprDepth \in Nat
-----------------------------------------------------------------------------
(* Values.  A node's `cs` are the leading comments of its `Spanned`, `kept` *)
(* the comments held anywhere below it, `sub` the spans of all its nodes.   *)

Span == Nat \X Nat

Node == [from : Nat, to : Nat, end : Nat, arrow : BOOLEAN,
         cs : Seq(Comment), kept : Seq(Comment), sub : SUBSET Span]

Carried(n) == n.cs \o n.kept

NoNode == [from |-> 0, to |-> 0, end |-> 0, arrow |-> FALSE, cs |-> <<>>, kept |-> <<>>, sub |-> {}]

FrameNames == {"binary", "neg", "app", "access", "parenNeg", "paren", "tuple", "list", "record",
               "ifCond", "elifCond", "then", "else", "caseSubject", "casePattern", "caseBody",
               "let", "letSig", "letArgs", "letPattern", "letValue", "letBody",
               "lambda", "lambdaBody",
               "as", "cons", "consTail", "ctor", "patParen", "patTuple", "patList", "patRecord",
               "type", "arrow", "typeApp", "typeParen", "typeTuple", "typeFields",
               "signature",
               "header", "effect", "import", "exposing", "declaration", "constructor"}

PendingOp == [left : Node, rbp : Nat]

(* The locals of a function in progress; a function uses the ones it has.  *)
Frame == [fn : FrameNames,
          from : Nat,            \* start of the node being built
          col : Nat, ref : Nat,  \* columns layout decisions refer to
          line : Nat, ctx : Nat, \* first_line and ctx_col of an application
          snap : Nat,            \* comments_snapshot
          body : Nat,            \* body_snapshot
          mark : Nat,            \* start of the part in progress
          lim : Nat,             \* boundary offset for claiming comments
          n : Nat, last : Node,  \* number of parts so far, and the last one
          lead : Seq(Comment),   \* comments claimed for the next part
          kept : Seq(Comment), sub : SUBSET Span,
          chain : Seq(Nat),      \* starts of an if ... else if chain
          ops : Seq(PendingOp)]  \* operators awaiting their right operand

New(fn, from) ==
  [fn |-> fn, from |-> from, col |-> 0, ref |-> 0, line |-> 0, ctx |-> 0, snap |-> 0,
   body |-> 0, mark |-> 0, lim |-> 0, n |-> 0, last |-> NoNode, lead |-> <<>>, kept |-> <<>>,
   sub |-> {}, chain |-> <<>>, ops |-> <<>>]

(* A part of the node is complete: its comments stay below the node.       *)
AddPart(fr, n) == [fr EXCEPT !.n = @ + 1, !.last = n, !.kept = @ \o Carried(n),
                             !.sub = @ \cup n.sub]

Hold(fr, cs) == [fr EXCEPT !.kept = @ \o cs]
-----------------------------------------------------------------------------
(* The cursor.  ctx is app_context_col, 0 for None.                        *)

Cursor == [pos : Nat, raw : BOOLEAN, depth : Nat, ctx : Nat, pending : Seq(Comment)]

Openers == {"(", "[", "{"}
(* Mutant of Closers. *)
ClosersButBrace == {")", "]"}

Closers == {")", "]", "}"}

Start == [pos |-> 1, raw |-> TRUE, depth |-> 0, ctx |-> 0, pending |-> <<>>]

OnTrivia(q) == q.raw /\ toks[q.pos].gap = "trivia"

Peek(q) == IF OnTrivia(q) THEN "trivia" ELSE toks[q.pos].kind

Here(q) == IF q.raw THEN toks[q.pos].tix ELSE toks[q.pos].ix

HereCol(q) == IF q.raw THEN toks[q.pos].tcol ELSE toks[q.pos].col

(* skip_whitespace: comments go to the pending buffer; doc comments stay.  *)
Skip(q) == IF q.raw
           THEN [q EXCEPT !.raw = FALSE, !.pending = @ \o toks[q.pos].before]
           ELSE q

(* Mutant of Advance: closing brackets are not counted. *)
AdvanceOnlyDeeper(q) ==
  [q EXCEPT !.depth = IF toks[q.pos].kind \in Openers THEN @ + 1 ELSE @,
            !.pos = IF @ < Len(toks) THEN @ + 1 ELSE @,
            !.raw = IF q.pos < Len(toks) THEN TRUE ELSE @]

(* advance over a significant token, tracking the bracket depth.           *)
Advance(q) ==
  [q EXCEPT !.depth = CASE toks[q.pos].kind \in Openers -> @ + 1
                        [] toks[q.pos].kind \in Closers -> IF @ > 0 THEN @ - 1 ELSE 0
                        [] OTHER -> @,
            !.pos = IF @ < Len(toks) THEN @ + 1 ELSE @,
            !.raw = IF q.pos < Len(toks) THEN TRUE ELSE @]

InParens(q) == q.depth > 0

AtEof(q) == toks[q.pos].kind = "eof"

(* peek_nth_past_whitespace(1): doc comments are passed over as well.      *)
NextKind(q) ==
  LET later == {j \in (q.pos + 1)..Len(toks) : toks[j].kind # "doc"}
  IN  IF later = {} THEN "eof"
      ELSE toks[CHOOSE j \in later : \A m \in later : j <= m].kind

Glued(i) == toks[i].gap = "none"

(* Mutant of SpanNode: up to the token not yet consumed. *)
SpanToCurrent(from, q, kept, sub) ==
  [from |-> from, to |-> toks[q.pos].ix, end |-> toks[q.pos].end, arrow |-> FALSE,
   cs |-> <<>>, kept |-> kept, sub |-> sub \cup {<<from, toks[q.pos].ix>>}]

(* span_from: from `from` to the end of the last consumed token.           *)
SpanNode(from, q, kept, sub) ==
  LET i == IF q.pos > 1 THEN q.pos - 1 ELSE 1
  IN  [from |-> from, to |-> toks[i].ix, end |-> toks[i].end, arrow |-> FALSE,
       cs |-> <<>>, kept |-> kept, sub |-> sub \cup {<<from, toks[i].ix>>}]

Leaf(from, q) == SpanNode(from, q, <<>>, {})

Close(fr, q) == SpanNode(fr.from, q, fr.kept, fr.sub)
-----------------------------------------------------------------------------
(* The pending comments.                                                   *)

(* The elements of s that are in S, in order.  (SelectSeq, as a recursive  *)
(* function whose type can be proved.)                                     *)
Select(s, S) ==
  LET F[i \in 0..Len(s)] == IF i = 0 THEN <<>>
                            ELSE IF s[i] \in S THEN Append(F[i - 1], s[i]) ELSE F[i - 1]
  IN  F[Len(s)]

Elements(s) == {s[i] : i \in 1..Len(s)}

(* Mutant of Snapshot: everything pending is taken. *)
NoSnapshot(q) == 0

Snapshot(q) == Len(q.pending)

(* take_pending_comments_since: the comments taken, and the cursor after.  *)
Since(q, snap) == IF snap >= Len(q.pending) THEN <<>> ELSE SubSeq(q.pending, snap + 1, Len(q.pending))

DropSince(q, snap) == IF snap >= Len(q.pending) THEN q
                      ELSE [q EXCEPT !.pending = SubSeq(@, 1, snap)]

(* The claiming loops: the comments of S at or after index snap.           *)
Claimed(q, snap, S) == Select(Since(q, snap), S)

(* Mutants of Unclaimed: what is not claimed is lost, or put back in front. *)
ClaimedOnly(q, snap, S) == DropSince(q, snap)

UnclaimedInFront(q, snap, S) ==
  [q EXCEPT !.pending = Select(Since(q, snap), Elements(q.pending) \ S) \o DropSince(q, snap).pending]

Unclaimed(q, snap, S) ==
  [q EXCEPT !.pending = DropSince(q, snap).pending \o Select(Since(q, snap), Elements(q.pending) \ S)]

Between(q, lo, hi) == {c \in Elements(q.pending) : lo < c.ix /\ c.ix < hi}

(* Mutant of Before: the offset is not compared. *)
BeforeAnything(q, hi) == Elements(q.pending)

Before(q, hi) == {c \in Elements(q.pending) : c.ix < hi}

(* Mutant of Lead: the comments the node has are overwritten. *)
LeadInstead(n, cs) == [n EXCEPT !.cs = cs]

Lead(n, cs) == [n EXCEPT !.cs = cs \o @]

(* A last pending comment that trails n on its last line (0 or 1 comment). *)
Trailing(q, n) ==
  LET last == q.pending[Len(q.pending)]
  IN  IF q.pending # <<>> /\ last.line = n.end /\ last.ix > n.to THEN <<last>> ELSE <<>>

DropTrailing(q, n) == IF Trailing(q, n) = <<>> THEN q
                      ELSE [q EXCEPT !.pending = SubSeq(@, 1, Len(@) - 1)]

(* take_element_inline_trailing: the first pending comment on n's last     *)
(* line after n, wherever it is in the buffer.                             *)
InlineIndex(q, n) ==
  LET inline == {c \in Elements(q.pending) : c.line = n.end /\ c.ix > n.to}
  IN  {i \in 1..Len(q.pending) : /\ q.pending[i] \in inline
                                 /\ \A j \in 1..(i - 1) : q.pending[j] \notin inline}

Inline(q, n) == LET found == InlineIndex(q, n)
                IN  IF found = {} THEN <<>> ELSE <<q.pending[CHOOSE i \in found : TRUE]>>

DropInline(q, n) ==
  LET found == InlineIndex(q, n)
      i == CHOOSE k \in found : TRUE
  IN  IF found = {} THEN q
      ELSE [q EXCEPT !.pending = SubSeq(@, 1, i - 1) \o SubSeq(@, i + 1, Len(@))]

(* attach_pre_body_comments: the body with its comments, and the rest.     *)
WithPre(q, body, snap) == Lead(body, Claimed(q, snap, Before(q, body.from)))

AfterPre(q, body, snap) == Unclaimed(q, snap, Before(q, body.from))
-----------------------------------------------------------------------------
(* Control.                                                                *)

Top == calls[Len(calls)]

Pop == SubSeq(calls, 1, Len(calls) - 1)

Swap(fr) == Append(Pop, fr)

Resumes(fn) == ctl = "done" /\ calls # <<>> /\ Top.fn = fn

(* Call the function c with stack cs; return a value to the stack cs.      *)
Goto(q, cs, c) == /\ p' = q
                  /\ calls' = cs
                  /\ ctl' = c
                  /\ UNCHANGED <<toks, conts, val>>

GotoWith(q, cs, c, n) == /\ p' = q
                         /\ calls' = cs
                         /\ ctl' = c
                         /\ val' = n
                         /\ UNCHANGED <<toks, conts>>

Return(q, cs, n) == GotoWith(q, cs, "done", n)

(* `?` on an error: the whole parse unwinds, the cursor stays as it is.    *)
Fail(q) == /\ p' = q
           /\ calls' = <<>>
           /\ conts' = <<>>
           /\ ctl' = "error"
           /\ UNCHANGED <<toks, val>>
=============================================================================
