----------------------------- MODULE ExprSafety -----------------------------
(***************************************************************************)
(* What must hold while an expression is parsed: of the comments the       *)
(* parser sets aside, of the bracket depth and the context column it keeps *)
(* beside its stack, and of the nodes it builds.                           *)
(***************************************************************************)
EXTENDS ExprInvariants, FiniteSets
LOCAL INSTANCE SequencesExt

(* Every frame in progress, outermost first: in the boxed continuations,   *)
(* then in the function running now.                                       *)
Frames == FlattenSeq(conts) \o calls

(* The functions that pass a node on in val; elsewhere val is left over.   *)
Passing == {"done", "binary", "reduce", "fold", "access", "valueName", "ok"}

(* The first significant token at or after a place in the text.            *)
WordAt(ix) == CHOOSE i \in 1..Len(toks) : /\ toks[i].ix >= ix
                                          /\ \A j \in 1..(i - 1) : toks[j].ix < ix
-----------------------------------------------------------------------------
(* Comments.                                                               *)

Passed == UNION {Elements(toks[i].before) : i \in 1..(IF p.raw THEN p.pos - 1 ELSE p.pos)}

HeldBy(fr) == fr.lead \o fr.kept \o FlattenSeq([i \in 1..Len(fr.ops) |-> Carried(fr.ops[i].left)])

Attached == FlattenSeq([i \in 1..Len(Frames) |-> HeldBy(Frames[i])])
            \o (IF ctl \in Passing THEN Carried(val) ELSE <<>>)

Times(c, s) == Cardinality({i \in 1..Len(s) : s[i] = c})

(* The comments after the first name of a record, which the look for `|`   *)
(* reads (RecordAtom, RecordType) and the parser then reads again.         *)
Reread == UNION {Elements(toks[i].before) :
                   i \in {j \in 3..Len(toks) : toks[j - 2].kind = "{" /\ toks[j - 1].kind = "lower"}}

(* No comment is lost, and none is kept twice but those read twice: every  *)
(* comment passed so far waits in collected_comments or belongs to exactly *)
(* one node or function in progress, whichever of the dozen claiming loops *)
(* (take_pending_comments_since, attach_pre_body_comments, the partitions  *)
(* by offset) took it or put it back.                                      *)
CommentsConserved ==
  ctl # "error" =>
    LET held == p.pending \o Attached
    IN  /\ Passed \subseteq Elements(held)
        /\ Elements(held) \subseteq Passed \cup Reread
        /\ \A c \in Passed \ Reread : Times(c, held) = 1

(* The same of a finished parse, without the exception.                    *)
CommentsKeptOnce ==
  ctl = "ok" => \A c \in Passed : Times(c, p.pending \o Attached) = 1

(* Once a comment belongs to a node it is never put back in the pending    *)
(* buffer, where another node could claim it again.                        *)
AttachedForGood == [][ctl' # "error" => Elements(Attached) \subseteq Elements(Attached')]_vars

(* Pending comments stay in source order: the trailing-comment checks only *)
(* look at the last one.                                                   *)
PendingInOrder ==
  \A i, j \in 1..Len(p.pending) :
    i < j /\ {p.pending[i], p.pending[j]} \cap Reread = {} => p.pending[i].ix < p.pending[j].ix

(* A snapshot is an index into a buffer other functions take from.  It     *)
(* never points past the end, and no comment from before the construct     *)
(* stands above it (the construct would claim it); for the blocks, whose   *)
(* snapshot serves for all their branches and declarations, none from      *)
(* inside stands below it either (it would never be claimed).              *)
Blocks == {"caseSubject", "casePattern", "caseBody", "let", "letSig", "letArgs", "letPattern", "letValue"}

SnapshotsSeparate ==
  ctl # "error" =>
    \A fr \in {g \in Elements(Frames) : g.fn \in Blocks \cup {"list", "tuple"}} :
      /\ fr.snap <= Len(p.pending)
      /\ \A i \in 1..Len(p.pending) :
            /\ i > fr.snap => p.pending[i].ix > fr.from
            /\ i <= fr.snap /\ fr.fn \in Blocks => p.pending[i].ix < fr.from

(* A comment that leads a node stands before the node's first token.       *)
LeadsItsNode == \A c \in Elements(val.cs) : c.ix < toks[WordAt(val.from)].ix

(* A comment that stands immediately before a record setter leads the      *)
(* setter (record_after_value); it is not kept inside it.                  *)
SettersOwnTheirComments ==
  \A fr \in Elements(Frames) : fr.fn = "record" /\ fr.n > 0 =>
    \A c \in Elements(fr.last.kept) : WordAt(c.ix) # WordAt(fr.last.from)
-----------------------------------------------------------------------------
(* State kept beside the stack.                                            *)

Brackets == {"parenNeg", "paren", "tuple", "list", "record", "patParen", "patTuple", "patList",
             "patRecord", "typeParen", "typeTuple", "typeFields"}

(* The bracketed constructs in progress: in one stack, and in all boxes.   *)
BracketsOf(cs) == {i \in 1..Len(cs) : cs[i].fn \in Brackets}

Open(boxes) == UNION {{b} \X BracketsOf(boxes[b]) : b \in 1..Len(boxes)}

(* paren_depth, which every token of the stream updates, counts exactly    *)
(* the bracketed constructs in progress, across every box of the           *)
(* trampoline: layout is suspended inside them and nowhere else.           *)
BracketsBalanced == ctl # "error" => p.depth = Cardinality(Open(Append(conts, calls)))

(* app_context_col is set only for the application that starts an element  *)
(* of the innermost list or record; it never leaks into another one.       *)
ContextIsFresh ==
  p.ctx > 0 /\ ctl # "error" =>
    /\ ctl \in {"expr", "unary", "app"}
    /\ \A i \in 1..Len(calls) : calls[i].fn \in {"binary", "neg"}
    /\ LET box == conts[Len(conts)]
           fr == box[Len(box)]
       IN  fr.fn \in {"list", "record"} /\ fr.col = p.ctx
-----------------------------------------------------------------------------
(* Nodes.                                                                  *)

(* Spans nest: two nodes of a tree are disjoint or one contains the other, *)
(* and all of them lie inside their root.                                  *)
SpansNest ==
  ctl \in Passing =>
    \A x \in val.sub :
      /\ val.from <= x[1] /\ x[1] <= x[2] /\ x[2] <= val.to
      /\ \A y \in val.sub : \/ x[2] < y[1] \/ y[2] < x[1]
                            \/ x[1] <= y[1] /\ y[2] <= x[2]
                            \/ y[1] <= x[1] /\ x[2] <= y[2]

(* The parser returns on every input.                                      *)
Terminates == <>(ctl \in {"ok", "error"})
=============================================================================
