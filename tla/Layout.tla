------------------------------- MODULE Layout -------------------------------
(***************************************************************************)
(* What the printer writes, and where it lands: the state of `struct       *)
(* Printer` (src/src/print/mod.rs) and its output helpers.  The printing   *)
(* functions of Printer.tla yield sequences of the steps below; Play       *)
(* carries them out on an empty buffer and gives the text as the token     *)
(* stream that the lexer reads from it, with the spans of the nodes it was *)
(* written for.                                                            *)
(***************************************************************************)
EXTENDS Integers, Sequences

CONSTANT IndentWidth   \* PrintConfig::indent_width
-----------------------------------------------------------------------------
(* Steps.  Names are one column wide, and so are the numbers; "?" stands   *)
(* for `|.` and `|=`, which the tables of operators do not list.           *)

Step(do) == <<[do |-> do, kind |-> "", op |-> ""]>>
T(kind) == <<[do |-> "token", kind |-> kind, op |-> ""]>>
TOp(o) == <<[do |-> "token", kind |-> IF o = "-" THEN "-" ELSE "op", op |-> o]>>
Cm(what) == <<[do |-> "comment", kind |-> what, op |-> ""]>>

Sp == Step("space")
Newline == Step("newline")
Pad == Step("pad")
NL == Newline \o Pad
In == Step("in")
Out == Step("out")

(* Remember the cursor; set the indent to where it was; to where it is;    *)
(* put the indent back.                                                    *)
Hold == Step("hold")
ToHeld == Step("toHeld")
Here == Hold \o ToHeld
Back == Step("back")

(* A new line at the column held, some columns right or left of it.        *)
Align == Step("align")
AlignIn == Step("alignIn")
AlignOut == Step("alignOut")
AlignOutIfBroken == Step("alignOutIfBroken")

(* An element of a bracket whose column is held.                           *)
Element(steps) == Step("element") \o steps \o Step("endElement")

Node(steps) == Step("open") \o steps \o Step("close")

-----------------------------------------------------------------------------
KindWidth(kind) == CASE kind \in {"if", "of", "in", "as", "->"} -> 2
                     [] kind \in {"let", "text"} -> 3
                     [] kind \in {"then", "else", "case"} -> 4
                     [] OTHER -> 1

OpWidth(o) == IF o \in {"+", "-", "*", "^"} THEN 1 ELSE 2

TokenWidth(kind, o) == IF kind = "op" THEN OpWidth(o) ELSE KindWidth(kind)

(* The buffer: the tokens so far, with what has been written since the     *)
(* last one (`trivia`: nothing, or where it starts and its comments), and  *)
(* the cursor.  quiet is a line that a comment has taken the rest of.      *)
Empty == [toks |-> <<>>, sub |-> {}, opened |-> <<>>,
          line |-> 1, col |-> IndentWidth, ix |-> 1, ends |-> 0, quiet |-> 0,
          trivia |-> <<>>,
          indent |-> 1, extra |-> 0, stack |-> <<>>, held |-> <<>>]

TriviaAt(S) == IF S.trivia # <<>> THEN S.trivia[1]
               ELSE [ix |-> S.ix, col |-> S.col + 1, cs |-> <<>>]

(* A `-` touching another starts a comment.                                *)
StartsComment(S, i) ==
  /\ i.kind = "-" /\ S.trivia = <<>> /\ S.toks # <<>>
  /\ S.toks[Len(S.toks)].kind = "-" /\ S.ends = S.col

Token(S, i) ==
  LET there == S.toks # <<>>
      tall == i.kind = "text"
      trivia == TriviaAt(S)
      tok == [kind |-> IF i.kind = "short" THEN "text" ELSE i.kind, op |-> i.op,
              ix |-> S.ix, tix |-> trivia.ix, line |-> S.line,
              end |-> IF tall THEN S.line + 1 ELSE S.line,
              col |-> S.col + 1, tcol |-> trivia.col,
              gap |-> CASE S.trivia # <<>> -> "trivia"
                        [] S.trivia = <<>> /\ there /\ S.ends = S.col -> "none"
                        [] OTHER -> "space",
              before |-> trivia.cs]
      after == (IF tall THEN 0 ELSE S.col) + TokenWidth(i.kind, i.op)
  IN  CASE S.quiet = S.line -> S
        [] S.quiet # S.line /\ StartsComment(S, i) -> [S EXCEPT !.quiet = S.line]
        [] OTHER -> [S EXCEPT !.toks = Append(@, tok), !.ix = @ + 1, !.trivia = <<>>,
                              !.line = tok.end, !.col = after, !.ends = after]

Trivial(S, cs) ==
  [S EXCEPT !.trivia = <<[TriviaAt(S) EXCEPT !.cs = @ \o cs]>>, !.ix = @ + 1]

Break(S, col) == [Trivial(S, <<>>) EXCEPT !.line = @ + 1, !.col = col]

CommentOut(S, what) ==
  LET c == [ix |-> S.ix, line |-> S.line, end |-> S.line, block |-> what = "block"]
  IN  IF S.quiet = S.line THEN S
      ELSE [Trivial(S, <<c>>) EXCEPT !.col = @ + 5,
                                     !.quiet = IF what = "line" THEN S.line ELSE @]

Indented(S) == S.indent * IndentWidth + S.extra

Last(s) == s[Len(s)]
Front(s) == SubSeq(s, 1, Len(s) - 1)

(* Mutant of Deeper: an indent of columns right of the indent only. *)
DeeperByExtra(S) == [S EXCEPT !.stack = Append(@, S.extra), !.extra = 1]

Deeper(S) == [S EXCEPT !.indent = @ + 1, !.stack = Append(@, S.extra), !.extra = 0]

Shallower(S) ==
  [S EXCEPT !.indent = IF @ > 0 THEN @ - 1 ELSE 0,
            !.stack = IF @ = <<>> THEN <<>> ELSE Front(@),
            !.extra = IF S.stack = <<>> THEN 0 ELSE Last(S.stack)]

(* write_comma_sep_inner: the elements of a bracket right of the indent    *)
(* are indented once more.                                                 *)
ElementOf(S) ==
  LET right == Last(S.held).col > Last(S.held).indent * IndentWidth + Last(S.held).extra
  IN  [(IF right THEN Deeper(S) ELSE S) EXCEPT !.extra = S.extra + 2]

EndElementOf(S) ==
  LET right == Last(S.held).col > Last(S.held).indent * IndentWidth + Last(S.held).extra
      plain == [S EXCEPT !.extra = Last(S.held).extra]
  IN  IF right THEN Shallower(plain) ELSE plain

Do(S, i) ==
  CASE i.do = "token" -> Token(S, i)
    [] i.do = "comment" -> CommentOut(S, i.kind)
    [] i.do = "space" -> [S EXCEPT !.col = @ + 1]
    [] i.do = "newline" -> Break(S, 0)
    [] i.do = "pad" -> [S EXCEPT !.col = @ + Indented(S)]
    [] i.do = "in" -> Deeper(S)
    [] i.do = "out" -> Shallower(S)
    [] i.do = "hold" ->
         [S EXCEPT !.held = Append(@, [col |-> S.col, line |-> S.line, indent |-> S.indent,
                                       extra |-> S.extra, stack |-> S.stack])]
    [] i.do = "toHeld" -> [S EXCEPT !.indent = Last(S.held).col \div IndentWidth,
                                    !.extra = Last(S.held).col % IndentWidth]
    [] i.do = "back" ->
         [S EXCEPT !.held = Front(@), !.indent = Last(S.held).indent,
                   !.extra = Last(S.held).extra, !.stack = Last(S.held).stack]
    [] i.do = "align" -> Break(S, Last(S.held).col)
    [] i.do = "alignIn" -> Break(S, Last(S.held).col + 2)
    [] i.do = "alignOut" -> Break(S, Last(S.held).col - 1)
    [] i.do = "alignOutIfBroken" ->
         IF S.line = Last(S.held).line THEN S ELSE Break(S, Last(S.held).col - 1)
    [] i.do = "element" -> ElementOf(S)
    [] i.do = "endElement" -> EndElementOf(S)
    [] i.do = "open" -> [S EXCEPT !.opened = Append(@, Len(S.toks) + 1)]
    [] i.do = "close" -> [S EXCEPT !.opened = Front(@),
                                   !.sub = @ \cup {<<Last(S.opened), Len(S.toks)>>}]

(* The steps from lo to hi.  (The first half is bound by a set, so that it *)
(* is evaluated before the second.)                                        *)
RECURSIVE Steps(_, _, _, _)
Steps(S, steps, lo, hi) ==
  LET mid == (lo + hi) \div 2
  IN  IF lo = hi THEN Do(S, steps[lo])
      ELSE CHOOSE after \in {Steps(half, steps, mid + 1, hi) : half \in {Steps(S, steps, lo, mid)}} : TRUE

EndOfText == Newline \o T("eof")

(* The text of the steps, and the spans of its nodes in words.             *)
Play(steps) ==
  LET all == steps \o EndOfText
      end == Steps(Empty, all, 1, Len(all))
  IN  [toks |-> end.toks, sub |-> end.sub]
=============================================================================
