---------------------------- MODULE MCDocComment ----------------------------
(***************************************************************************)
(* Doc comments of every kind of paragraph, two or three of them with any  *)
(* blank lines between, printed, read and printed again.                   *)
(***************************************************************************)
EXTENDS DocComment

CONSTANT Topic   \* which doc comments this run prints

VARIABLES written,   \* the doc comment in the source
          once       \* what was printed of it

-----------------------------------------------------------------------------
(* Writing a doc comment.                                                  *)

L(k, ind) == [k |-> k, ind |-> ind, id |-> 1, comma |-> FALSE]
On(k) == L(k, 0)
Code(k) == L(k, 4)
Body == L("body", 8)
With(l) == [l EXCEPT !.comma = TRUE]

Prose == On("prose")
Docs1 == On("docs")

Chunks ==
  [prose |-> <<Prose>>,
   lines |-> <<Prose, L("prose", 1), Prose>>,
   list |-> <<On("bullet"), L("prose", 2), On("bullet")>>,
   tight |-> <<Prose, L("bullet", 2), L("prose", 4), L("bullet", 2)>>,
   stars |-> <<On("star"), L("prose", 2), On("star")>>,
   ordered |-> <<L("ordered", 1), L("prose", 4), On("ordered")>>,
   heading |-> <<On("heading")>>,
   titled |-> <<On("heading"), Docs1>>,
   underline |-> <<Prose, On("stars"), Prose>>,
   docs |-> <<Docs1, With(Docs1), With(Prose), L("prose", 6), Prose>>,
   listed |-> <<Prose, Docs1>>,
   link |-> <<On("link"), On("link")>>,
   decl |-> <<Code("decl"), Code("decl"), Body>>,
   trailing |-> <<Code("decl"), Body, Blank, Code("comment")>>,
   comment |-> <<Code("comment"), Code("comment")>>,
   apart |-> <<Code("decl"), Blank, Blank, Code("comment")>>,
   imports |-> <<Code("import"), Blank, Code("comment"), Blank, Code("decl")>>,
   noted |-> <<Code("import"), Blank, Code("comment")>>,
   fenced |-> <<On("fence"), On("import"), Blank, L("body", 4), On("fence")>>,
   elm |-> <<On("elm"), On("decl"), L("star", 2), On("fence")>>,
   dashes |-> <<On("fence"), On("decl"), L("bullet", 2), On("body"), On("fence")>>,
   js |-> <<On("js"), On("body"), On("fence")>>,
   item |-> <<On("bullet"), Blank, L("fence", 2), L("decl", 2), L("fence", 2)>>]

(* Content lines are told apart by their place.                            *)
Numbered(s) == [i \in DOMAIN s |-> IF IsBlank(s[i]) THEN Blank ELSE [s[i] EXCEPT !.id = i]]

Doc(start, chunks, gaps, end) ==
  LET body == FlattenSeq([i \in DOMAIN chunks |-> Blanks(IF i = 1 THEN 0 ELSE gaps[i - 1]) \o Chunks[chunks[i]]])
      inner == IF start = 0 THEN <<[body[1] EXCEPT !.ind = @ + 1]>> \o Tail(body) ELSE Blanks(start) \o body
  IN  Numbered(inner \o Blanks(end))

Names == DOMAIN Chunks
Fenced == {"fenced", "elm", "dashes", "js"}
Lists == {"list", "tight", "stars", "ordered", "item"}

(* What the passes mistake, a topic each, and none of it in "forms".       *)

(* A fence that no blank line precedes.                                    *)
FenceAfterText(start, a, b, gap) == (a \in Fenced /\ start < 2) \/ (b \in Fenced /\ gap = 0)

(* A fence that stays, being in another language or after a list, with one *)
(* below: what closes the former is taken to open a block.                 *)
Closes(a, b) == "js" \in {a, b} /\ {a, b} \subseteq Fenced \cup {"item"}
KeptFence(a, b, c) ==
  Closes(a, b) \/ Closes(b, c) \/ Closes(a, c) \/ (a \in Lists /\ b \in Fenced /\ c \in Fenced \cup {"item"})

(* A link reference two blank lines below `{-|`.                           *)
LinkFirst(start, a) == start = 2 /\ a = "link"

(* A code block of imports and then comments.                              *)
Noted(chunks) == "noted" \in chunks

(* Between fences, a line with a dash.                                     *)
Dashes(chunks) == "dashes" \in chunks

Sound(chunks) == ~Noted(chunks) /\ ~Dashes(chunks)

Chosen(start, a, b, gap) ==
  CASE Topic = "forms" -> /\ Sound({a, b}) /\ ~FenceAfterText(start, a, b, gap)
                          /\ ~KeptFence(a, b, "prose") /\ ~LinkFirst(start, a)
    [] Topic = "fenceAfterText" -> FenceAfterText(start, a, b, gap)
    [] Topic = "keptFence" -> KeptFence(a, b, "prose") /\ ~FenceAfterText(start, a, b, gap)
    [] Topic = "linkFirst" -> LinkFirst(start, a) /\ Sound({a, b})
    [] Topic = "noted" -> Noted({a, b}) /\ ~Dashes({a, b})
    [] Topic = "dashes" -> Dashes({a, b}) /\ ~Noted({a, b}) /\ ~FenceAfterText(start, a, b, gap)

Pairs ==
  {Doc(d.start, <<d.a, d.b>>, <<d.gap>>, d.end) :
     d \in {d \in [start : 0..2, a : Names, b : Names, gap : 0..2, end : 0..2] : Chosen(d.start, d.a, d.b, d.gap)}}

(* Three paragraphs, one blank line between.                               *)
Triples ==
  IF Topic \notin {"forms", "keptFence"} THEN {}
  ELSE {Doc(0, <<d.a, d.b, d.c>>, <<1, 1>>, 1) :
          d \in {d \in [a : Names \ Fenced, b : Names, c : Names] :
                    Sound({d.a, d.b, d.c}) /\ KeptFence(d.a, d.b, d.c) = (Topic = "keptFence")}}

MCDocs == Pairs \cup Triples
-----------------------------------------------------------------------------
MCInit == DocInit /\ written = lines /\ once = <<>>

Reread == /\ pass = "done" /\ once = <<>>
          /\ once' = lines /\ pass' = "doc_comment"
          /\ UNCHANGED <<lines, written>>

Format == DocNext /\ UNCHANGED <<written, once>>

MCNext == Format \/ Reread

MCVars == <<docVars, written, once>>
MCDocSpec == MCInit /\ [][MCNext]_MCVars
-----------------------------------------------------------------------------
Printed == pass = "done"

IsText(l) == ~IsBlank(l) /\ l.k \notin Fences

Text(s) == LET kept == SelectSeq(s, IsText) IN [i \in DOMAIN kept |-> kept[i].id]

(* No pass drops, repeats, swaps or escapes a line with content: however   *)
(* many of them move it, each line of the source but the fences stands in  *)
(* the printed doc comment once, in its place.                             *)
LinesKept == Printed => Text(lines) = Text(written)

(* The code of a doc comment: indented lines that do not go on with a     *)
(* paragraph, and lines between fences; with the column they stand in.     *)
IndentedCode(s) ==
  LET in[i \in 0..Len(s)] ==
        IF i = 0 THEN TRUE
        ELSE IF Indented(s[i]) THEN in[i - 1] ELSE s[i].k \in {"blank", "heading"} \cup Fences
  IN  {i \in DOMAIN s : Indented(s[i]) /\ in[i]}

FencedCode(s) ==
  LET in[i \in 0..Len(s)] ==
        IF i = 0 THEN FALSE ELSE IF s[i].k \in Fences THEN ~in[i - 1] ELSE in[i - 1]
  IN  {i \in DOMAIN s : IsText(s[i]) /\ in[i]}

CodeOf(s) ==
  {<<s[i].id, s[i].k, s[i].ind + 4>> : i \in FencedCode(s)}
  \cup {<<s[i].id, s[i].k, s[i].ind>> : i \in IndentedCode(s) \ FencedCode(s)}

(* What the author wrote as code is printed as code, its stars not taken   *)
(* for bullets and its layout kept, and nothing else is code, although     *)
(* fences are rewritten to indentation, lists are indented beside code,    *)
(* and each pass decides anew where a code block is.                       *)
CodeStaysCode == Printed => CodeOf(lines) = CodeOf(written)

(* The pairs of neighbouring lines with a blank line between, or without.  *)
Neighbours(s, blank) ==
  LET texts == {i \in DOMAIN s : IsText(s[i])}
      Following(i) == Min({j \in texts : j > i})
  IN  {<<s[i].id, s[Following(i)].id>> :
         i \in {i \in texts \ {Max(texts)} : blank = (\E n \in i..Following(i) : IsBlank(s[n]))}}

(* Paragraphs are neither joined by the pass that takes blank lines away   *)
(* nor, where both lines are prose, split by those that put some in; and   *)
(* the groups of @docs lines, by which the header's exposing list is laid  *)
(* out, are those of the source.                                           *)
ParagraphsKept ==
  Printed =>
    LET proseLines == {written[i].id : i \in {i \in DOMAIN written : written[i].k = "prose"}}
    IN  /\ Neighbours(written, TRUE) \subseteq Neighbours(lines, TRUE)
        /\ Neighbours(written, FALSE) \cap (proseLines \X proseLines) \subseteq Neighbours(lines, FALSE)
        /\ DocsGroups(lines) = DocsGroups(written)

(* docs/printing.md:68: printing again what was printed changes nothing.   *)
(* It is so for a doc comment of several paragraphs; for one paragraph     *)
(* (DocReprints) rule 5 counts before later passes put blank lines in.     *)
DocReprints == Printed /\ once # <<>> => lines = once
DocIdempotent == SeveralParagraphs(written) => DocReprints
=============================================================================
