----------------------------- MODULE DocComment -----------------------------
(***************************************************************************)
(* Formatting a doc comment in the pretty styles: write_doc_comment_text   *)
(* (src/src/print/mod.rs) hands the text through a row of functions of     *)
(* src/src/print/doc_markdown, each of which splits it into lines, rewrites *)
(* them and joins them again.  One action is one of these functions.       *)
(*                                                                         *)
(* A line is blank or has a kind (k: what it starts with after ind spaces), *)
(* what it says (id), and a comma at its end or none.  The first line      *)
(* follows `{-|`, the last precedes `-}`.  Left out are rewritings within  *)
(* a line; code blocks are as the reformatting of code leaves them.        *)
(***************************************************************************)
EXTENDS Integers, SequencesExt

CONSTANT Docs   \* the doc comments to print

VARIABLES lines,   \* the text
          pass     \* the function it is handed to next

docVars == <<lines, pass>>

Fences == {"fence", "elm", "js"}   \* ```, ```elm, ``` with another language
CodeKinds == {"import", "decl", "body", "comment"}
Kinds == Fences \cup CodeKinds
         \cup {"prose", "heading", "docs", "link", "bullet", "star", "ordered", "stars", "dashes", "ticks"}

Blank == [k |-> "blank", ind |-> 0, id |-> 0, comma |-> FALSE]
Blanks(n) == [i \in 1..n |-> Blank]

Line == {Blank} \cup [k : Kinds, ind : Nat, id : Nat \ {0}, comma : BOOLEAN]

ASSUME DocsAssumption == \A d \in Docs : d \in Seq(Line) /\ d # <<>>
-----------------------------------------------------------------------------
IsBlank(l) == l.k = "blank"
Indented(l) == ~IsBlank(l) /\ l.ind >= 4   \* starts_with("    ")
IsItem(l) == l.k \in {"bullet", "ordered"}
IsComment(l) == l.k = "comment"

AfterBlank(s, i) == i = 1 \/ IsBlank(s[i - 1])

(* The last line with content, 0 if none has.                              *)
LastContent(s) == Max({0} \cup {i \in DOMAIN s : ~IsBlank(s[i])})

(* Whether line i is in an indented code block, as the functions track it: *)
(* one begins after a blank line and ends at a line that is not indented.  *)
InCode(s) ==
  LET in[i \in 0..Len(s)] ==
        IF i = 0 THEN FALSE
        ELSE IF Indented(s[i]) THEN AfterBlank(s, i) \/ in[i - 1] ELSE IsBlank(s[i]) /\ in[i - 1]
  IN  in

StartsCode(s, i) == Indented(s[i]) /\ AfterBlank(s, i)

ByLine(s, New(_)) == FlattenSeq([i \in DOMAIN s |-> New(i)])
Before(cond) == IF cond THEN <<Blank>> ELSE <<>>

Hand(from, to, new) == pass = from /\ lines' = new /\ pass' = to
-----------------------------------------------------------------------------
(* normalize_doc_comment, rule 8: the text begins on the line of `{-|`,    *)
(* unless it begins with code.                                             *)
Opened(s) ==
  IF ~IsBlank(s[1]) \/ IsBlank(s[2]) THEN s
  ELSE IF Indented(s[2]) THEN <<Blank>> \o s
  ELSE <<[s[2] EXCEPT !.ind = @ + 1]>> \o SubSeq(s, 3, Len(s))

IsHeading(l) == l.k = "heading" /\ l.ind = 0

(* The newlines that the text so far lacks to end with three.              *)
Lacking(out) == Max({0, 3 - (Len(out) - LastContent(out) + (IF LastContent(out) > 0 THEN 1 ELSE 0))})

(* Rules 3 and 4: two blank lines before a heading and one after it.       *)
Headed(s) ==
  LET Add(out, i) ==
        out \o (IF IsHeading(s[i]) /\ out # <<>> THEN Blanks(Lacking(out)) ELSE <<>>) \o <<s[i]>>
            \o Before(IsHeading(s[i]) /\ i < Len(s) /\ ~IsBlank(s[i + 1]))
  IN  FoldLeftDomain(Add, <<>>, s)

(* Rule 5: after several paragraphs there is a blank line more.            *)
SeveralParagraphs(s) == \E i \in 2..(LastContent(s) - 1) : IsBlank(s[i])

Ended(s) ==
  LET last == LastContent(s)
  IN  SubSeq(s, 1, last) \o Blanks(IF SeveralParagraphs(s) THEN Max({2, Len(s) - last}) ELSE 1)

NormalizeDocComment ==
  Hand("doc_comment", "blank_lines",
       IF LastContent(lines) = 0 THEN <<Blank>>
       ELSE IF Len(lines) = 1 THEN <<lines[1], Blank>>
       ELSE Ended(Headed(Opened(lines))))

(* collapse_blank_lines_in_doc: one blank line before a link reference.    *)
BeforeLink(i) ==
  LET later == {j \in i..Len(lines) : ~IsBlank(lines[j])}
  IN  IsBlank(lines[i]) /\ later # {} /\ lines[Min(later)].k = "link"

(* BeforeLink is also the mutant of Collapses: the first one goes as well. *)
Collapses(i) == BeforeLink(i) /\ i > 1 /\ IsBlank(lines[i - 1])

CollapseBlankLines ==
  LET Kept(i) == IF Collapses(i) THEN <<>> ELSE <<lines[i]>>
  IN  Hand("blank_lines", "emphasis", ByLine(lines, Kept))
-----------------------------------------------------------------------------
(* normalize_emphasis, as far as it changes lines.  Text from a fence to   *)
(* what closes it is copied: at the start of a line a fence, or the end of *)
(* the text; elsewhere, where the backticks are those of a code span, the  *)
(* next such in the paragraph.  With none they are escaped, which is       *)
(* another text.  (CloserOfSpan, mutant of Closer: the fence line only.)   *)
CloserOfSpan(i) ==
  LET at == {j \in (i + 1)..Len(lines) : lines[j].k \in Fences /\ \A n \in i..j : ~IsBlank(lines[n])}
  IN  IF lines[i].ind = 0 THEN i ELSE IF at # {} THEN Min(at) ELSE 0

Closer(i) ==
  LET at == {j \in (i + 1)..Len(lines) :
               IF lines[i].ind = 0 THEN lines[j].k = "fence" /\ lines[j].ind = 0
               ELSE lines[j].k \in Fences /\ \A n \in i..j : ~IsBlank(lines[n])}
  IN  IF at # {} THEN Min(at) ELSE IF lines[i].ind = 0 THEN Len(lines) ELSE 0

Escape == 100
Escaped(l) == [l EXCEPT !.k = "ticks", !.id = @ + Escape]

(* ends_with_blank_line.                                                   *)
EndsWithBlankLine(out) == out = <<>> \/ (Len(out) > 1 /\ IsBlank(Last(out)))

(* A row of stars, with the blank lines around it that are missing.        *)
Rule(out, i) ==
  Before(lines[i].ind > 0 \/ ~EndsWithBlankLine(out))
  \o <<[lines[i] EXCEPT !.k = "dashes", !.ind = 0]>>
  \o Before(i < Len(lines) /\ ~IsBlank(lines[i + 1]))

(* out, whether the last line is in a code block or blank, and the line up *)
(* to which the text is copied.                                            *)
NormalizeEmphasis ==
  LET Add(acc, i) ==
        LET l == lines[i]
            code == IF IsBlank(l) THEN acc.code ELSE l.ind >= 4 /\ (acc.code \/ acc.blank)
            Gives(new, blank, to) == [out |-> acc.out \o new, code |-> code, blank |-> blank, to |-> to]
        IN  CASE i <= acc.to -> [acc EXCEPT !.out = Append(@, l)]
              [] i > acc.to /\ (code \/ l.k \notin Fences \cup {"ticks", "star", "stars"}) -> Gives(<<l>>, IsBlank(l), 0)
              [] i > acc.to /\ ~code /\ l.k \in Fences ->
                   IF Closer(i) = 0 THEN Gives(<<Escaped(l)>>, FALSE, 0) ELSE Gives(<<l>>, FALSE, Closer(i))
              [] i > acc.to /\ ~code /\ l.k = "ticks" -> Gives(<<Escaped(l)>>, FALSE, 0)
              [] i > acc.to /\ ~code /\ l.k = "star" -> Gives(<<[l EXCEPT !.k = "bullet"]>>, FALSE, 0)
              [] i > acc.to /\ ~code /\ l.k = "stars" -> Gives(Rule(acc.out, i), TRUE, 0)
  IN  Hand("emphasis", "lists",
           FoldLeftDomain(Add, [out |-> <<>>, code |-> FALSE, blank |-> FALSE, to |-> 0], lines).out)
-----------------------------------------------------------------------------
(* Mutant of StartsListAfterProse: although a blank line is there.         *)
StartsListAnywhere(i, width) ==
  /\ width = 0 /\ i > 1
  /\ ~IsItem(lines[i - 1]) /\ lines[i - 1].k \notin {"heading", "docs"}

(* starts_list_after_prose.                                                *)
StartsListAfterProse(i, width) ==
  /\ width = 0 /\ ~AfterBlank(lines, i)
  /\ ~IsItem(lines[i - 1]) /\ lines[i - 1].k \notin {"heading", "docs"}

(* normalize_markdown_lists: items are put in their column, what continues *)
(* one is indented by the width of its prefix.                             *)
NormalizeMarkdownLists ==
  LET in == InCode(lines)
      Add(acc, i) ==
        LET l == lines[i]
            item == l.k = "ordered" \/ (l.k = "bullet" /\ l.ind \in {0, 2})
            Gives(new, width) == [out |-> acc.out \o new, width |-> width]
        IN  IF in[i] THEN Gives(<<l>>, acc.width)
            ELSE IF item
            THEN Gives(Before(StartsListAfterProse(i, acc.width))
                       \o <<[l EXCEPT !.ind = IF l.k = "bullet" THEN 2 ELSE 0]>>, 4)
            ELSE IF IsBlank(l) \/ l.k \in {"docs", "heading"} \/ acc.width = 0 THEN Gives(<<l>>, 0)
            ELSE Gives(<<[l EXCEPT !.ind = acc.width]>>, acc.width)
  IN  Hand("lists", "fences", FoldLeftDomain(Add, [out |-> <<>>, width |-> 0], lines).out)

(* fence_is_in_list_context: going back over indented lines, an item.      *)
FenceIsInListContext(i) ==
  LET stops == {k \in 1..(i - 1) : ~IsBlank(lines[k]) /\ (IsItem(lines[k]) \/ lines[k].ind < 2)}
  IN  stops # {} /\ IsItem(lines[Max(stops)])

Deeper(l) == IF IsBlank(l) THEN l ELSE [l EXCEPT !.ind = @ + 4]

(* Mutant of Between: one line short.                                      *)
BetweenButLast(i, end) == [n \in 1..(end - i - 2) |-> Deeper(lines[i + n])]

Between(i, end) == [n \in 1..(end - i - 1) |-> Deeper(lines[i + n])]

(* normalize_fenced_code_blocks: what is between fences becomes an         *)
(* indented code block, but in a list.                                     *)
NormalizeFencedCodeBlocks ==
  LET ends(i) == {j \in (i + 1)..Len(lines) : lines[j].k = "fence"}
      Converts(i) == lines[i].k \in {"fence", "elm"} /\ ends(i) # {} /\ ~FenceIsInListContext(i)
      Add(acc, i) ==
        IF i <= acc.to THEN acc
        ELSE IF Converts(i)
        THEN [out |-> acc.out \o Between(i, Min(ends(i))), to |-> Min(ends(i))]
        ELSE [acc EXCEPT !.out = Append(@, lines[i])]
  IN  Hand("fences", "code", FoldLeftDomain(Add, [out |-> <<>>, to |-> 0], lines).out)
-----------------------------------------------------------------------------
(* normalize_code_block_indent: a code block goes on over one blank line.  *)
GoesOn(i) ==
  \/ i < Len(lines) /\ Indented(lines[i + 1])
  \/ i + 1 < Len(lines) /\ IsBlank(lines[i + 1]) /\ Indented(lines[i + 2])

BlockEnd(i) == Min({j \in i..Len(lines) : ~GoesOn(j)})

(* The lines of a paragraph.                                               *)
Paragraph(s, i) == {j \in DOMAIN s : \A n \in i..j \cup j..i : ~IsBlank(s[n])}

(* insert_loose_paragraph_breaks: a blank line more where comments follow  *)
(* imports.                                                                *)
Loosened(s) ==
  LET breaks(i) == /\ i > 1 /\ ~IsBlank(s[i]) /\ IsBlank(s[i - 1])
                   /\ \A j \in Paragraph(s, i) : IsComment(s[j])
                   /\ \E k \in 1..(i - 2) :
                        /\ \A n \in (k + 1)..(i - 1) : IsBlank(s[n])
                        /\ ~IsBlank(s[k])
                        /\ \A j \in Paragraph(s, k) : s[j].k = "import"
      New(i) == Before(breaks(i)) \o <<s[i]>>
  IN  ByLine(s, New)

(* block_is_all_comments: three blank lines follow such a block, instead   *)
(* of those in the source.                                                 *)
AllComments(s) == \A i \in DOMAIN s : IsBlank(s[i]) \/ IsComment(s[i])

NormalizeCodeBlockIndent ==
  LET Block(i) == SubSeq(lines, i, BlockEnd(i))
      Content(i) == {j \in (BlockEnd(i) + 1)..Len(lines) : ~IsBlank(lines[j])}
      Add(acc, i) ==
        IF i <= acc.to THEN acc
        ELSE IF ~StartsCode(lines, i) THEN [acc EXCEPT !.out = Append(@, lines[i])]
        ELSE IF ~AllComments(Block(i)) THEN [out |-> acc.out \o Loosened(Block(i)), to |-> BlockEnd(i)]
        ELSE IF Content(i) # {} THEN [out |-> acc.out \o Block(i) \o Blanks(3), to |-> Min(Content(i)) - 1]
        ELSE [out |-> acc.out \o Block(i) \o Blanks(IF BlockEnd(i) < Len(lines) THEN 4 ELSE 3), to |-> Len(lines)]
  IN  Hand("code", "trailing_comment", FoldLeftDomain(Add, [out |-> <<>>, to |-> 0], lines).out)

(* ensure_blank_before_code_block_with_trailing_comment: declarations that *)
(* end with a comment stand two blank lines below the prose before them.   *)
EnsureBlankBeforeTrailingComment ==
  LET end(i) == Max({j \in i..Len(lines) : ~IsBlank(lines[j]) /\ \A n \in i..j : IsBlank(lines[n]) \/ Indented(lines[n])})
      base(i) == {j \in i..end(i) : lines[j].ind = 4 /\ ~IsBlank(lines[j]) /\ ~IsComment(lines[j])}
      needs(i) == /\ StartsCode(lines, i)
                  /\ IsComment(lines[end(i)]) /\ lines[end(i)].ind = 4
                  /\ base(i) # {} /\ \A j \in base(i) : lines[j].k = "decl"
      prose(l) == ~IsBlank(l) /\ l.ind = 0 /\ l.k \notin {"heading", "bullet", "star", "docs"} \cup Fences
      New(i) == Before(i > 2 /\ needs(i) /\ IsBlank(lines[i - 1]) /\ prose(lines[i - 2])) \o <<lines[i]>>
  IN  Hand("trailing_comment", "before_docs", ByLine(lines, New))
-----------------------------------------------------------------------------
(* ensure_blank_before_docs_after_prose.                                   *)
EnsureBlankBeforeDocs ==
  LET apart(l) == IsBlank(l) \/ l.k \in {"docs", "heading", "bullet", "star"} \cup Fences \/ Indented(l)
      New(i) == Before(lines[i].k = "docs" /\ i > 1 /\ ~apart(lines[i - 1])) \o <<lines[i]>>
  IN  Hand("before_docs", "docs_lines", ByLine(lines, New))

(* normalize_docs_lines: the lines that a comma leads to are each given a  *)
(* @docs of their own.                                                     *)
LastOfDocs(i) ==
  Max({j \in i..Len(lines) : \A n \in (i + 1)..j : lines[n - 1].comma /\ lines[n].k \notin {"blank", "docs", "heading"}})

NormalizeDocsLines ==
  LET Add(acc, i) ==
        IF i <= acc.to THEN acc
        ELSE IF lines[i].k # "docs" THEN [acc EXCEPT !.out = Append(@, lines[i])]
        ELSE [out |-> acc.out \o [n \in 1..(LastOfDocs(i) - i + 1) |->
                        [lines[i + n - 1] EXCEPT !.k = "docs", !.ind = lines[i].ind, !.comma = FALSE]],
              to |-> LastOfDocs(i)]
  IN  Hand("docs_lines", "paragraphs", FoldLeftDomain(Add, [out |-> <<>>, to |-> 0], lines).out)

(* strip_paragraph_leading_whitespace.                                     *)
StripParagraphs ==
  LET in == InCode(lines)
      Stripped(i) == i > 1 /\ ~in[i] /\ lines[i].k \notin {"blank", "bullet", "ordered", "docs", "heading"} /\ lines[i].ind = 1
  IN  Hand("paragraphs", "done", [i \in DOMAIN lines |-> IF Stripped(i) THEN [lines[i] EXCEPT !.ind = 0] ELSE lines[i]])
-----------------------------------------------------------------------------
DocInit == lines \in Docs /\ pass = "doc_comment"

DocNext == \/ NormalizeDocComment \/ CollapseBlankLines \/ NormalizeEmphasis
           \/ NormalizeMarkdownLists \/ NormalizeFencedCodeBlocks \/ NormalizeCodeBlockIndent
           \/ EnsureBlankBeforeTrailingComment \/ EnsureBlankBeforeDocs
           \/ NormalizeDocsLines \/ StripParagraphs

DocSpec == DocInit /\ [][DocNext]_docVars
-----------------------------------------------------------------------------
(* parse_docs_groups, by which the exposing list of the module's header is *)
(* laid out: the @docs lines, and those that a comma leads to.             *)
DocsGroups(s) ==
  LET Add(acc, i) ==
        IF s[i].k = "docs" \/ (acc.goesOn /\ s[i].k \notin {"blank", "heading"})
        THEN [groups |-> Append(acc.groups, s[i].id), goesOn |-> s[i].comma]
        ELSE [acc EXCEPT !.goesOn = FALSE]
  IN  FoldLeftDomain(Add, [groups |-> <<>>, goesOn |-> FALSE], s).groups
=============================================================================
