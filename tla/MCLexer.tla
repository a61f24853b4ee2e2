------------------------------ MODULE MCLexer ------------------------------
(***************************************************************************)
(* The lexer on every short text of some pieces, on texts written from     *)
(* words, and on texts with one slip in them.                              *)
(***************************************************************************)
EXTENDS LexerSafety

CONSTANTS Topic,      \* which texts this run reads
          MaxPieces   \* how many pieces a text has

-----------------------------------------------------------------------------
(* All texts of some pieces.                                               *)

Character == <<"hi", "lo">>

Pieces == << <<"a">>, <<"nl">>, <<"sp">>, <<"-">>, <<"}">>, <<"{", "-">>, <<"'">>, <<"\"">>, <<"\\">>, <<"u", "{">>,
             <<"1">>, <<"e">>, <<".">>, <<";">>, Character >>

Brackets == << <<"[", "g", "l", "s", "l", "|">>, <<"[">>, <<"|">>, <<"]">>, <<"=">>, <<"\"", "\"", "\"">>, <<"nl">>, Character,
               <<"0", "x">>, <<"A">>, <<"_">>, <<":">> >>

Piece(pieces, i) == IF i \in 1..Len(pieces) THEN pieces[i] ELSE <<>>

TextsOf(alphabets) ==
  LET texts[n \in 0..MaxPieces] ==
        IF n = 0 THEN {[pieces |-> a, text |-> <<>>] : a \in alphabets}
        ELSE {[t EXCEPT !.text = @ \o Piece(t.pieces, i)] : t \in texts[n - 1], i \in 0..15}
  IN  {t.text : t \in texts[MaxPieces]}
-----------------------------------------------------------------------------
(* Words: their bytes and the kind of token each one is.                   *)

Word(kind, bytes) == [kind |-> kind, bytes |-> bytes]

Symbols == {Word(x, <<x>>) : x \in {"(", ")", "]", "}", ",", "\\", ".", ":", "=", "|", "_", "{", "[", "-"}}
           \cup {Word("->", <<"-", ">">>), Word("..", <<".", ".">>)}

Operators == {Word("operator", x) : x \in {<<"+">>, <<"=", "=">>, <<":", ":">>, <<"|", ".">>, <<"|", ">">>, <<"|", "|">>, <<"+", "-", "-">>}}

Names == {Word("lower", <<"a">>), Word("lower", <<"_", "a">>), Word("lower", <<"e", "1", "_">>), Word("upper", <<"A", "a">>)}

Numbers == {Word("integer", <<"1", "0">>), Word("fraction", <<"1", ".", "0">>), Word("exponent", <<"1", "e", "1">>),
            Word("exponent", <<"0", ".", "1", "e", "-", "1">>), Word("hex", <<"0", "x", "0", "A">>)}

Literals == {Word("string", <<"\"", "\"">>), Word("string", <<"\"", "a", "\\", "\"", "hi", "lo", "\"">>),
             Word("multi", <<"\"", "\"", "\"", "nl", "\"", "a", "\"", "\"", "\"">>),
             Word("char", <<"'", "\\", "'", "'">>), Word("char", <<"'", "hi", "lo", "'">>),
             Word("char", <<"'", "\\", "u", "{", "1", "1", "}", "'">>),
             Word("glsl", <<"[", "g", "l", "s", "l", "|", "nl", "|", "|", "]">>)}

Comments == {Word("block", <<"{", "-", "-", "}">>), Word("block", <<"{", "-", "{", "-", "nl", "-", "-", "}", "a", "-", "}">>),
             Word("doc", <<"{", "-", "|", "a", "-", "}">>), Word("comment", <<"-", "-", "-", "{", "-">>)}

Words == Symbols \cup Operators \cup Names \cup Numbers \cup Literals \cup Comments

(* Two words are not these two any more without a space between them.      *)
Merge(x, y) ==
  LET a == x.bytes[Len(x.bytes)]
      b == y.bytes[1]
  IN  \/ a \in WordBytes /\ b \in WordBytes
      \/ x \in Numbers /\ b = "."
      \/ a \in OperatorChars \cup {":", "."} /\ b \in OperatorChars \cup {":", "."}
      \/ a = "{" /\ b = "-"
      \/ a = "\"" /\ b = "\""
      \/ x.kind = "comment"

Gaps(x, y) == {<<"nl">>} \cup (IF Merge(x, y) THEN {} ELSE {<<>>}) \cup (IF x.kind = "comment" THEN {} ELSE {<<"sp">>})

(* A text of words, and the tokens it is to give.                          *)
Expected(kind, before, bytes) == [kind |-> kind, from |-> Len(before) + 1, to |-> Len(before) + Len(bytes) + 1]

Newline(gap, before) == IF gap = <<"nl">> THEN <<Expected("nl", before, gap)>> ELSE <<>>

Sample(x, gap, y) ==
  [text |-> x.bytes \o gap \o y.bytes,
   tokens |-> <<Expected(x.kind, <<>>, x.bytes)>> \o Newline(gap, x.bytes) \o <<Expected(y.kind, x.bytes \o gap, y.bytes)>>
              \o <<Expected("eof", x.bytes \o gap \o y.bytes, <<>>)>>]

Samples == UNION {{Sample(x, gap, y) : gap \in Gaps(x, y)} : x \in Words, y \in Words}

(* A line, then a line of one word.  The line is one with a slip in it, or *)
(* any of three pieces, well formed or not; but no comment or text that    *)
(* may go on in the next line opens in it, and unless it is a slip it ends *)
(* neither in a quote nor in a character of several bytes: a quote that    *)
(* opens a literal takes the newline for its character, and a lexer that   *)
(* an error left inside a character takes it for the next unexpected one   *)
(* (Topic "lineEnd").                                                      *)
Slips == { <<"\"", "a">>, <<"\"", "\\", "a", "1">>, <<"\"", "\\">>, <<"'", "'">>, <<"0", "x">>, <<"1", "e">>,
           <<"1", "1", "1">>, <<";">>, <<";", "\"", "a", "\"">>, Character, Character \o <<"a">>,
           <<"'", "\\", "u", "{", "'">>, <<"'", "\\", "u", "'">>, <<"\"", "\\", "u", "{", "e", "e", "}", "\"">> }

Has(line, bytes) == \E i \in 0..Len(line) - Len(bytes) : \A j \in 1..Len(bytes) : line[i + j] = bytes[j]
GoesOn(line) == Has(line, <<"{", "-">>) \/ Has(line, <<"\"", "\"", "\"">>)

Lines == {line \in {Piece(Pieces, i) \o Piece(Pieces, j) \o Piece(Pieces, k) : i, j, k \in 0..Len(Pieces)} :
            line # <<>> /\ ~Has(line, <<"nl">>) /\ ~GoesOn(line) /\ line[Len(line)] \notin {"'", "lo"}}

Below(line, w) == [text |-> line \o <<"nl">> \o w.bytes, word |-> Expected(w.kind, line \o <<"nl">>, w.bytes)]

Slipped == {Below(s, w) : s \in Slips, w \in Words}
           \cup {Below(line, w) : line \in Lines, w \in {Word("lower", <<"a">>), Word("string", <<"\"", "\"">>)}}

(* A line whose end is not where the lexer sees it.                        *)
Overrun == {Below(line, w) : line \in {<<"'">>, <<"a", "sp", "'">>, <<";">> \o Character, <<"'", "a">> \o Character}, w \in Words}

(* A character that is not Elm between two names.                          *)
Stray == {[text |-> <<"a", "sp", ";">> \o w.bytes, word |-> Expected(w.kind, <<"a", "sp", ";">>, w.bytes)] : w \in Words}

(* sample is what the text was written from.                               *)
VARIABLE sample

Plain(texts) == {[text |-> t] : t \in texts}

(* TLC keeps a filtered set sorted, and finds an element of it quickly.    *)
Sorted(S) == {x \in S : TRUE}
TextsIn(samples) == {s.text : s \in samples}

PieceTexts == Sorted(TextsOf({Pieces, Brackets}))

MCTexts == CASE Topic = "texts" -> PieceTexts \cup TextsIn(Sorted(Samples) \cup Slipped)
             [] Topic = "stray" -> TextsIn(Stray)
             [] Topic = "lineEnd" -> TextsIn(Overrun)

MCCodePoints == 0..100

MCInit == /\ CASE Topic = "texts" -> sample \in Plain(PieceTexts) \/ sample \in Samples \/ sample \in Slipped
               [] Topic = "stray" -> sample \in Stray
               [] Topic = "lineEnd" -> sample \in Overrun
          /\ src = sample.text
          /\ Fresh

MCVars == <<lexerVars, sample>>
MCSpec == MCInit /\ [][LexerNext /\ UNCHANGED sample]_MCVars
FairMCSpec == MCSpec /\ WF_MCVars(LexerNext /\ UNCHANGED sample)
-----------------------------------------------------------------------------
(* A text written from words gives the tokens of these words, neither      *)
(* merged nor split, and no error.                                         *)
Seen(k) == [kind |-> tokens[k].kind, from |-> tokens[k].from, to |-> tokens[k].to]

LexesAsWritten ==
  mode = "done" /\ "tokens" \in DOMAIN sample =>
    errors = <<>> /\ [k \in 1..Len(tokens) |-> Seen(k)] = sample.tokens

(* Whatever stands in a line, and wherever an error in it leaves the       *)
(* lexer, the word on the next line is a token (`the lexer tries to        *)
(* recover and continue`): no error reaches past the end of its line,      *)
(* except in lines of two kinds (see Lines).                               *)
NextLineIsRead ==
  mode = "done" /\ "word" \in DOMAIN sample => \E k \in 1..Len(tokens) : Seen(k) = sample.word

(* The same of the lines of these kinds: `the lexer tries to recover and   *)
(* continue`, but passes the first byte of the next line.                  *)
LineEndIsSeen == NextLineIsRead

(* tokenize is to `skip one byte to attempt recovery`: what stands right   *)
(* after an unexpected character is read.                                  *)
OneCharacterSkipped == mode = "done" => \E k \in 1..Len(tokens) : Seen(k) = sample.word
=============================================================================
