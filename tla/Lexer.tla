------------------------------- MODULE Lexer -------------------------------
(***************************************************************************)
(* Lexer::tokenize (src/src/lexer.rs) on a text of bytes.  A byte stands   *)
(* for those the lexer treats alike: "a" for a letter, "+" for an operator *)
(* character, "hi" and "lo" for the first and the other bytes of a         *)
(* character outside ASCII.  The lexer reads byte by byte; a step advances *)
(* past what its next test depends on.                                     *)
(***************************************************************************)
EXTENDS Integers, Sequences

CONSTANTS Texts,       \* the texts it may be given
          MaxInt,      \* i64::MAX
          CodePoints   \* the values of characters

Lower == {"a", "e", "n", "u", "x", "g", "l", "s"}
Upper == {"A"}
Digits == {"0", "1"}
WordBytes == Lower \cup Upper \cup Digits \cup {"_"}
HexDigits == Digits \cup {"a", "e", "A"}
Spaces == {"sp"}
OperatorChars == {"+", "-", ">", "=", "|"}                  \* is_operator_char
Delimiters == {"(", ")", "]", "}", ",", "\\"}
Escapable == {"n", "\\", "'", "\""}
Bytes == WordBytes \cup Spaces \cup OperatorChars \cup Delimiters
         \cup {"nl", "{", "[", ".", ":", "'", "\"", ";", "hi", "lo"}

(* A &str is valid UTF-8.                                                  *)
ASSUME TextsAssumption ==
  \A t \in Texts : /\ t \in Seq(Bytes)
                   /\ \A i \in 1..Len(t) : t[i] = "lo" => i > 1 /\ t[i - 1] = "hi"
                   /\ \A i \in 1..Len(t) : t[i] = "hi" => i < Len(t) /\ t[i + 1] = "lo"

VARIABLES src,      \* the text
          cur,      \* offset (of the byte to read next), line and column
          mode,     \* the function, or loop, that runs
          start,    \* the place the token in progress started at
          depth,    \* of the block comment in progress
          mark,     \* where the escape or the digits in progress started
          back,     \* what an escape is in
          tokens, errors

lexerVars == <<src, cur, mode, start, depth, mark, back, tokens, errors>>

Modes == {"next", "word", "operator", "integer", "fraction", "exponent", "hex", "charEnd", "string",
          "multi", "unicode", "line", "block", "glsl", "unexpected", "done", "panic"}

Position == [off : Nat, line : Nat, col : Nat]
TokenKinds == Delimiters \cup {"nl", ".", ":", "=", "|", "_", "{", "[", "->", "..", "-", "operator", "lower", "upper", "integer",
                              "fraction", "exponent", "hex", "char", "string", "multi", "glsl", "comment", "block", "doc", "eof"}
Lexeme == [kind : TokenKinds, from : Nat, to : Nat, line : Nat, col : Nat]   \* to: the offset after it
Fault == [from : Nat, to : Nat]
-----------------------------------------------------------------------------
(* The cursor.                                                             *)

Eof(c) == c.off > Len(src)

PeekAt(i) == IF i <= Len(src) THEN src[i] ELSE "eof"
Peek == PeekAt(cur.off)
PeekNext == PeekAt(cur.off + 1)

(* Mutant of Adv: a newline does not start a line. *)
AdvanceInLine(c) == IF Eof(c) THEN c ELSE [c EXCEPT !.off = @ + 1, !.col = @ + 1]

(* advance.                                                                *)
Adv(c) == IF Eof(c) THEN c
          ELSE IF src[c.off] = "nl" THEN [off |-> c.off + 1, line |-> c.line + 1, col |-> 1]
          ELSE [off |-> c.off + 1, line |-> c.line, col |-> c.col + 1]

(* Mutant of PastChar: a character is a byte. *)
PastByte(c) == Adv(c)

(* Past the character, of one byte or two, that starts here.               *)
PastChar(c) == IF PeekAt(c.off) = "hi" THEN Adv(Adv(c)) ELSE Adv(c)

TextFrom(i) == SubSeq(src, i, cur.off - 1)

DigitValue == [d \in HexDigits |-> CASE d = "0" -> 0 [] d = "1" -> 1 [] d \in {"a", "A"} -> 10 [] d = "e" -> 14]

(* The value of a sequence of digits.                                      *)
Value(s, base) == LET v[i \in 0..Len(s)] == IF i = 0 THEN 0 ELSE base * v[i - 1] + DigitValue[s[i]]
                  IN  v[Len(s)]
-----------------------------------------------------------------------------
(* The ways a step ends: reading goes on, a token is complete, or an error *)
(* is.                                                                     *)

Token(kind, from, to) == [kind |-> kind, from |-> from.off, to |-> to.off, line |-> from.line, col |-> from.col]

Read(c, m) == /\ cur' = c /\ mode' = m
              /\ UNCHANGED <<src, tokens, errors>>

InToken == UNCHANGED <<start, depth, mark, back>>

(* Mutant of Opens: the token starts where the last one did. *)
StartForgotten(c, m) == Read(c, m) /\ InToken

Opens(c, m) == /\ Read(c, m)
               /\ start' = cur
               /\ UNCHANGED <<depth, mark, back>>

Push(kind, from, c) == /\ cur' = c /\ mode' = "next"
                       /\ tokens' = Append(tokens, Token(kind, from, c))
                       /\ UNCHANGED <<src, start, depth, mark, back, errors>>

(* tokenize skips one byte after an error.                                 *)
Error(from, c) == /\ cur' = Adv(c) /\ mode' = "next"
                  /\ errors' = Append(errors, [from |-> from, to |-> c.off])
                  /\ UNCHANGED <<src, start, depth, mark, back, tokens>>

(* `&self.source[self.offset..]`, which must start at a character.         *)
Panics(c) == PeekAt(c.off) = "lo"
-----------------------------------------------------------------------------
(* tokenize, and next_token as far as it depends on two bytes only.        *)

SkipSpace == /\ mode = "next" /\ Peek \in Spaces
             /\ Read(Adv(cur), "next") /\ InToken

EndOfSource == /\ mode = "next" /\ Eof(cur)
               /\ tokens' = Append(tokens, Token("eof", cur, cur))
               /\ mode' = "done"
               /\ UNCHANGED <<src, cur, start, depth, mark, back, errors>>

(* Tokens of one byte, whatever follows, and of one byte or two.           *)
OneByte == \/ Peek \in Delimiters \cup {"nl"}
           \/ Peek = "." /\ PeekNext # "."
           \/ Peek = ":" /\ PeekNext # ":"
           \/ Peek = "=" /\ PeekNext # "="
           \/ Peek = "|" /\ PeekNext \notin OperatorChars \cup {"."}
           \/ Peek = "_" /\ PeekNext \notin WordBytes
           \/ Peek = "{" /\ PeekNext # "-"

Pairs == {<<"-", ">">>, <<".", ".">>, <<":", ":">>, <<"=", "=">>, <<"|", ".">>}

OneByteToken == /\ mode = "next" /\ OneByte
                /\ Push(Peek, cur, Adv(cur))

TwoByteToken == /\ mode = "next" /\ <<Peek, PeekNext>> \in Pairs
                /\ Push(CASE Peek = "-" -> "->" [] Peek = "." -> ".." [] OTHER -> "operator", cur, Adv(Adv(cur)))

GlslOpening == <<"[", "g", "l", "s", "l", "|">>

GlslAhead == \A i \in 1..6 : PeekAt(cur.off + i - 1) = GlslOpening[i]

OpenBracket == /\ mode = "next" /\ Peek = "["
               /\ \/ ~GlslAhead /\ Push("[", cur, Adv(cur))
                  \/ GlslAhead /\ Opens([cur EXCEPT !.off = @ + 6, !.col = @ + 6], "glsl")
-----------------------------------------------------------------------------
(* Words, and operators: as long as they go.                               *)

StartWord == /\ mode = "next" /\ \/ Peek \in Lower \cup Upper
                                 \/ Peek = "_" /\ PeekNext \in WordBytes
             /\ Opens(Adv(cur), "word")

StartOperator == /\ mode = "next"
                 /\ \/ Peek = "-" /\ PeekNext \notin {"-", ">"}
                    \/ Peek = "|" /\ PeekNext \in OperatorChars
                    \/ Peek \in OperatorChars \ {"-", "|", "="}
                 /\ Opens(Adv(cur), "operator")

Same == (mode = "word" /\ Peek \in WordBytes) \/ (mode = "operator" /\ Peek \in OperatorChars)

MoreOfTheSame == Same /\ Read(Adv(cur), mode) /\ InToken

(* Mutant of EndWord: the byte after the word goes with it. *)
EndWordLate == /\ mode = "word" /\ ~Same
               /\ cur' = Adv(cur) /\ mode' = "next"
               /\ tokens' = Append(tokens, Token("lower", start, cur))
               /\ UNCHANGED <<src, start, depth, mark, back, errors>>

EndWord == /\ mode = "word" /\ ~Same
           /\ Push(IF src[start.off] \in Upper THEN "upper" ELSE "lower", start, cur)

EndOperator == /\ mode = "operator" /\ ~Same
               /\ Push(IF TextFrom(start.off) = <<"-">> THEN "-" ELSE "operator", start, cur)
-----------------------------------------------------------------------------
(* lex_number and lex_hex.                                                 *)

Hex == Peek = "0" /\ PeekNext = "x"

StartNumber == /\ mode = "next" /\ Peek \in Digits
               /\ \/ Hex /\ Opens(Adv(Adv(cur)), "hex")
                  \/ ~Hex /\ Opens(Adv(cur), "integer")

Digit == (mode \in {"integer", "fraction", "exponent"} /\ Peek \in Digits) \/ (mode = "hex" /\ Peek \in HexDigits)

MoreDigits == Digit /\ Read(Adv(cur), mode) /\ InToken

Point == mode = "integer" /\ Peek = "." /\ PeekNext \in Digits

ReadPoint == Point /\ Read(Adv(cur), "fraction") /\ InToken

(* The sign is optional; the digits that follow start at mark.             *)
Exponent == mode \in {"integer", "fraction"} /\ Peek = "e"

Signed(c) == PeekAt(c.off) \in {"+", "-"}

ReadExponent == /\ Exponent
                /\ LET c == IF Signed(Adv(cur)) THEN Adv(Adv(cur)) ELSE Adv(cur)
                   IN  Read(c, "exponent") /\ mark' = c.off
                /\ UNCHANGED <<start, depth, back>>

(* The text parses as an i64, or as a float, which needs a digit after `e`. *)
Fits == CASE mode = "integer" -> Value(TextFrom(start.off), 10) <= MaxInt
          [] mode = "fraction" -> TRUE
          [] mode = "exponent" -> cur.off > mark
          [] mode = "hex" -> cur.off > start.off + 2 /\ Value(TextFrom(start.off + 2), 16) <= MaxInt

EndNumber == /\ mode \in {"integer", "fraction", "exponent", "hex"}
             /\ ~Digit /\ ~Point /\ ~Exponent
             /\ \/ Fits /\ Push(mode, start, cur)
                \/ ~Fits /\ Error(start.off, cur)
-----------------------------------------------------------------------------
(* lex_escape_char and lex_unicode_escape, inside a literal; c is at the   *)
(* backslash, m the mode to go on in.                                      *)

Escape(c, m) ==
  LET d == Adv(c)
      e == Adv(d)
      byte == PeekAt(d.off)
      within == IF mode = "next" THEN start' = cur ELSE UNCHANGED start
  IN  \/ /\ byte \in Escapable
         /\ Read(Adv(d), m) /\ within /\ UNCHANGED <<depth, mark, back>>
      \/ /\ byte \notin Escapable \cup {"u"}
         /\ Error(c.off, d)
      \/ /\ byte = "u" /\ PeekAt(e.off) # "{"
         /\ Error(d.off, e)
      \/ /\ byte = "u" /\ PeekAt(e.off) = "{"
         /\ Read(Adv(e), "unicode") /\ within /\ mark' = Adv(e).off /\ back' = m
         /\ UNCHANGED depth

UnicodeDigit == /\ mode = "unicode" /\ Peek \in HexDigits
                /\ Read(Adv(cur), "unicode") /\ InToken

EndUnicode ==
  /\ mode = "unicode" /\ Peek \notin HexDigits
  /\ LET closed == cur.off > mark /\ Peek = "}"
         ok == closed /\ Value(TextFrom(mark), 16) \in CodePoints
     IN  \/ ok /\ Read(Adv(cur), back) /\ InToken
         \/ ~ok /\ Error(mark - 2, IF closed THEN Adv(cur) ELSE cur)

(* lex_char, to the closing quote.                                         *)
StartChar ==
  /\ mode = "next" /\ Peek = "'"
  /\ LET c == Adv(cur)
     IN  \/ PeekNext = "\\" /\ Escape(c, "charEnd")
         \/ PeekNext \in {"'", "eof"} /\ Error(cur.off, c)
         \/ PeekNext \notin {"'", "eof", "\\"} /\ Opens(PastChar(c), IF Panics(c) THEN "panic" ELSE "charEnd")

EndChar == /\ mode = "charEnd"
           /\ \/ Peek = "'" /\ Push("char", start, Adv(cur))
              \/ Peek # "'" /\ Error(start.off, cur)

(* lex_string and lex_multiline_string.                                    *)
ThreeQuotes == \A i \in 0..2 : PeekAt(cur.off + i) = "\""

StartString == /\ mode = "next" /\ Peek = "\""
               /\ \/ ThreeQuotes /\ Opens(Adv(Adv(Adv(cur))), "multi")
                  \/ ~ThreeQuotes /\ Opens(Adv(cur), "string")

(* Mutant of InString: a string may go on over the end of the line. *)
StringOverLines ==
  /\ mode = "string"
  /\ \/ Peek = "eof" /\ Error(start.off, cur)
     \/ Peek = "\"" /\ Push("string", start, Adv(cur))
     \/ Peek = "\\" /\ Escape(cur, "string")
     \/ Peek \notin {"eof", "\"", "\\"} /\ Read(PastChar(cur), IF Panics(cur) THEN "panic" ELSE mode) /\ InToken

InString ==
  /\ mode = "string"
  /\ \/ Peek \in {"eof", "nl"} /\ Error(start.off, cur)
     \/ Peek = "\"" /\ Push("string", start, Adv(cur))
     \/ Peek = "\\" /\ Escape(cur, "string")
     \/ Peek \notin {"eof", "nl", "\"", "\\"} /\ Read(PastChar(cur), IF Panics(cur) THEN "panic" ELSE mode) /\ InToken

InMultiline ==
  /\ mode = "multi"
  /\ \/ Peek = "eof" /\ Error(start.off, cur)
     \/ ThreeQuotes /\ Push("multi", start, Adv(Adv(Adv(cur))))
     \/ Peek = "\"" /\ ~ThreeQuotes /\ Read(Adv(cur), mode) /\ InToken
     \/ Peek = "\\" /\ Escape(cur, "multi")
     \/ Peek \notin {"eof", "\"", "\\"} /\ Read(PastChar(cur), IF Panics(cur) THEN "panic" ELSE mode) /\ InToken
-----------------------------------------------------------------------------
(* Comments and GLSL blocks.                                               *)

StartLineComment == /\ mode = "next" /\ Peek = "-" /\ PeekNext = "-"
                    /\ Opens(Adv(Adv(cur)), "line")

InLineComment == /\ mode = "line"
                 /\ \/ Peek \in {"nl", "eof"} /\ Push("comment", start, cur)
                    \/ Peek \notin {"nl", "eof"} /\ Read(Adv(cur), "line") /\ InToken

StartBlockComment == /\ mode = "next" /\ Peek = "{" /\ PeekNext = "-"
                     /\ Read(Adv(Adv(cur)), "block")
                     /\ start' = cur /\ depth' = 1
                     /\ UNCHANGED <<mark, back>>

(* Mutant of InBlockComment: comments do not nest. *)
FlatComment ==
  /\ mode = "block"
  /\ LET pair == <<Peek, PeekNext>>
         c == Adv(Adv(cur))
     IN  \/ Peek = "eof" /\ Error(start.off, cur)
         \/ pair = <<"-", "}">> /\ Push("block", start, c)
         \/ Peek # "eof" /\ pair # <<"-", "}">> /\ Read(Adv(cur), "block") /\ InToken

InBlockComment ==
  /\ mode = "block"
  /\ LET pair == <<Peek, PeekNext>>
         c == Adv(Adv(cur))
     IN  \/ Peek = "eof" /\ Error(start.off, cur)
         \/ /\ pair = <<"{", "-">>
            /\ Read(c, "block") /\ depth' = depth + 1 /\ UNCHANGED <<start, mark, back>>
         \/ /\ pair = <<"-", "}">> /\ depth > 1
            /\ Read(c, "block") /\ depth' = depth - 1 /\ UNCHANGED <<start, mark, back>>
         \/ /\ pair = <<"-", "}">> /\ depth = 1
            /\ Push(IF src[start.off + 2] = "|" THEN "doc" ELSE "block", start, c)
         \/ /\ Peek # "eof" /\ pair \notin {<<"{", "-">>, <<"-", "}">>}
            /\ Read(Adv(cur), "block") /\ InToken

(* Mutant of InGlsl: only the end of the block is looked for. *)
EndlessGlsl == /\ mode = "glsl"
               /\ \/ Peek = "|" /\ PeekNext = "]" /\ Push("glsl", start, Adv(Adv(cur)))
                  \/ <<Peek, PeekNext>> # <<"|", "]">> /\ Read(Adv(cur), "glsl") /\ InToken

InGlsl == /\ mode = "glsl"
          /\ \/ Peek = "eof" /\ Error(start.off, cur)
             \/ Peek = "|" /\ PeekNext = "]" /\ Push("glsl", start, Adv(Adv(cur)))
             \/ Peek # "eof" /\ <<Peek, PeekNext>> # <<"|", "]">> /\ Read(Adv(cur), "glsl") /\ InToken

(* No token starts with this byte.  The lexer may be inside a character,   *)
(* whose other bytes it passes; then the next character is the unexpected  *)
(* one, whatever it is.                                                    *)
StartUnexpected == /\ mode = "next" /\ Peek \in {";", "hi", "lo"}
                   /\ Opens(cur, "unexpected")

InUnexpected == /\ mode = "unexpected"
                /\ \/ Peek = "lo" /\ Read(Adv(cur), "unexpected") /\ InToken
                   \/ Peek = "eof" /\ Error(start.off, cur)
                   \/ Peek \notin {"lo", "eof"} /\ Error(start.off, PastChar(cur))
-----------------------------------------------------------------------------
Fresh == /\ cur = [off |-> 1, line |-> 1, col |-> 1]
         /\ mode = "next" /\ start = cur
         /\ depth = 0 /\ mark = 0 /\ back = "next"
         /\ tokens = <<>> /\ errors = <<>>

LexerInit == src \in Texts /\ Fresh

LexerNext ==
  \/ SkipSpace \/ EndOfSource \/ OneByteToken \/ TwoByteToken \/ OpenBracket
  \/ StartWord \/ StartOperator \/ MoreOfTheSame \/ EndWord \/ EndOperator
  \/ StartNumber \/ MoreDigits \/ ReadPoint \/ ReadExponent \/ EndNumber
  \/ UnicodeDigit \/ EndUnicode \/ StartChar \/ EndChar \/ StartString \/ InString \/ InMultiline
  \/ StartLineComment \/ InLineComment \/ StartBlockComment \/ InBlockComment \/ InGlsl
  \/ StartUnexpected \/ InUnexpected

LexerSpec == LexerInit /\ [][LexerNext]_lexerVars

(* A function call that runs until it returns.                             *)
FairLexerSpec == LexerSpec /\ WF_lexerVars(LexerNext)

(* parse and parse_recovering read the tokens only if no error was met;    *)
(* the latter gives None for the module otherwise.                         *)
HandsOver == mode = "done" /\ errors = <<>>
=============================================================================
