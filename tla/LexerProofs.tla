---------------------------- MODULE LexerProofs ----------------------------
(***************************************************************************)
(* For every text, i64::MAX and set of code points: the lexer keeps its    *)
(* types, gives its tokens in order and never slices inside a character;   *)
(* the tokens tile it as long as no error is met, and line and column of   *)
(* each are those of its first byte.                                       *)
(***************************************************************************)
EXTENDS LexerSafety, SequenceTheorems, FiniteSetTheorems, TLAPS

(* The text, which no step changes, is one that was to be read.            *)
Readable == /\ src \in Seq(Bytes)
            /\ \A i \in 1..Len(src) : src[i] = "lo" => i > 1 /\ src[i - 1] = "hi"
            /\ \A i \in 1..Len(src) : src[i] = "hi" => i < Len(src) /\ src[i + 1] = "lo"

(* A place in the text, or at its end.                                     *)
Place(c) == c \in Position /\ 1 <= c.off /\ c.off <= Len(src) + 1

(* Where characters are taken one by one, one starts at the cursor; an     *)
(* escape goes on in a literal.                                            *)
Literals == {"string", "multi", "charEnd"}

AtCharacter == mode \in {"string", "multi", "unicode"} => PeekAt(cur.off) # "lo"

InEscape == mode = "unicode" => mark >= 2 /\ back \in Literals

LexerInv == /\ LexerTypeOK /\ Readable
            /\ Place(cur)
            /\ start.off <= cur.off
            /\ TokensInOrder
            /\ AtCharacter /\ InEscape
            /\ NoPanic
-----------------------------------------------------------------------------
(* Advancing.                                                              *)

LEMMA AdvOK ==
  ASSUME Readable, NEW c, Place(c)
  PROVE  /\ Place(Adv(c))
         /\ c.off <= Adv(c).off /\ Adv(c).off <= c.off + 1
         /\ c.off <= Len(src) => Adv(c).off = c.off + 1
<1>1. Len(src) \in Nat
  BY DEF Readable
<1>2. CASE Eof(c)
  BY <1>1, <1>2 DEF Adv, Eof, Place, Position
<1>3. CASE ~Eof(c)
  BY <1>1, <1>3 DEF Adv, Eof, Place, Position
<1> QED BY <1>2, <1>3

LEMMA PastCharOK ==
  ASSUME Readable, NEW c, Place(c)
  PROVE  Place(PastChar(c)) /\ c.off <= PastChar(c).off
<1>1. Place(Adv(c)) /\ c.off <= Adv(c).off
  BY AdvOK
<1>2. Place(Adv(Adv(c))) /\ Adv(c).off <= Adv(Adv(c)).off
  BY <1>1, AdvOK
<1>3. c.off \in Nat /\ Adv(c).off \in Nat /\ Adv(Adv(c)).off \in Nat
  BY <1>1, <1>2 DEF Place, Position
<1> QED BY <1>1, <1>2, <1>3 DEF PastChar

(* After a byte that starts no character of two, a character starts.       *)
LEMMA CharacterAfter ==
  ASSUME Readable, NEW c, Place(c), PeekAt(c.off) # "hi", PeekAt(c.off) # "eof"
  PROVE  PeekAt(Adv(c).off) # "lo" /\ PeekAt(c.off + 1) # "lo"
<1>1. Len(src) \in Nat /\ c.off \in Nat
  BY DEF Readable, Place, Position
<1>2. c.off <= Len(src) /\ src[c.off] # "hi"
  BY <1>1 DEF PeekAt
<1>3. Adv(c).off = c.off + 1
  BY <1>2, AdvOK
<1>4. PeekAt(c.off + 1) # "lo"
  BY <1>1, <1>2 DEF PeekAt, Readable
<1> QED BY <1>3, <1>4

LEMMA CharacterAfterChar ==
  ASSUME Readable, NEW c, Place(c), PeekAt(c.off) \notin {"lo", "eof"}
  PROVE  PeekAt(PastChar(c).off) # "lo"
<1>1. CASE PeekAt(c.off) # "hi"
  BY <1>1, CharacterAfter DEF PastChar
<1>2. CASE PeekAt(c.off) = "hi"
  <2>1. Len(src) \in Nat /\ c.off \in 1..Len(src) /\ src[c.off] = "hi"
    BY <1>2 DEF PeekAt, Readable, Place, Position
  <2>2. c.off + 1 <= Len(src) /\ src[c.off + 1] = "lo"
    BY <2>1 DEF Readable
  <2>3. Place(Adv(c)) /\ Adv(c).off = c.off + 1
    BY <2>1, AdvOK
  <2>4. PeekAt(Adv(c).off) = "lo"
    BY <2>2, <2>3 DEF PeekAt
  <2>5. PeekAt(Adv(Adv(c)).off) # "lo"
    BY <2>3, <2>4, CharacterAfter
  <2> QED BY <1>2, <2>5 DEF PastChar
<1> QED BY <1>1, <1>2
-----------------------------------------------------------------------------
(* The kinds of step.                                                      *)

LEMMA TokenTypes ==
  ASSUME tokens \in Seq(Lexeme)
  PROVE  Len(tokens) \in Nat /\ \A k \in 1..Len(tokens) : tokens[k].from \in Nat /\ tokens[k].to \in Nat
<1>1. Len(tokens) \in Nat /\ \A k \in 1..Len(tokens) : tokens[k] \in Lexeme
  OBVIOUS
<1>2. \A t \in Lexeme : t.from \in Nat /\ t.to \in Nat
  BY DEF Lexeme
<1> QED BY <1>1, <1>2

(* Reading goes on at c in mode m: in the token that is in progress, in    *)
(* one that starts here, or in none.                                       *)
LEMMA ReadStep ==
  ASSUME LexerInv, NEW c, Place(c), cur.off <= c.off,
         NEW m \in Modes \ {"done", "panic"}, Read(c, m),
         depth' \in Nat, mark' \in Nat, back' \in Modes,
         \/ start' = cur
         \/ start' = start /\ (mode \notin {"next", "done"} \/ m = "next"),
         m \in {"string", "multi", "unicode"} => PeekAt(c.off) # "lo",
         m = "unicode" => mark' >= 2 /\ back' \in Literals
  PROVE  LexerInv'
<1>1. src' = src /\ cur' = c /\ mode' = m /\ tokens' = tokens /\ errors' = errors
  BY DEF Read
<1>2. c \in Position /\ start' \in Position /\ cur.off \in Nat /\ c.off \in Nat /\ start.off \in Nat
  BY DEF LexerInv, LexerTypeOK, Place, Position
<1>3. LexerTypeOK'
  BY <1>1, <1>2 DEF LexerInv, LexerTypeOK
<1>4. Readable' /\ Place(cur)' /\ NoPanic' /\ InEscape'
  BY <1>1 DEF LexerInv, Readable, Place, NoPanic, InEscape
<1>5. AtCharacter'
  BY <1>1 DEF AtCharacter, PeekAt
<1>6. (start.off <= cur.off)'
  BY <1>1, <1>2 DEF LexerInv
<1>7. Len(tokens) \in Nat /\ \A k \in 1..Len(tokens) : tokens[k].to \in Nat
  BY TokenTypes DEF LexerInv, LexerTypeOK
<1>8. \A k \in 1..Len(tokens) : tokens[k].from <= tokens[k].to /\ tokens[k].to <= c.off
  BY <1>2, <1>7 DEF LexerInv, TokensInOrder
<1>9. m \notin {"next", "done"} => \A k \in 1..Len(tokens) : tokens[k].to <= start'.off
  BY DEF LexerInv, TokensInOrder
<1>10. TokensInOrder'
  BY <1>1, <1>8, <1>9 DEF LexerInv, TokensInOrder
<1> QED BY <1>3, <1>4, <1>5, <1>6, <1>10 DEF LexerInv

(* Past the six bytes of `[glsl|`, none of them a newline.                 *)
LEMMA FurtherOn ==
  ASSUME NEW p \in Position
  PROVE  LET q == [p EXCEPT !.off = @ + 6, !.col = @ + 6]
         IN  q \in Position /\ q.off = p.off + 6
<1>1. p.off \in Nat /\ p.line \in Nat /\ p.col \in Nat
  BY DEF Position
<1>2. p.off + 6 \in Nat /\ p.col + 6 \in Nat
  BY <1>1
<1> QED BY <1>2 DEF Position

(* A token that started at or after the ones before it ends at c.          *)
LEMMA PushStep ==
  ASSUME LexerInv, NEW c, Place(c), cur.off <= c.off, NEW kind \in TokenKinds, NEW from,
         from = cur \/ (from = start /\ mode \notin {"next", "done"}),
         Push(kind, from, c)
  PROVE  LexerInv'
<1> DEFINE t == Token(kind, from, c)
<1>1. /\ src' = src /\ cur' = c /\ mode' = "next" /\ tokens' = Append(tokens, t)
      /\ start' = start /\ depth' = depth /\ mark' = mark /\ back' = back /\ errors' = errors
  BY DEF Push
<1>2. from \in Position /\ c \in Position /\ from.off <= cur.off /\ from.off <= c.off /\ from.off \in Nat
      /\ cur.off \in Nat /\ c.off \in Nat
  BY DEF LexerInv, LexerTypeOK, Place, Position
<1>3. t \in Lexeme /\ t.from = from.off /\ t.to = c.off
  BY <1>2 DEF Token, Lexeme, Position
<1>4. tokens \in Seq(Lexeme) /\ Len(tokens) \in Nat
      /\ \A k \in 1..Len(tokens) : tokens[k].from \in Nat /\ tokens[k].to \in Nat
  BY TokenTypes DEF LexerInv, LexerTypeOK
<1> HIDE DEF t
<1>5. /\ tokens' \in Seq(Lexeme) /\ Len(tokens') = Len(tokens) + 1
      /\ \A k \in 1..Len(tokens) : tokens'[k] = tokens[k]
      /\ tokens'[Len(tokens) + 1] = t
  BY <1>1, <1>3, <1>4
<1>6. LexerTypeOK'
  BY <1>1, <1>2, <1>5 DEF LexerInv, LexerTypeOK, Modes
<1>7. Readable' /\ Place(cur)' /\ NoPanic' /\ InEscape' /\ AtCharacter' /\ (start.off <= cur.off)'
  BY <1>1, <1>2, SMTT(40) DEF LexerInv, LexerTypeOK, Position, Readable, Place, NoPanic, InEscape, AtCharacter
<1>8. \A k \in 1..Len(tokens) : tokens[k].to <= from.off /\ tokens[k].from <= tokens[k].to
  BY DEF LexerInv, TokensInOrder
<1>9. TokensInOrder'
  <2>1. \A k \in 1..Len(tokens') : tokens'[k].from <= tokens'[k].to /\ tokens'[k].to <= c.off
    BY <1>2, <1>3, <1>4, <1>5, <1>8, SMTT(40)
  <2>2. \A k \in 1..Len(tokens) - 1 : tokens[k].to <= tokens[k + 1].from
    BY DEF LexerInv, TokensInOrder
  <2>3. \A k \in 1..Len(tokens') - 1 : tokens'[k].to <= tokens'[k + 1].from
    <3> SUFFICES ASSUME NEW k \in 1..Len(tokens') - 1
                 PROVE  tokens'[k].to <= tokens'[k + 1].from
      OBVIOUS
    <3>1. CASE k = Len(tokens)
      BY <3>1, <1>3, <1>4, <1>5, <1>8
    <3>2. CASE k # Len(tokens)
      BY <3>2, <1>4, <1>5, <2>2
    <3> QED BY <3>1, <3>2
  <2> QED BY <1>1, <2>1, <2>3 DEF TokensInOrder
<1> QED BY <1>6, <1>7, <1>9 DEF LexerInv

(* An error whose cursor was at c.                                         *)
LEMMA ErrorStep ==
  ASSUME LexerInv, NEW c, Place(c), cur.off <= c.off, NEW from \in Nat, Error(from, c)
  PROVE  LexerInv'
<1>1. /\ src' = src /\ cur' = Adv(c) /\ mode' = "next" /\ tokens' = tokens
      /\ errors' = Append(errors, [from |-> from, to |-> c.off])
      /\ start' = start /\ depth' = depth /\ mark' = mark /\ back' = back
  BY DEF Error
<1>2. Place(Adv(c)) /\ cur.off <= Adv(c).off
  BY AdvOK DEF LexerInv, Place, Position
<1>3. c.off \in Nat /\ cur.off \in Nat /\ start.off \in Nat /\ Adv(c).off \in Nat /\ Adv(c) \in Position
  BY <1>2 DEF LexerInv, LexerTypeOK, Place, Position
<1>4. LexerTypeOK'
  BY <1>1, <1>3 DEF LexerInv, LexerTypeOK, Modes, Fault
<1>5. Readable' /\ Place(cur)' /\ NoPanic' /\ InEscape' /\ AtCharacter' /\ (start.off <= cur.off)'
  BY <1>1, <1>2, <1>3 DEF LexerInv, Readable, Place, NoPanic, InEscape, AtCharacter
<1>6. Len(tokens) \in Nat /\ \A k \in 1..Len(tokens) : tokens[k].to \in Nat
  BY TokenTypes DEF LexerInv, LexerTypeOK
<1>7. TokensInOrder'
  <2>1. /\ \A k \in 1..Len(tokens) : tokens[k].from <= tokens[k].to /\ tokens[k].to <= cur.off
        /\ \A k \in 1..Len(tokens) - 1 : tokens[k].to <= tokens[k + 1].from
    BY DEF LexerInv, TokensInOrder
  <2>2. \A k \in 1..Len(tokens) : tokens[k].from <= tokens[k].to /\ tokens[k].to <= Adv(c).off
    BY <1>2, <1>3, <1>6, <2>1
  <2> QED BY <1>1, <2>1, <2>2 DEF TokensInOrder
<1> QED BY <1>4, <1>5, <1>7 DEF LexerInv
-----------------------------------------------------------------------------
(* The places a step may come to.                                          *)
LEMMA Ahead ==
  ASSUME LexerInv
  PROVE  /\ Readable /\ Place(cur) /\ cur.off \in Nat /\ Len(src) \in Nat
         /\ Place(Adv(cur)) /\ cur.off <= Adv(cur).off /\ Adv(cur).off \in Nat
         /\ Place(Adv(Adv(cur))) /\ cur.off <= Adv(Adv(cur)).off /\ Adv(Adv(cur)).off \in Nat
         /\ Place(Adv(Adv(Adv(cur)))) /\ cur.off <= Adv(Adv(Adv(cur))).off
         /\ start.off \in Nat /\ depth \in Nat /\ mark \in Nat /\ back \in Modes /\ mode \in Modes
<1>1. /\ Readable /\ Place(cur) /\ cur.off \in Nat /\ Len(src) \in Nat
      /\ start.off \in Nat /\ depth \in Nat /\ mark \in Nat /\ back \in Modes /\ mode \in Modes
  BY DEF LexerInv, LexerTypeOK, Readable, Position
<1>2. Place(Adv(cur)) /\ cur.off <= Adv(cur).off
  BY <1>1, AdvOK
<1>3. Place(Adv(Adv(cur))) /\ Adv(cur).off <= Adv(Adv(cur)).off
  BY <1>1, <1>2, AdvOK
<1>4. Place(Adv(Adv(Adv(cur)))) /\ Adv(Adv(cur)).off <= Adv(Adv(Adv(cur))).off
  BY <1>1, <1>3, AdvOK
<1>5. Adv(cur).off \in Nat /\ Adv(Adv(cur)).off \in Nat /\ Adv(Adv(Adv(cur))).off \in Nat
  BY <1>2, <1>3, <1>4 DEF Place, Position
<1> QED BY <1>1, <1>2, <1>3, <1>4, <1>5

(* In the middle of a token reading goes on.                               *)
LEMMA WithinToken ==
  ASSUME LexerInv, NEW c, Place(c), cur.off <= c.off, NEW m \in Modes \ {"done", "panic"},
         mode \notin {"next", "done"}, Read(c, m), InToken,
         m \in {"string", "multi", "unicode"} => PeekAt(c.off) # "lo",
         m = "unicode" => mode = "unicode"
  PROVE  LexerInv'
<1>1. depth' \in Nat /\ mark' \in Nat /\ back' \in Modes /\ start' = start
  BY Ahead DEF InToken
<1>2. m = "unicode" => mark' >= 2 /\ back' \in Literals
  BY DEF InToken, LexerInv, InEscape
<1> QED BY <1>1, <1>2, ReadStep

(* A token starts here.                                                    *)
LEMMA Opening ==
  ASSUME LexerInv, NEW c, Place(c), cur.off <= c.off, NEW m \in Modes \ {"done", "panic", "unicode"},
         Opens(c, m), m \in {"string", "multi"} => PeekAt(c.off) # "lo"
  PROVE  LexerInv'
<1>1. depth' \in Nat /\ mark' \in Nat /\ back' \in Modes /\ start' = cur /\ Read(c, m)
  BY Ahead DEF Opens
<1> QED BY <1>1, ReadStep

(* An escape in a literal, whichever way it ends.                          *)
LEMMA EscapeStep ==
  ASSUME LexerInv, NEW c, Place(c), cur.off <= c.off, PeekAt(c.off) = "\\", NEW m \in Literals,
         mode \notin {"done"}, Escape(c, m)
  PROVE  LexerInv'
<1> DEFINE d == Adv(c)
           e == Adv(d)
           byte == PeekAt(d.off)
           within == IF mode = "next" THEN start' = cur ELSE UNCHANGED start
<1>1. Readable /\ c.off \in Nat /\ cur.off \in Nat /\ Len(src) \in Nat
  BY Ahead DEF Place, Position
<1>2. /\ Place(d) /\ c.off <= d.off /\ d.off \in Nat
      /\ Place(e) /\ d.off <= e.off /\ e.off \in Nat
      /\ Place(Adv(e)) /\ e.off <= Adv(e).off /\ Adv(e).off \in Nat
  <2>1. Place(d) /\ c.off <= d.off
    BY <1>1, AdvOK
  <2>2. Place(e) /\ d.off <= e.off
    BY <1>1, <2>1, AdvOK
  <2>3. Place(Adv(e)) /\ e.off <= Adv(e).off
    BY <1>1, <2>2, AdvOK
  <2> QED BY <2>1, <2>2, <2>3 DEF Place, Position
<1>3. m \in Modes \ {"done", "panic"}
  BY DEF Literals, Modes
<1>4. within => start' = cur \/ (start' = start /\ mode \notin {"next", "done"})
  OBVIOUS
<1>5. depth \in Nat /\ mark \in Nat /\ back \in Modes
  BY Ahead
<1>6. CASE byte \in Escapable /\ Read(Adv(d), m) /\ within /\ UNCHANGED <<depth, mark, back>>
  <2>1. byte # "hi" /\ byte # "eof"
    BY <1>6 DEF Escapable
  <2>2. PeekAt(e.off) # "lo"
    BY <1>1, <1>2, <2>1, CharacterAfter
  <2>3. m # "unicode"
    BY DEF Literals
  <2> HIDE DEF d, e, byte, within
  <2>4. Read(e, m) /\ cur.off <= e.off
    BY <1>1, <1>2, <1>6 DEF e
  <2> QED BY <1>2, <1>3, <1>4, <1>5, <1>6, <2>2, <2>3, <2>4, ReadStep
<1>7. CASE Error(c.off, d)
  BY <1>1, <1>2, <1>7, ErrorStep
<1>8. CASE Error(d.off, e)
  BY <1>1, <1>2, <1>8, ErrorStep
<1>9. CASE byte = "u" /\ PeekAt(e.off) = "{" /\ Read(Adv(e), "unicode") /\ within /\ mark' = Adv(e).off
           /\ back' = m /\ UNCHANGED depth
  <2>1. PeekAt(Adv(e).off) # "lo"
    BY <1>1, <1>2, <1>9, CharacterAfter
  <2>2. Adv(e).off >= 2
    <3>1. c.off <= Len(src) /\ c.off >= 1
      BY <1>1 DEF PeekAt, Place
    <3>2. d.off = c.off + 1
      BY <1>1, <3>1, AdvOK
    <3> QED BY <1>1, <1>2, <3>1, <3>2
  <2>3. "unicode" \in Modes \ {"done", "panic"} /\ m \in Modes
    BY <1>3 DEF Modes
  <2> HIDE DEF d, e, byte, within
  <2>4. cur.off <= Adv(e).off /\ mark' \in Nat /\ mark' >= 2
    <3>1. mark' = Adv(e).off
      BY <1>9
    <3>2. cur.off <= Adv(e).off
      BY <1>1, <1>2
    <3> QED BY <1>2, <2>2, <3>1, <3>2
  <2>5. depth' \in Nat /\ back' \in Modes /\ back' \in Literals /\ Read(Adv(e), "unicode")
    BY <1>5, <1>9, <2>3
  <2>6. \/ start' = cur
        \/ start' = start /\ (mode \notin {"next", "done"} \/ "unicode" = "next")
    BY <1>4, <1>9
  <2> QED BY <1>2, <2>1, <2>3, <2>4, <2>5, <2>6, ReadStep
<1>10. \/ byte \in Escapable /\ Read(Adv(d), m) /\ within /\ UNCHANGED <<depth, mark, back>>
       \/ Error(c.off, d)
       \/ Error(d.off, e)
       \/ /\ byte = "u" /\ PeekAt(e.off) = "{" /\ Read(Adv(e), "unicode") /\ within /\ mark' = Adv(e).off
          /\ back' = m /\ UNCHANGED depth
  BY DEF Escape
<1> HIDE DEF d, e, byte, within
<1> QED BY <1>6, <1>7, <1>8, <1>9, <1>10
-----------------------------------------------------------------------------
LEMMA InitInv == LexerInit => LexerInv
<1> SUFFICES ASSUME LexerInit PROVE LexerInv
  OBVIOUS
<1>1. Readable
  BY TextsAssumption DEF LexerInit, Readable
<1>2. cur \in Position /\ start = cur /\ cur.off = 1 /\ mode = "next" /\ tokens = <<>> /\ errors = <<>>
      /\ depth = 0 /\ mark = 0 /\ back = "next"
  BY DEF LexerInit, Fresh, Position
<1>3. Place(cur)
  BY <1>1, <1>2 DEF Place, Readable
<1>4. LexerTypeOK
  BY <1>1, <1>2 DEF LexerTypeOK, Readable, Modes
<1> QED BY <1>1, <1>2, <1>3, <1>4 DEF LexerInv, TokensInOrder, AtCharacter, InEscape, NoPanic

(* tokenize and next_token.                                                *)
LEMMA ModesAre ==
  /\ {"next", "word", "operator", "integer", "fraction", "exponent", "hex", "charEnd", "string", "multi",
      "line", "block", "glsl", "unexpected"} \subseteq Modes \ {"done", "panic", "unicode"}
  /\ {"unicode", "done", "panic"} \subseteq Modes
BY DEF Modes

LEMMA DispatchStep ==
  ASSUME LexerInv,
         \/ SkipSpace \/ EndOfSource \/ OneByteToken \/ TwoByteToken \/ OpenBracket
         \/ StartWord \/ StartOperator \/ StartNumber \/ StartString
         \/ StartLineComment \/ StartBlockComment \/ StartUnexpected
  PROVE  LexerInv'
<1>1. CASE SkipSpace
  <2>1. start' = start /\ depth' = depth /\ mark' = mark /\ back' = back /\ Read(Adv(cur), "next")
    BY <1>1 DEF SkipSpace, InToken
  <2> QED BY <2>1, Ahead, ModesAre, ReadStep
<1>2. CASE EndOfSource
  <2>1. mode = "next" /\ UNCHANGED <<src, cur, start, depth, mark, back, errors>> /\ mode' = "done"
        /\ tokens' = Append(tokens, Token("eof", cur, cur))
    BY <1>2 DEF EndOfSource
  <2>2. cur \in Position /\ tokens \in Seq(Lexeme) /\ Len(tokens) \in Nat
    BY TokenTypes DEF LexerInv, LexerTypeOK
  <2> DEFINE t == Token("eof", cur, cur)
  <2>3. t \in Lexeme /\ t.from = cur.off /\ t.to = cur.off
    BY <2>2 DEF Token, Lexeme, Position, TokenKinds
  <2> HIDE DEF t
  <2>4. /\ tokens' \in Seq(Lexeme) /\ Len(tokens') = Len(tokens) + 1
        /\ \A k \in 1..Len(tokens) : tokens'[k] = tokens[k]
        /\ tokens'[Len(tokens) + 1] = t
    BY <2>1, <2>2, <2>3 DEF t
  <2>5. LexerTypeOK'
    BY <2>1, <2>4, ModesAre DEF LexerInv, LexerTypeOK
  <2>6. Readable' /\ Place(cur)' /\ NoPanic' /\ InEscape' /\ AtCharacter' /\ (start.off <= cur.off)'
    BY <2>1 DEF LexerInv, Readable, Place, NoPanic, InEscape, AtCharacter
  <2>7. \A k \in 1..Len(tokens) : tokens[k].from <= tokens[k].to /\ tokens[k].to <= cur.off
    BY DEF LexerInv, TokensInOrder
  <2>8. \A k \in 1..Len(tokens) - 1 : tokens[k].to <= tokens[k + 1].from
    BY DEF LexerInv, TokensInOrder
  <2>9. \A k \in 1..Len(tokens') : tokens'[k].from <= tokens'[k].to /\ tokens'[k].to <= cur.off
    <3>1. ASSUME NEW k \in 1..Len(tokens), tokens'[k] = tokens[k]
          PROVE  tokens'[k].from <= tokens'[k].to /\ tokens'[k].to <= cur.off
      BY <2>7, <3>1
    <3>2. t.from <= t.to /\ t.to <= cur.off
      BY <2>3, Ahead
    <3>3. \A k \in 1..Len(tokens') : k \in 1..Len(tokens) \/ k = Len(tokens) + 1
      BY <2>2, <2>4
    <3> QED BY <2>4, <3>1, <3>2, <3>3
  <2>10. ASSUME NEW k \in 1..Len(tokens') - 1
         PROVE  tokens'[k].to <= tokens'[k + 1].from
    <3>1. CASE k = Len(tokens)
      BY <3>1, <2>2, <2>3, <2>4, <2>7
    <3>2. CASE k # Len(tokens)
      <4>1. k \in 1..Len(tokens) - 1 /\ k \in 1..Len(tokens) /\ k + 1 \in 1..Len(tokens)
        BY <3>2, <2>2, <2>4
      <4>2. tokens'[k] = tokens[k] /\ tokens'[k + 1] = tokens[k + 1]
        BY <4>1, <2>4
      <4> QED BY <4>1, <4>2, <2>8
    <3> QED BY <3>1, <3>2
  <2>11. TokensInOrder'
    BY <2>1, <2>9, <2>10 DEF TokensInOrder
  <2> QED BY <2>5, <2>6, <2>11 DEF LexerInv
<1>3. CASE OneByteToken
  <2>1. Push(Peek, cur, Adv(cur)) /\ OneByte
    BY <1>3 DEF OneByteToken
  <2>2. Peek \in TokenKinds
    BY <2>1 DEF OneByte, Delimiters, TokenKinds
  <2> QED BY <2>1, <2>2, Ahead, PushStep
<1>4. CASE TwoByteToken
  <2> DEFINE kind == CASE Peek = "-" -> "->" [] Peek = "." -> ".." [] OTHER -> "operator"
  <2>1. Push(kind, cur, Adv(Adv(cur)))
    BY <1>4 DEF TwoByteToken
  <2>2. kind \in TokenKinds
    BY DEF TokenKinds
  <2> HIDE DEF kind
  <2> QED BY <2>1, <2>2, Ahead, PushStep
<1>5. CASE OpenBracket
  <2>1. CASE Push("[", cur, Adv(cur))
    <3>1. "[" \in TokenKinds
      BY DEF TokenKinds
    <3> QED BY <2>1, <3>1, Ahead, PushStep
  <2>2. CASE GlslAhead /\ Opens([cur EXCEPT !.off = @ + 6, !.col = @ + 6], "glsl")
    <3> DEFINE c == [cur EXCEPT !.off = @ + 6, !.col = @ + 6]
    <3>1. PeekAt(cur.off + 5) = "|"
      BY <2>2 DEF GlslAhead, GlslOpening
    <3>2. cur.off + 5 <= Len(src)
      BY <3>1, Ahead DEF PeekAt
    <3>3. Place(c) /\ cur.off <= c.off
      <4>1. cur \in Position /\ cur.off \in Nat /\ 1 <= cur.off /\ Len(src) \in Nat
        BY Ahead DEF Place
      <4>2. c \in Position /\ c.off = cur.off + 6
        BY <4>1, FurtherOn
      <4> HIDE DEF c
      <4>3. 1 <= c.off /\ c.off <= Len(src) + 1 /\ cur.off <= c.off
        BY <3>2, <4>1, <4>2
      <4> QED BY <4>2, <4>3 DEF Place
    <3> HIDE DEF c
    <3>4. Opens(c, "glsl")
      BY <2>2 DEF c
    <3> QED BY <3>3, <3>4, Ahead, ModesAre, Opening
  <2> QED BY <1>5, <2>1, <2>2 DEF OpenBracket
<1>6. CASE StartWord
  BY <1>6, Ahead, ModesAre, Opening DEF StartWord
<1>7. CASE StartOperator
  BY <1>7, Ahead, ModesAre, Opening DEF StartOperator
<1>8. CASE StartNumber
  BY <1>8, Ahead, ModesAre, Opening DEF StartNumber
<1>9. CASE StartString
  <2>1. CASE ThreeQuotes /\ Opens(Adv(Adv(Adv(cur))), "multi")
    <3>1. PeekAt(cur.off) = "\"" /\ PeekAt(cur.off + 1) = "\"" /\ PeekAt(cur.off + 2) = "\""
      <4>1. 0 \in 0..2 /\ 1 \in 0..2 /\ 2 \in 0..2 /\ cur.off + 0 = cur.off
        BY Ahead
      <4> QED BY <2>1, <4>1 DEF ThreeQuotes
    <3>2. cur.off + 2 <= Len(src)
      BY <3>1, Ahead DEF PeekAt
    <3>3. Adv(cur).off = cur.off + 1 /\ Adv(Adv(cur)).off = cur.off + 2
      BY <3>2, Ahead, AdvOK, SMTT(40)
    <3>4. PeekAt(Adv(Adv(Adv(cur))).off) # "lo"
      BY <3>1, <3>3, Ahead, CharacterAfter
    <3> QED BY <2>1, <3>4, Ahead, ModesAre, Opening
  <2>2. CASE Opens(Adv(cur), "string")
    <3>1. PeekAt(Adv(cur).off) # "lo"
      BY <1>9, Ahead, CharacterAfter DEF StartString, Peek
    <3> QED BY <2>2, <3>1, Ahead, ModesAre, Opening
  <2> QED BY <1>9, <2>1, <2>2 DEF StartString
<1>10. CASE StartLineComment
  BY <1>10, Ahead, ModesAre, Opening DEF StartLineComment
<1>11. CASE StartBlockComment
  <2>1. Read(Adv(Adv(cur)), "block") /\ start' = cur /\ depth' = 1 /\ mark' = mark /\ back' = back
    BY <1>11 DEF StartBlockComment
  <2> QED BY <2>1, Ahead, ModesAre, ReadStep
<1>12. CASE StartUnexpected
  <2>1. Opens(cur, "unexpected") /\ "unexpected" \in Modes \ {"done", "panic", "unicode"}
    BY <1>12, ModesAre DEF StartUnexpected
  <2>2. Place(cur) /\ cur.off <= cur.off
    BY Ahead
  <2> QED BY <2>1, <2>2, Opening
<1> QED BY <1>1, <1>2, <1>3, <1>4, <1>5, <1>6, <1>7, <1>8, <1>9, <1>10, <1>11, <1>12
-----------------------------------------------------------------------------
(* Words, operators and numbers.                                           *)
LEMMA WordStep ==
  ASSUME LexerInv,
         \/ MoreOfTheSame \/ EndWord \/ EndOperator
         \/ MoreDigits \/ ReadPoint \/ ReadExponent \/ EndNumber
  PROVE  LexerInv'
<1>1. CASE MoreOfTheSame
  <2>1. mode \in {"word", "operator"} /\ Read(Adv(cur), mode) /\ InToken
    BY <1>1 DEF MoreOfTheSame, Same
  <2> QED BY <2>1, Ahead, ModesAre, WithinToken
<1>2. CASE EndWord
  <2> DEFINE kind == IF src[start.off] \in Upper THEN "upper" ELSE "lower"
  <2>1. mode = "word" /\ Push(kind, start, cur)
    BY <1>2 DEF EndWord
  <2>2. kind \in TokenKinds
    BY DEF TokenKinds
  <2> HIDE DEF kind
  <2> QED BY <2>1, <2>2, Ahead, PushStep
<1>3. CASE EndOperator
  <2> DEFINE kind == IF TextFrom(start.off) = <<"-">> THEN "-" ELSE "operator"
  <2>1. mode = "operator" /\ Push(kind, start, cur)
    BY <1>3 DEF EndOperator
  <2>2. kind \in TokenKinds
    BY DEF TokenKinds
  <2> HIDE DEF kind
  <2> QED BY <2>1, <2>2, Ahead, PushStep
<1>4. CASE MoreDigits
  <2>1. mode \in {"integer", "fraction", "exponent", "hex"} /\ Read(Adv(cur), mode) /\ InToken
    BY <1>4 DEF MoreDigits, Digit
  <2> QED BY <2>1, Ahead, ModesAre, WithinToken
<1>5. CASE ReadPoint
  <2>1. mode = "integer" /\ Read(Adv(cur), "fraction") /\ InToken
    BY <1>5 DEF ReadPoint, Point
  <2> QED BY <2>1, Ahead, ModesAre, WithinToken
<1>6. CASE ReadExponent
  <2> DEFINE c == IF Signed(Adv(cur)) THEN Adv(Adv(cur)) ELSE Adv(cur)
  <2>1. mode \in {"integer", "fraction"} /\ Read(c, "exponent") /\ mark' = c.off
        /\ start' = start /\ depth' = depth /\ back' = back
    BY <1>6 DEF ReadExponent, Exponent
  <2>2. Place(c) /\ cur.off <= c.off /\ c.off \in Nat
    BY Ahead
  <2> HIDE DEF c
  <2> QED BY <2>1, <2>2, Ahead, ModesAre, ReadStep
<1>7. CASE EndNumber
  <2>1. mode \in {"integer", "fraction", "exponent", "hex"}
    BY <1>7 DEF EndNumber
  <2>2. CASE Push(mode, start, cur)
    <3>1. mode \in TokenKinds
      BY <2>1 DEF TokenKinds
    <3> QED BY <2>1, <2>2, <3>1, Ahead, PushStep
  <2>3. CASE Error(start.off, cur)
    BY <2>3, Ahead, ErrorStep
  <2> QED BY <1>7, <2>2, <2>3 DEF EndNumber
<1> QED BY <1>1, <1>2, <1>3, <1>4, <1>5, <1>6, <1>7

(* Reading on past the character at the cursor, which is its first byte.   *)
LEMMA PassCharacter ==
  ASSUME LexerInv, mode \in {"string", "multi"}, Peek \notin {"lo", "eof"},
         Read(PastChar(cur), mode), InToken
  PROVE  LexerInv'
<1>1. Place(PastChar(cur)) /\ cur.off <= PastChar(cur).off
  BY Ahead, PastCharOK
<1>2. PeekAt(PastChar(cur).off) # "lo"
  BY Ahead, CharacterAfterChar DEF Peek
<1> QED BY <1>1, <1>2, ModesAre, WithinToken

(* A literal's next character never starts inside one.                     *)
LEMMA NotInside ==
  ASSUME LexerInv, mode \in {"string", "multi"}
  PROVE  Peek # "lo" /\ ~Panics(cur)
BY DEF LexerInv, AtCharacter, Peek, Panics

(* Escapes, and literals of characters and strings.                        *)
LEMMA CharStep ==
  ASSUME LexerInv, UnicodeDigit \/ EndUnicode \/ StartChar \/ EndChar
  PROVE  LexerInv'
<1>1. CASE UnicodeDigit
  <2>1. mode = "unicode" /\ Read(Adv(cur), "unicode") /\ InToken /\ Peek \notin {"hi", "eof"}
    BY <1>1 DEF UnicodeDigit, HexDigits, Digits
  <2>2. PeekAt(Adv(cur).off) # "lo"
    BY <2>1, Ahead, CharacterAfter DEF Peek
  <2>3. "unicode" \in Modes \ {"done", "panic"}
    BY DEF Modes
  <2> QED BY <2>1, <2>2, <2>3, Ahead, WithinToken
<1>2. CASE EndUnicode
  <2>1. mode = "unicode" /\ mark - 2 \in Nat /\ back \in Literals
    <3>1. mode = "unicode"
      BY <1>2 DEF EndUnicode
    <3>2. mark >= 2 /\ back \in Literals
      BY <3>1 DEF LexerInv, InEscape
    <3>3. mark \in Nat
      BY Ahead
    <3> QED BY <3>1, <3>2, <3>3
  <2>2. CASE Peek = "}" /\ Read(Adv(cur), back) /\ InToken
    <3>1. PeekAt(Adv(cur).off) # "lo"
      BY <2>2, Ahead, CharacterAfter DEF Peek
    <3>2. back \in Modes \ {"done", "panic"} /\ back # "unicode"
      BY <2>1 DEF Literals, Modes
    <3> QED BY <2>1, <2>2, <3>1, <3>2, Ahead, WithinToken
  <2>3. CASE Error(mark - 2, Adv(cur))
    BY <2>1, <2>3, Ahead, ErrorStep
  <2>4. CASE Error(mark - 2, cur)
    BY <2>1, <2>4, Ahead, ErrorStep
  <2> QED BY <1>2, <2>2, <2>3, <2>4 DEF EndUnicode
<1>3. CASE StartChar
  <2>1. mode = "next" /\ Peek = "'"
    BY <1>3 DEF StartChar
  <2>2. cur.off <= Len(src) /\ Adv(cur).off = cur.off + 1
    BY <2>1, Ahead, AdvOK DEF Peek, PeekAt
  <2>3. PeekAt(Adv(cur).off) = PeekNext
    BY <2>2 DEF PeekNext
  <2>4. CASE PeekNext = "\\" /\ Escape(Adv(cur), "charEnd")
    BY <2>1, <2>3, <2>4, Ahead, EscapeStep DEF Literals
  <2>5. CASE Error(cur.off, Adv(cur))
    BY <2>5, Ahead, ErrorStep
  <2>6. CASE Opens(PastChar(Adv(cur)), IF Panics(Adv(cur)) THEN "panic" ELSE "charEnd")
    <3>1. PeekAt(Adv(cur).off) # "lo"
      BY <2>1, Ahead, CharacterAfter DEF Peek
    <3>2. Opens(PastChar(Adv(cur)), "charEnd")
      BY <2>6, <3>1 DEF Panics
    <3>3. Place(PastChar(Adv(cur))) /\ Adv(cur).off <= PastChar(Adv(cur)).off
      BY Ahead, PastCharOK
    <3>4. cur.off <= PastChar(Adv(cur)).off
      <4> DEFINE c == PastChar(Adv(cur))
      <4>1. c.off \in Nat /\ Adv(cur).off <= c.off
        BY <3>3 DEF Place, Position
      <4> HIDE DEF c
      <4>2. cur.off \in Nat /\ Adv(cur).off \in Nat /\ cur.off <= Adv(cur).off
        BY Ahead
      <4>3. cur.off <= c.off
        BY <4>1, <4>2
      <4> QED BY <4>3 DEF c
    <3> QED BY <3>2, <3>3, <3>4, ModesAre, Opening
  <2> QED BY <1>3, <2>4, <2>5, <2>6 DEF StartChar
<1>4. CASE EndChar
  <2>1. CASE mode = "charEnd" /\ Push("char", start, Adv(cur))
    <3>1. "char" \in TokenKinds
      BY DEF TokenKinds
    <3> QED BY <2>1, <3>1, Ahead, PushStep
  <2>2. CASE Error(start.off, cur)
    BY <2>2, Ahead, ErrorStep
  <2> QED BY <1>4, <2>1, <2>2 DEF EndChar
<1> QED BY <1>1, <1>2, <1>3, <1>4

LEMMA StringStep ==
  ASSUME LexerInv, InString \/ InMultiline
  PROVE  LexerInv'
<1>1. mode \in {"string", "multi"} /\ mode \in Literals /\ mode # "done"
  BY DEF InString, InMultiline, Literals
<1>2. "string" \in TokenKinds /\ "multi" \in TokenKinds
  BY DEF TokenKinds
<1>3. CASE Error(start.off, cur)
  BY <1>3, Ahead, ErrorStep
<1>4. CASE Push("string", start, Adv(cur))
  BY <1>1, <1>2, <1>4, Ahead, PushStep
<1>5. CASE Push("multi", start, Adv(Adv(Adv(cur))))
  BY <1>1, <1>2, <1>5, Ahead, PushStep
<1>6. CASE Peek = "\\" /\ Escape(cur, mode)
  BY <1>1, <1>6, Ahead, EscapeStep DEF Peek
<1>7. CASE Peek # "eof" /\ Read(PastChar(cur), IF Panics(cur) THEN "panic" ELSE mode) /\ InToken
  <2>1. Peek \notin {"lo", "eof"} /\ Read(PastChar(cur), mode)
    BY <1>1, <1>7, NotInside
  <2> QED BY <1>1, <1>7, <2>1, PassCharacter
<1>8. CASE Peek = "\"" /\ Read(Adv(cur), mode) /\ InToken
  <2>1. PastChar(cur) = Adv(cur) /\ Peek \notin {"lo", "eof"}
    BY <1>8 DEF PastChar, Peek
  <2> QED BY <1>1, <1>8, <2>1, PassCharacter
<1>9. CASE InString
  BY <1>3, <1>4, <1>6, <1>7, <1>9 DEF InString
<1>10. CASE InMultiline
  BY <1>3, <1>5, <1>6, <1>7, <1>8, <1>10 DEF InMultiline
<1> QED BY <1>9, <1>10

(* Comments, GLSL blocks, and what is not Elm.                             *)
LEMMA CommentStep ==
  ASSUME LexerInv, InLineComment \/ InBlockComment \/ InGlsl \/ InUnexpected
  PROVE  LexerInv'
<1>1. {"comment", "block", "doc", "glsl"} \subseteq TokenKinds
  BY DEF TokenKinds
<1>2. CASE Error(start.off, cur)
  BY <1>2, Ahead, ErrorStep
<1>3. CASE InLineComment
  <2>1. CASE mode = "line" /\ Push("comment", start, cur)
    BY <1>1, <2>1, Ahead, PushStep
  <2>2. CASE mode = "line" /\ Read(Adv(cur), "line") /\ InToken
    BY <2>2, Ahead, ModesAre, WithinToken
  <2> QED BY <1>3, <2>1, <2>2 DEF InLineComment
<1>4. CASE InBlockComment
  <2> DEFINE c == Adv(Adv(cur))
  <2>1. mode = "block"
    BY <1>4 DEF InBlockComment
  <2>2. CASE Read(c, "block") /\ depth' = depth + 1 /\ UNCHANGED <<start, mark, back>>
    <3>1. depth' \in Nat /\ mark' \in Nat /\ back' \in Modes /\ start' = start
      BY <2>2, Ahead
    <3> QED BY <2>1, <2>2, <3>1, Ahead, ModesAre, ReadStep
  <2>3. CASE Read(c, "block") /\ depth > 1 /\ depth' = depth - 1 /\ UNCHANGED <<start, mark, back>>
    <3>1. depth' \in Nat /\ mark' \in Nat /\ back' \in Modes /\ start' = start
      BY <2>3, Ahead
    <3> QED BY <2>1, <2>3, <3>1, Ahead, ModesAre, ReadStep
  <2>4. ASSUME NEW kind \in {"doc", "block"}, Push(kind, start, c)
        PROVE  LexerInv'
    BY <1>1, <2>1, <2>4, Ahead, PushStep
  <2>5. CASE Read(Adv(cur), "block") /\ InToken
    BY <2>1, <2>5, Ahead, ModesAre, WithinToken
  <2>6. CASE Push(IF src[start.off + 2] = "|" THEN "doc" ELSE "block", start, c)
    BY <2>4, <2>6
  <2> QED BY <1>2, <1>4, <2>2, <2>3, <2>5, <2>6 DEF InBlockComment
<1>5. CASE InGlsl
  <2>1. CASE mode = "glsl" /\ Push("glsl", start, Adv(Adv(cur)))
    BY <1>1, <2>1, Ahead, PushStep
  <2>2. CASE mode = "glsl" /\ Read(Adv(cur), "glsl") /\ InToken
    BY <2>2, Ahead, ModesAre, WithinToken
  <2> QED BY <1>2, <1>5, <2>1, <2>2 DEF InGlsl
<1>6. CASE InUnexpected
  <2>1. CASE mode = "unexpected" /\ Read(Adv(cur), "unexpected") /\ InToken
    BY <2>1, Ahead, ModesAre, WithinToken
  <2>2. CASE Error(start.off, PastChar(cur))
    BY <2>2, Ahead, PastCharOK, ErrorStep
  <2> QED BY <1>2, <1>6, <2>1, <2>2 DEF InUnexpected
<1> QED BY <1>3, <1>4, <1>5, <1>6
-----------------------------------------------------------------------------
LEMMA StutterStep ==
  ASSUME LexerInv, UNCHANGED lexerVars
  PROVE  LexerInv'
<1>1. /\ src' = src /\ cur' = cur /\ mode' = mode /\ start' = start /\ depth' = depth
      /\ mark' = mark /\ back' = back /\ tokens' = tokens /\ errors' = errors
  BY DEF lexerVars
<1> QED BY <1>1 DEF LexerInv, LexerTypeOK, Readable, Place, TokensInOrder, AtCharacter, PeekAt, InEscape, NoPanic

LEMMA Inductive == LexerInv /\ [LexerNext]_lexerVars => LexerInv'
BY DispatchStep, WordStep, CharStep, StringStep, CommentStep, StutterStep DEF LexerNext

THEOREM LexerInvariant == LexerSpec => []LexerInv
BY InitInv, Inductive, PTL DEF LexerSpec

(* The state of the lexer keeps its types on every text.                   *)
THEOREM LexerTypes == LexerSpec => []LexerTypeOK
<1>1. LexerInv => LexerTypeOK
  BY DEF LexerInv
<1> QED BY <1>1, LexerInvariant, PTL

(* Whatever errors it meets, tokenize (lexer.rs:56-76) gives its tokens in *)
(* the order of the text, and none reaches into the next.                  *)
THEOREM TokensAreInOrder == LexerSpec => []TokensInOrder
<1>1. LexerInv => TokensInOrder
  BY DEF LexerInv
<1> QED BY <1>1, LexerInvariant, PTL

(* lex_char, lex_string and lex_multiline_string never slice the text      *)
(* inside a character, so that tokenize never panics.                      *)
THEOREM LexerNeverPanics == LexerSpec => []NoPanic
<1>1. LexerInv => NoPanic
  BY DEF LexerInv
<1> QED BY <1>1, LexerInvariant, PTL
-----------------------------------------------------------------------------
(* Positions, and what lies between the tokens.                           *)

(* Where the token in progress began, or the next one will.                *)
Began == IF mode \in {"next", "done"} THEN cur ELSE start

(* Line and column of a place are what the newlines before it make them.   *)
Right(c) == /\ c.line = 1 + Cardinality(Newlines(c.off))
            /\ \E last \in {0} \cup Newlines(c.off) :
                 (\A j \in Newlines(c.off) : j <= last) /\ c.col = c.off - last

(* The tokens that hold a byte.                                            *)
Holding(i) == {k \in 1..Len(tokens) : tokens[k].from <= i /\ i < tokens[k].to}

(* The inductive invariants: the cursor and the start of the token in      *)
(* progress are right too; which bytes the tokens hold, without numbers.   *)
RightInv == Right(cur) /\ Right(Began) /\ PositionsRight

TiledInv ==
  errors = <<>> =>
    \A i \in 1..(cur.off - 1) :
      \/ Began.off <= i /\ Holding(i) = {}
      \/ i < Began.off /\ Holding(i) = {} /\ src[i] \in Spaces
      \/ i < Began.off /\ \E k \in 1..Len(tokens) : Holding(i) = {k}
-----------------------------------------------------------------------------
(* Places.                                                                 *)

LEMMA NewlinesFinite ==
  ASSUME NEW i \in Nat
  PROVE  Newlines(i) \in SUBSET Nat /\ IsFiniteSet(Newlines(i)) /\ Cardinality(Newlines(i)) \in Nat
<1>1. Newlines(i) \subseteq 1..(i - 1) /\ i - 1 \in Int
  BY DEF Newlines
<1>2. IsFiniteSet(1..(i - 1))
  BY <1>1, FS_Interval
<1>3. IsFiniteSet(Newlines(i))
  BY <1>1, <1>2, FS_Subset
<1> QED BY <1>1, <1>3, FS_CardinalityType

LEMMA AdvRight ==
  ASSUME Readable, NEW c, Place(c), Right(c)
  PROVE  Right(Adv(c))
<1>1. c.off \in Nat /\ c.line \in Nat /\ c.col \in Nat /\ Len(src) \in Nat /\ 1 <= c.off
  BY DEF Place, Position, Readable
<1>2. CASE Eof(c)
  BY <1>2 DEF Adv
<1>3. CASE ~Eof(c) /\ src[c.off] = "nl"
  <2>1. Adv(c) = [off |-> c.off + 1, line |-> c.line + 1, col |-> 1]
    BY <1>3 DEF Adv
  <2>2. Newlines(c.off + 1) = Newlines(c.off) \cup {c.off}
    BY <1>1, <1>3 DEF Newlines
  <2>3. c.off \notin Newlines(c.off)
    BY <1>1 DEF Newlines
  <2>4. Cardinality(Newlines(c.off + 1)) = Cardinality(Newlines(c.off)) + 1
    BY <1>1, <2>2, <2>3, NewlinesFinite, FS_AddElement
  <2>5. Cardinality(Newlines(c.off)) \in Nat
    BY <1>1, NewlinesFinite
  <2>6. c.off \in Newlines(c.off + 1) /\ \A j \in Newlines(c.off + 1) : j <= c.off
    BY <1>1, <2>2 DEF Newlines
  <2>7. Adv(c).col = Adv(c).off - c.off
    BY <1>1, <2>1
  <2> QED BY <1>1, <2>1, <2>4, <2>5, <2>6, <2>7 DEF Right
<1>4. CASE ~Eof(c) /\ src[c.off] # "nl"
  <2>1. Adv(c).off = c.off + 1 /\ Adv(c).line = c.line /\ Adv(c).col = c.col + 1
    BY <1>4 DEF Adv
  <2>2. Newlines(c.off + 1) = Newlines(c.off)
    BY <1>1, <1>4 DEF Newlines
  <2>3. PICK last \in {0} \cup Newlines(c.off) :
          (\A j \in Newlines(c.off) : j <= last) /\ c.col = c.off - last
    BY DEF Right
  <2>4. last \in Nat
    <3>1. Newlines(c.off) \in SUBSET Nat
      BY <1>1, NewlinesFinite
    <3> QED BY <3>1
  <2>5. Adv(c).col = Adv(c).off - last
    BY <1>1, <2>1, <2>3, <2>4
  <2> QED BY <2>1, <2>2, <2>3, <2>5 DEF Right
<1> QED BY <1>2, <1>3, <1>4

LEMMA RightMeans ==
  ASSUME NEW c, c.off \in Nat, Right(c)
  PROVE  c.col = c.off - Max({0} \cup Newlines(c.off))
<1>1. PICK last \in {0} \cup Newlines(c.off) : (\A j \in Newlines(c.off) : j <= last) /\ c.col = c.off - last
  BY DEF Right
<1>2. \A j \in {0} \cup Newlines(c.off) : j \in Nat /\ last >= j /\ (j >= last => j = last)
  BY <1>1, NewlinesFinite
<1>3. Max({0} \cup Newlines(c.off)) = last
  BY <1>1, <1>2 DEF Max
<1> QED BY <1>1, <1>3

(* A place that reading may come to from the cursor.                       *)
OnFrom(c) == Place(c) /\ cur.off <= c.off /\ (Right(cur) => Right(c))

LEMMA OnwardBy ==
  ASSUME LexerInv, NEW c, OnFrom(c)
  PROVE  OnFrom(Adv(c)) /\ OnFrom(PastChar(c))
<1>1. ASSUME NEW d, OnFrom(d) PROVE OnFrom(Adv(d))
  <2>1. Place(d) /\ Readable
    BY <1>1 DEF OnFrom, LexerInv
  <2>2. Place(Adv(d)) /\ d.off <= Adv(d).off
    BY <2>1, AdvOK
  <2>3. cur.off \in Nat /\ d.off \in Nat /\ Adv(d).off \in Nat
    BY <2>1, <2>2, Ahead DEF Place, Position
  <2> QED BY <1>1, <2>1, <2>2, <2>3, AdvRight DEF OnFrom
<1> QED BY <1>1 DEF PastChar

LEMMA Onward ==
  ASSUME LexerInv
  PROVE  /\ OnFrom(cur) /\ OnFrom(Adv(cur)) /\ OnFrom(Adv(Adv(cur))) /\ OnFrom(Adv(Adv(Adv(cur))))
         /\ OnFrom(PastChar(cur)) /\ OnFrom(PastChar(Adv(cur)))
<1>1. OnFrom(cur)
  BY Ahead DEF OnFrom
<1> QED BY <1>1, OnwardBy

LEMMA OnwardPastOpening ==
  ASSUME LexerInv, GlslAhead
  PROVE  OnFrom([cur EXCEPT !.off = @ + 6, !.col = @ + 6])
<1> DEFINE c == [cur EXCEPT !.off = @ + 6, !.col = @ + 6]
<1>1. cur \in Position /\ cur.off \in Nat /\ cur.col \in Nat /\ 1 <= cur.off /\ Len(src) \in Nat /\ Place(cur)
  BY Ahead DEF Place, Position
<1>2. c \in Position /\ c.off = cur.off + 6 /\ c.line = cur.line /\ c.col = cur.col + 6
  BY <1>1, FurtherOn DEF Position
<1>3. \A i \in 1..6 : cur.off + i - 1 <= Len(src) /\ src[cur.off + i - 1] # "nl"
  <2>1. \A i \in 1..6 : GlslOpening[i] \notin {"nl", "eof"}
    BY DEF GlslOpening
  <2> QED BY <2>1, <1>1 DEF GlslAhead, PeekAt
<1> HIDE DEF c
<1>4. Newlines(c.off) = Newlines(cur.off)
  <2>1. \A j \in 1..(c.off - 1) : j \in 1..(cur.off - 1) \/ \E i \in 1..6 : j = cur.off + i - 1
    <3> SUFFICES ASSUME NEW j \in 1..(c.off - 1), j \notin 1..(cur.off - 1)
                 PROVE  \E i \in 1..6 : j = cur.off + i - 1
      OBVIOUS
    <3>1. cur.off <= j /\ j <= cur.off + 5 /\ j \in Int
      BY <1>1, <1>2
    <3>2. j - cur.off + 1 \in 1..6 /\ j = cur.off + (j - cur.off + 1) - 1
      BY <1>1, <3>1, SMTT(40)
    <3> QED BY <3>2
  <2>2. 1..(cur.off - 1) \subseteq 1..(c.off - 1)
    BY <1>1, <1>2
  <2> QED BY <1>3, <2>1, <2>2 DEF Newlines
<1>5. Right(cur) => Right(c)
  <2> SUFFICES ASSUME Right(cur) PROVE Right(c)
    OBVIOUS
  <2>1. PICK last \in {0} \cup Newlines(cur.off) :
          (\A j \in Newlines(cur.off) : j <= last) /\ cur.col = cur.off - last
    BY DEF Right
  <2>2. last \in Nat
    BY <1>1, NewlinesFinite, SMTT(40)
  <2>3. c.col = c.off - last
    BY <1>1, <1>2, <2>1, <2>2
  <2> QED BY <1>2, <1>4, <2>1, <2>3 DEF Right
<1>6. cur.off + 5 <= Len(src)
  <2>1. cur.off + 6 - 1 <= Len(src)
    BY <1>3
  <2> QED BY <1>1, <2>1
<1>7. Place(c) /\ cur.off <= c.off
  BY <1>1, <1>2, <1>6 DEF Place
<1> QED BY <1>5, <1>7 DEF OnFrom, c
-----------------------------------------------------------------------------
(* What a step does to the tokens: it passes a space, goes on in the token *)
(* in progress or a new one, completes a token, meets an error, or ends.   *)

Skips == /\ mode = "next" /\ Peek \in Spaces /\ mode' = "next" /\ cur' = Adv(cur)
         /\ tokens' = tokens /\ errors' = errors

Goes == /\ mode \notin {"done"} /\ mode' \notin {"next", "done"} /\ start' = Began
        /\ tokens' = tokens /\ errors' = errors

Gives == /\ mode' = "next" /\ errors' = errors
         /\ \E kind \in TokenKinds : tokens' = Append(tokens, Token(kind, Began, cur'))

Fails == mode' = "next" /\ errors' # <<>> /\ tokens' = tokens

Ends == /\ mode = "next" /\ mode' = "done" /\ cur' = cur /\ errors' = errors
        /\ tokens' = Append(tokens, Token("eof", Began, cur'))

Steps == /\ src' = src /\ OnFrom(cur')
         /\ Skips \/ Goes \/ Gives \/ Fails \/ Ends

LEMMA BeganIs ==
  /\ mode \in {"next", "done"} => Began = cur
  /\ mode \notin {"next", "done"} => Began = start
BY DEF Began

LEMMA ReadShape ==
  ASSUME NEW c, OnFrom(c), NEW m, m \notin {"next", "done"}, mode # "done", Read(c, m),
         (mode = "next" /\ start' = cur) \/ (mode # "next" /\ start' = start)
  PROVE  Steps
<1>1. start' = Began
  BY BeganIs
<1> QED BY <1>1 DEF Read, Steps, Goes

LEMMA OpensShape ==
  ASSUME NEW c, OnFrom(c), NEW m, m \notin {"next", "done"}, mode = "next", Opens(c, m)
  PROVE  Steps
BY ReadShape DEF Opens

LEMMA WithinShape ==
  ASSUME NEW c, OnFrom(c), NEW m, m \notin {"next", "done"}, mode \notin {"next", "done"},
         Read(c, m), start' = start
  PROVE  Steps
BY ReadShape

LEMMA PushShape ==
  ASSUME NEW c, OnFrom(c), NEW kind \in TokenKinds, NEW from, Push(kind, from, c),
         (mode = "next" /\ from = cur) \/ (mode \notin {"next", "done"} /\ from = start)
  PROVE  Steps
<1>1. from = Began
  BY BeganIs
<1> QED BY <1>1 DEF Push, Steps, Gives

LEMMA ErrorShape ==
  ASSUME LexerInv, NEW c, OnFrom(c), NEW from, Error(from, c)
  PROVE  Steps
<1>1. errors' # <<>>
  BY DEF Error, LexerInv, LexerTypeOK
<1>2. OnFrom(Adv(c))
  BY OnwardBy
<1> QED BY <1>1, <1>2 DEF Error, Steps, Fails

LEMMA EscapeShape ==
  ASSUME LexerInv, NEW c, OnFrom(c), NEW m \in Literals, mode # "done", Escape(c, m)
  PROVE  Steps
<1> DEFINE d == Adv(c)
           e == Adv(d)
           within == IF mode = "next" THEN start' = cur ELSE UNCHANGED start
<1>1. OnFrom(d) /\ OnFrom(e) /\ OnFrom(Adv(e))
  BY OnwardBy
<1>2. \/ Read(Adv(d), m) /\ within
      \/ Error(c.off, d)
      \/ Error(d.off, e)
      \/ Read(Adv(e), "unicode") /\ within
  BY DEF Escape
<1>3. within => (mode = "next" /\ start' = cur) \/ (mode # "next" /\ start' = start)
  OBVIOUS
<1>4. m \notin {"next", "done"}
  BY DEF Literals
<1> HIDE DEF within
<1>5. CASE Read(Adv(d), m) /\ within
  BY <1>1, <1>3, <1>4, <1>5, ReadShape
<1>6. CASE Read(Adv(e), "unicode") /\ within
  BY <1>1, <1>3, <1>6, ReadShape
<1> HIDE DEF d, e
<1>7. CASE Error(c.off, d)
  BY <1>1, <1>7, ErrorShape
<1>8. CASE Error(d.off, e)
  BY <1>1, <1>8, ErrorShape
<1> QED BY <1>2, <1>5, <1>6, <1>7, <1>8
LEMMA Kinds ==
  /\ Delimiters \cup {"nl", ".", ":", "=", "|", "_", "{", "[", "->", "..", "-", "operator", "lower", "upper", "char",
                      "string", "multi", "glsl", "comment", "block", "doc"} \subseteq TokenKinds
  /\ {"integer", "fraction", "exponent", "hex"} \subseteq TokenKinds
BY DEF TokenKinds

LEMMA DispatchShape ==
  ASSUME LexerInv,
         \/ SkipSpace \/ EndOfSource \/ OneByteToken \/ TwoByteToken \/ OpenBracket
         \/ StartWord \/ StartOperator \/ StartNumber \/ StartString
         \/ StartLineComment \/ StartBlockComment \/ StartUnexpected
  PROVE  Steps
<1>1. CASE SkipSpace
  BY <1>1, Onward DEF SkipSpace, Read, Steps, Skips
<1>2. CASE EndOfSource
  BY <1>2, Onward, BeganIs DEF EndOfSource, Steps, Ends
<1>3. CASE OneByteToken
  <2>1. Peek \in TokenKinds /\ mode = "next" /\ Push(Peek, cur, Adv(cur))
    BY <1>3, Kinds DEF OneByteToken, OneByte
  <2> QED BY <2>1, Onward, PushShape
<1>4. CASE TwoByteToken
  <2> DEFINE kind == CASE Peek = "-" -> "->" [] Peek = "." -> ".." [] OTHER -> "operator"
  <2>1. mode = "next" /\ Push(kind, cur, Adv(Adv(cur)))
    BY <1>4 DEF TwoByteToken
  <2>2. kind \in TokenKinds
    BY DEF TokenKinds
  <2> HIDE DEF kind
  <2> QED BY <2>1, <2>2, Onward, PushShape
<1>5. CASE OpenBracket
  <2>1. CASE mode = "next" /\ Push("[", cur, Adv(cur))
    BY <2>1, Kinds, Onward, PushShape
  <2>2. CASE mode = "next" /\ GlslAhead /\ Opens([cur EXCEPT !.off = @ + 6, !.col = @ + 6], "glsl")
    BY <2>2, OnwardPastOpening, OpensShape
  <2> QED BY <1>5, <2>1, <2>2 DEF OpenBracket
<1>6. CASE StartWord
  BY <1>6, Onward, OpensShape DEF StartWord
<1>7. CASE StartOperator
  BY <1>7, Onward, OpensShape DEF StartOperator
<1>8. CASE StartNumber
  BY <1>8, Onward, OpensShape DEF StartNumber
<1>9. CASE StartString
  BY <1>9, Onward, OpensShape DEF StartString
<1>10. CASE StartLineComment
  BY <1>10, Onward, OpensShape DEF StartLineComment
<1>11. CASE StartBlockComment
  BY <1>11, Onward, ReadShape DEF StartBlockComment
<1>12. CASE StartUnexpected
  BY <1>12, Onward, OpensShape DEF StartUnexpected
<1> QED BY <1>1, <1>2, <1>3, <1>4, <1>5, <1>6, <1>7, <1>8, <1>9, <1>10, <1>11, <1>12

LEMMA WordShape ==
  ASSUME LexerInv,
         \/ MoreOfTheSame \/ EndWord \/ EndOperator
         \/ MoreDigits \/ ReadPoint \/ ReadExponent \/ EndNumber
  PROVE  Steps
<1>1. CASE MoreOfTheSame
  <2>1. mode \in {"word", "operator"} /\ Read(Adv(cur), mode) /\ start' = start
    BY <1>1 DEF MoreOfTheSame, Same, InToken
  <2> QED BY <2>1, Onward, WithinShape
<1>2. CASE EndWord
  <2> DEFINE kind == IF src[start.off] \in Upper THEN "upper" ELSE "lower"
  <2>1. mode = "word" /\ Push(kind, start, cur)
    BY <1>2 DEF EndWord
  <2>2. kind \in TokenKinds
    BY DEF TokenKinds
  <2> HIDE DEF kind
  <2> QED BY <2>1, <2>2, Onward, PushShape
<1>3. CASE EndOperator
  <2> DEFINE kind == IF TextFrom(start.off) = <<"-">> THEN "-" ELSE "operator"
  <2>1. mode = "operator" /\ Push(kind, start, cur)
    BY <1>3 DEF EndOperator
  <2>2. kind \in TokenKinds
    BY DEF TokenKinds
  <2> HIDE DEF kind
  <2> QED BY <2>1, <2>2, Onward, PushShape
<1>4. CASE MoreDigits
  <2>1. mode \in {"integer", "fraction", "exponent", "hex"} /\ Read(Adv(cur), mode) /\ start' = start
    BY <1>4 DEF MoreDigits, Digit, InToken
  <2> QED BY <2>1, Onward, WithinShape
<1>5. CASE ReadPoint
  <2>1. mode = "integer" /\ Read(Adv(cur), "fraction") /\ start' = start
    BY <1>5 DEF ReadPoint, Point, InToken
  <2> QED BY <2>1, Onward, WithinShape
<1>6. CASE ReadExponent
  <2> DEFINE c == IF Signed(Adv(cur)) THEN Adv(Adv(cur)) ELSE Adv(cur)
  <2>1. mode \in {"integer", "fraction"} /\ Read(c, "exponent") /\ start' = start
    BY <1>6 DEF ReadExponent, Exponent
  <2>2. OnFrom(c)
    BY Onward
  <2> HIDE DEF c
  <2> QED BY <2>1, <2>2, WithinShape
<1>7. CASE EndNumber
  <2>1. mode \in {"integer", "fraction", "exponent", "hex"}
    BY <1>7 DEF EndNumber
  <2>2. CASE Push(mode, start, cur)
    BY <2>1, <2>2, Kinds, Onward, PushShape
  <2>3. CASE Error(start.off, cur)
    BY <2>3, Onward, ErrorShape
  <2> QED BY <1>7, <2>2, <2>3 DEF EndNumber
<1> QED BY <1>1, <1>2, <1>3, <1>4, <1>5, <1>6, <1>7

LEMMA LiteralShape ==
  ASSUME LexerInv, UnicodeDigit \/ EndUnicode \/ StartChar \/ EndChar \/ InString \/ InMultiline
  PROVE  Steps
<1>1. CASE UnicodeDigit
  <2>1. mode = "unicode" /\ Read(Adv(cur), "unicode") /\ start' = start
    BY <1>1 DEF UnicodeDigit, InToken
  <2> QED BY <2>1, Onward, WithinShape
<1>2. CASE EndUnicode
  <2>1. mode = "unicode" /\ back \notin {"next", "done"}
    BY <1>2 DEF EndUnicode, LexerInv, InEscape, Literals
  <2>2. CASE Read(Adv(cur), back) /\ start' = start
    BY <2>1, <2>2, Onward, WithinShape
  <2>3. CASE Error(mark - 2, Adv(cur)) \/ Error(mark - 2, cur)
    BY <2>3, Onward, ErrorShape
  <2> QED BY <1>2, <2>2, <2>3 DEF EndUnicode, InToken
<1>3. CASE StartChar
  <2>1. mode = "next" /\ "charEnd" \in Literals
    BY <1>3 DEF StartChar, Literals
  <2>2. CASE Escape(Adv(cur), "charEnd")
    BY <2>1, <2>2, Onward, EscapeShape
  <2>3. CASE Error(cur.off, Adv(cur))
    BY <2>3, Onward, ErrorShape
  <2>4. CASE Opens(PastChar(Adv(cur)), IF Panics(Adv(cur)) THEN "panic" ELSE "charEnd")
    BY <2>1, <2>4, Onward, OpensShape
  <2> QED BY <1>3, <2>2, <2>3, <2>4 DEF StartChar
<1>4. CASE EndChar
  <2>1. CASE mode = "charEnd" /\ Push("char", start, Adv(cur))
    BY <2>1, Kinds, Onward, PushShape
  <2>2. CASE Error(start.off, cur)
    BY <2>2, Onward, ErrorShape
  <2> QED BY <1>4, <2>1, <2>2 DEF EndChar
<1>5. CASE InString \/ InMultiline
  <2>1. mode \in {"string", "multi"} /\ mode \in Literals
    BY <1>5 DEF InString, InMultiline, Literals
  <2>2. \/ Error(start.off, cur)
        \/ Push("string", start, Adv(cur)) \/ Push("multi", start, Adv(Adv(Adv(cur))))
        \/ Escape(cur, mode)
        \/ Read(PastChar(cur), IF Panics(cur) THEN "panic" ELSE mode) /\ start' = start
        \/ Read(Adv(cur), mode) /\ start' = start
    BY <1>5 DEF InString, InMultiline, InToken
  <2>3. CASE Error(start.off, cur)
    BY <2>3, Onward, ErrorShape
  <2>4. CASE Push("string", start, Adv(cur)) \/ Push("multi", start, Adv(Adv(Adv(cur))))
    BY <2>1, <2>4, Kinds, Onward, PushShape
  <2>5. CASE Escape(cur, mode)
    BY <2>1, <2>5, Onward, EscapeShape
  <2>6. CASE \/ Read(PastChar(cur), IF Panics(cur) THEN "panic" ELSE mode) /\ start' = start
             \/ Read(Adv(cur), mode) /\ start' = start
    BY <2>1, <2>6, Onward, WithinShape
  <2> QED BY <2>2, <2>3, <2>4, <2>5, <2>6
<1> QED BY <1>1, <1>2, <1>3, <1>4, <1>5

LEMMA CommentShape ==
  ASSUME LexerInv, InLineComment \/ InBlockComment \/ InGlsl \/ InUnexpected
  PROVE  Steps
<1>1. mode \in {"line", "block", "glsl", "unexpected"}
  BY DEF InLineComment, InBlockComment, InGlsl, InUnexpected
<1> DEFINE c == Adv(Adv(cur))
           kind == IF src[start.off + 2] = "|" THEN "doc" ELSE "block"
<1>2. \/ Read(Adv(cur), mode) /\ start' = start
      \/ Read(c, mode) /\ start' = start
      \/ Push("comment", start, cur) \/ Push("glsl", start, c) \/ Push(kind, start, c)
      \/ Error(start.off, cur) \/ Error(start.off, PastChar(cur))
  <2>1. CASE InLineComment
    BY <2>1 DEF InLineComment, InToken
  <2>2. CASE InBlockComment
    BY <2>2 DEF InBlockComment, InToken
  <2>3. CASE InGlsl
    BY <2>3 DEF InGlsl, InToken
  <2>4. CASE InUnexpected
    BY <2>4 DEF InUnexpected, InToken
  <2> QED BY <2>1, <2>2, <2>3, <2>4
<1>3. kind \in TokenKinds
  BY DEF TokenKinds
<1>4. OnFrom(c)
  BY Onward
<1> HIDE DEF c, kind
<1>5. CASE Read(Adv(cur), mode) /\ start' = start
  BY <1>1, <1>5, Onward, WithinShape
<1>6. CASE Read(c, mode) /\ start' = start
  BY <1>1, <1>4, <1>6, WithinShape
<1>7. CASE Push("comment", start, cur) \/ Push("glsl", start, c) \/ Push(kind, start, c)
  BY <1>1, <1>3, <1>4, <1>7, Kinds, Onward, PushShape
<1>8. CASE Error(start.off, cur) \/ Error(start.off, PastChar(cur))
  BY <1>8, Onward, ErrorShape
<1> QED BY <1>2, <1>5, <1>6, <1>7, <1>8

LEMMA StepShapes == LexerInv /\ LexerNext => Steps
BY DispatchShape, WordShape, LiteralShape, CommentShape DEF LexerNext
-----------------------------------------------------------------------------
LEMMA BeganBefore ==
  ASSUME LexerInv
  PROVE  /\ Began \in Position /\ Began.off \in Nat /\ Began.off <= cur.off /\ cur.off \in Nat
         /\ \A k \in 1..Len(tokens) : tokens[k].to <= Began.off
         /\ tokens \in Seq(Lexeme) /\ Len(tokens) \in Nat
         /\ \A k \in 1..Len(tokens) : tokens[k].from \in Nat /\ tokens[k].to \in Nat
<1>1. cur.off \in Nat /\ start.off \in Nat /\ cur \in Position /\ start \in Position
      /\ start.off <= cur.off /\ tokens \in Seq(Lexeme)
  BY DEF LexerInv, LexerTypeOK, Position
<1>2. \A k \in 1..Len(tokens) : tokens[k].to <= Began.off
  BY DEF LexerInv, TokensInOrder, Began
<1> QED BY <1>1, <1>2, TokenTypes DEF Began

(* The tokens after one more is given.                                     *)
LEMMA OneMore ==
  ASSUME LexerInv, NEW t, tokens' = Append(tokens, t)
  PROVE  /\ Len(tokens') = Len(tokens) + 1
         /\ \A k \in 1..Len(tokens) : tokens'[k] = tokens[k]
         /\ tokens'[Len(tokens) + 1] = t
         /\ \A k \in 1..Len(tokens') : k \in 1..Len(tokens) \/ k = Len(tokens) + 1
         /\ 1..Len(tokens) \subseteq 1..Len(tokens') /\ Len(tokens) + 1 \in 1..Len(tokens')
         /\ Len(tokens) + 1 \notin 1..Len(tokens)
<1>1. tokens \in Seq(Lexeme) /\ Len(tokens) \in Nat
  BY BeganBefore
<1>2. Len(tokens') = Len(tokens) + 1 /\ (\A k \in 1..Len(tokens) : tokens'[k] = tokens[k])
      /\ tokens'[Len(tokens) + 1] = t
  BY <1>1
<1> QED BY <1>1, <1>2

LEMMA RightStep ==
  ASSUME LexerInv, RightInv, Steps
  PROVE  RightInv'
<1> USE DEF Steps
<1>1. Right(cur') /\ \A i : Newlines(i)' = Newlines(i)
  BY DEF RightInv, OnFrom, Newlines
<1>2. Right(cur)'
  BY <1>1 DEF Right
<1>3. Right(Began)'
  <2>1. (Began' = cur' \/ Began' = Began)
    BY BeganIs DEF Began, Skips, Goes, Gives, Fails, Ends
  <2> QED BY <1>1, <2>1 DEF RightInv, Right
<1>4. PositionsRight'
  <2>1. CASE tokens' = tokens
    BY <1>1, <2>1 DEF RightInv, PositionsRight
  <2>2. CASE \E kind : tokens' = Append(tokens, Token(kind, Began, cur'))
    <3>1. PICK kind : tokens' = Append(tokens, Token(kind, Began, cur'))
      BY <2>2
    <3> DEFINE t == Token(kind, Began, cur')
    <3>2. t.from = Began.off /\ t.line = Began.line /\ t.col = Began.col
      BY DEF Token
    <3>3. Began.off \in Nat
      BY BeganBefore
    <3>4. t.line = 1 + Cardinality(Newlines(t.from)) /\ t.col = t.from - Max({0} \cup Newlines(t.from))
      BY <3>2, <3>3, RightMeans DEF RightInv, Right
    <3> HIDE DEF t
    <3>5. tokens' = Append(tokens, t)
      BY <3>1 DEF t
    <3> DEFINE Fine(u) == /\ u.line = 1 + Cardinality(Newlines(u.from))
                          /\ u.col = u.from - Max({0} \cup Newlines(u.from))
    <3>6. \A k \in 1..Len(tokens) : Fine(tokens[k])
      BY DEF RightInv, PositionsRight
    <3>7. Fine(t)
      BY <3>4
    <3>8. (\A k \in 1..Len(tokens') : Fine(tokens'[k])) => PositionsRight'
      BY <1>1 DEF PositionsRight
    <3> HIDE DEF Fine
    <3> QED BY <3>5, <3>6, <3>7, <3>8, OneMore
  <2> QED BY <2>1, <2>2 DEF Skips, Goes, Gives, Fails, Ends
<1> QED BY <1>2, <1>3, <1>4 DEF RightInv

LEMMA RightInit == LexerInit => RightInv
<1> SUFFICES ASSUME LexerInit PROVE RightInv
  OBVIOUS
<1>1. cur.off = 1 /\ cur.line = 1 /\ cur.col = 1 /\ mode = "next" /\ tokens = <<>>
  BY DEF LexerInit, Fresh
<1>2. Newlines(1) = {}
  BY DEF Newlines
<1>3. Cardinality(Newlines(1)) = 0
  BY <1>2, FS_EmptySet
<1>4. Right(cur)
  BY <1>1, <1>2, <1>3 DEF Right
<1> QED BY <1>1, <1>4 DEF RightInv, Began, PositionsRight

LEMMA RightInductive == LexerInv /\ RightInv /\ [LexerNext]_lexerVars => RightInv'
<1>1. ASSUME LexerInv, RightInv, UNCHANGED lexerVars PROVE RightInv'
  <2>1. src' = src /\ cur' = cur /\ mode' = mode /\ start' = start /\ tokens' = tokens
    BY <1>1 DEF lexerVars
  <2> QED BY <1>1, <2>1, ZenonT(40) DEF RightInv, Right, Began, PositionsRight, Newlines
<1> QED BY <1>1, StepShapes, RightStep

(* The positions that layout is decided by (lexer.rs advance, and what     *)
(* lex_number, lex_string and the comment loops leave as the cursor): line *)
(* and column of every token count the newlines before it, wherever those  *)
(* stand, and the bytes since the last one.                                *)
THEOREM PositionsAreRight == LexerSpec => []PositionsRight
<1>1. RightInv => PositionsRight
  BY DEF RightInv
<1> QED BY <1>1, RightInit, RightInductive, LexerInvariant, PTL DEF LexerSpec
-----------------------------------------------------------------------------
(* No byte at or after the start of the token in progress is in a token.   *)
LEMMA NoneHolds ==
  ASSUME LexerInv, NEW i \in Nat, Began.off <= i
  PROVE  Holding(i) = {}
<1> SUFFICES ASSUME NEW k \in 1..Len(tokens) PROVE ~(i < tokens[k].to)
  BY DEF Holding
<1> QED BY BeganBefore

LEMMA TiledStep ==
  ASSUME LexerInv, TiledInv, Steps
  PROVE  TiledInv'
<1> USE DEF Steps
<1> SUFFICES ASSUME errors' = <<>>, NEW i \in 1..(cur'.off - 1)
             PROVE  \/ Began'.off <= i /\ Holding(i)' = {}
                    \/ i < Began'.off /\ Holding(i)' = {} /\ src[i] \in Spaces
                    \/ i < Began'.off /\ \E k \in 1..Len(tokens') : Holding(i)' = {k}
  BY DEF TiledInv
<1>1. cur'.off \in Nat /\ cur.off <= cur'.off /\ i \in Nat /\ i < cur'.off /\ 1 <= i
  BY DEF OnFrom, Place, Position
<1>2. cur.off \in Nat /\ Began.off \in Nat /\ Began.off <= cur.off
  BY BeganBefore
<1>3. Place(cur) /\ Readable
  BY Ahead
<1>4. errors = <<>> =>
        \/ Began.off <= i /\ Holding(i) = {}
        \/ i < Began.off /\ Holding(i) = {} /\ src[i] \in Spaces
        \/ i < Began.off /\ \E k \in 1..Len(tokens) : Holding(i) = {k}
  <2>1. i < cur.off => i \in 1..(cur.off - 1)
    BY <1>1, <1>2
  <2> QED BY <1>1, <1>2, <2>1, NoneHolds DEF TiledInv
<1>5. CASE Skips
  <2>1. Began = cur /\ Began' = cur' /\ errors = <<>> /\ tokens' = tokens /\ cur' = Adv(cur) /\ Peek \in Spaces
    BY <1>5, BeganIs DEF Skips, Began
  <2>2. i = cur.off => src[i] \in Spaces
    BY <2>1 DEF Peek, PeekAt, Spaces
  <2>3. i <= cur.off
    BY <1>1, <1>2, <1>3, <2>1, AdvOK
  <2>4. Holding(i)' = Holding(i)
    BY <2>1 DEF Holding
  <2> QED BY <1>1, <1>2, <1>4, <2>1, <2>2, <2>3, <2>4
<1>6. CASE Goes
  <2>1. Began' = Began /\ errors = <<>> /\ tokens' = tokens
    BY <1>6 DEF Goes, Began
  <2>2. Holding(i)' = Holding(i)
    BY <2>1 DEF Holding
  <2> QED BY <1>4, <2>1, <2>2
<1>7. CASE Gives
  <2>1. PICK kind : tokens' = Append(tokens, Token(kind, Began, cur'))
    BY <1>7 DEF Gives
  <2> DEFINE t == Token(kind, Began, cur')
             n == Len(tokens) + 1
  <2>2. t.from = Began.off /\ t.to = cur'.off
    BY DEF Token
  <2> HIDE DEF t
  <2>3. tokens' = Append(tokens, t)
    BY <2>1 DEF t
  <2>4. Began' = cur' /\ errors = <<>>
    BY <1>7 DEF Gives, Began
  <2>5. Holding(i)' = Holding(i) \cup (IF Began.off <= i THEN {n} ELSE {})
    BY <1>1, <2>2, <2>3, OneMore DEF Holding
  <2>6. n \in 1..Len(tokens') /\ 1..Len(tokens) \subseteq 1..Len(tokens')
    BY <2>3, OneMore
  <2> HIDE DEF n
  <2>7. CASE Began.off <= i
    <3>1. Holding(i)' = {n}
      BY <1>1, <2>5, <2>7, NoneHolds
    <3> QED BY <1>1, <2>4, <2>6, <3>1
  <2>8. CASE ~(Began.off <= i)
    BY <1>1, <1>4, <2>4, <2>5, <2>6, <2>8
  <2> QED BY <2>7, <2>8
<1>8. CASE Fails
  BY <1>8 DEF Fails
<1>9. CASE Ends
  <2> DEFINE t == Token("eof", Began, cur')
  <2>1. Began = cur /\ Began' = cur /\ cur' = cur /\ errors = <<>> /\ tokens' = Append(tokens, t)
    BY <1>9, BeganIs DEF Ends, Began
  <2>2. t.from = cur.off /\ t.to = cur.off
    BY <2>1 DEF Token
  <2> HIDE DEF t
  <2>3. Holding(i)' = Holding(i)
    BY <1>1, <1>2, <2>1, <2>2, OneMore DEF Holding
  <2>4. 1..Len(tokens) \subseteq 1..Len(tokens')
    BY <2>1, OneMore
  <2> QED BY <1>4, <2>1, <2>3, <2>4
<1> QED BY <1>5, <1>6, <1>7, <1>8, <1>9

LEMMA TiledInit == LexerInit => TiledInv
<1> SUFFICES ASSUME LexerInit PROVE TiledInv
  OBVIOUS
<1>1. cur.off = 1
  BY DEF LexerInit, Fresh
<1>2. 1..(cur.off - 1) = {}
  BY <1>1
<1> QED BY <1>2 DEF TiledInv

LEMMA TiledInductive == LexerInv /\ TiledInv /\ [LexerNext]_lexerVars => TiledInv'
<1>1. ASSUME LexerInv, TiledInv, UNCHANGED lexerVars PROVE TiledInv'
  <2>1. src' = src /\ cur' = cur /\ mode' = mode /\ start' = start /\ tokens' = tokens /\ errors' = errors
    BY <1>1 DEF lexerVars
  <2>2. Began' = Began /\ \A i : Holding(i)' = Holding(i)
    BY <2>1 DEF Began, Holding
  <2> QED BY <1>1, <2>1, <2>2 DEF TiledInv
<1> QED BY <1>1, StepShapes, TiledStep

LEMMA TiledMeans == LexerInv /\ TiledInv => Tiled
<1> SUFFICES ASSUME LexerInv, TiledInv, errors = <<>>, NEW i \in 1..(cur.off - 1)
             PROVE  \/ InProgress(i) /\ Holding(i) = {}
                    \/ ~InProgress(i) /\ Cardinality(Holding(i)) = 1
                    \/ ~InProgress(i) /\ Holding(i) = {} /\ src[i] \in Spaces
  BY DEF Tiled, Holding
<1>1. InProgress(i) <=> Began.off <= i
  <2>1. CASE mode \in {"next", "done"}
    BY <2>1, BeganIs, BeganBefore DEF InProgress
  <2>2. CASE mode \notin {"next", "done"}
    BY <2>2, BeganIs, BeganBefore DEF InProgress
  <2> QED BY <2>1, <2>2
<1>2. i < Began.off <=> ~(Began.off <= i)
  BY BeganBefore
<1>3. \A k : Cardinality({k}) = 1
  BY FS_Singleton
<1> QED BY <1>1, <1>2, <1>3 DEF TiledInv

(* tokenize (lexer.rs:56-76) loses nothing of a text it accepts: as long   *)
(* as no error is met every byte passed is in exactly one token, or a      *)
(* space between tokens.                                                   *)
THEOREM TextIsTiled == LexerSpec => []Tiled
BY TiledInit, TiledInductive, TiledMeans, LexerInvariant, PTL DEF LexerSpec
=============================================================================
