---------------------------- MODULE LexerSafety ----------------------------
(***************************************************************************)
(* What must hold of the tokens while a text is read, whatever the text.   *)
(***************************************************************************)
EXTENDS Lexer, FiniteSets, FiniteSetsExt

LexerTypeOK ==
  /\ src \in Seq(Bytes)
  /\ cur \in Position /\ start \in Position
  /\ mode \in Modes /\ back \in Modes
  /\ depth \in Nat /\ mark \in Nat
  /\ tokens \in Seq(Lexeme) /\ errors \in Seq(Fault)

(* No slice of the text is taken inside a character: lex_char, lex_string  *)
(* and next_token take the rest of the text from wherever they have come.  *)
NoPanic == mode # "panic"

(* Tokens are given in the order of the text, none reaches into the next,  *)
(* and the one in progress starts after them, errors between or not: the   *)
(* parser takes positions for the order of nodes and comments.             *)
TokensInOrder ==
  /\ \A k \in 1..Len(tokens) : tokens[k].from <= tokens[k].to /\ tokens[k].to <= cur.off
  /\ \A k \in 1..Len(tokens) - 1 : tokens[k].to <= tokens[k + 1].from
  /\ mode \notin {"next", "done"} => \A k \in 1..Len(tokens) : tokens[k].to <= start.off

(* As long as no error is met nothing of the text is lost: every byte      *)
(* passed is in one token, or is a space between tokens.                   *)
InProgress(i) == mode \notin {"next", "done"} /\ i >= start.off

Tiled ==
  errors = <<>> =>
    \A i \in 1..(cur.off - 1) :
      LET holding == {k \in 1..Len(tokens) : tokens[k].from <= i /\ i < tokens[k].to}
      IN  \/ InProgress(i) /\ holding = {}
          \/ ~InProgress(i) /\ Cardinality(holding) = 1
          \/ ~InProgress(i) /\ holding = {} /\ src[i] \in Spaces

(* Line and column of every token are those of its first byte, after       *)
(* newlines inside comments, strings and character literals too: layout    *)
(* is decided by them.                                                     *)
Newlines(i) == {j \in 1..(i - 1) : src[j] = "nl"}

PositionsRight ==
  \A k \in 1..Len(tokens) :
    LET i == tokens[k].from
    IN  /\ tokens[k].line = 1 + Cardinality(Newlines(i))
        /\ tokens[k].col = i - Max({0} \cup Newlines(i))

(* tokenize returns on every text.                                         *)
LexerTerminates == <>(mode = "done")

(* parse_recovering `always returns a (possibly partial) AST`.             *)
AlwaysAnAst == mode = "done" => HandsOver
=============================================================================
