--------------------------- MODULE ExprInvariants ---------------------------
(***************************************************************************)
(* What the pushdown machine of the expression parser keeps invariant      *)
(* whatever the text: the types of its state, the bound on the trampoline, *)
(* and that control and stack belong together.  ExprProofs proves these.   *)
(***************************************************************************)
EXTENDS ExprParser

(* The functions that work on locals of their own, and whose frame that is. *)
Owners ==
  [binary |-> "binary", reduce |-> "binary", fold |-> "binary", args |-> "app",
   setter |-> "record", branch |-> "casePattern", letNext |-> "let", letName |-> "letArgs",
   letArgs |-> "letArgs", lambdaArgs |-> "lambda",
   ctorName |-> "ctor", atomCtor |-> "ctor", ctorArgs |-> "ctor", patternField |-> "patRecord",
   typeName |-> "typeApp", atomTypeName |-> "typeApp", typeArgs |-> "typeApp",
   typeField |-> "typeFields"]

Controls == DOMAIN Owners \cup
  {"expr", "unary", "app", "atom", "valueName", "access",
   "pattern", "consPattern", "appPattern", "atomPattern",
   "type", "typeApp", "atomType", "signature", "done", "error", "ok"}

TypeOK == /\ toks \in Seq(Token) /\ Len(toks) > 0 /\ toks[Len(toks)].kind = "eof"
          /\ p \in Cursor /\ p.pos \in 1..Len(toks)
          /\ conts \in Seq(Seq(Frame))
          /\ calls \in Seq(Frame)
          /\ ctl \in Controls
          /\ val \in Node

(* Nested expressions cost heap, not stack, and no more of it than the     *)
(* resource guard of parse_expr allows.                                    *)
DepthBound == Len(conts) <= MaxExprDepth

(* The closures that wait for an expression, and every function that can   *)
(* be given a value.                                                       *)
Holes == {"paren", "tuple", "list", "record", "ifCond", "elifCond", "then", "else",
          "caseSubject", "caseBody", "letValue", "letBody", "lambdaBody"}

Awaiting == Holes \cup
  {"binary", "neg", "app", "access", "parenNeg", "casePattern", "letSig", "letArgs", "letPattern",
   "lambda", "as", "cons", "consTail", "ctor", "patParen", "patTuple", "patList",
   "type", "arrow", "typeApp", "typeParen", "typeTuple", "typeFields", "signature"}

(* A function runs on its own locals, and every function below it waits    *)
(* for a value it knows how to resume with.                                *)
StackFits(cs, c) ==
  /\ c \in DOMAIN Owners => cs # <<>> /\ cs[Len(cs)].fn = Owners[c]
  /\ \A i \in 1..Len(cs) : i < Len(cs) \/ c \notin DOMAIN Owners => cs[i].fn \in Awaiting

(* A boxed continuation can be reopened: its innermost closure takes an    *)
(* expression, the ones around it whatever that becomes.                   *)
BoxFits(cs) == /\ cs # <<>>
               /\ cs[Len(cs)].fn \in Holes
               /\ \A i \in 1..Len(cs) : cs[i].fn \in Awaiting

(* Control never reaches a function whose locals are not on top, and a     *)
(* value is never returned to a frame that cannot take it: across all the  *)
(* boxing and reopening the parser cannot get stuck for want of one.       *)
ControlFitsStack == /\ StackFits(calls, ctl)
                    /\ \A i \in 1..Len(conts) : BoxFits(conts[i])

(* QualifyType looks back at the name just consumed.                       *)
NameConsumed == ctl \in {"typeName", "atomTypeName"} => p.pos > 1

IInv == TypeOK /\ DepthBound /\ ControlFitsStack /\ NameConsumed
=============================================================================
