--------------------------- MODULE PatternParser ---------------------------
(***************************************************************************)
(* Patterns: src/src/parse/pattern.rs, one action per function, and one    *)
(* per place where a function resumes after a nested pattern.  Patterns    *)
(* claim no comments: what they skip stays in the pending buffer.          *)
(***************************************************************************)
EXTENDS ParserState

PatternStarts == {"_", "lower", "upper", "number", "text", "-", "(", "{", "["}

(* parse_pattern: `as` binds loosest.                                      *)
ParsePattern == /\ ctl = "pattern"
                /\ Goto(p, Append(calls, New("as", Here(p))), "consPattern")

AfterAsOperand ==
  /\ Resumes("as")
  /\ LET q == Skip(p)
         r == Skip(Advance(q))
     IN  \/ /\ Peek(q) # "as"
            /\ Return(q, Pop, val)
         \/ /\ Peek(q) = "as" /\ Peek(r) # "lower"
            /\ Fail(r)
         \/ /\ Peek(q) = "as" /\ Peek(r) = "lower"
            /\ Return(Advance(r), Pop, Close(AddPart(Top, val), Advance(r)))

(* parse_cons_pattern: right-recursive in its tail.                        *)
ParseConsPattern == /\ ctl = "consPattern"
                    /\ Goto(p, Append(calls, New("cons", Here(p))), "appPattern")

AfterConsHead ==
  /\ Resumes("cons")
  /\ LET q == Skip(p)
         isCons == Peek(q) = "op" /\ toks[q.pos].op = "::"
     IN  \/ /\ isCons
            /\ Goto(Advance(q), Swap([AddPart(Top, val) EXCEPT !.fn = "consTail"]), "consPattern")
         \/ /\ ~isCons
            /\ Return(q, Pop, val)

AfterConsTail == /\ Resumes("consTail")
                 /\ Return(p, Pop, Close(AddPart(Top, val), p))

(* parse_app_pattern: only a constructor takes arguments.                  *)
ParseAppPattern ==
  /\ ctl = "appPattern"
  /\ LET q == Skip(p)
     IN  \/ /\ Peek(q) = "upper"
            /\ Goto(Advance(q),
                    Append(calls, [New("ctor", Here(p)) EXCEPT !.col = HereCol(q), !.n = 1,
                                                               !.line = toks[q.pos].line]),
                    "ctorName")
         \/ /\ Peek(q) # "upper"
            /\ Goto(q, calls, "atomPattern")

(* parse_qualified_ctor: the loop over `.Upper`; a dot followed by trivia  *)
(* is given back.  The atomic constructor (`atomCtor`) shares it.          *)
QualifyCtor ==
  /\ ctl \in {"ctorName", "atomCtor"}
  /\ LET dotted == Peek(p) = "." /\ NextKind(p) = "upper" /\ Peek(Advance(p)) = "upper"
     IN  \/ /\ dotted
            /\ Goto(Advance(Advance(p)), calls, ctl)
         \/ /\ ~dotted /\ ctl = "ctorName"
            /\ Goto(p, calls, "ctorArgs")
         \/ /\ ~dotted /\ ctl = "atomCtor"
            /\ Return(p, Pop, Close(Top, p))

(* The argument loop of parse_app_pattern, with its layout check.          *)
CtorArguments ==
  /\ ctl = "ctorArgs"
  /\ LET q == Skip(p)
         dedented == ~InParens(q) /\ HereCol(q) <= Top.col /\ toks[q.pos].line # Top.line
         more == Peek(q) \in PatternStarts /\ ~dedented
     IN  \/ more /\ Goto(q, calls, "atomPattern")
         \/ ~more /\ Return(q, Pop, Close(Top, q))

(* Mutant of AfterCtorArgument: the constructor is popped with its argument. *)
PopCtorArgument == /\ Resumes("ctor")
                   /\ Goto(p, Pop, "ctorArgs")

AfterCtorArgument == /\ Resumes("ctor")
                     /\ Goto(p, Swap(AddPart(Top, val)), "ctorArgs")
-----------------------------------------------------------------------------
(* parse_atomic_pattern, by the token it starts with.                      *)

SimplePattern ==
  /\ ctl = "atomPattern"
  /\ LET q == Skip(p)
     IN  /\ Peek(q) \in {"_", "lower", "number", "text"}
         /\ Return(Advance(q), calls, Leaf(Here(q), Advance(q)))

AtomicCtorPattern ==
  /\ ctl = "atomPattern"
  /\ LET q == Skip(p)
     IN  /\ Peek(q) = "upper"
         /\ Goto(Advance(q), Append(calls, New("ctor", Here(q))), "atomCtor")

NegativePattern ==
  /\ ctl = "atomPattern"
  /\ LET q == Skip(p)
         r == Skip(Advance(q))
     IN  /\ Peek(q) = "-"
         /\ \/ /\ Peek(r) = "number"
               /\ Return(Advance(r), calls, Leaf(Here(q), Advance(r)))
            \/ /\ Peek(r) # "number"
               /\ Fail(r)

ParenPattern ==
  /\ ctl = "atomPattern"
  /\ LET q == Skip(p)
         r == Skip(Advance(q))
     IN  /\ Peek(q) = "("
         /\ \/ /\ Peek(r) = ")"
               /\ Return(Advance(r), calls, Leaf(Here(q), Advance(r)))
            \/ /\ Peek(r) # ")"
               /\ Goto(r, Append(calls, New("patParen", Here(q))), "pattern")

AfterFirstInParen ==
  /\ Resumes("patParen")
  /\ LET q == Skip(p)
         fr == AddPart(Top, val)
     IN  \/ /\ Peek(q) = ","
            /\ Goto(Advance(q), Swap([fr EXCEPT !.fn = "patTuple"]), "pattern")
         \/ /\ Peek(q) = ")"
            /\ Return(Advance(q), Pop, Close(fr, Advance(q)))
         \/ /\ Peek(q) \notin {",", ")"}
            /\ Fail(q)

(* Elements of a tuple or list pattern after the first.                    *)
AfterPatternElement(fn, closer) ==
  /\ Resumes(fn)
  /\ LET q == Skip(p)
         fr == AddPart(Top, val)
     IN  \/ /\ Peek(q) = ","
            /\ Goto(Advance(q), Swap(fr), "pattern")
         \/ /\ Peek(q) = closer
            /\ Return(Advance(q), Pop, Close(fr, Advance(q)))
         \/ /\ Peek(q) \notin {",", closer}
            /\ Fail(q)

AfterTuplePattern == AfterPatternElement("patTuple", ")")

AfterListPattern == AfterPatternElement("patList", "]")

ListPattern ==
  /\ ctl = "atomPattern"
  /\ LET q == Skip(p)
         r == Skip(Advance(q))
     IN  /\ Peek(q) = "["
         /\ \/ /\ Peek(r) = "]"
               /\ Return(Advance(r), calls, Leaf(Here(q), Advance(r)))
            \/ /\ Peek(r) # "]"
               /\ Goto(r, Append(calls, New("patList", Here(q))), "pattern")

(* A record pattern holds names only; the check for `{}` looks past doc    *)
(* comments, the expectations that follow do not.                          *)
RecordPattern ==
  /\ ctl = "atomPattern"
  /\ LET q == Skip(p)
         r == Advance(q)
     IN  /\ Peek(q) = "{"
         /\ \/ /\ NextKind(q) = "}" /\ Peek(Skip(r)) = "}"
               /\ Return(Advance(Skip(r)), calls, Leaf(Here(q), Advance(Skip(r))))
            \/ /\ NextKind(q) = "}" /\ Peek(Skip(r)) # "}"
               /\ Fail(Skip(r))
            \/ /\ NextKind(q) # "}"
               /\ Goto(r, Append(calls, New("patRecord", Here(q))), "patternField")

PatternField ==
  /\ ctl = "patternField"
  /\ LET q == Skip(p)
         r == Skip(Advance(q))
     IN  \/ /\ Peek(q) # "lower"
            /\ Fail(q)
         \/ /\ Peek(q) = "lower" /\ Peek(r) = ","
            /\ Goto(Advance(r), calls, "patternField")
         \/ /\ Peek(q) = "lower" /\ Peek(r) = "}"
            /\ Return(Advance(r), Pop, Close(Top, Advance(r)))
         \/ /\ Peek(q) = "lower" /\ Peek(r) \notin {",", "}"}
            /\ Fail(r)

NotAPattern ==
  /\ ctl = "atomPattern"
  /\ Peek(Skip(p)) \notin PatternStarts
  /\ Fail(Skip(p))

PatternNext ==
  \/ ParsePattern \/ AfterAsOperand
  \/ ParseConsPattern \/ AfterConsHead \/ AfterConsTail
  \/ ParseAppPattern \/ QualifyCtor \/ CtorArguments \/ AfterCtorArgument
  \/ SimplePattern \/ AtomicCtorPattern \/ NegativePattern
  \/ ParenPattern \/ AfterFirstInParen \/ AfterTuplePattern
  \/ ListPattern \/ AfterListPattern
  \/ RecordPattern \/ PatternField
  \/ NotAPattern
=============================================================================
