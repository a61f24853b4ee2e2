----------------------------- MODULE TypeParser -----------------------------
(***************************************************************************)
(* Type annotations: src/src/parse/type_annotation.rs.  Unlike patterns,   *)
(* types claim comments: those before the first arm, those before an `->`  *)
(* and those between the fields of a record type.                          *)
(***************************************************************************)
EXTENDS ParserState

TypeStarts == {"lower", "upper", "(", "{"}

(* peek_past_whitespace_offset: where the next token that is not trivia or *)
(* a doc comment starts (no doc comment is ever met inside a type that     *)
(* parses, so this is the token at the cursor).                            *)
FirstTokenOffset(q) == toks[q.pos].ix

(* parse_type, up to the call of parse_type_app.                           *)
ParseType ==
  /\ ctl = "type"
  /\ Goto(p, Append(calls, [New("type", Here(p)) EXCEPT !.snap = Snapshot(p),
                                                        !.lim = FirstTokenOffset(p)]), "typeApp")

(* parse_type after its first arm: claim the comments before the arm, then *)
(* the comments before an arrow, which lead the next arm.                  *)
AfterFirstArm ==
  /\ Resumes("type")
  /\ LET early == Before(p, Top.lim)
         left == Lead(val, Claimed(p, Top.snap, early))
         q == Skip(Unclaimed(p, Top.snap, early))
         gap == Between(q, left.to, Here(q))
         r == Advance(Unclaimed(q, 0, gap))
         fr == [AddPart(Top, left) EXCEPT !.fn = "arrow", !.lead = Claimed(q, 0, gap)]
     IN  \/ /\ Peek(q) = "->"
            /\ Goto(r, Swap(fr), "type")
         \/ /\ Peek(q) # "->"
            /\ Return(q, Pop, left)

(* The function type itself: a fresh node with no comments of its own.     *)
AfterArrow ==
  /\ Resumes("arrow")
  /\ LET right == Lead(val, Top.lead)
     IN  Return(p, Pop, [Close(AddPart(Top, right), p) EXCEPT !.arrow = TRUE])

(* parse_type_app: only an upper-case name takes arguments.                *)
ParseTypeApp ==
  /\ ctl = "typeApp"
  /\ LET q == Skip(p)
     IN  \/ /\ Peek(q) = "upper"
            /\ Goto(Advance(q), Append(calls, New("typeApp", Here(p))), "typeName")
         \/ /\ Peek(q) # "upper"
            /\ Goto(q, calls, "atomType")

(* parse_qualified_upper, with the name's own column and line recorded for *)
(* the layout check of the arguments (`atomTypeName`: a bare name).        *)
QualifyType ==
  /\ ctl \in {"typeName", "atomTypeName"}
  /\ LET dotted == Peek(p) = "." /\ NextKind(p) = "upper" /\ Peek(Advance(p)) = "upper"
         name == toks[p.pos - 1]
     IN  \/ /\ dotted
            /\ Goto(Advance(Advance(p)), calls, ctl)
         \/ /\ ~dotted /\ ctl = "typeName"
            /\ Goto(p, Swap([Top EXCEPT !.col = name.col, !.line = name.line]), "typeArgs")
         \/ /\ ~dotted /\ ctl = "atomTypeName"
            /\ Return(p, Pop, Close(Top, p))

(* The argument loop of parse_type_app.  Its layout check applies inside   *)
(* brackets too.                                                           *)
TypeArguments ==
  /\ ctl = "typeArgs"
  /\ LET q == Skip(p)
         dedented == HereCol(q) <= Top.col /\ toks[q.pos].line # Top.line
         more == Peek(q) \in TypeStarts /\ ~dedented
     IN  \/ more /\ Goto(q, calls, "atomType")
         \/ ~more /\ Return(q, Pop, Close(Top, q))

AfterTypeArgument == /\ Resumes("typeApp")
                     /\ Goto(p, Swap(AddPart(Top, val)), "typeArgs")
-----------------------------------------------------------------------------
(* parse_type_atomic, by the token it starts with.                         *)

TypeVariable ==
  /\ ctl = "atomType"
  /\ LET q == Skip(p)
     IN  /\ Peek(q) = "lower"
         /\ Return(Advance(q), calls, Leaf(Here(q), Advance(q)))

AtomicTypeName ==
  /\ ctl = "atomType"
  /\ LET q == Skip(p)
     IN  /\ Peek(q) = "upper"
         /\ Goto(Advance(q), Append(calls, New("typeApp", Here(q))), "atomTypeName")

ParenType ==
  /\ ctl = "atomType"
  /\ LET q == Skip(p)
         r == Skip(Advance(q))
     IN  /\ Peek(q) = "("
         /\ \/ /\ Peek(r) = ")"
               /\ Return(Advance(r), calls, Leaf(Here(q), Advance(r)))
            \/ /\ Peek(r) # ")"
               /\ Goto(r, Append(calls, New("typeParen", Here(q))), "type")

(* `(T)` is T itself, except that a function type is rebuilt with the span *)
(* of the parentheses, from its value alone: its own comments are dropped. *)
AfterFirstInType ==
  /\ Resumes("typeParen")
  /\ LET q == Skip(p)
         r == Advance(q)
         rewrapped == [SpanNode(Top.from, r, val.kept, val.sub) EXCEPT !.arrow = TRUE]
     IN  \/ /\ Peek(q) = ","
            /\ Goto(r, Swap([AddPart(Top, val) EXCEPT !.fn = "typeTuple"]), "type")
         \/ /\ Peek(q) = ")"
            /\ Return(r, Pop, IF val.arrow THEN rewrapped ELSE val)
         \/ /\ Peek(q) \notin {",", ")"}
            /\ Fail(q)

AfterTupleType ==
  /\ Resumes("typeTuple")
  /\ LET q == Skip(p)
         fr == AddPart(Top, val)
     IN  \/ /\ Peek(q) = ","
            /\ Goto(Advance(q), Swap(fr), "type")
         \/ /\ Peek(q) = ")"
            /\ Return(Advance(q), Pop, Close(fr, Advance(q)))
         \/ /\ Peek(q) \notin {",", ")"}
            /\ Fail(q)
-----------------------------------------------------------------------------
(* parse_record_type.  `{ a |` is told from `{ a :` by reading on and      *)
(* going back: the position is restored, the comments read are not.        *)
RecordType ==
  /\ ctl = "atomType"
  /\ LET q == Skip(p)
         r == Skip(Advance(q))
         s == Skip(Advance(r))
         back == [s EXCEPT !.pos = r.pos, !.raw = FALSE]
         Fields(c) == Append(calls, [New("typeFields", Here(q)) EXCEPT !.snap = Snapshot(c)])
     IN  /\ Peek(q) = "{"
         /\ \/ /\ Peek(r) = "}"
               /\ Return(Advance(r), calls, Leaf(Here(q), Advance(r)))
            \/ /\ Peek(r) = "lower" /\ Peek(s) = "|"
               /\ Goto(Advance(s), Fields(Advance(s)), "typeField")
            \/ /\ Peek(r) = "lower" /\ Peek(s) # "|"
               /\ Goto(back, Fields(back), "typeField")
            \/ /\ Peek(r) \notin {"lower", "}"}
               /\ Goto(r, Fields(r), "typeField")

(* parse_record_field, up to its type.                                     *)
TypeField ==
  /\ ctl = "typeField"
  /\ LET q == Skip(p)
         r == Skip(Advance(q))
     IN  \/ /\ Peek(q) # "lower"
            /\ Fail(q)
         \/ /\ Peek(q) = "lower" /\ Peek(r) # ":"
            /\ Fail(r)
         \/ /\ Peek(q) = "lower" /\ Peek(r) = ":"
            /\ Goto(Advance(r), Swap([Top EXCEPT !.mark = Here(p)]), "type")

(* parse_record_fields, after a field: from the second on, the comments    *)
(* between the previous field and this one lead it.                        *)
AfterTypeField ==
  /\ Resumes("typeFields")
  /\ LET field == SpanNode(Top.mark, p, Carried(val), val.sub)
         gap == IF Top.n = 0 THEN {} ELSE Between(p, Top.last.to, field.from)
         fr == AddPart(Top, Lead(field, Claimed(p, Top.snap, gap)))
         q == Skip(Unclaimed(p, Top.snap, gap))
     IN  \/ /\ Peek(q) = ","
            /\ Goto(Skip(Advance(q)), Swap(fr), "typeField")
         \/ /\ Peek(q) = "}"
            /\ Return(Advance(q), Pop, Close(fr, Advance(q)))
         \/ /\ Peek(q) \notin {",", "}"}
            /\ Fail(q)

(* parse_signature: `name : Type`, with a comment on the type's last line. *)
ParseSignature ==
  /\ ctl = "signature"
  /\ LET q == Skip(p)
         r == Skip(Advance(q))
     IN  \/ /\ Peek(q) # "lower"
            /\ Fail(q)
         \/ /\ Peek(q) = "lower" /\ Peek(r) # ":"
            /\ Fail(r)
         \/ /\ Peek(q) = "lower" /\ Peek(r) = ":"
            /\ Goto(Advance(r), Append(calls, New("signature", Here(p))), "type")

AfterSignatureType ==
  /\ Resumes("signature")
  /\ LET q == DropTrailing(p, val)
     IN  Return(q, Pop, Close(Hold(AddPart(Top, val), Trailing(p, val)), q))

NotAType ==
  /\ ctl = "atomType"
  /\ Peek(Skip(p)) \notin TypeStarts
  /\ Fail(Skip(p))

TypeNext ==
  \/ ParseType \/ AfterFirstArm \/ AfterArrow
  \/ ParseTypeApp \/ QualifyType \/ TypeArguments \/ AfterTypeArgument
  \/ TypeVariable \/ AtomicTypeName
  \/ ParenType \/ AfterFirstInType \/ AfterTupleType
  \/ RecordType \/ TypeField \/ AfterTypeField
  \/ ParseSignature \/ AfterSignatureType
  \/ NotAType
=============================================================================
