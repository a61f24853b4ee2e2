---------------------------- MODULE ModuleProofs ----------------------------
(***************************************************************************)
(* The parser of modules (ModuleParser) implements the outline of a module *)
(* (Outline, as ModuleSafety instantiates it), whatever the text and the   *)
(* mode. The invariant is ModuleInv: that of the machine of expressions,   *)
(* patterns and types (SpanProofs: IInv, Ordered), the shape of the frames *)
(* of the module-level functions, and where they are in the text: Started, *)
(* what the construct in progress begins behind, and ReadOn, with Stalled, *)
(* how far reading is past what was given and reported.                    *)
(***************************************************************************)
EXTENDS SpanProofs, ModuleSafety
LOCAL INSTANCE SequenceTheorems

(* Every operation on a cursor leaves it where it is or further on.        *)
LEMMA Onto ==
  ASSUME IInv, Ordered
  PROVE  /\ Reaches(p, p)
         /\ \A q : Reaches(p, q) => Reaches(p, Skip(q)) /\ Reaches(p, Advance(q))
         /\ \A q, S : \A n \in Nat : Reaches(p, q) => Reaches(p, Unclaimed(q, n, S)) /\ Reaches(p, DropSince(q, n))
         /\ \A q, n : Reaches(p, q) => Reaches(p, DropTrailing(q, n)) /\ Reaches(p, DropInline(q, n))
         /\ \A q, n : \A s \in Nat : Reaches(p, q) => Reaches(p, AfterPre(q, n, s))
         /\ \A q : \A c \in Nat : Reaches(p, q) => Reaches(p, [q EXCEPT !.ctx = c])
         /\ \A q : Reaches(p, q) /\ Solid(q) => Reaches(p, Back(q))
<1>1. Stream /\ OK(p)
  BY State
<1>2. \A q : Reaches(p, q) => OK(q)
  BY DEF Reaches
<1>3. Reaches(p, p)
  BY <1>1, SameReaches
<1>4. \A q : Reaches(p, q) => Reaches(p, Skip(q)) /\ Reaches(p, Advance(q))
  BY <1>1, <1>2, Onward, AdvanceReaches, ReachesOn
<1>5. \A q, S : \A n \in Nat : Reaches(p, q) => Reaches(p, Unclaimed(q, n, S)) /\ Reaches(p, DropSince(q, n))
  BY <1>1, <1>2, ClaimReaches, ReachesOn
<1>6. \A q, n : Reaches(p, q) => Reaches(p, DropTrailing(q, n)) /\ Reaches(p, DropInline(q, n))
  <2>1. 0 \in Nat
    OBVIOUS
  <2> QED BY <1>1, <1>2, <2>1, ClaimReaches, ReachesOn
<1>7. \A q, n : \A s \in Nat : Reaches(p, q) => Reaches(p, AfterPre(q, n, s))
  BY <1>1, <1>2, ClaimReaches, ReachesOn
<1>8. \A q : \A c \in Nat : Reaches(p, q) => Reaches(p, [q EXCEPT !.ctx = c])
  BY <1>1, <1>2, ContextReaches, ReachesOn
<1>9. \A q : Reaches(p, q) /\ Solid(q) => Reaches(p, Back(q))
  BY <1>1, <1>2, BackReaches, ReachesOn
<1> QED BY <1>3, <1>4, <1>5, <1>6, <1>7, <1>8, <1>9


(* The numbers that the functions in progress give the claiming loops.     *)
LEMMA TopNumbers ==
  ASSUME IInv
  PROVE  /\ \A fn : Resumes(fn) => Top.snap \in Nat /\ Top.body \in Nat /\ Top.col \in Nat
         /\ ctl \in {"setter", "branch", "letNext"} => Top.snap \in Nat /\ Top.body \in Nat /\ Top.col \in Nat
         /\ 0 \in Nat
BY Resumed, Owned, OwnersAre, FrameParts

(* What the claiming loops take from a cursor.                             *)
LEMMA Snapshots ==
  ASSUME IInv
  PROVE  \A q : Reaches(p, q) => Snapshot(q) \in Nat /\ HereCol(q) \in Nat
BY State, PendingType, HereType DEF Reaches

(* No step of the machine goes back: it leaves the cursor where it was or  *)
(* further on. Types:                                                      *)
LEMMA TypesForward ==
  ASSUME IInv, Ordered,
         ParseType \/ AfterFirstArm \/ AfterArrow \/ ParseTypeApp \/ QualifyType \/
         TypeArguments \/ AfterTypeArgument
  PROVE  Reaches(p, p')
BY Onto, TopNumbers DEF ParseType, AfterFirstArm, AfterArrow, ParseTypeApp, QualifyType,
   TypeArguments, AfterTypeArgument, Goto, Return, GotoWith, Fail

(* ... variables, names, tuples, fields and signatures of types,           *)
LEMMA AtomicTypesForward ==
  ASSUME IInv, Ordered,
         TypeVariable \/ AtomicTypeName \/ ParenType \/ AfterFirstInType \/ AfterTupleType \/
         TypeField \/ AfterTypeField \/ ParseSignature \/ AfterSignatureType \/ NotAType
  PROVE  Reaches(p, p')
BY Onto, TopNumbers DEF TypeVariable, AtomicTypeName, ParenType, AfterFirstInType, AfterTupleType,
   TypeField, AfterTypeField, ParseSignature, AfterSignatureType, NotAType, Goto, Return, GotoWith,
   Fail

(* ... records of types, which step back over one name,                    *)
LEMMA RecordTypeForward ==
  ASSUME IInv, Ordered, RecordType
  PROVE  Reaches(p, p')
BY Onto, TopNumbers, Solids DEF RecordType, Goto, Return, GotoWith, Fail, Back

(* ... patterns with "as", cons and constructors,                          *)
LEMMA PatternsForward ==
  ASSUME IInv, Ordered,
         ParsePattern \/ AfterAsOperand \/ ParseConsPattern \/ AfterConsHead \/ AfterConsTail \/
         ParseAppPattern \/ QualifyCtor \/ CtorArguments \/ AfterCtorArgument
  PROVE  Reaches(p, p')
BY Onto, TopNumbers DEF ParsePattern, AfterAsOperand, ParseConsPattern, AfterConsHead,
   AfterConsTail, ParseAppPattern, QualifyCtor, CtorArguments, AfterCtorArgument, Goto, Return,
   GotoWith, Fail

(* ... patterns in brackets, literals and names,                           *)
LEMMA SimplePatternsForward ==
  ASSUME IInv, Ordered,
         SimplePattern \/ AtomicCtorPattern \/ NegativePattern \/ ParenPattern \/
         AfterFirstInParen \/ AfterTuplePattern \/ AfterListPattern \/ ListPattern \/
         RecordPattern \/ PatternField \/ NotAPattern
  PROVE  Reaches(p, p')
BY Onto, TopNumbers DEF SimplePattern, AtomicCtorPattern, NegativePattern, ParenPattern,
   AfterFirstInParen, AfterTuplePattern, AfterListPattern, ListPattern, RecordPattern, PatternField,
   NotAPattern, Goto, Return, GotoWith, Fail, AfterPatternElement

(* ... operators and negation,                                             *)
LEMMA OperatorsForward ==
  ASSUME IInv, Ordered,
         Resume \/ ParseBinary \/ AfterOperand \/ BinaryLoop \/ Reduce \/ FoldRest \/ ParseUnary \/
         AfterNegated
  PROVE  Reaches(p, p')
<1>1. CASE Resume
  BY <1>1, ZenonT(90), Onto, TopNumbers DEF Resume, Goto, Return, GotoWith, Fail
<1>2. CASE ParseBinary
  BY <1>2, ZenonT(90), Onto, TopNumbers DEF ParseBinary, Goto, Return, GotoWith, Fail
<1>3. CASE AfterOperand
  BY <1>3, ZenonT(90), Onto, TopNumbers DEF AfterOperand, Goto, Return, GotoWith, Fail
<1>4. CASE BinaryLoop
  BY <1>4, ZenonT(90), Onto, TopNumbers DEF BinaryLoop, Goto, Return, GotoWith, Fail, ReduceLast
<1>5. CASE Reduce
  BY <1>5, ZenonT(90), Onto, TopNumbers DEF Reduce, Goto, Return, GotoWith, Fail, ReduceLast
<1>6. CASE FoldRest
  BY <1>6, ZenonT(90), Onto, TopNumbers DEF FoldRest, Goto, Return, GotoWith, Fail, ReduceLast
<1>7. CASE ParseUnary
  BY <1>7, ZenonT(90), Onto, TopNumbers DEF ParseUnary, Goto, Return, GotoWith, Fail
<1>8. CASE AfterNegated
  BY <1>8, ZenonT(90), Onto, TopNumbers DEF AfterNegated, Goto, Return, GotoWith, Fail
<1> QED BY <1>1, <1>2, <1>3, <1>4, <1>5, <1>6, <1>7, <1>8

(* ... applications,                                                       *)
LEMMA ApplicationsForward ==
  ASSUME IInv, Ordered, ParseApplication \/ ApplicationLoop \/ AfterArgument
  PROVE  Reaches(p, p')
<1>1. CASE ParseApplication
  BY <1>1, ZenonT(90), Onto, TopNumbers, Snapshots DEF ParseApplication, Goto, Return, GotoWith, Fail
<1>2. CASE ApplicationLoop
  BY <1>2, ZenonT(90), Onto, TopNumbers, Snapshots DEF ApplicationLoop, Goto, Return, GotoWith, Fail
<1>3. CASE AfterArgument
  BY <1>3, ZenonT(90), Onto, TopNumbers, Snapshots DEF AfterArgument, Goto, Return, GotoWith, Fail
<1> QED BY <1>1, <1>2, <1>3

(* ... names, literals and record accesses,                                *)
LEMMA AtomsForward ==
  ASSUME IInv, Ordered,
         SimpleAtom \/ QualifiedAtom \/ QualifyValue \/ AccessorAtom \/ NotAnAtom \/ AccessChain \/
         AfterCompound
  PROVE  Reaches(p, p')
BY Onto, TopNumbers DEF SimpleAtom, QualifiedAtom, QualifyValue, AccessorAtom, NotAnAtom,
   AccessChain, AfterCompound, Goto, Return, GotoWith, Fail

(* ... parentheses and tuples,                                             *)
LEMMA ParensForward ==
  ASSUME IInv, Ordered, ParenAtom \/ AfterParenNegated \/ AfterParenFirst \/ AfterTupleElement
  PROVE  Reaches(p, p')
BY Onto, TopNumbers DEF ParenAtom, AfterParenNegated, AfterParenFirst, AfterTupleElement, Goto,
   Return, GotoWith, Fail, Need

(* ... lists, which open a context at the bracket,                         *)
LEMMA ListAtomForward ==
  ASSUME IInv, Ordered, ListAtom
  PROVE  Reaches(p, p')
<1> DEFINE q == Skip(p)
           r == Skip(Advance(q))
<1>1. Reaches(p, q) /\ Reaches(p, r) /\ Reaches(p, Advance(r))
  BY Onto
<1>2. Reaches(p, [r EXCEPT !.ctx = HereCol(q)])
  BY <1>1, Snapshots, Onto
<1> HIDE DEF q, r
<1>3. p' \in {r, Advance(r), [r EXCEPT !.ctx = HereCol(q)]}
  BY Zenon DEF ListAtom, q, r, Need, Fail, GotoWith
<1> QED BY <1>1, <1>2, <1>3

(* ... elements of lists,                                                  *)
LEMMA ListElementForward ==
  ASSUME IInv, Ordered, AfterListElement
  PROVE  Reaches(p, p')
BY ZenonT(90), Onto, TopNumbers, Snapshots DEF AfterListElement, Goto, Return, GotoWith, Fail, Need

(* ... records, which step back over the name of an update,                *)
LEMMA RecordAtomForward ==
  ASSUME IInv, Ordered, RecordAtom
  PROVE  Reaches(p, p')
<1> DEFINE q == Skip(p)
           r == Skip(Advance(q))
           s == Skip(Advance(r))
<1>1. Reaches(p, q) /\ Reaches(p, r) /\ Reaches(p, s) /\ Reaches(p, Advance(r)) /\ Reaches(p, Advance(s))
  BY Onto
<1>2. Peek(r) = "lower" => Reaches(p, Back(r))
  BY <1>1, Onto, Solids
<1>3. [s EXCEPT !.pos = r.pos, !.raw = FALSE] = Back(r)
  BY DEF Back
<1> HIDE DEF q, r, s
<1>4. \/ p' \in {r, Advance(r), Advance(s)}
      \/ Peek(r) = "lower" /\ p' = [s EXCEPT !.pos = r.pos, !.raw = FALSE]
  BY Zenon DEF RecordAtom, q, r, s, Goto, GotoWith
<1> QED BY <1>1, <1>2, <1>3, <1>4

(* ... setters,                                                            *)
LEMMA SettersForward ==
  ASSUME IInv, Ordered, ParseSetter \/ AfterSetterValue
  PROVE  Reaches(p, p')
<1>1. CASE ParseSetter
  BY <1>1, ZenonT(60), Onto, TopNumbers DEF ParseSetter, Goto, Return, GotoWith, Fail, Need
<1>2. CASE AfterSetterValue
  BY <1>2, ZenonT(60), Onto, TopNumbers DEF AfterSetterValue, Goto, Return, GotoWith, Fail, Need
<1> QED BY <1>1, <1>2

(* ... conditions,                                                         *)
LEMMA ConditionsForward ==
  ASSUME IInv, Ordered, IfAtom \/ AfterCondition
  PROVE  Reaches(p, p')
BY Onto, TopNumbers DEF IfAtom, AfterCondition, Goto, Return, GotoWith, Fail, Need

(* ... then,                                                               *)
LEMMA ThenForward ==
  ASSUME IInv, Ordered, AfterThen
  PROVE  Reaches(p, p')
BY Onto, TopNumbers DEF AfterThen, Goto, Return, GotoWith, Fail, Need

(* ... else,                                                               *)
LEMMA ElseForward ==
  ASSUME IInv, Ordered, AfterElse
  PROVE  Reaches(p, p')
<1> DEFINE q == AfterPre(p, val, Top.snap)
           ifs == Close(AddPart(Top, WithPre(p, val, Top.snap)), q)
           v == [ifs EXCEPT !.sub = @ \cup {<<start, ifs.to>> : start \in Elements(Top.chain)}]
<1>1. Return(q, Pop, v) /\ Resumes("else")
  BY DEF AfterElse
<1>2. Top.snap \in Nat
  BY <1>1, TopNumbers
<1>3. Reaches(p, q)
  BY <1>2, Onto
<1> HIDE DEF q, v
<1> QED BY <1>1, <1>3 DEF Return, GotoWith

(* ... case expressions,                                                   *)
LEMMA CasesForward ==
  ASSUME IInv, Ordered,
         CaseAtom \/ AfterCaseSubject \/ NextBranch \/ AfterBranchPattern \/ AfterBranchBody
  PROVE  Reaches(p, p')
<1>1. CASE CaseAtom
  BY <1>1, ZenonT(90), Onto, TopNumbers DEF CaseAtom, Goto, Return, GotoWith, Fail, Need
<1>2. CASE AfterCaseSubject
  BY <1>2, ZenonT(90), Onto, TopNumbers DEF AfterCaseSubject, Goto, Return, GotoWith, Fail, Need
<1>3. CASE NextBranch
  BY <1>3, ZenonT(90), Onto, TopNumbers DEF NextBranch, Goto, Return, GotoWith, Fail, Need
<1>4. CASE AfterBranchPattern
  BY <1>4, ZenonT(90), Onto, TopNumbers DEF AfterBranchPattern, Goto, Return, GotoWith, Fail, Need
<1>5. CASE AfterBranchBody
  BY <1>5, ZenonT(90), Onto, TopNumbers DEF AfterBranchBody, Goto, Return, GotoWith, Fail, Need
<1> QED BY <1>1, <1>2, <1>3, <1>4, <1>5

(* ... let expressions and the names they bind,                            *)
LEMMA LetsForward ==
  ASSUME IInv, Ordered, LetAtom \/ EndOfLet \/ NextLetDecl \/ AfterLetSignature \/ LetName
  PROVE  Reaches(p, p')
<1>1. CASE LetAtom
  BY <1>1, ZenonT(90), Onto, TopNumbers DEF LetAtom, Goto, Return, GotoWith, Fail, Need, NeedLetValue
<1>2. CASE EndOfLet
  BY <1>2, ZenonT(90), Onto, TopNumbers DEF EndOfLet, Goto, Return, GotoWith, Fail, Need, NeedLetValue
<1>3. CASE NextLetDecl
  BY <1>3, ZenonT(90), Onto, TopNumbers DEF NextLetDecl, Goto, Return, GotoWith, Fail, Need, NeedLetValue
<1>4. CASE AfterLetSignature
  BY <1>4, ZenonT(90), Onto, TopNumbers DEF AfterLetSignature, Goto, Return, GotoWith, Fail, Need, NeedLetValue
<1>5. CASE LetName
  BY <1>5, ZenonT(90), Onto, TopNumbers DEF LetName, Goto, Return, GotoWith, Fail, Need, NeedLetValue
<1> QED BY <1>1, <1>2, <1>3, <1>4, <1>5

(* ... the parts of a binding,                                             *)
LEMMA LetPartsForward ==
  ASSUME IInv, Ordered,
         LetArguments \/ AfterLetArgument \/ AfterLetPattern \/ AfterLetValue \/ AfterLetBody
  PROVE  Reaches(p, p')
<1>1. CASE LetArguments
  BY <1>1, ZenonT(90), Onto, TopNumbers DEF LetArguments, Goto, Return, GotoWith, Fail, Need,
     NeedLetValue
<1>2. CASE AfterLetArgument
  BY <1>2, ZenonT(90), Onto, TopNumbers DEF AfterLetArgument, Goto, Return, GotoWith, Fail, Need,
     NeedLetValue
<1>3. CASE AfterLetPattern
  BY <1>3, ZenonT(90), Onto, TopNumbers DEF AfterLetPattern, Goto, Return, GotoWith, Fail, Need,
     NeedLetValue
<1>4. CASE AfterLetValue
  BY <1>4, ZenonT(90), Onto, TopNumbers DEF AfterLetValue, Goto, Return, GotoWith, Fail, Need,
     NeedLetValue
<1>5. CASE AfterLetBody
  BY <1>5, ZenonT(90), Onto, TopNumbers DEF AfterLetBody, Goto, Return, GotoWith, Fail, Need,
     NeedLetValue
<1> QED BY <1>1, <1>2, <1>3, <1>4, <1>5

(* ... and lambdas.                                                        *)
LEMMA LambdasForward ==
  ASSUME IInv, Ordered, LambdaAtom \/ LambdaArguments \/ AfterLambdaArgument \/ AfterLambdaBody
  PROVE  Reaches(p, p')
BY Onto, TopNumbers DEF LambdaAtom, LambdaArguments, AfterLambdaArgument, AfterLambdaBody, Goto,
   Return, GotoWith, Fail, Need

(* The machine never goes back: every step of it, of whatever kind.        *)
LEMMA Forward == ASSUME IInv, Ordered, ExprNext PROVE Reaches(p, p')
BY TypesForward, AtomicTypesForward, RecordTypeForward, PatternsForward, SimplePatternsForward,
   OperatorsForward,
   ApplicationsForward, AtomsForward, ParensForward, ListAtomForward, ListElementForward,
   RecordAtomForward, SettersForward, ConditionsForward, ThenForward, ElseForward, CasesForward,
   LetsForward, LetPartsForward, LambdasForward
   DEF ExprNext, PatternNext, TypeNext
-----------------------------------------------------------------------------
(* The invariant.                                                          *)

(* The places of the module-level functions, by the outermost frame.       *)
InHeader == {"moduleName", "effectKey", "effectComma"}

InImport == {"importName", "importAlias"}

InList == {"exposing", "exposed", "everything", "item", "itemType", "itemEnd"}

InDeclaration == {"signature", "arguments", "body", "pattern", "destructured", "port", "infix",
                  "aliasName", "aliasGenerics", "alias", "typeName", "typeGenerics",
                  "constructor", "fields"}

InNone == {"header", "imports", "declarations", "declaration", "skipInImports",
           "skipInDeclarations", "parsed", "failed"}

(* The places with a frame inside the outermost one, and those that wait   *)
(* for the machine.                                                        *)
Inner == {"exposed", "everything", "item", "itemType", "itemEnd", "fields"}

Waits == {"signature", "arguments", "body", "pattern", "destructured", "port", "alias", "fields"}

Rows == Seq(SUBSET (Kinds \ {"eof"}))

ModuleTypeOK == /\ outer \in Seq(Frame) /\ doc \in Nat /\ decls \in Seq(Declared) /\ want \in Rows
                /\ mode \in Modes /\ module \in Module /\ errors \in Seq(Nat)

(* The frames fs belong to the function at a.                              *)
PlaceFits(a, fs) ==
  \/ a \in InNone /\ fs = <<>>
  \/ /\ Len(fs) = IF a \in Inner THEN 2 ELSE 1
     /\ \/ a \in InHeader \cup InList /\ fs[1].fn \in {"header", "effect"}
        \/ a \in InImport \cup InList /\ fs[1].fn = "import"
        \/ a \in InDeclaration /\ fs[1].fn = "declaration"

(* The machine idles unless a function waits for it.                       *)
MachineFits == /\ ctl \in {"ok", "error"} => calls = <<>> /\ conts = <<>>
               /\ ctl \notin {"ok", "error"} => at \in Waits
               /\ want # <<>> => ctl = "ok" /\ at \notin InNone
               /\ Stopped => ctl = "ok"

(* The header is read first, and the imports before the declarations.      *)
UnderHeader(a, fs) == a = "header" \/ (fs # <<>> /\ fs[1].fn \in {"header", "effect"})

UnderImports(a, fs) == a \in {"imports", "skipInImports"} \/ (fs # <<>> /\ fs[1].fn = "import")

PartsFit == /\ UnderHeader(at, outer) => module.header = NoNode
            /\ module.header = NoNode => /\ module.imports = <<>> /\ decls = <<>>
                                         /\ UnderHeader(at, outer) \/ at = "failed"
            /\ UnderImports(at, outer) => decls = <<>>
            /\ errors # <<>> /\ ~Stopped => mode = "recovering" /\ module.header # NoNode

(* All items end, and all errors were met, before the place x.             *)
ItemsBefore(m, ds, x) == /\ m.header # NoNode => m.header.to < x
                         /\ \A i \in 1..Len(m.imports) : m.imports[i].to < x
                         /\ \A i \in 1..Len(ds) : ds[i].node.to < x

ErrorsBefore(es, x) == \A i \in 1..Len(es) : es[i] < x

Boundaries == {"lower", "type", "port", "infix", "doc"}

(* Reading stands where the last error was: only between the error and the *)
(* token that starts the next declaration, which will be passed.           *)
Stalled ==
  \/ Stopped
  \/ /\ ctl = "ok" /\ want = <<>>
     /\ \/ at \in Skipping
        \/ at \in {"imports", "declarations"} /\ Peek(Skip(p)) \in Boundaries \cup {"eof"}
        \/ at = "declaration" /\ Peek(Skip(p)) \in Boundaries
  \/ /\ Peek(Skip(p)) = "lower"
     /\ \/ at = "signature" /\ ctl = "signature"
        \/ at = "arguments" /\ ctl = "ok" /\ want = <<{"lower"}>>

(* The construct in progress starts after all items, and at or after all   *)
(* errors; its first token is passed before it can be completed.           *)
Started == outer # <<>> =>
  /\ ItemsBefore(module, decls, outer[1].from) /\ ErrorsBefore(errors, outer[1].from + 1)
  /\ outer[1].from <= Here(p)
  /\ want = <<>> /\ ctl # "error" /\ at \notin {"signature", "pattern"} =>
       p.pos > 1 /\ outer[1].from <= Done(p)

ReadOn == /\ ItemsBefore(module, decls, Done(p) + 1)
          /\ module.header # NoNode => p.pos > 1
          /\ ErrorsBefore(errors, Here(p) + 1)
          /\ ErrorsBefore(errors, Here(p)) \/ Stalled

ModuleInv == /\ IInv /\ Ordered /\ ModuleTypeOK /\ PlaceFits(at, outer) /\ MachineFits /\ PartsFit
             /\ Started /\ ReadOn
-----------------------------------------------------------------------------
(* What the invariant says, and how it passes to a state further on.       *)

(* The steps of the outline, or none.                                      *)
Outlining == Outlined!OutlineNext \/ UNCHANGED Outlined!outlineVars

(* The invariant gives a stream in order and a cursor on it.               *)
LEMMA Reader ==
  ASSUME ModuleInv
  PROVE  /\ Stream /\ Ordered /\ OK(p) /\ Reaches(p, p) /\ Here(p) \in Nat /\ Done(p) \in Nat
         /\ p.pos > 1 => Done(p) < Here(p)
<1>1. IInv /\ Ordered
  BY DEF ModuleInv
<1>2. Stream /\ OK(p)
  BY <1>1, State
<1> QED BY <1>1, <1>2, SameReaches, Places

(* Later places.                                                           *)
LEMMA Later ==
  ASSUME ModuleTypeOK, NEW x \in Int, NEW y \in Int, x <= y
  PROVE  /\ ItemsBefore(module, decls, x) => ItemsBefore(module, decls, y)
         /\ ErrorsBefore(errors, x) => ErrorsBefore(errors, y)
<1>1. /\ module.header.to \in Nat
      /\ \A i \in 1..Len(module.imports) : module.imports[i].to \in Nat
      /\ \A i \in 1..Len(decls) : decls[i].node.to \in Nat
      /\ \A i \in 1..Len(errors) : errors[i] \in Nat
  <2>1. module.header \in Node /\ module.imports \in Seq(Node) /\ decls \in Seq(Declared) /\ errors \in Seq(Nat)
    BY DEF ModuleTypeOK, Module
  <2>2. \A i \in 1..Len(decls) : decls[i] \in Declared
    BY <2>1
  <2>3. \A i \in 1..Len(decls) : decls[i].node \in Node
    BY <2>2 DEF Declared
  <2> QED BY <2>1, <2>3, NodeParts
<1> QED BY <1>1 DEF ItemsBefore, ErrorsBefore

(* A function that has its construct in progress.                          *)
Working == at \notin InNone /\ (Runs(at) \/ Given(at))

(* While a construct is in progress its frame is there, nothing is waited  *)
(* for, and reading is past every error.                                   *)
LEMMA Underway ==
  ASSUME ModuleInv, Working
  PROVE  /\ outer # <<>> /\ want = <<>> /\ ctl # "error" /\ calls = <<>> /\ conts = <<>> /\ ~Stopped
         /\ ItemsBefore(module, decls, outer[1].from) /\ ErrorsBefore(errors, outer[1].from + 1)
         /\ ErrorsBefore(errors, Here(p)) /\ outer[1].from <= Here(p)
         /\ at \notin {"signature", "pattern"} => p.pos > 1 /\ outer[1].from <= Done(p)
         /\ errors # <<>> => mode = "recovering" /\ module.header # NoNode
<1>1. ctl \in {"ok", "done"} /\ want = <<>> /\ calls = <<>> /\ conts = <<>>
  BY DEF Working, Runs, Given, ModuleInv, MachineFits
<1>2. outer # <<>>
  <2> SUFFICES ASSUME outer = <<>> PROVE FALSE
    OBVIOUS
  <2>1. Len(outer) = 0
    OBVIOUS
  <2> QED BY <2>1 DEF ModuleInv, PlaceFits, Working
<1>3. ~Stopped
  BY DEF Working, Stopped, InNone
<1>4. ErrorsBefore(errors, Here(p))
  <2>1. ~Stalled
    BY <1>1, <1>3 DEF Working, Stalled, InNone, Skipping
  <2> QED BY <2>1 DEF ModuleInv, ReadOn
<1> QED BY <1>1, <1>2, <1>3, <1>4 DEF ModuleInv, Started, PartsFit

(* A token ahead.                                                          *)
LEMMA TokenAhead ==
  ASSUME Stream, NEW q, OK(q)
  PROVE  /\ Skip(Skip(q)) = Skip(q) /\ Peek(Skip(q)) = toks[q.pos].kind
         /\ AtEof(Skip(q)) <=> Peek(Skip(q)) = "eof"
<1>1. Skip(q).raw = FALSE /\ Skip(q).pos = q.pos
  BY SkipOK DEF Skip, OK, Cursor
<1> QED BY <1>1 DEF Skip, Peek, OnTrivia, AtEof

(* Nothing was read, and the module was not left.                          *)
LEMMA Stutter ==
  ASSUME module'.header = module.header, module'.imports = module.imports,
         UNCHANGED <<decls, mode, errors>>,
         ~Stopped, ~Stopped'
  PROVE  Outlining
<1>1. Delivered' = Delivered
  BY DEF Delivered
<1>2. Items' = Items
  BY <1>1 DEF Items
<1>3. mode' = mode /\ errors' = errors
  OBVIOUS
<1>4. Stopped' = Stopped
  <2>1. Stopped \in BOOLEAN /\ Stopped' \in BOOLEAN
    BY DEF Stopped
  <2> QED BY <2>1
<1> QED BY <1>2, <1>3, <1>4 DEF Outlining, Outlined!outlineVars
-----------------------------------------------------------------------------
(* The kinds of step.                                                      *)

(* Where the machine can be called, or left idle.                          *)
Callable == {"ok", "signature", "expr", "pattern", "type", "atomType"}

(* The step that sets the cursor and calls the machine, or leaves it idle, *)
(* keeps the invariant of the machine.                                     *)
LEMMA Idling ==
  ASSUME ModuleInv, NEW q, Reaches(p, q), NEW c \in Callable, Goto(q, <<>>, c)
  PROVE  IInv' /\ Ordered' /\ toks' = toks /\ p' = q /\ calls' = <<>> /\ conts' = conts /\ ctl' = c
<1>1. IInv /\ val \in Node /\ OK(q) /\ <<>> \in Seq(Frame) /\ Await(<<>>)
  BY State DEF ModuleInv, Reaches, Await
<1>2. c \in Plain
  BY PlainAre DEF Callable
<1>3. IInv'
  BY <1>1, <1>2, PlainStep
<1>4. toks' = toks /\ p' = q /\ calls' = <<>> /\ conts' = conts /\ ctl' = c
  BY DEF Goto
<1>5. Ordered'
  BY <1>4 DEF ModuleInv, Ordered
<1> QED BY <1>3, <1>4, <1>5

(* The construct in progress goes on: its outermost frame stays in place.  *)
LEMMA CarryOn ==
  ASSUME ModuleInv, Working, NEW q, Reaches(p, q),
         NEW fs \in Seq(Frame), fs # <<>>, fs[1].fn = outer[1].fn, fs[1].from = outer[1].from,
         NEW a, PlaceFits(a, fs), NEW w \in Rows, NEW c \in Callable,
         c = "ok" \/ (a \in Waits /\ w = <<>>),
         w # <<>> \/ at \notin {"signature", "pattern"},
         Goto(q, <<>>, c), outer' = fs, at' = a, want' = w, UNCHANGED <<decls, mode, module, errors>>, doc' \in Nat
  PROVE  ModuleInv' /\ Outlining
<1>1. /\ IInv' /\ Ordered' /\ toks' = toks /\ p' = q /\ calls' = <<>> /\ conts' = conts /\ ctl' = c
  BY Idling
<1>2. a \notin InNone
  BY DEF PlaceFits, InNone, InHeader, InImport, InList, InDeclaration
<1>3. /\ Here(p) \in Nat /\ Done(p) \in Nat /\ Here(q) \in Nat /\ Done(q) \in Nat /\ Here(p) <= Here(q)
      /\ Done(p) <= Done(q) /\ (p.pos > 1 => q.pos > 1)
  BY DEF Reaches
<1>4. c # "error"
  BY DEF Callable
<1>5. ModuleTypeOK'
  BY DEF ModuleInv, ModuleTypeOK
<1>6. PlaceFits(at, outer)'
  BY DEF PlaceFits
<1>7. Stopped' = FALSE
  BY <1>2 DEF Stopped, InNone
<1>8. MachineFits'
  BY <1>1, <1>2, <1>4, <1>7, Underway DEF MachineFits
<1>9. PartsFit'
  <2>1. UnderHeader(at, outer)' = UnderHeader(at, outer)
    BY <1>2, Underway DEF UnderHeader, InNone, Working
  <2>2. UnderImports(at, outer)' = UnderImports(at, outer)
    BY <1>2, Underway DEF UnderImports, InNone, Working
  <2>3. at # "failed" /\ ~Stopped
    BY Underway DEF Working, InNone
  <2> QED BY <2>1, <2>2, <2>3, <1>7 DEF ModuleInv, PartsFit
<1>10. Here(p)' = Here(q) /\ Done(p)' = Done(q)
  BY <1>1 DEF Here, Done
<1>11. ModuleTypeOK
  BY DEF ModuleInv
<1>12. outer[1].from \in Nat
  BY Underway, FrameParts, EmptySeq DEF ModuleTypeOK
<1>13. Started'
  <2>1. outer'[1].from = outer[1].from /\ Here(p)' = Here(q) /\ Done(p)' = Done(q) /\ p' = q /\ want' = w
    BY <1>1, <1>10
  <2>2. /\ ItemsBefore(module, decls, outer[1].from) /\ ErrorsBefore(errors, outer[1].from + 1)
        /\ outer[1].from <= Here(q)
    BY <1>3, <1>12, Underway
  <2>3. w = <<>> => q.pos > 1 /\ outer[1].from <= Done(q)
    BY <1>3, <1>12, Underway
  <2> QED BY <2>1, <2>2, <2>3 DEF Started, ItemsBefore, ErrorsBefore
<1>14. ReadOn'
  <2>1. ReadOn /\ ErrorsBefore(errors, Here(p))
    BY Underway DEF ModuleInv
  <2>2. ItemsBefore(module, decls, Done(q) + 1)
    BY <1>3, <1>11, <2>1, Later DEF ReadOn
  <2>3. ErrorsBefore(errors, Here(q)) /\ ErrorsBefore(errors, Here(q) + 1)
    BY <1>3, <1>11, <2>1, Later
  <2>4. module.header # NoNode => q.pos > 1
    BY <1>3, <2>1 DEF ReadOn
  <2> QED BY <1>1, <1>10, <2>2, <2>3, <2>4 DEF ReadOn, ItemsBefore, ErrorsBefore
<1>15. Outlining
  BY <1>7, Underway, Stutter
<1> QED BY <1>1, <1>5, <1>6, <1>8, <1>9, <1>13, <1>14, <1>15 DEF ModuleInv

(* An error is raised, past the errors before it.                          *)
LEMMA RaiseOn ==
  ASSUME ModuleInv, ~Stopped, NEW q, Reaches(p, q), ErrorsBefore(errors, Here(q)), Raise(q),
         UNCHANGED <<mode, module, errors>>, doc' \in Nat
  PROVE  ModuleInv' /\ Outlining
<1>1. IInv /\ OK(q) /\ Fail(q) /\ outer' = outer /\ at' = at /\ decls' = decls /\ want' = <<>>
  BY DEF ModuleInv, Reaches, Raise
<1>2. IInv' /\ toks' = toks /\ p' = q /\ calls' = <<>> /\ conts' = <<>> /\ ctl' = "error"
  BY <1>1, FailStep DEF Fail
<1>3. Ordered'
  BY <1>2 DEF ModuleInv, Ordered
<1>4. Stopped' = FALSE
  BY <1>1 DEF Stopped
<1>5. ModuleTypeOK'
  <2>1. want' \in Rows
    BY <1>1 DEF Rows
  <2> QED BY <1>1, <2>1 DEF ModuleInv, ModuleTypeOK
<1>6. PlaceFits(at, outer)' /\ PartsFit'
  BY <1>1, <1>4 DEF ModuleInv, PlaceFits, PartsFit, UnderHeader, UnderImports
<1>7. MachineFits'
  BY <1>1, <1>2, <1>4 DEF MachineFits
<1>8. /\ Here(p) \in Nat /\ Done(p) \in Nat /\ Here(q) \in Nat /\ Done(q) \in Nat /\ Here(p) <= Here(q)
      /\ Done(p) <= Done(q) /\ (p.pos > 1 => q.pos > 1)
  BY DEF Reaches
<1>9. Here(p)' = Here(q) /\ Done(p)' = Done(q)
  BY <1>2 DEF Here, Done
<1>10. Started'
  <2>1. ASSUME outer # <<>>
        PROVE  /\ ItemsBefore(module, decls, outer[1].from) /\ ErrorsBefore(errors, outer[1].from + 1)
               /\ outer[1].from <= Here(q)
    <3>1. outer[1].from \in Nat
      BY <2>1, FrameParts, EmptySeq DEF ModuleInv, ModuleTypeOK
    <3> QED BY <1>8, <2>1, <3>1 DEF ModuleInv, Started
  <2> QED BY <1>1, <1>2, <1>9, <2>1 DEF Started, ItemsBefore, ErrorsBefore
<1>11. ReadOn'
  <2>1. ReadOn /\ ModuleTypeOK
    BY DEF ModuleInv
  <2>2. ItemsBefore(module, decls, Done(q) + 1)
    BY <1>8, <2>1, Later DEF ReadOn
  <2>3. ErrorsBefore(errors, Here(q) + 1)
    BY <1>8, <2>1, Later
  <2>4. module.header # NoNode => q.pos > 1
    BY <1>8, <2>1 DEF ReadOn
  <2> QED BY <1>1, <1>2, <1>9, <2>2, <2>3, <2>4 DEF ReadOn, ItemsBefore, ErrorsBefore
<1>12. Outlining
  BY <1>1, <1>4, Stutter
<1> QED BY <1>2, <1>3, <1>5, <1>6, <1>7, <1>10, <1>11, <1>12 DEF ModuleInv
-----------------------------------------------------------------------------
(* What has been given.                                                    *)

DeclNodes(ds) == [i \in 1..Len(ds) |-> ds[i].node]

Heads(m) == IF m.header = NoNode THEN <<>> ELSE <<m.header>>

(* The header, the imports and the declarations as sequences of nodes.     *)
LEMMA Lists ==
  ASSUME NEW m \in Module, NEW ds \in Seq(Declared)
  PROVE  /\ Heads(m) \in Seq(Node) /\ m.imports \in Seq(Node) /\ DeclNodes(ds) \in Seq(Node)
         /\ Len(DeclNodes(ds)) = Len(ds) /\ \A i \in 1..Len(ds) : DeclNodes(ds)[i] = ds[i].node
         /\ ds = <<>> => DeclNodes(ds) = <<>>
         /\ Heads(m) \o m.imports \in Seq(Node)
<1>1. m.header \in Node /\ m.imports \in Seq(Node)
  BY DEF Module
<1>2. Heads(m) \in Seq(Node)
  BY <1>1 DEF Heads
<1>3. \A i \in 1..Len(ds) : ds[i] \in Declared
  OBVIOUS
<1>4. \A i \in 1..Len(ds) : ds[i].node \in Node
  BY <1>3 DEF Declared
<1>5. DeclNodes(ds) \in Seq(Node) /\ Len(DeclNodes(ds)) = Len(ds)
  BY <1>4 DEF DeclNodes
<1>6. ds = <<>> => DeclNodes(ds) = <<>>
  BY <1>5
<1>7. Heads(m) \o m.imports \in Seq(Node)
  BY <1>1, <1>2
<1> QED BY <1>1, <1>2, <1>5, <1>6, <1>7 DEF DeclNodes

(* What has been given, in one sequence; the outline gives its spans.      *)
LEMMA DeliveredIs ==
  ASSUME ModuleTypeOK
  PROVE  /\ Delivered = (Heads(module) \o module.imports) \o DeclNodes(decls)
         /\ Delivered \in Seq(Node)
         /\ Len(Items) = Len(Delivered)
         /\ \A i \in 1..Len(Delivered) : Items[i] = <<Delivered[i].from, Delivered[i].to>>
         /\ module.header # NoNode => Delivered # <<>>
         /\ \A x : ItemsBefore(module, decls, x) => \A i \in 1..Len(Delivered) : Delivered[i].to < x
<1> DEFINE h == Heads(module)
           m == module.imports
           d == DeclNodes(decls)
<1>1. Delivered = (h \o m) \o d
  BY DEF Delivered, Heads, DeclNodes
<1>2. /\ h \in Seq(Node) /\ m \in Seq(Node) /\ d \in Seq(Node) /\ h \o m \in Seq(Node)
      /\ Len(d) = Len(decls) /\ \A i \in 1..Len(decls) : d[i] = decls[i].node
  BY Lists DEF ModuleTypeOK
<1>3. \A i \in 1..Len(h) : module.header # NoNode /\ h[i] = module.header
  BY DEF Heads
<1>4. module.header # NoNode => Len(h) = 1
  BY DEF Heads
<1> HIDE DEF h, m, d
<1>5. Delivered \in Seq(Node) /\ Len(Delivered) = Len(h) + Len(m) + Len(d)
  <2>1. Len(h \o m) = Len(h) + Len(m)
    BY <1>2, ConcatProperties
  <2>2. (h \o m) \o d \in Seq(Node) /\ Len((h \o m) \o d) = Len(h \o m) + Len(d)
    BY <1>2, ConcatProperties
  <2> QED BY <1>1, <2>1, <2>2
<1>6. \A i \in 1..Len(Delivered) : \/ i \in 1..Len(h) /\ Delivered[i] = h[i]
                                   \/ \E j \in 1..Len(m) : Delivered[i] = m[j]
                                   \/ \E j \in 1..Len(d) : Delivered[i] = d[j]
  <2> TAKE i \in 1..Len(Delivered)
  <2>1. CASE i <= Len(h)
    BY <1>1, <1>2, <1>5, <2>1
  <2>2. CASE i > Len(h) /\ i <= Len(h) + Len(m)
    <3>1. i - Len(h) \in 1..Len(m) /\ Delivered[i] = m[i - Len(h)]
      BY <1>1, <1>2, <1>5, <2>2
    <3> QED BY <3>1
  <2>3. CASE i > Len(h) + Len(m)
    <3>1. i - Len(h) - Len(m) \in 1..Len(d) /\ Delivered[i] = d[i - Len(h) - Len(m)]
      BY <1>1, <1>2, <1>5, <2>3
    <3> QED BY <3>1
  <2> QED BY <1>2, <1>5, <2>1, <2>2, <2>3
<1>7. /\ Len(Items) = Len(Delivered)
      /\ \A i \in 1..Len(Delivered) : Items[i] = <<Delivered[i].from, Delivered[i].to>>
  BY <1>5 DEF Items
<1>8. module.header # NoNode => Delivered # <<>>
  BY <1>2, <1>4, <1>5
<1>9. \A x : ItemsBefore(module, decls, x) => \A i \in 1..Len(Delivered) : Delivered[i].to < x
  BY <1>2, <1>3, <1>6 DEF ItemsBefore, m
<1> QED BY <1>1, <1>5, <1>7, <1>8, <1>9 DEF h, m, d

(* One more item: the outline grows at its end.                            *)
LEMMA AddsItem ==
  ASSUME ModuleTypeOK, ModuleTypeOK', NEW n \in Node, Delivered' = Append(Delivered, n),
         ItemsBefore(module, decls, n.from), ErrorsBefore(errors, n.from + 1), n.from <= n.to,
         errors # <<>> => mode = "recovering" /\ module.header # NoNode,
         UNCHANGED <<mode, errors>>, ~Stopped, ~Stopped'
  PROVE  Outlining
<1> DEFINE k == Len(Delivered)
<1>1. k \in Nat /\ Delivered \in Seq(Node) /\ n.from \in Nat /\ n.to \in Nat
  BY DeliveredIs, NodeParts
<1>2. Len(Delivered') = k + 1 /\ Delivered'[k + 1] = n /\ \A i \in 1..k : Delivered'[i] = Delivered[i]
  BY <1>1, AppendProperties
<1>3. Len(Items) = k /\ \A i \in 1..k : Items[i] = <<Delivered[i].from, Delivered[i].to>> /\ Delivered[i].to < n.from
  BY DeliveredIs
<1>4. Len(Items') = k + 1 /\ \A i \in 1..(k + 1) : Items'[i] = <<Delivered'[i].from, Delivered'[i].to>>
  <2>1. Len(Delivered') \in Nat /\ Len(Delivered') = k + 1
    BY <1>1, <1>2
  <2>2. /\ Len(Items') = Len(Delivered')
        /\ \A i \in 1..Len(Delivered') : Items'[i] = <<Delivered'[i].from, Delivered'[i].to>>
    BY <2>1 DEF Items
  <2> HIDE DEF k
  <2> QED BY <2>1, <2>2
<1> HIDE DEF k
<1>5. Outlined!OneMore(Items, Items')
  <2>1. \A i \in 1..k : Items'[i] = Items[i]
    <3> TAKE i \in 1..k
    <3>1. i \in 1..(k + 1)
      BY <1>1
    <3>2. Items'[i] = <<Delivered'[i].from, Delivered'[i].to>> /\ Delivered'[i] = Delivered[i]
      BY <1>2, <1>4, <3>1
    <3>3. Items[i] = <<Delivered[i].from, Delivered[i].to>>
      BY <1>3
    <3> QED BY <3>2, <3>3
  <2> QED BY <1>3, <1>4, <2>1 DEF Outlined!OneMore
<1>6. Items'[Len(Items')] = <<n.from, n.to>>
  BY <1>1, <1>2, <1>4
<1>7. Outlined!Unread(n.from)
  <2>1. Items # <<>> => Items[Len(Items)][2] < n.from
    <3> SUFFICES ASSUME Items # <<>> PROVE Items[Len(Items)][2] < n.from
      OBVIOUS
    <3>1. k # 0
      <4>1. k = 0 => Delivered = <<>>
        BY <1>1 DEF k
      <4>2. Delivered = <<>> => Items = <<>>
        BY DEF Items
      <4> QED BY <4>1, <4>2
    <3> QED BY <1>1, <1>3, <3>1
  <2>2. errors # <<>> => errors[Len(errors)] <= n.from
    <3>1. errors \in Seq(Nat)
      BY DEF ModuleTypeOK
    <3>2. errors # <<>> => Len(errors) \in 1..Len(errors) /\ errors[Len(errors)] \in Nat
      BY <3>1, EmptySeq
    <3> QED BY <1>1, <3>2 DEF ErrorsBefore
  <2> QED BY <2>1, <2>2 DEF Outlined!Unread
<1>8. errors # <<>> => Items # <<>>
  <2>1. errors # <<>> => k # 0
    BY DeliveredIs DEF k
  <2> QED BY <1>3, <2>1
<1>9. Stopped' = Stopped
  BY DEF Stopped
<1> QED BY <1>5, <1>6, <1>7, <1>8, <1>9 DEF Outlining, Outlined!OutlineNext, Outlined!AddItem
-----------------------------------------------------------------------------
(* An item is complete.                                                    *)

Gathered(m, ds) == (Heads(m) \o m.imports) \o DeclNodes(ds)

(* In each of its three places the item comes last.                        *)
LEMMA Gathers ==
  ASSUME NEW m \in Module, NEW ds \in Seq(Declared), NEW n \in Node, NEW d \in Nat
  PROVE  /\ m.header = NoNode /\ n # NoNode /\ m.imports = <<>> /\ ds = <<>>
              => Gathered([m EXCEPT !.header = n], ds) = Append(Gathered(m, ds), n)
         /\ ds = <<>> => Gathered([m EXCEPT !.imports = Append(@, n)], ds) = Append(Gathered(m, ds), n)
         /\ Gathered(m, Append(ds, [node |-> n, doc |-> d])) = Append(Gathered(m, ds), n)
<1>1. /\ Heads(m) \in Seq(Node) /\ m.imports \in Seq(Node) /\ DeclNodes(ds) \in Seq(Node)
      /\ Heads(m) \o m.imports \in Seq(Node) /\ (ds = <<>> => DeclNodes(ds) = <<>>)
  BY Lists
<1>2. \A s \in Seq(Node) : s \o <<>> = s
  BY ConcatEmptySeq
<1>3. ASSUME m.header = NoNode, n # NoNode, m.imports = <<>>, ds = <<>>
      PROVE  Gathered([m EXCEPT !.header = n], ds) = Append(Gathered(m, ds), n)
  <2>1. [m EXCEPT !.header = n].header = n /\ [m EXCEPT !.header = n].imports = <<>>
    BY <1>3 DEF Module
  <2>2. Heads([m EXCEPT !.header = n]) = <<n>> /\ Heads(m) = <<>>
    BY <1>3, <2>1 DEF Heads
  <2>3. (<<n>> \o <<>>) \o <<>> = <<n>> /\ (<<>> \o <<>>) \o <<>> = <<>> /\ Append(<<>>, n) = <<n>>
    OBVIOUS
  <2> QED BY <1>1, <1>3, <2>1, <2>2, <2>3 DEF Gathered
<1>4. ASSUME ds = <<>>
      PROVE  Gathered([m EXCEPT !.imports = Append(@, n)], ds) = Append(Gathered(m, ds), n)
  <2> DEFINE m2 == [m EXCEPT !.imports = Append(@, n)]
             h == Heads(m)
             i == m.imports
  <2>1. m2.imports = Append(i, n) /\ m2.header = m.header
    BY DEF Module
  <2>2. Heads(m2) = h
    BY <2>1 DEF Heads
  <2>3. Append(i, n) \in Seq(Node)
    BY <1>1
  <2>4. h \in Seq(Node) /\ i \in Seq(Node)
    BY <1>1
  <2> HIDE DEF m2, h, i
  <2>5. h \o Append(i, n) = Append(h \o i, n) /\ h \o Append(i, n) \in Seq(Node) /\ h \o i \in Seq(Node)
    BY <2>3, <2>4
  <2>6. Gathered(m2, ds) = (h \o Append(i, n)) \o <<>>
    BY <1>1, <1>4, <2>1, <2>2 DEF Gathered
  <2>7. Gathered(m, ds) = (h \o i) \o <<>>
    BY <1>1, <1>4 DEF Gathered, h, i
  <2>8. Gathered(m2, ds) = Append(h \o i, n) /\ Gathered(m, ds) = h \o i
    BY <1>2, <2>5, <2>6, <2>7
  <2> QED BY <2>8 DEF m2
<1>5. Gathered(m, Append(ds, [node |-> n, doc |-> d])) = Append(Gathered(m, ds), n)
  <2> DEFINE new == [node |-> n, doc |-> d]
             ds2 == Append(ds, new)
             s == Heads(m) \o m.imports
             k == Len(ds)
  <2>1. new \in Declared /\ new.node = n
    BY DEF Declared
  <2> HIDE DEF new
  <2>2. k \in Nat /\ Len(ds2) = k + 1 /\ ds2[k + 1] = new /\ \A i \in 1..k : ds2[i] = ds[i]
    BY <2>1
  <2> HIDE DEF ds2
  <2> HIDE DEF k
  <2>3. DeclNodes(ds2) \in Seq(Node) /\ Len(DeclNodes(ds2)) = k + 1 /\ \A i \in 1..(k + 1) : DeclNodes(ds2)[i] = ds2[i].node
    <3>1. ds2 \in Seq(Declared)
      BY <2>1 DEF ds2
    <3> QED BY <2>2, <3>1, Lists
  <2> DEFINE t == DeclNodes(ds)
             u == DeclNodes(ds2)
  <2>4. t \in Seq(Node) /\ Len(t) = k /\ \A i \in 1..k : t[i] = ds[i].node
    BY Lists DEF k
  <2> HIDE DEF t
  <2>5. Append(t, n) \in Seq(Node) /\ Len(Append(t, n)) = k + 1 /\ Append(t, n)[k + 1] = n /\ \A i \in 1..k : Append(t, n)[i] = ds[i].node
    BY <2>2, <2>4
  <2>6. \A i \in 1..(k + 1) : u[i] = Append(t, n)[i]
    <3> TAKE i \in 1..(k + 1)
    <3>1. CASE i = k + 1
      BY <2>1, <2>2, <2>3, <2>5, <3>1
    <3>2. CASE i # k + 1
      <4>1. i \in 1..k
        BY <2>2, <3>2
      <4> QED BY <2>2, <2>3, <2>5, <4>1
    <3> QED BY <3>1, <3>2
  <2>7. DeclNodes(ds2) = Append(DeclNodes(ds), n)
    <3> HIDE DEF u
    <3>1. u \in Seq(Node) /\ Len(u) = k + 1
      BY <2>3 DEF u
    <3>2. u = Append(t, n)
      BY <2>5, <2>6, <3>1, SeqEqual
    <3> QED BY <3>2 DEF u, t
  <2>8. s \in Seq(Node) /\ t \in Seq(Node)
    BY <1>1, <2>4
  <2> HIDE DEF s, t
  <2>9. s \o Append(t, n) = Append(s \o t, n)
    BY <2>8
  <2> QED BY <2>7, <2>9 DEF Gathered, s, t, ds2, new
<1> QED BY <1>3, <1>4, <1>5

(* An item that ends before x is one more of the items that do.            *)
LEMMA BeforeToo ==
  ASSUME NEW m \in Module, NEW ds \in Seq(Declared), NEW n \in Node, NEW d \in Nat, NEW x,
         ItemsBefore(m, ds, x), n.to < x
  PROVE  /\ ItemsBefore([m EXCEPT !.header = n], ds, x)
         /\ ItemsBefore([m EXCEPT !.imports = Append(@, n)], ds, x)
         /\ ItemsBefore(m, Append(ds, [node |-> n, doc |-> d]), x)
         /\ [m EXCEPT !.header = n] \in Module /\ [m EXCEPT !.imports = Append(@, n)] \in Module
         /\ Append(ds, [node |-> n, doc |-> d]) \in Seq(Declared)
<1>1. m.imports \in Seq(Node) /\ Append(m.imports, n) \in Seq(Node)
  BY DEF Module
<1>2. [node |-> n, doc |-> d] \in Declared /\ [node |-> n, doc |-> d].node = n
  BY DEF Declared
<1>3. /\ [m EXCEPT !.header = n] \in Module /\ [m EXCEPT !.imports = Append(@, n)] \in Module
      /\ [m EXCEPT !.header = n].header = n /\ [m EXCEPT !.header = n].imports = m.imports
      /\ [m EXCEPT !.imports = Append(@, n)].header = m.header
      /\ [m EXCEPT !.imports = Append(@, n)].imports = Append(m.imports, n)
  BY <1>1 DEF Module
<1> DEFINE new == [node |-> n, doc |-> d]
<1> HIDE DEF new
<1>4. Append(ds, new) \in Seq(Declared)
  BY <1>2 DEF new
<1>5. \A i \in 1..Len(Append(m.imports, n)) : Append(m.imports, n)[i].to < x
  BY <1>1 DEF ItemsBefore
<1>6. \A i \in 1..Len(Append(ds, new)) : Append(ds, new)[i].node.to < x
  <2>1. new \in Declared /\ new.node.to < x
    BY <1>2 DEF new
  <2> QED BY <2>1 DEF ItemsBefore
<1> QED BY <1>3, <1>4, <1>5, <1>6 DEF ItemsBefore, new

(* What has been given, before and after a step.                           *)
LEMMA GatheredIs == Delivered = Gathered(module, decls) /\ Delivered' = Gathered(module', decls')
<1>1. Delivered = Gathered(module, decls)
  BY Zenon DEF Delivered, Gathered, Heads, DeclNodes
<1>2. Delivered' = Gathered(module', decls')
  BY Zenon DEF Delivered, Gathered, Heads, DeclNodes
<1> QED BY <1>1, <1>2

(* The construct in progress is complete: n comes after all given before.  *)
LEMMA ItemIsRead ==
  ASSUME ModuleInv, Working, at \notin {"signature", "pattern"}, NEW q, Reaches(p, q),
         NEW n \in Node, n.from = outer[1].from, n.to = Done(q),
         Goto(q, <<>>, "ok"), outer' = <<>>, want' = <<>>, at' \in {"imports", "declarations"},
         UNCHANGED <<mode, errors>>, doc' \in Nat, module' \in Module, decls' \in Seq(Declared),
         Delivered' = Append(Delivered, n), ItemsBefore(module', decls', Done(q) + 1),
         module'.header # NoNode, at' = "imports" => decls' = <<>>
  PROVE  ModuleInv' /\ Outlining
<1>1. /\ IInv' /\ Ordered' /\ toks' = toks /\ p' = q /\ calls' = <<>> /\ conts' = conts /\ ctl' = "ok"
  BY Idling DEF Callable
<1>2. /\ Here(p) \in Nat /\ Done(p) \in Nat /\ Here(q) \in Nat /\ Done(q) \in Nat /\ Here(p) <= Here(q)
      /\ Done(p) <= Done(q) /\ (p.pos > 1 => q.pos > 1)
  BY DEF Reaches
<1>3. Stopped' = FALSE
  BY DEF Stopped
<1>4. ModuleTypeOK'
  <2>1. want' \in Rows /\ outer' \in Seq(Frame)
    BY DEF Rows
  <2> QED BY <2>1 DEF ModuleInv, ModuleTypeOK
<1>5. PlaceFits(at, outer)'
  BY DEF PlaceFits, InNone
<1>6. MachineFits'
  BY <1>1, <1>3, Underway DEF MachineFits
<1>7. PartsFit'
  <2>1. ~UnderHeader(at, outer)' /\ (UnderImports(at, outer)' => at' = "imports")
    BY DEF UnderHeader, UnderImports
  <2> QED BY <2>1, Underway DEF PartsFit
<1>8. Started'
  BY DEF Started
<1>9. Here(p)' = Here(q) /\ Done(p)' = Done(q)
  BY <1>1 DEF Here, Done
<1>10. ModuleTypeOK
  BY DEF ModuleInv
<1>11. ReadOn'
  <2>1. ErrorsBefore(errors, Here(p))
    BY Underway
  <2>2. ErrorsBefore(errors, Here(q)) /\ ErrorsBefore(errors, Here(q) + 1)
    BY <1>2, <1>10, <2>1, Later
  <2>3. q.pos > 1
    BY <1>2, Underway
  <2> QED BY <1>1, <1>9, <2>2, <2>3 DEF ReadOn, ItemsBefore, ErrorsBefore
<1>12. Outlining
  <2>1. n.from <= n.to
    <3>1. outer[1].from \in Nat
      BY <1>10, Underway, FrameParts, EmptySeq DEF ModuleTypeOK
    <3>2. outer[1].from <= Done(p)
      BY Underway
    <3> QED BY <1>2, <3>1, <3>2
  <2>2. ItemsBefore(module, decls, n.from) /\ ErrorsBefore(errors, n.from + 1)
    BY Underway
  <2>3. errors # <<>> => mode = "recovering" /\ module.header # NoNode
    BY Underway
  <2>4. ~Stopped
    BY Underway
  <2> QED BY <1>3, <1>4, <1>10, <2>1, <2>2, <2>3, <2>4, AddsItem
<1> QED BY <1>1, <1>4, <1>5, <1>6, <1>7, <1>8, <1>11, <1>12 DEF ModuleInv

(* The node that ends at q, in each of its places.                         *)
LEMMA Closed ==
  ASSUME ModuleInv, NEW q, OK(q), Reaches(p, q), NEW n \in Node, n.to = Done(q), NEW d \in Nat
  PROVE  /\ ItemsBefore([module EXCEPT !.header = n], decls, Done(q) + 1)
         /\ ItemsBefore([module EXCEPT !.imports = Append(@, n)], decls, Done(q) + 1)
         /\ ItemsBefore(module, Append(decls, [node |-> n, doc |-> d]), Done(q) + 1)
         /\ [module EXCEPT !.header = n] \in Module /\ [module EXCEPT !.imports = Append(@, n)] \in Module
         /\ Append(decls, [node |-> n, doc |-> d]) \in Seq(Declared)
<1>1. module \in Module /\ decls \in Seq(Declared) /\ ModuleTypeOK
  BY DEF ModuleInv, ModuleTypeOK
<1>2. Done(p) \in Nat /\ Done(q) \in Nat /\ Done(p) <= Done(q)
  BY DEF Reaches
<1>3. ItemsBefore(module, decls, Done(q) + 1)
  BY <1>1, <1>2, Later DEF ModuleInv, ReadOn
<1>4. n.to < Done(q) + 1
  BY <1>2
<1> QED BY <1>1, <1>3, <1>4, BeforeToo

(* The header is complete.                                                 *)
LEMMA HeaderIsRead ==
  ASSUME ModuleInv, Working, outer[1].fn \in {"header", "effect"}, NEW q, Reaches(p, q),
         NEW n \in Node, n # NoNode, n.from = outer[1].from, n.to = Done(q),
         Proceed(q, <<>>, "imports"), module' = [module EXCEPT !.header = n], Rest
  PROVE  ModuleInv' /\ Outlining
<1>1. OK(q) /\ module \in Module /\ decls \in Seq(Declared) /\ 0 \in Nat /\ doc \in Nat
  BY DEF Reaches, ModuleInv, ModuleTypeOK
<1>2. outer # <<>>
  BY Underway
<1>3. module.header = NoNode /\ module.imports = <<>> /\ decls = <<>>
  BY <1>2 DEF ModuleInv, PartsFit, UnderHeader
<1>4. at \notin {"signature", "pattern"}
  BY <1>2 DEF ModuleInv, PlaceFits, InHeader, InImport, InList, InDeclaration, InNone
<1>5. /\ Goto(q, <<>>, "ok") /\ outer' = <<>> /\ want' = <<>> /\ at' = "imports" /\ decls' = decls
      /\ mode' = mode /\ errors' = errors /\ doc' = doc
  BY DEF Proceed, Call, Rest
<1>6. Delivered' = Append(Delivered, n)
  <2>1. Delivered = Gathered(module, decls) /\ Delivered' = Gathered(module', decls')
    BY GatheredIs
  <2>2. Gathered([module EXCEPT !.header = n], decls) = Append(Gathered(module, decls), n)
    BY <1>1, <1>3, Gathers
  <2> QED BY <1>5, <2>1, <2>2
<1>7. module' \in Module /\ decls' \in Seq(Declared) /\ ItemsBefore(module', decls', Done(q) + 1)
  BY <1>1, <1>5, Closed
<1>8. module'.header = n
  BY <1>1 DEF Module
<1> QED BY <1>1, <1>3, <1>4, <1>5, <1>6, <1>7, <1>8, ItemIsRead

(* An import is complete.                                                  *)
LEMMA ImportIsRead ==
  ASSUME ModuleInv, Working, outer[1].fn = "import", NEW q, Reaches(p, q),
         NEW n \in Node, n.from = outer[1].from, n.to = Done(q),
         Proceed(q, <<>>, "imports"), module' = [module EXCEPT !.imports = Append(@, n)], Rest
  PROVE  ModuleInv' /\ Outlining
<1>1. OK(q) /\ module \in Module /\ decls \in Seq(Declared) /\ 0 \in Nat /\ doc \in Nat
  BY DEF Reaches, ModuleInv, ModuleTypeOK
<1>2. outer # <<>>
  BY Underway
<1>3. decls = <<>>
  BY <1>2 DEF ModuleInv, PartsFit, UnderImports
<1>4. at \notin {"signature", "pattern", "failed", "header"}
  BY <1>2 DEF ModuleInv, PlaceFits, InHeader, InImport, InList, InDeclaration, InNone
<1>5. module.header # NoNode
  BY <1>2, <1>4 DEF ModuleInv, PartsFit, UnderHeader
<1>6. /\ Goto(q, <<>>, "ok") /\ outer' = <<>> /\ want' = <<>> /\ at' = "imports" /\ decls' = decls
      /\ mode' = mode /\ errors' = errors /\ doc' = doc
  BY DEF Proceed, Call, Rest
<1>7. Delivered' = Append(Delivered, n)
  <2>1. Delivered = Gathered(module, decls) /\ Delivered' = Gathered(module', decls')
    BY GatheredIs
  <2>2. Gathered([module EXCEPT !.imports = Append(@, n)], decls) = Append(Gathered(module, decls), n)
    BY <1>1, <1>3, Gathers
  <2> QED BY <1>6, <2>1, <2>2
<1>8. module' \in Module /\ decls' \in Seq(Declared) /\ ItemsBefore(module', decls', Done(q) + 1)
  BY <1>1, <1>6, Closed
<1>9. module'.header = module.header
  BY <1>1 DEF Module
<1> QED BY <1>1, <1>3, <1>4, <1>5, <1>6, <1>7, <1>8, <1>9, ItemIsRead

(* A declaration is complete.                                              *)
LEMMA DeclarationIsRead ==
  ASSUME ModuleInv, Working, outer[1].fn = "declaration", at \notin {"signature", "pattern"},
         NEW q, Reaches(p, q), NEW n \in Node, n.from = outer[1].from, n.to = Done(q), NEW d \in Nat,
         EndDeclaration(q, n, d), UNCHANGED <<mode, module, errors>>
  PROVE  ModuleInv' /\ Outlining
<1>1. OK(q) /\ module \in Module /\ decls \in Seq(Declared) /\ 0 \in Nat
  BY DEF Reaches, ModuleInv, ModuleTypeOK
<1>2. outer # <<>>
  BY Underway
<1>3. at \notin {"failed", "header"}
  BY <1>2 DEF ModuleInv, PlaceFits, InHeader, InImport, InList, InDeclaration, InNone
<1>4. module.header # NoNode
  BY <1>2, <1>3 DEF ModuleInv, PartsFit, UnderHeader
<1>5. /\ Goto(q, <<>>, "ok") /\ outer' = <<>> /\ want' = <<>> /\ at' = "declarations"
      /\ decls' = Append(decls, [node |-> n, doc |-> d]) /\ doc' = 0 /\ module' = module
  BY DEF EndDeclaration
<1>6. Delivered' = Append(Delivered, n)
  <2>1. Delivered = Gathered(module, decls) /\ Delivered' = Gathered(module', decls')
    BY GatheredIs
  <2>2. Gathered(module, Append(decls, [node |-> n, doc |-> d])) = Append(Gathered(module, decls), n)
    BY <1>1, Gathers
  <2> QED BY <1>5, <2>1, <2>2
<1>7. decls' \in Seq(Declared) /\ ItemsBefore(module', decls', Done(q) + 1)
  BY <1>1, <1>5, Closed
<1> QED BY <1>1, <1>4, <1>5, <1>6, <1>7, ItemIsRead
-----------------------------------------------------------------------------
(* Between the constructs.                                                 *)

(* No construct is in progress.                                            *)
LEMMA Idle ==
  ASSUME ModuleInv, at \in InNone, Runs(at)
  PROVE  /\ outer = <<>> /\ calls = <<>> /\ conts = <<>> /\ want = <<>> /\ ctl = "ok"
         /\ module.header # NoNode => p.pos > 1
         /\ module.header = NoNode => module.imports = <<>> /\ decls = <<>>
         /\ at \notin {"header", "failed"} => module.header # NoNode
         /\ at = "header" => module.header = NoNode
         /\ at \in {"imports", "skipInImports"} => decls = <<>>
         /\ ~Stopped /\ errors # <<>> => mode = "recovering" /\ module.header # NoNode
<1>1. ctl = "ok" /\ want = <<>> /\ calls = <<>> /\ conts = <<>>
  BY DEF Runs, ModuleInv, MachineFits
<1>2. outer = <<>>
  BY DEF ModuleInv, PlaceFits, InNone, InHeader, InImport, InList, InDeclaration
<1> QED BY <1>1, <1>2 DEF ModuleInv, PartsFit, ReadOn, UnderHeader, UnderImports

(* A construct is opened at s: what was given ends before it.              *)
LEMMA OpenOn ==
  ASSUME ModuleInv, at \in {"header", "imports", "declaration"}, Runs(at),
         NEW s, NEW q, Reaches(p, s), Reaches(s, q),
         NEW fr \in Frame, fr.from = Here(s),
         \/ at = "header" /\ fr.fn \in {"header", "effect"}
         \/ at = "imports" /\ fr.fn = "import"
         \/ at = "declaration" /\ fr.fn = "declaration",
         NEW a, PlaceFits(a, <<fr>>), NEW w \in Rows, NEW c \in Callable,
         c = "ok" \/ (a \in Waits /\ w = <<>>),
         w # <<>> \/ a \in {"signature", "pattern"} \/ Passes(s, q),
         \/ ErrorsBefore(errors, Here(q))
         \/ /\ Peek(Skip(q)) = "lower"
            /\ \/ a = "signature" /\ c = "signature"
               \/ a = "arguments" /\ c = "ok" /\ w = <<{"lower"}>>,
         Goto(q, <<>>, c), outer' = <<fr>>, at' = a, want' = w, UNCHANGED <<decls, mode, module, errors>>, doc' \in Nat
  PROVE  ModuleInv' /\ Outlining
<1>1. Reaches(p, q)
  BY ReachesOn
<1>2. /\ IInv' /\ Ordered' /\ toks' = toks /\ p' = q /\ calls' = <<>> /\ conts' = conts /\ ctl' = c
  BY <1>1, Idling
<1>3. a \notin InNone
  BY DEF PlaceFits, InNone, InHeader, InImport, InList, InDeclaration
<1>4. at \in InNone /\ ~Stopped
  BY DEF InNone, Stopped
<1>5. Stopped' = FALSE
  BY <1>3 DEF Stopped, InNone
<1>6. /\ Here(p) \in Nat /\ Done(p) \in Nat /\ Here(s) \in Nat /\ Here(q) \in Nat /\ Done(q) \in Nat
      /\ Here(p) <= Here(s) /\ Here(s) <= Here(q) /\ Done(p) <= Done(q)
      /\ (p.pos > 1 => q.pos > 1 /\ Done(p) < Here(p))
  BY <1>1 DEF Reaches
<1>7. ModuleTypeOK
  BY DEF ModuleInv
<1>8. ModuleTypeOK'
  BY <1>7 DEF ModuleTypeOK
<1>9. PlaceFits(at, outer)'
  BY DEF PlaceFits
<1>10. MachineFits'
  BY <1>2, <1>3, <1>4, <1>5, Idle DEF MachineFits, Callable
<1>11. PartsFit'
  <2>1. outer'[1] = fr /\ outer' # <<>>
    OBVIOUS
  <2>2. UnderHeader(at, outer)' <=> at = "header"
    BY <1>3, <2>1 DEF UnderHeader, InNone
  <2>3. UnderImports(at, outer)' => at = "imports"
    BY <1>3, <2>1 DEF UnderImports, InNone
  <2> QED BY <1>4, <2>2, <2>3, Idle DEF PartsFit
<1>12. Here(p)' = Here(q) /\ Done(p)' = Done(q)
  BY <1>2 DEF Here, Done
<1>13. ItemsBefore(module, decls, Here(s))
  <2>1. CASE module.header = NoNode
    BY <1>4, <2>1, Idle DEF ItemsBefore
  <2>2. CASE module.header # NoNode
    <3>1. Done(p) + 1 <= Here(s)
      BY <1>4, <1>6, <2>2, Idle
    <3> QED BY <1>6, <1>7, <3>1, Later DEF ModuleInv, ReadOn
  <2> QED BY <2>1, <2>2
<1>14. ErrorsBefore(errors, Here(s) + 1) /\ ErrorsBefore(errors, Here(q) + 1)
  BY <1>6, <1>7, Later DEF ModuleInv, ReadOn
<1>15. Started'
  <2>1. outer'[1] = fr /\ outer'[1].from = Here(s)
    OBVIOUS
  <2>2. w = <<>> /\ a \notin {"signature", "pattern"} => q.pos > 1 /\ Here(s) <= Done(q)
    BY DEF Passes
  <2> QED BY <1>6, <1>12, <1>13, <1>14, <1>2, <2>1, <2>2 DEF Started, ItemsBefore, ErrorsBefore
<1>16. ReadOn'
  <2>1. ItemsBefore(module, decls, Done(q) + 1)
    BY <1>6, <1>7, Later DEF ModuleInv, ReadOn
  <2>2. module.header # NoNode => q.pos > 1
    BY <1>4, <1>6, Idle
  <2>3. ErrorsBefore(errors, Here(q)) \/ Stalled'
    <3> SUFFICES ASSUME ~ErrorsBefore(errors, Here(q)) PROVE Stalled'
      OBVIOUS
    <3>1. Peek(Skip(p))' = "lower"
      BY <1>2 DEF Peek, Skip, OnTrivia
    <3> QED BY <1>2, <3>1 DEF Stalled
  <2> QED BY <1>2, <1>12, <1>14, <2>1, <2>2, <2>3 DEF ReadOn, ItemsBefore, ErrorsBefore
<1>17. Outlining
  BY <1>4, <1>5, Stutter
<1> QED BY <1>2, <1>8, <1>9, <1>10, <1>11, <1>15, <1>16, <1>17 DEF ModuleInv

(* From one construct to the next.                                         *)
LEMMA MoveOn ==
  ASSUME ModuleInv, at \in {"imports", "declarations"} \cup Skipping, Runs(at), NEW q,
         Reaches(p, q),
         NEW a \in {"imports", "declarations", "declaration"} \cup Skipping,
         a \in {"imports", "skipInImports"} => at \in {"imports", "skipInImports"},
         Proceed(q, <<>>, a), UNCHANGED <<mode, errors>>, doc' \in Nat,
         module' \in Module, module'.header = module.header, module'.imports = module.imports,
         \/ ErrorsBefore(errors, Here(q))
         \/ a \in Skipping
         \/ a \in {"imports", "declarations"} /\ Peek(Skip(q)) \in Boundaries \cup {"eof"}
         \/ a = "declaration" /\ Peek(Skip(q)) \in Boundaries
  PROVE  ModuleInv' /\ Outlining
<1>1. Goto(q, <<>>, "ok") /\ outer' = <<>> /\ at' = a /\ want' = <<>> /\ decls' = decls
  BY DEF Proceed, Call
<1>2. /\ IInv' /\ Ordered' /\ toks' = toks /\ p' = q /\ calls' = <<>> /\ conts' = conts /\ ctl' = "ok"
  BY <1>1, Idling DEF Callable
<1>3. at \in InNone /\ ~Stopped /\ at \notin {"header", "failed"}
  BY DEF InNone, Stopped, Skipping
<1>4. Stopped' = FALSE /\ a \in InNone /\ a \notin {"header", "failed"}
  BY <1>1 DEF Stopped, Skipping, InNone
<1>5. /\ Here(p) \in Nat /\ Done(p) \in Nat /\ Here(q) \in Nat /\ Done(q) \in Nat
      /\ Here(p) <= Here(q) /\ Done(p) <= Done(q) /\ (p.pos > 1 => q.pos > 1)
  BY DEF Reaches
<1>6. ModuleTypeOK
  BY DEF ModuleInv
<1>7. ModuleTypeOK'
  <2>1. want' \in Rows /\ outer' \in Seq(Frame)
    BY <1>1 DEF Rows
  <2> QED BY <1>1, <1>6, <2>1 DEF ModuleTypeOK
<1>8. PlaceFits(at, outer)'
  BY <1>1, <1>4 DEF PlaceFits
<1>9. MachineFits'
  BY <1>1, <1>2, <1>3, <1>4, Idle DEF MachineFits
<1>10. PartsFit'
  <2>1. ~UnderHeader(at, outer)' /\ (UnderImports(at, outer)' => a \in {"imports", "skipInImports"})
    BY <1>1, <1>4 DEF UnderHeader, UnderImports
  <2>2. module'.header # NoNode
    BY <1>3, Idle
  <2> QED BY <1>1, <1>3, <2>1, <2>2, Idle DEF PartsFit
<1>11. Started'
  BY <1>1 DEF Started
<1>12. Here(p)' = Here(q) /\ Done(p)' = Done(q)
  BY <1>2 DEF Here, Done
<1>13. ReadOn'
  <2>1. ItemsBefore(module, decls, Done(q) + 1) /\ ErrorsBefore(errors, Here(q) + 1)
    BY <1>5, <1>6, Later DEF ModuleInv, ReadOn
  <2>2. q.pos > 1
    BY <1>3, <1>5, Idle
  <2>3. ErrorsBefore(errors, Here(q)) \/ Stalled'
    <3> SUFFICES ASSUME ~ErrorsBefore(errors, Here(q)) PROVE Stalled'
      OBVIOUS
    <3>1. Peek(Skip(p))' = Peek(Skip(q))
      BY <1>2 DEF Peek, Skip, OnTrivia
    <3> QED BY <1>1, <1>2, <3>1 DEF Stalled, Skipping
  <2> QED BY <1>1, <1>2, <1>12, <2>1, <2>2, <2>3 DEF ReadOn, ItemsBefore, ErrorsBefore
<1>14. Outlining
  BY <1>1, <1>3, <1>4, Stutter
<1> QED BY <1>2, <1>7, <1>8, <1>9, <1>10, <1>11, <1>13, <1>14 DEF ModuleInv
-----------------------------------------------------------------------------
(* The steps that do not belong to one function.                           *)

(* An expected token: it is there and passed, or it is missing and an      *)
(* error is raised.                                                        *)
LEMMA ExpectedStep ==
  ASSUME ModuleInv, ExpectedToken, UNCHANGED <<mode, module, errors>>
  PROVE  ModuleInv' /\ Outlining
<1> DEFINE q == Skip(p)
<1>1. ctl = "ok" /\ want # <<>> /\ doc' = doc /\ want \in Rows /\ doc \in Nat
  BY DEF ExpectedToken, ModuleInv, ModuleTypeOK
<1>2. at \notin InNone /\ ~Stopped /\ calls = <<>> /\ conts = <<>>
  BY <1>1 DEF ModuleInv, MachineFits, Stopped, InNone
<1>3. outer # <<>>
  <2> SUFFICES ASSUME outer = <<>> PROVE FALSE
    OBVIOUS
  <2>1. Len(outer) = 0
    OBVIOUS
  <2> QED BY <1>2, <2>1 DEF ModuleInv, PlaceFits
<1>4. Reaches(p, q) /\ OK(q) /\ OK(p) /\ Stream /\ Ordered
  BY Reader, Onward
<1>5. want[1] \in SUBSET (Kinds \ {"eof"}) /\ Tail(want) \in Rows
  BY <1>1 DEF Rows
<1> HIDE DEF q
<1>6. CASE Peek(q) \notin want[1]
  <2>1. Raise(q)
    BY <1>6, Zenon DEF ExpectedToken, q
  <2>2. want # <<{"lower"}>> \/ Peek(q) # "lower"
    BY <1>6
  <2>3. ~Stalled
    BY <1>1, <1>2, <2>2 DEF Stalled, q
  <2>4. ErrorsBefore(errors, Here(p)) /\ ModuleTypeOK /\ Here(p) \in Nat /\ Here(q) \in Nat /\ Here(p) <= Here(q)
    BY <1>4, <2>3 DEF ModuleInv, ReadOn, Reaches
  <2>5. ErrorsBefore(errors, Here(q))
    BY <2>4, Later
  <2> QED BY <1>1, <1>2, <1>4, <2>1, <2>5, RaiseOn
<1>7. CASE Peek(q) \in want[1]
  <2> DEFINE r == Advance(q)
  <2>1. Expect(Tail(want), r, outer, at)
    BY <1>7, Zenon DEF ExpectedToken, q
  <2>2. Solid(q)
    <3>1. Peek(q) = toks[p.pos].kind /\ q.pos = p.pos
      BY <1>4, TokenAhead, SkipReaches DEF q
    <3> QED BY <1>5, <1>7, <3>1 DEF Solid
  <2>3. Passes(q, r)
    BY <1>4, <2>2, AdvancePasses
  <2> HIDE DEF r
  <2>4. Passes(p, r) /\ Reaches(p, r)
    BY <1>4, <2>3, ReachesOn
  <2>5. /\ Goto(r, <<>>, "ok") /\ outer' = outer /\ at' = at /\ want' = Tail(want) /\ decls' = decls
    BY <2>1 DEF Expect
  <2>6. /\ IInv' /\ Ordered' /\ toks' = toks /\ p' = r /\ calls' = <<>> /\ conts' = conts /\ ctl' = "ok"
    BY <2>4, <2>5, Idling DEF Callable
  <2>7. /\ Here(p) \in Nat /\ Done(p) \in Nat /\ Here(r) \in Nat /\ Done(r) \in Nat
        /\ Here(p) <= Done(r) /\ Done(p) <= Done(r) /\ r.pos > 1 /\ Done(r) < Here(r)
    BY <2>4 DEF Passes, Reaches
  <2>8. ModuleTypeOK
    BY DEF ModuleInv
  <2>9. ModuleTypeOK'
    BY <1>1, <1>5, <2>5, <2>8 DEF ModuleTypeOK
  <2>10. PlaceFits(at, outer)' /\ PartsFit'
    BY <2>5 DEF ModuleInv, PlaceFits, PartsFit, UnderHeader, UnderImports, Stopped
  <2>11. Stopped' = FALSE
    BY <1>2, <2>5 DEF Stopped
  <2>12. MachineFits'
    BY <1>2, <2>5, <2>6, <2>11 DEF MachineFits
  <2>13. Here(p)' = Here(r) /\ Done(p)' = Done(r)
    BY <2>6 DEF Here, Done
  <2>14. Started'
    <3>1. /\ ItemsBefore(module, decls, outer[1].from) /\ ErrorsBefore(errors, outer[1].from + 1)
          /\ outer[1].from <= Here(p)
      BY <1>3 DEF ModuleInv, Started
    <3>2. outer[1].from \in Nat
      BY <1>3, <2>8, FrameParts, EmptySeq DEF ModuleTypeOK
    <3>3. outer[1].from <= Here(r) /\ outer[1].from <= Done(r)
      BY <2>7, <3>1, <3>2
    <3> QED BY <2>5, <2>6, <2>7, <2>13, <3>1, <3>3 DEF Started, ItemsBefore, ErrorsBefore
  <2>15. ReadOn'
    <3>1. ItemsBefore(module, decls, Done(r) + 1) /\ ErrorsBefore(errors, Here(r)) /\ ErrorsBefore(errors, Here(r) + 1)
      BY <2>7, <2>8, Later DEF ModuleInv, ReadOn
    <3> QED BY <2>5, <2>6, <2>7, <2>13, <3>1 DEF ReadOn, ItemsBefore, ErrorsBefore
  <2>16. Outlining
    BY <1>2, <2>5, <2>11, Stutter
  <2> QED BY <2>6, <2>9, <2>10, <2>12, <2>14, <2>15, <2>16 DEF ModuleInv
<1> QED BY <1>6, <1>7

(* An error is reported after everything given and reported before.        *)
LEMMA CatchStep ==
  ASSUME ModuleInv, CatchError
  PROVE  ModuleInv' /\ Outlining
<1>1. /\ ctl = "error" /\ errors' = Append(errors, Here(p)) /\ doc' = 0 /\ mode' = mode /\ module' = module
      /\ Goto(p, <<>>, "ok") /\ outer' = <<>> /\ want' = <<>> /\ decls' = decls
  BY DEF CatchError, Proceed, Call
<1>2. at' = CASE Fatal -> "failed"
              [] ~Fatal /\ InImports -> "skipInImports"
              [] ~Fatal /\ ~InImports -> "skipInDeclarations"
  BY DEF CatchError, Proceed, Call
<1>3. Fatal \in BOOLEAN /\ InImports \in BOOLEAN
  BY DEF Fatal, InImports
<1>4. /\ Fatal => at' = "failed"
      /\ ~Fatal /\ InImports => at' = "skipInImports"
      /\ ~Fatal /\ ~InImports => at' = "skipInDeclarations"
  BY <1>2, <1>3
<1>5. Reaches(p, p) /\ Here(p) \in Nat /\ Done(p) \in Nat
  BY Reader
<1>6. /\ IInv' /\ Ordered' /\ toks' = toks /\ p' = p /\ calls' = <<>> /\ conts' = conts /\ ctl' = "ok"
  BY <1>1, <1>5, Idling DEF Callable
<1>7. conts = <<>> /\ ~Stopped
  BY <1>1 DEF ModuleInv, MachineFits
<1>8. Stopped' = Fatal
  BY <1>3, <1>4 DEF Stopped
<1>9. ModuleTypeOK /\ errors \in Seq(Nat) /\ mode \in Modes
  BY DEF ModuleInv, ModuleTypeOK
<1>10. ErrorsBefore(errors, Here(p)) /\ ItemsBefore(module, decls, Done(p) + 1)
  BY <1>1, <1>7 DEF ModuleInv, ReadOn, Stalled
<1>11. /\ errors' \in Seq(Nat) /\ Len(errors) \in Nat /\ Len(errors') = Len(errors) + 1 /\ errors'[Len(errors')] = Here(p)
       /\ \A i \in 1..Len(errors) : errors'[i] = errors[i] /\ errors[i] < Here(p) /\ errors[i] \in Nat
  BY <1>1, <1>5, <1>9, <1>10 DEF ErrorsBefore
<1>12. ModuleTypeOK'
  <2>1. want' \in Rows /\ outer' \in Seq(Frame) /\ doc' \in Nat
    BY <1>1 DEF Rows
  <2> QED BY <1>1, <1>9, <1>11, <2>1 DEF ModuleTypeOK
<1>13. at' \in InNone /\ at' # "header"
  BY <1>3, <1>4 DEF InNone
<1>14. PlaceFits(at, outer)'
  BY <1>1, <1>13 DEF PlaceFits
<1>15. MachineFits'
  BY <1>1, <1>6, <1>7 DEF MachineFits
<1>16. PartsFit'
  <2>1. ~UnderHeader(at, outer)' /\ (UnderImports(at, outer)' => at' \in {"imports", "skipInImports"})
    BY <1>1, <1>13 DEF UnderHeader, UnderImports
  <2>2. at' \in {"imports", "skipInImports"} => InImports
    BY <1>3, <1>4
  <2>3. InImports => UnderImports(at, outer)
    <3>1. at \in {"importName", "importAlias"} => outer # <<>> /\ outer[1].fn = "import"
      <4> SUFFICES ASSUME at \in {"importName", "importAlias"} PROVE outer # <<>> /\ outer[1].fn = "import"
        OBVIOUS
      <4>1. Len(outer) = 1 /\ outer[1].fn = "import"
        BY DEF ModuleInv, PlaceFits, InNone, InHeader, InList, InDeclaration, Inner
      <4> QED BY <4>1
    <3> QED BY <3>1 DEF InImports, UnderImports
  <2>4. PartsFit
    BY DEF ModuleInv
  <2>5. ~Fatal => mode = "recovering" /\ module.header # NoNode
    BY <1>9 DEF Fatal, Modes
  <2>6. module.header = NoNode => module.imports = <<>> /\ decls = <<>> /\ at' = "failed"
    BY <1>4, <2>4 DEF PartsFit, Fatal
  <2>7. UnderImports(at, outer)' => decls = <<>>
    BY <2>1, <2>2, <2>3, <2>4 DEF PartsFit
  <2> QED BY <1>1, <1>8, <2>1, <2>5, <2>6, <2>7 DEF PartsFit
<1>17. Started'
  BY <1>1 DEF Started
<1>18. Here(p)' = Here(p) /\ Done(p)' = Done(p)
  BY <1>6 DEF Here, Done
<1>19. ErrorsBefore(errors', Here(p) + 1)
  <2>1. \A i \in 1..Len(errors') : i \in 1..Len(errors) \/ i = Len(errors')
    BY <1>11
  <2>2. errors'[Len(errors')] < Here(p) + 1
    BY <1>5, <1>11
  <2>3. ASSUME NEW i \in 1..Len(errors) PROVE errors'[i] < Here(p) + 1
    <3>1. errors'[i] = errors[i] /\ errors[i] < Here(p) /\ errors[i] \in Nat
      BY <1>11
    <3> QED BY <1>5, <3>1
  <2> QED BY <2>1, <2>2, <2>3 DEF ErrorsBefore
<1>20. ReadOn'
  <2>1. Stalled'
    BY <1>1, <1>3, <1>4, <1>6 DEF Stalled, Skipping, Stopped
  <2>2. module.header # NoNode => p.pos > 1
    BY DEF ModuleInv, ReadOn
  <2> QED BY <1>1, <1>6, <1>10, <1>18, <1>19, <2>1, <2>2 DEF ReadOn, ItemsBefore, ErrorsBefore
<1>21. Outlining
  <2>1. Items' = Items /\ mode' = mode
    <3>1. Delivered' = Delivered
      BY <1>1 DEF Delivered
    <3> QED BY <1>1, <3>1 DEF Items
  <2>2. Items = <<>> <=> module.header = NoNode
    <3>1. module.header = NoNode => Items = <<>>
      <4> SUFFICES ASSUME module.header = NoNode PROVE Items = <<>>
        OBVIOUS
      <4>1. module.imports = <<>> /\ decls = <<>>
        BY DEF ModuleInv, PartsFit
      <4>2. Heads(module) = <<>> /\ DeclNodes(decls) = <<>>
        BY <1>9, <4>1, Lists DEF Heads, ModuleTypeOK
      <4>3. Delivered = <<>>
        BY <1>9, <4>1, <4>2, DeliveredIs
      <4> QED BY <4>3 DEF Items
    <3>2. module.header # NoNode => Items # <<>>
      <4> SUFFICES ASSUME module.header # NoNode PROVE Items # <<>>
        OBVIOUS
      <4>1. Delivered # <<>> /\ Len(Items) = Len(Delivered) /\ Delivered \in Seq(Node)
        BY <1>9, DeliveredIs
      <4>2. Len(Delivered) # 0
        BY <4>1
      <4> QED BY <4>1, <4>2
    <3> QED BY <3>1, <3>2
  <2>3. Outlined!OneMore(errors, errors')
    BY <1>11 DEF Outlined!OneMore
  <2>4. Items # <<>> => Items[Len(Items)][2] < Here(p)
    <3> SUFFICES ASSUME Items # <<>> PROVE Items[Len(Items)][2] < Here(p)
      OBVIOUS
    <3>1. Done(p) + 1 <= Here(p)
      <4>1. p.pos > 1 /\ Done(p) < Here(p)
        BY <2>2, Reader DEF ModuleInv, ReadOn
      <4> QED BY <1>5, <4>1
    <3>2. ItemsBefore(module, decls, Here(p))
      BY <1>5, <1>9, <1>10, <3>1, Later
    <3>3. Delivered # <<>> /\ Delivered \in Seq(Node) /\ Len(Items) = Len(Delivered)
      BY <1>9, <2>2, DeliveredIs
    <3>4. Len(Delivered) \in 1..Len(Delivered)
      BY <3>3, EmptySeq
    <3>5. Items[Len(Items)] = <<Delivered[Len(Delivered)].from, Delivered[Len(Delivered)].to>>
      BY <1>9, <3>3, <3>4, DeliveredIs
    <3>6. Delivered[Len(Delivered)].to < Here(p)
      BY <1>9, <3>2, <3>4, DeliveredIs
    <3> QED BY <3>5, <3>6
  <2>5. errors # <<>> => errors[Len(errors)] < Here(p) /\ errors[Len(errors)] <= Here(p)
    <3>1. errors # <<>> => Len(errors) \in 1..Len(errors)
      BY <1>9, EmptySeq
    <3> QED BY <1>5, <1>11, <3>1
  <2>6. Outlined!Unread(Here(p))
    BY <2>4, <2>5 DEF Outlined!Unread
  <2>7. Stopped' = (~(mode = "recovering") \/ Items = <<>>)
    BY <1>8, <1>9, <2>2 DEF Fatal, Modes
  <2> QED BY <1>7, <1>11, <2>1, <2>3, <2>5, <2>6, <2>7 DEF Outlining, Outlined!OutlineNext,
     Outlined!Report
<1> QED BY <1>6, <1>12, <1>14, <1>15, <1>16, <1>17, <1>20, <1>21 DEF ModuleInv

(* The end of the text.                                                    *)
LEMMA EndStep ==
  ASSUME ModuleInv, EndOfText
  PROVE  ModuleInv' /\ Outlining
<1> DEFINE q == [Skip(p) EXCEPT !.pending = <<>>]
<1>1. Runs("declarations") /\ at = "declarations"
  BY DEF EndOfText, Runs
<1>2. at \in InNone /\ Runs(at) /\ ~Stopped
  BY <1>1 DEF InNone, Stopped
<1>3. /\ Goto(q, <<>>, "ok") /\ outer' = <<>> /\ at' = "parsed" /\ want' = <<>> /\ decls' = decls
      /\ doc' = doc /\ mode' = mode /\ errors' = errors
      /\ module' = [module EXCEPT !.comments = Skip(p).pending]
  BY DEF EndOfText, Proceed, Call, Rest
<1>4. Stream /\ Ordered /\ OK(p) /\ OK(Skip(p)) /\ Reaches(p, Skip(p))
  BY Reader, Onward
<1>5. OK(q) /\ AtSamePlace(Skip(p), q)
  <2> DEFINE r == Skip(p)
  <2>1. OK(r) /\ <<>> \in Seq(Comment)
    BY <1>4
  <2> HIDE DEF r
  <2>2. OK([r EXCEPT !.pending = <<>>])
    BY <2>1, PendingOK
  <2>3. AtSamePlace(r, [r EXCEPT !.pending = <<>>])
    BY <2>1 DEF AtSamePlace, OK, Cursor
  <2> QED BY <2>2, <2>3 DEF r
<1>6. Reaches(p, q)
  BY <1>4, <1>5, SamePlace, ReachesOn
<1> HIDE DEF q
<1>7. /\ IInv' /\ Ordered' /\ toks' = toks /\ p' = q /\ calls' = <<>> /\ conts' = conts /\ ctl' = "ok"
  BY <1>3, <1>6, Idling DEF Callable
<1>8. Stopped' = TRUE
  BY <1>3 DEF Stopped
<1>9. /\ Here(p) \in Nat /\ Done(p) \in Nat /\ Here(q) \in Nat /\ Done(q) \in Nat
      /\ Here(p) <= Here(q) /\ Done(p) <= Done(q) /\ (p.pos > 1 => q.pos > 1)
  BY <1>6 DEF Reaches
<1>10. ModuleTypeOK /\ Skip(p).pending \in Seq(Comment) /\ module \in Module
  BY <1>4, PendingType DEF ModuleInv, ModuleTypeOK
<1>11. module' \in Module /\ module'.header = module.header /\ module'.imports = module.imports
  BY <1>3, <1>10 DEF Module
<1>12. ModuleTypeOK'
  <2>1. want' \in Rows /\ outer' \in Seq(Frame)
    BY <1>3 DEF Rows
  <2> QED BY <1>3, <1>10, <1>11, <2>1 DEF ModuleTypeOK
<1>13. PlaceFits(at, outer)'
  BY <1>3 DEF PlaceFits, InNone
<1>14. MachineFits'
  BY <1>2, <1>3, <1>7, Idle DEF MachineFits
<1>15. PartsFit'
  <2>1. module'.header # NoNode
    BY <1>1, <1>2, <1>11, Idle
  <2>2. ~UnderHeader(at, outer)' /\ ~UnderImports(at, outer)'
    BY <1>3 DEF UnderHeader, UnderImports
  <2> QED BY <1>8, <2>1, <2>2 DEF PartsFit
<1>16. Started'
  BY <1>3 DEF Started
<1>17. Here(p)' = Here(q) /\ Done(p)' = Done(q)
  BY <1>7 DEF Here, Done
<1>18. ReadOn'
  <2>1. ItemsBefore(module, decls, Done(q) + 1) /\ ErrorsBefore(errors, Here(q) + 1)
    BY <1>9, <1>10, Later DEF ModuleInv, ReadOn
  <2>2. module.header # NoNode => q.pos > 1
    BY <1>9 DEF ModuleInv, ReadOn
  <2>3. Stalled'
    BY <1>8 DEF Stalled
  <2> QED BY <1>3, <1>7, <1>11, <1>17, <2>1, <2>2, <2>3 DEF ReadOn, ItemsBefore, ErrorsBefore
<1>19. Outlining
  <2>1. Items' = Items
    <3>1. module'.header = module.header /\ module'.imports = module.imports /\ decls' = decls
      BY <1>3, <1>11
    <3>2. Delivered' = Delivered
      BY <3>1 DEF Delivered
    <3> QED BY <3>2 DEF Items
  <2>2. Items # <<>>
    <3>1. module.header # NoNode
      BY <1>1, <1>2, Idle
    <3>2. Delivered # <<>> /\ Len(Items) = Len(Delivered) /\ Delivered \in Seq(Node)
      BY <1>10, <3>1, DeliveredIs
    <3>3. Len(Delivered) # 0
      BY <3>2
    <3> QED BY <3>2, <3>3
  <2>3. mode' = mode /\ errors' = errors
    BY <1>3
  <2> QED BY <1>2, <1>8, <2>1, <2>2, <2>3 DEF Outlining, Outlined!OutlineNext, Outlined!End
<1> QED BY <1>7, <1>12, <1>13, <1>14, <1>15, <1>16, <1>18, <1>19 DEF ModuleInv

(* The machine works as long as a function of it runs: it ends by          *)
(* returning to the function that waits, or by an error.                   *)
WorksNext ==
  /\ ctl \notin {"ok", "error"}
  /\ ctl' \notin {"ok", "error"} \/ (ctl' = "error" /\ calls' = <<>> /\ conts' = <<>>)
  /\ ctl = "signature" => ParseSignature
  /\ toks' = toks

(* ... which every step of the machine does.                               *)
LEMMA StepWorks ==
  ASSUME ExprNext
  PROVE  WorksNext
<1>1. CASE Resume \/ ParseBinary \/ AfterOperand \/ BinaryLoop \/ Reduce \/ FoldRest \/ ParseUnary \/
             AfterNegated
  BY <1>1, Zenon DEF Resume, ParseBinary, AfterOperand, BinaryLoop, Reduce, FoldRest, ParseUnary,
     AfterNegated, ReduceLast, WorksNext, Resumes, Goto, GotoWith, Return, Fail, Need, NeedDeeper
<1>2. CASE ParseApplication \/ ApplicationLoop \/ AfterArgument \/ SimpleAtom \/ QualifiedAtom \/ QualifyValue
             \/ AccessorAtom \/ NotAnAtom \/ AccessChain \/ AfterCompound
  BY <1>2, Zenon DEF ParseApplication, ApplicationLoop, AfterArgument, SimpleAtom, QualifiedAtom,
     QualifyValue, AccessorAtom, NotAnAtom, AccessChain, AfterCompound, WorksNext, Resumes, Goto, GotoWith,
     Return, Fail, Need, NeedDeeper
<1>3. CASE ParenAtom \/ AfterParenNegated \/ AfterParenFirst \/ AfterTupleElement \/ ListAtom \/
             AfterListElement
  BY <1>3, Zenon DEF ParenAtom, AfterParenNegated, AfterParenFirst, AfterTupleElement, ListAtom,
     AfterListElement, WorksNext, Resumes, Goto, GotoWith, Return, Fail, Need, NeedDeeper
<1>4. CASE RecordAtom \/ ParseSetter \/ AfterSetterValue \/ IfAtom \/ AfterCondition \/ AfterThen \/ AfterElse
  BY <1>4, Zenon DEF RecordAtom, ParseSetter, AfterSetterValue, IfAtom, AfterCondition, AfterThen,
     AfterElse, WorksNext, Resumes, Goto, GotoWith, Return, Fail, Need, NeedDeeper
<1>5. CASE CaseAtom \/ AfterCaseSubject \/ NextBranch \/ AfterBranchPattern \/ AfterBranchBody
  BY <1>5, Zenon DEF CaseAtom, AfterCaseSubject, NextBranch, AfterBranchPattern, AfterBranchBody,
     WorksNext, Resumes, Goto, GotoWith, Return, Fail, Need, NeedDeeper
<1>6. CASE LetAtom \/ EndOfLet \/ NextLetDecl \/ AfterLetSignature \/ LetName \/ LetArguments
  BY <1>6, Zenon DEF LetAtom, EndOfLet, NextLetDecl, AfterLetSignature, LetName, LetArguments,
     NeedLetValue, WorksNext, Resumes, Goto, GotoWith, Return, Fail, Need, NeedDeeper
<1>7. CASE AfterLetArgument \/ AfterLetPattern \/ AfterLetValue \/ AfterLetBody
  BY <1>7, Zenon DEF AfterLetArgument, AfterLetPattern, AfterLetValue, AfterLetBody, NeedLetValue,
     WorksNext, Resumes, Goto, GotoWith, Return, Fail, Need, NeedDeeper
<1>8. CASE LambdaAtom \/ LambdaArguments \/ AfterLambdaArgument \/ AfterLambdaBody
  BY <1>8, Zenon DEF LambdaAtom, LambdaArguments, AfterLambdaArgument, AfterLambdaBody, WorksNext,
     Resumes, Goto, GotoWith, Return, Fail, Need, NeedDeeper
<1>9. CASE ParsePattern \/ AfterAsOperand \/ ParseConsPattern \/ AfterConsHead \/ AfterConsTail \/
             ParseAppPattern \/ QualifyCtor \/ CtorArguments \/ AfterCtorArgument
  BY <1>9, Zenon DEF ParsePattern, AfterAsOperand, ParseConsPattern, AfterConsHead, AfterConsTail,
     ParseAppPattern, QualifyCtor, CtorArguments, AfterCtorArgument, WorksNext, Resumes, Goto, GotoWith,
     Return, Fail, Need, NeedDeeper
<1>10. CASE SimplePattern \/ AtomicCtorPattern \/ NegativePattern \/ ParenPattern \/ AfterFirstInParen \/
             AfterTuplePattern \/ ListPattern \/ AfterListPattern \/ RecordPattern \/ PatternField
             \/ NotAPattern
  BY <1>10, Zenon DEF SimplePattern, AtomicCtorPattern, NegativePattern, ParenPattern,
     AfterFirstInParen, AfterTuplePattern, ListPattern, AfterListPattern, RecordPattern,
     PatternField, NotAPattern, AfterPatternElement, WorksNext, Resumes, Goto, GotoWith, Return, Fail, Need,
     NeedDeeper
<1>11. CASE ParseType \/ AfterFirstArm \/ AfterArrow \/ ParseTypeApp \/ QualifyType \/ TypeArguments \/
             AfterTypeArgument \/ TypeVariable \/ AtomicTypeName
  BY <1>11, Zenon DEF ParseType, AfterFirstArm, AfterArrow, ParseTypeApp, QualifyType,
     TypeArguments, AfterTypeArgument, TypeVariable, AtomicTypeName, WorksNext, Resumes, Goto, GotoWith,
     Return, Fail, Need, NeedDeeper
<1>12. CASE ParenType \/ AfterFirstInType \/ AfterTupleType \/ RecordType \/ TypeField \/ AfterTypeField \/
             ParseSignature \/ AfterSignatureType \/ NotAType
  BY <1>12, Zenon DEF ParenType, AfterFirstInType, AfterTupleType, RecordType, TypeField,
     AfterTypeField, ParseSignature, AfterSignatureType, NotAType, WorksNext, Resumes, Goto, GotoWith, Return,
     Fail, Need, NeedDeeper
<1> QED BY <1>1, <1>2, <1>3, <1>4, <1>5, <1>6, <1>7, <1>8, <1>9, <1>10, <1>11, <1>12
   DEF ExprNext, PatternNext, TypeNext

(* A signature passes the name it starts with.                             *)
LEMMA SignaturePasses ==
  ASSUME IInv, Ordered, ExprNext, ctl = "signature", Peek(Skip(p)) = "lower"
  PROVE  Passes(p, p')
<1> DEFINE q == Skip(p)
           r == Skip(Advance(q))
<1>1. Stream /\ OK(p) /\ OK(q) /\ Reaches(p, q)
  BY State, Onward
<1>2. Solid(q)
  BY Zenon DEF Peek, Solid
<1>3. Passes(q, Advance(q)) /\ OK(Advance(q))
  BY <1>1, <1>2, AdvancePasses
<1>4. Reaches(Advance(q), r) /\ OK(r)
  BY <1>1, <1>3, Onward
<1>5. Reaches(r, Advance(r))
  BY <1>1, <1>4, AdvanceReaches
<1>6. Passes(p, r) /\ Passes(p, Advance(r))
  BY <1>1, <1>3, <1>4, <1>5, ReachesOn
<1>7. ParseSignature
  BY StepWorks DEF WorksNext
<1> HIDE DEF q, r
<1>8. p' \in {r, Advance(r)}
  BY <1>7, Zenon DEF ParseSignature, Fail, Goto, q, r
<1> QED BY <1>6, <1>8

(* The machine works for the construct in progress.                        *)
LEMMA BelowStep ==
  ASSUME ModuleInv, Below
  PROVE  ModuleInv' /\ Outlining
<1>1. /\ ExprNext /\ outer' = outer /\ at' = at /\ doc' = doc /\ decls' = decls /\ want' = want
      /\ mode' = mode /\ module' = module /\ errors' = errors
  BY DEF Below
<1>2. IInv /\ Ordered /\ Stream /\ ModuleTypeOK /\ MachineFits /\ ReadOn
  BY Reader DEF ModuleInv
<1>3. IInv'
  BY <1>1, <1>2, StepsKeepIInv DEF ExprStep
<1>4. toks' = toks
  BY <1>1, StepWorks DEF WorksNext
<1>5. Ordered'
  BY <1>2, <1>4 DEF Ordered
<1>6. WorksNext /\ Reaches(p, p')
  BY <1>1, <1>2, StepWorks, Forward
<1>7. at \in Waits /\ want = <<>> /\ ctl \notin {"ok", "error"}
  BY <1>2, <1>6 DEF WorksNext, MachineFits
<1>8. at \notin InNone /\ ~Stopped /\ Stopped' = FALSE
  BY <1>1, <1>7 DEF Waits, InNone, Stopped
<1>9. outer # <<>>
  <2> SUFFICES ASSUME outer = <<>> PROVE FALSE
    OBVIOUS
  <2>1. Len(outer) = 0
    OBVIOUS
  <2> QED BY <1>8, <2>1 DEF ModuleInv, PlaceFits
<1> DEFINE q == p'
<1>10. /\ Here(p) \in Nat /\ Done(p) \in Nat /\ Here(q) \in Nat /\ Done(q) \in Nat
       /\ Here(p) <= Here(q) /\ Done(p) <= Done(q) /\ (p.pos > 1 => q.pos > 1)
       /\ (q.pos > 1 => Done(q) < Here(q))
  BY <1>6 DEF Reaches
<1>11. Here(p)' = Here(q) /\ Done(p)' = Done(q)
  BY <1>4 DEF Here, Done
<1> HIDE DEF q
<1>12. ModuleTypeOK' /\ PlaceFits(at, outer)' /\ PartsFit'
  BY <1>1, <1>2 DEF ModuleInv, ModuleTypeOK, PlaceFits, PartsFit, UnderHeader, UnderImports, Stopped
<1>13. MachineFits'
  BY <1>1, <1>6, <1>7, <1>8 DEF MachineFits, WorksNext
<1>14. Started'
  <2>1. /\ ItemsBefore(module, decls, outer[1].from) /\ ErrorsBefore(errors, outer[1].from + 1)
        /\ outer[1].from <= Here(p)
        /\ at \notin {"signature", "pattern"} => p.pos > 1 /\ outer[1].from <= Done(p)
    BY <1>7, <1>9 DEF ModuleInv, Started
  <2>2. outer[1].from \in Nat
    BY <1>2, <1>9, FrameParts, EmptySeq DEF ModuleTypeOK
  <2>3. outer[1].from <= Here(q)
    BY <1>10, <2>1, <2>2
  <2>4. at \notin {"signature", "pattern"} => q.pos > 1 /\ outer[1].from <= Done(q)
    BY <1>10, <2>1, <2>2
  <2>5. p'.pos = q.pos
    BY DEF q
  <2> QED BY <1>1, <1>11, <2>1, <2>3, <2>4, <2>5 DEF Started, ItemsBefore, ErrorsBefore
<1>15. ReadOn'
  <2>1. ItemsBefore(module, decls, Done(q) + 1) /\ ErrorsBefore(errors, Here(q) + 1)
    BY <1>2, <1>10, Later DEF ReadOn
  <2>2. module.header # NoNode => q.pos > 1
    BY <1>2, <1>10 DEF ReadOn
  <2>3. ErrorsBefore(errors, Here(q))
    <3>1. CASE ErrorsBefore(errors, Here(p))
      BY <1>2, <1>10, <3>1, Later
    <3>2. CASE Stalled
      <4>1. ctl = "signature" /\ Peek(Skip(p)) = "lower"
        BY <1>7, <1>8, <3>2 DEF Stalled
      <4>2. Passes(p, q)
        BY <1>1, <1>2, <4>1, SignaturePasses DEF q
      <4>3. Here(p) + 1 <= Here(q)
        BY <1>10, <4>2 DEF Passes
      <4> QED BY <1>2, <1>10, <4>3, Later DEF ReadOn
    <3> QED BY <1>2, <3>1, <3>2 DEF ReadOn
  <2>4. p'.pos = q.pos
    BY DEF q
  <2> QED BY <1>1, <1>11, <2>1, <2>2, <2>3, <2>4 DEF ReadOn, ItemsBefore, ErrorsBefore
<1>16. Outlining
  BY <1>1, <1>8, Stutter
<1> QED BY <1>3, <1>5, <1>12, <1>13, <1>14, <1>15, <1>16 DEF ModuleInv
-----------------------------------------------------------------------------
(* The frames of the module-level functions.                               *)

(* Where a module-level function runs, its frames are there.               *)
LEMMA Framed ==
  ASSUME ModuleInv, at \notin InNone
  PROVE  /\ outer # <<>> /\ outer \in Seq(Frame) /\ Len(outer) = IF at \in Inner THEN 2 ELSE 1
         /\ outer[1] \in Frame /\ Outer \in Frame
         /\ at \in Inner => Outer = outer[2]
         /\ at \notin Inner => Outer = outer[1]
         /\ at \in InHeader => outer[1].fn \in {"header", "effect"}
         /\ at \in InImport => outer[1].fn = "import"
         /\ at \in InDeclaration => outer[1].fn = "declaration"
         /\ at \in InList => outer[1].fn \in {"header", "effect", "import"}
<1>1. outer \in Seq(Frame)
  BY DEF ModuleInv, ModuleTypeOK
<1>2. Len(outer) = IF at \in Inner THEN 2 ELSE 1
  BY DEF ModuleInv, PlaceFits
<1>3. outer # <<>> /\ Len(outer) \in 1..Len(outer) /\ 1 \in 1..Len(outer)
  BY <1>1, <1>2
<1>4. outer[1] \in Frame /\ Outer \in Frame
  BY <1>1, <1>3 DEF Outer
<1>5. /\ at \in Inner => Outer = outer[2]
      /\ at \notin Inner => Outer = outer[1]
  BY <1>2 DEF Outer
<1>6. /\ at \in InHeader => outer[1].fn \in {"header", "effect"}
      /\ at \in InImport => outer[1].fn = "import"
      /\ at \in InDeclaration => outer[1].fn = "declaration"
      /\ at \in InList => outer[1].fn \in {"header", "effect", "import"}
  BY DEF ModuleInv, PlaceFits, InHeader, InImport, InDeclaration, InList
<1> QED BY <1>1, <1>2, <1>3, <1>4, <1>5, <1>6

(* A frame of the same function, for the same construct.                   *)
Alike(fr, g) == g \in Frame /\ g.fn = fr.fn /\ g.from = fr.from

(* What the functions write into their frames leaves the function and the  *)
(* start of a frame alone.                                                 *)
LEMMA SameFrames ==
  ASSUME NEW fr \in Frame
  PROVE  /\ Alike(fr, fr)
         /\ \A x \in Nat : /\ Alike(fr, [fr EXCEPT !.mark = x]) /\ Alike(fr, [fr EXCEPT !.body = x])
                           /\ Alike(fr, [fr EXCEPT !.snap = x]) /\ Alike(fr, [fr EXCEPT !.lim = x])
         /\ \A x, y \in Nat : /\ Alike(fr, [fr EXCEPT !.mark = x, !.line = y])
                              /\ Alike(fr, [fr EXCEPT !.snap = x, !.body = y])
         /\ \A x \in SUBSET Span : \A y \in Nat : Alike(fr, [fr EXCEPT !.sub = x, !.mark = y])
         /\ \A x \in SUBSET Span : Alike(fr, [fr EXCEPT !.sub = x])
         /\ \A n \in Node : Alike(fr, AddPart(fr, n))
         /\ \A cs \in Seq(Comment) : Alike(fr, Hold(fr, cs))
<1>1. Alike(fr, fr)
  BY DEF Alike
<1>2. ASSUME NEW x \in Nat
      PROVE  /\ Alike(fr, [fr EXCEPT !.mark = x]) /\ Alike(fr, [fr EXCEPT !.body = x])
             /\ Alike(fr, [fr EXCEPT !.snap = x]) /\ Alike(fr, [fr EXCEPT !.lim = x])
  BY DEF Alike, Frame
<1>3. ASSUME NEW x \in Nat, NEW y \in Nat
      PROVE  /\ Alike(fr, [fr EXCEPT !.mark = x, !.line = y])
             /\ Alike(fr, [fr EXCEPT !.snap = x, !.body = y])
  BY DEF Alike, Frame
<1>4. ASSUME NEW x \in SUBSET Span, NEW y \in Nat PROVE Alike(fr, [fr EXCEPT !.sub = x, !.mark = y])
  BY DEF Alike, Frame
<1>5. ASSUME NEW x \in SUBSET Span PROVE Alike(fr, [fr EXCEPT !.sub = x])
  BY DEF Alike, Frame
<1>6. ASSUME NEW n \in Node PROVE Alike(fr, AddPart(fr, n))
  <2>1. AddPart(fr, n).from = fr.from
    BY DEF AddPart, Frame
  <2> QED BY <2>1, AddPartType DEF Alike
<1>7. ASSUME NEW cs \in Seq(Comment) PROVE Alike(fr, Hold(fr, cs))
  <2>1. Hold(fr, cs).from = fr.from
    BY DEF Hold, Frame
  <2> QED BY <2>1, HoldType DEF Alike
<1> QED BY <1>1, <1>2, <1>3, <1>4, <1>5, <1>6, <1>7, Zenon

(* The innermost frame is exchanged; the outermost stays the construct's.  *)
LEMMA Exchanged ==
  ASSUME ModuleInv, at \notin InNone, NEW g, Alike(Outer, g)
  PROVE  /\ OuterSwap(g) \in Seq(Frame) /\ Len(OuterSwap(g)) = Len(outer) /\ OuterSwap(g) # <<>>
         /\ OuterSwap(g)[1].fn = outer[1].fn /\ OuterSwap(g)[1].from = outer[1].from
<1> DEFINE n == Len(outer) - 1
<1>1. /\ outer \in Seq(Frame) /\ n \in {0, 1} /\ n \in Nat /\ Len(outer) = n + 1 /\ Outer = outer[n + 1]
      /\ g \in Frame
  BY Framed DEF Alike, Outer
<1>2. OuterPop = SubSeq(outer, 1, n)
  BY DEF OuterPop
<1> HIDE DEF n
<1>3. \A i \in 1..n : outer[i] \in Frame
  BY <1>1
<1>4. OuterPop \in Seq(Frame) /\ Len(OuterPop) = n /\ \A i \in 1..n : OuterPop[i] = outer[i]
  BY <1>1, <1>2, <1>3, SubSeqProperties
<1>5. /\ OuterSwap(g) \in Seq(Frame) /\ Len(OuterSwap(g)) = n + 1 /\ OuterSwap(g)[n + 1] = g
      /\ \A i \in 1..n : OuterSwap(g)[i] = outer[i]
  BY <1>1, <1>4, AppendProperties DEF OuterSwap
<1>6. CASE n = 0
  <2>1. n + 1 = 1
    BY <1>6
  <2>2. OuterSwap(g)[n + 1] = g /\ OuterSwap(g)[n + 1] = OuterSwap(g)[1]
    BY <1>5, <2>1, Zenon
  <2>3. Outer = outer[1] /\ Len(outer) = n + 1
    BY <1>1, <2>1, Zenon
  <2>4. OuterSwap(g)[1] = g /\ Len(OuterSwap(g)) = Len(outer)
    BY <1>5, <2>2, <2>3, Zenon
  <2>5. OuterSwap(g) # <<>>
    <3>1. Len(OuterSwap(g)) = 1
      BY <1>5, <2>1, Zenon
    <3> QED BY <3>1
  <2> QED BY <1>5, <2>3, <2>4, <2>5 DEF Alike
<1>7. CASE n = 1
  <2>1. n + 1 = 2 /\ 1 \in 1..n
    BY <1>7
  <2>2. OuterSwap(g)[1] = outer[1] /\ Len(OuterSwap(g)) = Len(outer) /\ Len(OuterSwap(g)) = 2
    BY <1>1, <1>5, <2>1, Zenon
  <2>3. OuterSwap(g) # <<>>
    BY <2>2
  <2> QED BY <1>5, <2>2, <2>3, Zenon
<1> QED BY <1>1, <1>6, <1>7
-----------------------------------------------------------------------------
(* A module-level function goes on.                                        *)

(* From at to a the construct stays the same.                              *)
Kin(b, a) == \/ b \in InHeader /\ a \in InHeader \cup InList
             \/ b \in InImport /\ a \in InImport \cup InList
             \/ b \in InList /\ a \in InList
             \/ b \in InDeclaration /\ a \in InDeclaration

Going(q, fs, a, w, c) == /\ Goto(q, <<>>, c)
                         /\ outer' = fs /\ at' = a /\ want' = w
                         /\ UNCHANGED <<decls, mode, module, errors>> /\ doc' \in Nat

(* On to another place of the same construct.                              *)
LEMMA GoOn ==
  ASSUME ModuleInv, Working, NEW q, Reaches(p, q), NEW fs \in Seq(Frame), NEW a, Kin(at, a),
         Len(fs) = IF a \in Inner THEN 2 ELSE 1, fs[1].fn = outer[1].fn, fs[1].from = outer[1].from,
         NEW w \in Rows, NEW c \in Callable, c = "ok" \/ (a \in Waits /\ w = <<>>),
         w # <<>> \/ at \notin {"signature", "pattern"}, Going(q, fs, a, w, c)
  PROVE  ModuleInv' /\ Outlining
<1>1. at \notin InNone
  BY DEF Working
<1>2. PlaceFits(a, fs)
  BY <1>1, Framed DEF Kin, PlaceFits
<1>3. fs # <<>>
  <2> SUFFICES ASSUME fs = <<>> PROVE FALSE
    OBVIOUS
  <2>1. Len(fs) = 0
    OBVIOUS
  <2> QED BY <2>1
<1> QED BY <1>2, <1>3, CarryOn DEF Going

(* ... with the same frames,                                               *)
LEMMA GoOnSame ==
  ASSUME ModuleInv, Working, NEW q, Reaches(p, q), NEW a, Kin(at, a), at \in Inner <=> a \in Inner,
         NEW w \in Rows, NEW c \in Callable, c = "ok" \/ (a \in Waits /\ w = <<>>),
         w # <<>> \/ at \notin {"signature", "pattern"}, Going(q, outer, a, w, c)
  PROVE  ModuleInv' /\ Outlining
<1>1. outer \in Seq(Frame) /\ Len(outer) = IF a \in Inner THEN 2 ELSE 1
  BY Framed DEF Working
<1> QED BY <1>1, GoOn

(* ... or with the innermost one exchanged.                                *)
LEMMA GoOnWith ==
  ASSUME ModuleInv, Working, NEW q, Reaches(p, q), NEW a, Kin(at, a), at \in Inner <=> a \in Inner,
         NEW g, Alike(Outer, g),
         NEW w \in Rows, NEW c \in Callable, c = "ok" \/ (a \in Waits /\ w = <<>>),
         w # <<>> \/ at \notin {"signature", "pattern"}, Going(q, OuterSwap(g), a, w, c)
  PROVE  ModuleInv' /\ Outlining
<1>1. /\ OuterSwap(g) \in Seq(Frame) /\ Len(OuterSwap(g)) = Len(outer)
      /\ OuterSwap(g)[1].fn = outer[1].fn /\ OuterSwap(g)[1].from = outer[1].from
  BY Exchanged DEF Working
<1>2. Len(OuterSwap(g)) = IF a \in Inner THEN 2 ELSE 1
  BY <1>1, Framed DEF Working
<1> QED BY <1>1, <1>2, GoOn

(* An error in the construct in progress.                                  *)
LEMMA Raised ==
  ASSUME ModuleInv, Working, NEW q, Reaches(p, q), Raise(q), UNCHANGED <<mode, module, errors>>,
         doc' = doc
  PROVE  ModuleInv' /\ Outlining
<1>1. ErrorsBefore(errors, Here(p)) /\ ~Stopped
  BY Underway
<1>2. ModuleTypeOK /\ Here(p) \in Nat /\ Here(q) \in Nat /\ Here(p) <= Here(q) /\ doc' \in Nat
  BY DEF ModuleInv, ModuleTypeOK, Reaches
<1>3. ErrorsBefore(errors, Here(q))
  BY <1>1, <1>2, Later
<1> QED BY <1>1, <1>2, <1>3, RaiseOn

(* Reading on from p.                                                      *)
LEMMA ReadingOn ==
  ASSUME ModuleInv
  PROVE  /\ Reaches(p, p)
         /\ \A q : Reaches(p, q) => Reaches(p, Skip(q)) /\ Reaches(p, Advance(q)) /\ OK(q)
         /\ \A q, S : \A n \in Nat : Reaches(p, q) => Reaches(p, Unclaimed(q, n, S)) /\ Reaches(p, DropSince(q, n))
         /\ \A q, n : \A s \in Nat : Reaches(p, q) => Reaches(p, AfterPre(q, n, s))
         /\ \A q : Reaches(p, q) => Snapshot(q) \in Nat /\ Here(q) \in Nat /\ HereCol(q) \in Nat
         /\ Stream /\ OK(p) /\ val \in Node /\ doc \in Nat
<1>1. IInv /\ Ordered /\ doc \in Nat
  BY DEF ModuleInv, ModuleTypeOK
<1>2. \A q : Reaches(p, q) => OK(q) /\ Here(q) \in Nat
  BY DEF Reaches
<1> QED BY <1>1, <1>2, Onto, Snapshots, State
-----------------------------------------------------------------------------
(* The header.                                                             *)

(* The rows of tokens that are expected.                                   *)
LEMMA RowsAre ==
  /\ <<>> \in Rows
  /\ <<{"effect"}, {"module"}, {"upper"}>> \in Rows /\ <<{"port"}, {"module"}, {"upper"}>> \in Rows
  /\ <<{"module"}, {"upper"}>> \in Rows /\ <<{"import"}, {"upper"}>> \in Rows /\ <<{"as"}, {"upper"}>> \in Rows
  /\ <<{"where"}, {"{"}>> \in Rows /\ <<{"exposing"}>> \in Rows /\ <<{"}"}, {"exposing"}>> \in Rows
  /\ <<{"key"}, {"="}, {"upper"}>> \in Rows /\ <<{"("}>> \in Rows /\ <<{".."}, {")"}>> \in Rows
  /\ <<{"("}, {"op", "-"}, {")"}>> \in Rows /\ <<{")"}>> \in Rows /\ <<{"lower"}>> \in Rows /\ <<{"="}>> \in Rows
  /\ <<{"left"}, {"number"}, {"("}, {"op", "-"}, {")"}, {"="}, {"lower"}>> \in Rows
<1> DEFINE K == SUBSET (Kinds \ {"eof"})
<1>1. /\ {"effect"} \in K /\ {"module"} \in K /\ {"upper"} \in K /\ {"port"} \in K /\ {"import"} \in K
      /\ {"as"} \in K /\ {"where"} \in K /\ {"{"} \in K /\ {"exposing"} \in K /\ {"}"} \in K /\ {"key"} \in K
      /\ {"="} \in K /\ {"("} \in K /\ {".."} \in K /\ {")"} \in K /\ {"op", "-"} \in K /\ {"lower"} \in K
      /\ {"left"} \in K /\ {"number"} \in K
  <2>1. \A x, y : x \in Kinds /\ x # "eof" /\ y \in Kinds /\ y # "eof" => {x} \in K /\ {x, y} \in K
    OBVIOUS
  <2>2. /\ "effect" \in Kinds /\ "module" \in Kinds /\ "upper" \in Kinds /\ "port" \in Kinds /\ "import" \in Kinds
        /\ "as" \in Kinds /\ "where" \in Kinds
    BY Zenon DEF Kinds
  <2>3. /\ "{" \in Kinds /\ "exposing" \in Kinds /\ "}" \in Kinds /\ "key" \in Kinds /\ "=" \in Kinds
        /\ "(" \in Kinds /\ ".." \in Kinds
    BY Zenon DEF Kinds
  <2>4. /\ ")" \in Kinds /\ "op" \in Kinds /\ "-" \in Kinds /\ "lower" \in Kinds /\ "left" \in Kinds
        /\ "number" \in Kinds
    BY Zenon DEF Kinds
  <2> HIDE DEF K
  <2>5. /\ {"effect"} \in K /\ {"module"} \in K /\ {"upper"} \in K /\ {"port"} \in K /\ {"import"} \in K
        /\ {"as"} \in K /\ {"where"} \in K
    BY <2>1, <2>2, Zenon
  <2>6. /\ {"{"} \in K /\ {"exposing"} \in K /\ {"}"} \in K /\ {"key"} \in K /\ {"="} \in K
        /\ {"("} \in K /\ {".."} \in K
    BY <2>1, <2>3, Zenon
  <2>7. /\ {")"} \in K /\ {"op", "-"} \in K /\ {"lower"} \in K /\ {"left"} \in K /\ {"number"} \in K
    BY <2>1, <2>4, Zenon
  <2> QED BY <2>5, <2>6, <2>7, Zenon
<1> HIDE DEF K
<1>2. <<>> \in Seq(K) /\ \A x \in K : <<x>> \in Seq(K)
  OBVIOUS
<1>3. \A x, y \in K : <<x, y>> \in Seq(K)
  OBVIOUS
<1>4. \A x, y, z \in K : <<x, y, z>> \in Seq(K)
  OBVIOUS
<1>5. \A a, b, c, d, e, f, g \in K : <<a, b, c, d, e, f, g>> \in Seq(K)
  OBVIOUS
<1>6. Rows = Seq(K)
  BY DEF Rows, K
<1> QED BY <1>1, <1>2, <1>3, <1>4, <1>5, <1>6, Zenon

(* Errors before p are before a place further on.                          *)
LEMMA ErrorsStay ==
  ASSUME ModuleInv, NEW q
  PROVE  /\ Passes(p, q) => ErrorsBefore(errors, Here(q))
         /\ ~Stalled /\ Reaches(p, q) => ErrorsBefore(errors, Here(q))
<1>1. ModuleTypeOK /\ ReadOn
  BY DEF ModuleInv
<1>2. ASSUME Passes(p, q) PROVE ErrorsBefore(errors, Here(q))
  <2>1. Here(p) \in Nat /\ Here(q) \in Nat /\ Here(p) + 1 <= Here(q)
    BY <1>2 DEF Passes, Reaches
  <2> QED BY <1>1, <2>1, Later DEF ReadOn
<1>3. ASSUME ~Stalled, Reaches(p, q) PROVE ErrorsBefore(errors, Here(q))
  <2>1. Here(p) \in Nat /\ Here(q) \in Nat /\ Here(p) <= Here(q)
    BY <1>3 DEF Reaches
  <2> QED BY <1>1, <1>3, <2>1, Later DEF ReadOn
<1> QED BY <1>2, <1>3

(* A header is opened, whatever its first words.                           *)
LEMMA OpensHeader ==
  ASSUME ModuleInv, Runs("header"), Rest, UNCHANGED module, NEW fn \in {"header", "effect"},
         NEW row \in Rows, row # <<>>, NEW q, q = Skip(p), Expect(row, q, <<New(fn, Here(q))>>, "moduleName")
  PROVE  ModuleInv' /\ Outlining
<1>1. at = "header" /\ Runs(at) /\ at \in InNone
  BY DEF Runs, InNone
<1>2. Reaches(p, q) /\ OK(q) /\ Stream /\ Ordered /\ Here(q) \in Nat /\ doc \in Nat
  BY ReadingOn, Reader
<1>3. Reaches(q, q)
  BY <1>2, SameReaches
<1> DEFINE fr == New(fn, Here(q))
<1>4. fr \in Frame /\ fr.fn = fn /\ fr.from = Here(q)
  <2>1. fn \in FrameNames
    BY DEF FrameNames
  <2>2. fr.from = Here(q)
    BY DEF New
  <2> QED BY <1>2, <2>1, <2>2, NewType
<1>5. Expect(row, q, <<fr>>, "moduleName")
  OBVIOUS
<1> HIDE DEF fr
<1>6. PlaceFits("moduleName", <<fr>>)
  BY <1>4 DEF PlaceFits, Inner, InHeader
<1>7. ErrorsBefore(errors, Here(q))
  <2>1. errors \in Seq(Nat) /\ ~(errors # <<>>)
    BY <1>1, Idle DEF ModuleInv, ModuleTypeOK, Stopped
  <2> QED BY <2>1 DEF ErrorsBefore
<1> QED BY <1>1, <1>2, <1>3, <1>4, <1>5, <1>6, <1>7, OpenOn DEF Expect, Rest, Callable

(* The header starts: with "module", or "port module" or "effect module".  *)
LEMMA ParseHeaderStep ==
  ASSUME ModuleInv, ParseHeader
  PROVE  ModuleInv' /\ Outlining
<1> DEFINE q == Skip(p)
           Starts(row, fn) == Expect(row, q, <<New(fn, Here(q))>>, "moduleName")
<1>1. Runs("header") /\ Rest /\ UNCHANGED module
  BY DEF ParseHeader
<1>2. \/ Starts(<<{"effect"}, {"module"}, {"upper"}>>, "effect")
      \/ Starts(<<{"port"}, {"module"}, {"upper"}>>, "header")
      \/ Starts(<<{"module"}, {"upper"}>>, "header")
  BY DEF ParseHeader
<1>3. /\ <<{"effect"}, {"module"}, {"upper"}>> \in Rows /\ <<{"port"}, {"module"}, {"upper"}>> \in Rows
      /\ <<{"module"}, {"upper"}>> \in Rows
  BY RowsAre
<1>4. \A row \in Rows : \A fn \in {"header", "effect"} : row # <<>> /\ Starts(row, fn) => ModuleInv' /\ Outlining
  BY <1>1, OpensHeader
<1> HIDE DEF Starts
<1>5. CASE Starts(<<{"effect"}, {"module"}, {"upper"}>>, "effect")
  BY <1>3, <1>4, <1>5
<1>6. CASE Starts(<<{"port"}, {"module"}, {"upper"}>>, "header")
  BY <1>3, <1>4, <1>6
<1>7. CASE Starts(<<{"module"}, {"upper"}>>, "header")
  BY <1>3, <1>4, <1>7
<1> QED BY <1>2, <1>5, <1>6, <1>7

(* A further part of a module name.                                        *)
LEMMA MoreNameStep ==
  ASSUME ModuleInv, MoreName
  PROVE  ModuleInv' /\ Outlining
<1>1. at \in {"moduleName", "importName", "importAlias"} /\ Runs(at) /\ Rest /\ UNCHANGED module
      /\ Proceed(Advance(Advance(p)), outer, at)
  BY DEF MoreName
<1>2. Working /\ Kin(at, at) /\ at \notin {"signature", "pattern"}
  BY <1>1 DEF Working, InNone, Kin, InHeader, InImport
<1>3. Reaches(p, Advance(Advance(p))) /\ <<>> \in Rows /\ doc \in Nat
  BY ReadingOn, RowsAre
<1>4. Going(Advance(Advance(p)), outer, at, <<>>, "ok")
  BY <1>1, <1>3 DEF Going, Proceed, Call, Rest
<1>5. "ok" \in Callable
  BY DEF Callable
<1> QED BY <1>2, <1>3, <1>4, <1>5, GoOnSame

(* A step to a place outside the lists, of the header.                     *)
LEMMA HeaderOn ==
  ASSUME ModuleInv, at \in InHeader, Runs(at), NEW q, Reaches(p, q), NEW row \in Rows,
         NEW a \in {"exposing", "effectKey", "effectComma"}, Expect(row, q, outer, a), Rest, UNCHANGED module
  PROVE  ModuleInv' /\ Outlining
<1>1. Working /\ Kin(at, a) /\ at \notin {"signature", "pattern"} /\ at \notin Inner /\ a \notin Inner
  BY DEF Working, InNone, Kin, InHeader, InList, Inner
<1>2. doc \in Nat
  BY ReadingOn
<1>3. Going(q, outer, a, row, "ok")
  BY <1>2 DEF Going, Expect, Rest
<1> QED BY <1>1, <1>3, GoOnSame DEF Callable

(* The rest of the header, up to its exposing list.                        *)
LEMMA HeaderSteps ==
  ASSUME ModuleInv, AfterModuleName \/ EffectKey \/ EffectComma
  PROVE  ModuleInv' /\ Outlining
<1> DEFINE q == Skip(p)
<1>1. Reaches(p, p) /\ Reaches(p, q) /\ Reaches(p, Advance(q))
  BY ReadingOn
<1>2. CASE AfterModuleName
  <2>1. Runs("moduleName") /\ Rest /\ UNCHANGED module
    BY <1>2, Zenon DEF AfterModuleName
  <2>2. PICK row, a : /\ Expect(row, p, outer, a) /\ a \in {"exposing", "effectKey"}
                      /\ row \in {<<{"where"}, {"{"}>>, <<{"exposing"}>>}
    BY <1>2, Zenon DEF AfterModuleName
  <2>3. row \in Rows
    BY <2>2, RowsAre, Zenon
  <2>4. at \in InHeader /\ Runs(at) /\ a \in {"exposing", "effectKey", "effectComma"}
    BY <2>1, <2>2 DEF Runs, InHeader
  <2> QED BY <1>1, <2>1, <2>2, <2>3, <2>4, HeaderOn
<1>3. CASE EffectKey
  <2> HIDE DEF q
  <2>1. Runs("effectKey") /\ Rest /\ UNCHANGED module
    BY <1>3, Zenon DEF EffectKey
  <2>2. PICK row, a : /\ Expect(row, q, outer, a) /\ a \in {"exposing", "effectComma"}
                      /\ row \in {<<{"}"}, {"exposing"}>>, <<{"key"}, {"="}, {"upper"}>>}
    BY <1>3, Zenon DEF EffectKey, q
  <2>3. row \in Rows
    BY <2>2, RowsAre, Zenon
  <2>4. at \in InHeader /\ Runs(at) /\ a \in {"exposing", "effectKey", "effectComma"}
    BY <2>1, <2>2 DEF Runs, InHeader
  <2> QED BY <1>1, <2>1, <2>2, <2>3, <2>4, HeaderOn
<1>4. CASE EffectComma
  <2> HIDE DEF q
  <2>1. Runs("effectComma") /\ Rest /\ UNCHANGED module
    BY <1>4, Zenon DEF EffectComma
  <2>2. PICK r : r \in {q, Advance(q)} /\ Proceed(r, outer, "effectKey")
    BY <1>4, Zenon DEF EffectComma, q
  <2>3. Expect(<<>>, r, outer, "effectKey") /\ Reaches(p, r) /\ <<>> \in Rows
    BY <1>1, <2>2, RowsAre DEF Expect, Proceed, Call
  <2>4. at \in InHeader /\ Runs(at) /\ "effectKey" \in {"exposing", "effectKey", "effectComma"}
    BY <2>1 DEF Runs, InHeader
  <2> QED BY <2>1, <2>3, <2>4, HeaderOn
<1> QED BY <1>2, <1>3, <1>4
-----------------------------------------------------------------------------
(* Exposing lists.                                                         *)

(* The node a frame ends in.                                               *)
LEMMA ClosedNode ==
  ASSUME ModuleInv, NEW q, Reaches(p, q), NEW fr \in Frame
  PROVE  Close(fr, q) \in Node /\ Close(fr, q).from = fr.from /\ Close(fr, q).to = Done(q) /\ Close(fr, q) # NoNode
<1>1. Stream /\ OK(q)
  BY Reader DEF Reaches
<1>2. Close(fr, q) \in Node
  BY <1>1, CloseType
<1>3. Close(fr, q).from = fr.from /\ Close(fr, q).to = Done(q)
  BY DEF Close, SpanNode, Done
<1>4. Close(fr, q).sub # {}
  BY DEF Close, SpanNode
<1>5. NoNode.sub = {}
  BY DEF NoNode
<1> QED BY <1>2, <1>3, <1>4, <1>5

(* The exposing list ends, and with it the header or the import.           *)
LEMMA ListEnds ==
  ASSUME ModuleInv, at \in InList, Runs(at), NEW q, Reaches(p, q), NEW n \in Node,
         EndExposing(q, n), Rest
  PROVE  ModuleInv' /\ Outlining
<1> DEFINE fr == AddPart(outer[1], n)
           m == Close(fr, q)
<1>1. at \notin InNone /\ Working
  BY DEF InList, InNone, Working
<1>2. outer[1] \in Frame /\ outer[1].fn \in {"header", "effect", "import"}
  BY SMTT(30), <1>1, Framed
<1>3. Alike(outer[1], fr)
  BY <1>2, SameFrames
<1>4. fr \in Frame /\ fr.from = outer[1].from
  BY <1>3 DEF Alike
<1>5. m \in Node /\ m.from = outer[1].from /\ m.to = Done(q) /\ m # NoNode
  BY <1>4, ClosedNode
<1>6. Proceed(q, <<>>, "imports")
  BY DEF EndExposing
<1>7. module' = IF outer[1].fn = "import" THEN [module EXCEPT !.imports = Append(@, m)]
                ELSE [module EXCEPT !.header = m]
  BY Zenon DEF EndExposing
<1> HIDE DEF m, fr
<1>8. CASE outer[1].fn = "import"
  BY <1>1, <1>5, <1>6, <1>7, <1>8, ImportIsRead
<1>9. CASE outer[1].fn \in {"header", "effect"}
  <2>1. module' = [module EXCEPT !.header = m]
    BY <1>7, <1>9
  <2> QED BY <1>1, <1>5, <1>6, <1>9, <2>1, HeaderIsRead
<1> QED BY <1>2, <1>8, <1>9

(* An element behind the last one, and behind the only one.                *)
LEMMA OneMore ==
  ASSUME NEW S, NEW s \in Seq(S), NEW e \in S
  PROVE  Append(s, e) \in Seq(S)
OBVIOUS

LEMMA SecondElement ==
  ASSUME NEW S, NEW s \in Seq(S), Len(s) = 1, NEW e \in S
  PROVE  Append(s, e) \in Seq(S) /\ Len(Append(s, e)) = 2 /\ Append(s, e)[1] = s[1]
<1>1. Append(s, e) \in Seq(S)
  BY OneMore, Zenon
<1>2. Len(Append(s, e)) = 2
  OBVIOUS
<1>3. Append(s, e)[1] = s[1]
  OBVIOUS
<1> QED BY <1>1, <1>2, <1>3, Zenon

(* A frame above the outermost.                                            *)
LEMMA Stacks ==
  ASSUME NEW s \in Seq(Frame), Len(s) = 1, NEW fr \in Frame
  PROVE  Append(s, fr) \in Seq(Frame) /\ Len(Append(s, fr)) = 2 /\ Append(s, fr)[1] = s[1]
BY SecondElement, Zenon

(* An exposing list opens.                                                 *)
LEMMA OpenExposingStep ==
  ASSUME ModuleInv, OpenExposing
  PROVE  ModuleInv' /\ Outlining
<1> DEFINE fr == New("exposing", Here(p))
           fs == Append(outer, fr)
<1>1. at = "exposing" /\ Runs(at) /\ Rest /\ UNCHANGED module /\ Expect(<<{"("}>>, p, fs, "exposed")
  BY DEF OpenExposing, Runs
<1>2. Working /\ at \notin InNone /\ at \notin Inner /\ Kin(at, "exposed") /\ at \notin {"signature", "pattern"}
  BY <1>1 DEF Working, InNone, Kin, InList, Inner
<1>3. Reaches(p, p) /\ Here(p) \in Nat /\ doc \in Nat
  BY ReadingOn
<1>4. "exposing" \in FrameNames
  BY DEF FrameNames
<1>5. fr \in Frame
  BY <1>3, <1>4, NewType
<1> HIDE DEF fr
<1>6. outer \in Seq(Frame) /\ Len(outer) = 1
  BY <1>2, Framed
<1>7. fs \in Seq(Frame) /\ Len(fs) = 2 /\ fs[1] = outer[1]
  BY <1>5, <1>6, Stacks
<1> HIDE DEF fs
<1>8. "exposed" \in Inner /\ "ok" \in Callable /\ <<{"("}>> \in Rows
  BY RowsAre DEF Inner, Callable
<1>9. Going(p, fs, "exposed", <<{"("}>>, "ok")
  BY <1>1, <1>3 DEF Going, Expect, Rest
<1> QED BY <1>2, <1>3, <1>7, <1>8, <1>9, GoOn

(* On inside a list, with the frame of the list or a new one.              *)
LEMMA ListOn ==
  ASSUME ModuleInv, at \in InList \cap Inner, Runs(at), NEW q, Reaches(p, q), NEW row \in Rows,
         NEW a \in InList \cap Inner, NEW g, Alike(Outer, g), Rest, UNCHANGED module,
         Expect(row, q, outer, a) \/ Expect(row, q, OuterSwap(g), a)
  PROVE  ModuleInv' /\ Outlining
<1>1. Working /\ Kin(at, a) /\ at \notin {"signature", "pattern"} /\ at \in Inner /\ a \in Inner
  BY DEF Working, InNone, Kin, InList
<1>2. doc \in Nat /\ "ok" \in Callable
  BY ReadingOn DEF Callable
<1>3. CASE Expect(row, q, outer, a)
  <2>1. Going(q, outer, a, row, "ok")
    BY <1>2, <1>3 DEF Going, Expect, Rest
  <2> QED BY <1>1, <1>2, <2>1, GoOnSame
<1>4. CASE Expect(row, q, OuterSwap(g), a)
  <2>1. Going(q, OuterSwap(g), a, row, "ok")
    BY <1>2, <1>4 DEF Going, Expect, Rest
  <2> QED BY <1>1, <1>2, <2>1, GoOnWith
<1> QED BY <1>3, <1>4

(* To proceed is to expect no token.                                       *)
LEMMA ProceedIs ==
  ASSUME NEW q, NEW fs, NEW a
  PROVE  Proceed(q, fs, a) => Expect(<<>>, q, fs, a)
BY DEF Proceed, Call, Expect

(* An exposed value, operator or type.                                     *)
LEMMA ExposedStep ==
  ASSUME ModuleInv, Exposed \/ ExposedType
  PROVE  ModuleInv' /\ Outlining
<1> DEFINE q == Skip(p)
           r == Skip(Advance(p))
<1>1. Reaches(p, p) /\ Reaches(p, q) /\ Reaches(p, r)
  BY ReadingOn
<1> HIDE DEF q, r
<1>2. Rest /\ UNCHANGED module /\ at \in {"exposed", "itemType"} /\ Runs(at)
  BY Zenon DEF Exposed, ExposedType, Runs
<1>3. at \in InList \cap Inner /\ at \notin InNone
  BY SMTT(30), <1>2 DEF InList, Inner, InNone
<1>4. Alike(Outer, Outer)
  BY <1>3, Framed, SameFrames
<1>5. /\ <<{".."}, {")"}>> \in Rows /\ <<{")"}>> \in Rows /\ <<>> \in Rows
  BY RowsAre
<1>6. PICK c, row, a : /\ Expect(row, c, outer, a) /\ c \in {p, q, r} /\ a \in {"everything", "item", "itemEnd"}
                       /\ row \in {<<>>, <<{".."}, {")"}>>, <<{")"}>>}
  <2>1. CASE Exposed
    BY <2>1, ProceedIs, Zenon DEF Exposed, q
  <2>2. CASE ExposedType
    BY <2>2, ProceedIs, Zenon DEF ExposedType, r
  <2> QED BY <2>1, <2>2
<1>7. row \in Rows /\ Reaches(p, c)
  BY <1>1, <1>5, <1>6, Zenon
<1>8. a \in InList \cap Inner
  BY <1>6 DEF InList, Inner
<1> QED BY <1>2, <1>3, <1>4, <1>6, <1>7, <1>8, ListOn

(* "(..)" behind an exposed type.                                          *)
LEMMA EverythingStep ==
  ASSUME ModuleInv, Everything
  PROVE  ModuleInv' /\ Outlining
<1>1. at = "everything" /\ Runs(at) /\ EndExposing(p, Close(Outer, p)) /\ Rest
  BY DEF Everything, Runs
<1>2. at \in InList /\ at \notin InNone
  BY <1>1 DEF InList, InNone
<1>3. Reaches(p, p) /\ Outer \in Frame
  BY <1>2, ReadingOn, Framed
<1>4. Close(Outer, p) \in Node
  BY <1>3, ClosedNode
<1> QED BY <1>1, <1>2, <1>3, <1>4, ListEnds

(* The first exposed item, or ".." for all of them.                        *)
LEMMA ExposedItemStep ==
  ASSUME ModuleInv, ExposedItem
  PROVE  ModuleInv' /\ Outlining
<1> DEFINE q == Skip(p)
           g == [Outer EXCEPT !.mark = Here(q)]
           fs == OuterSwap(g)
<1>1. at = "item" /\ Runs(at) /\ Rest /\ UNCHANGED module
  BY Zenon DEF ExposedItem, Runs
<1>2. at \in InList \cap Inner /\ at \notin InNone
  BY <1>1 DEF InList, Inner, InNone
<1>3. Reaches(p, q) /\ Reaches(p, Advance(q)) /\ Reaches(p, Skip(Advance(q))) /\ Here(q) \in Nat
  BY SMTT(30), ReadingOn
<1>4. Alike(Outer, g)
  BY <1>2, <1>3, Framed, SameFrames
<1>5. \/ \E c \in {Advance(q), Skip(Advance(q))} : \E a \in {"itemEnd", "itemType"} : Expect(<<>>, c, fs, a)
      \/ Expect(<<{"("}, {"op", "-"}, {")"}>>, q, fs, "itemEnd")
      \/ Raise(q)
  BY <1>1, ProceedIs, Zenon DEF ExposedItem
<1> HIDE DEF q, g
<1>6. \A a \in {"itemEnd", "itemType"} : a \in InList \cap Inner
  BY DEF InList, Inner
<1>7. CASE \E c \in {Advance(q), Skip(Advance(q))} : \E a \in {"itemEnd", "itemType"} : Expect(<<>>, c, fs, a)
  <2>1. PICK c \in {Advance(q), Skip(Advance(q))} : \E a \in {"itemEnd", "itemType"} : Expect(<<>>, c, fs, a)
    BY <1>7
  <2>2. PICK a \in {"itemEnd", "itemType"} : Expect(<<>>, c, fs, a)
    BY <2>1
  <2>3. Reaches(p, c) /\ <<>> \in Rows
    BY <1>3, <2>1, RowsAre
  <2> QED BY <1>1, <1>2, <1>4, <1>6, <2>2, <2>3, ListOn
<1>8. CASE Expect(<<{"("}, {"op", "-"}, {")"}>>, q, fs, "itemEnd")
  <2>1. <<{"("}, {"op", "-"}, {")"}>> \in Rows
    BY RowsAre
  <2> QED BY <1>1, <1>2, <1>3, <1>4, <1>6, <1>8, <2>1, ListOn
<1>9. CASE Raise(q)
  <2>1. Working /\ doc' = doc
    BY <1>1, <1>2 DEF Working, Rest
  <2> QED BY <1>1, <1>3, <1>9, <2>1, Raised DEF Rest
<1> QED BY <1>5, <1>7, <1>8, <1>9

(* A comma, or the end of the list.                                        *)
LEMMA EndItemStep ==
  ASSUME ModuleInv, EndItem
  PROVE  ModuleInv' /\ Outlining
<1> DEFINE q == Skip(p)
           r == Advance(q)
           k == Snapshot(p)
           item == SpanNode(Outer.mark, p, <<>>, {})
           fr == AddPart(Outer, item)
           s == DropSince(r, k)
           held == Hold(fr, Since(r, k))
<1>1. at = "itemEnd" /\ Runs(at) /\ Rest
  BY Zenon DEF EndItem, Runs
<1>2. at \in InList \cap Inner /\ at \notin InNone
  BY <1>1 DEF InList, Inner, InNone
<1>3. Reaches(p, p) /\ k \in Nat /\ Stream /\ OK(p)
  BY ReadingOn
<1>4. Reaches(p, q) /\ Reaches(p, r) /\ OK(r)
  BY ReadingOn
<1>5. Outer \in Frame /\ Outer.mark \in Nat
  BY <1>2, Framed, FrameParts
<1>6. item \in Node
  <2>1. <<>> \in Seq(Comment) /\ {} \in SUBSET Span
    OBVIOUS
  <2> QED BY <1>3, <1>5, <2>1, SpanNodeType
<1>7. \/ Expect(<<>>, r, OuterSwap(fr), "item") /\ UNCHANGED module
      \/ EndExposing(s, Close(held, r))
      \/ Raise(q) /\ UNCHANGED module
  BY ZenonT(60), ProceedIs DEF EndItem
<1> HIDE DEF q, item, k
<1>8. Alike(Outer, fr)
  BY <1>5, <1>6, SameFrames
<1>9. CASE Expect(<<>>, r, OuterSwap(fr), "item") /\ UNCHANGED module
  <2>1. <<>> \in Rows /\ "item" \in InList \cap Inner
    BY RowsAre DEF InList, Inner
  <2> HIDE DEF r, fr
  <2> QED BY <1>1, <1>2, <1>4, <1>8, <1>9, <2>1, ListOn
<1>10. CASE EndExposing(s, Close(held, r))
  <2>1. Since(r, k) \in Seq(Comment)
    BY <1>3, <1>4, SinceType
  <2>2. fr \in Frame
    BY <1>8 DEF Alike
  <2> HIDE DEF fr
  <2>3. held \in Frame
    BY <2>1, <2>2, HoldType
  <2> HIDE DEF held
  <2>4. Close(held, r) \in Node
    BY <1>4, <2>3, ClosedNode
  <2>5. Reaches(p, s)
    BY <1>3, <1>4, ReadingOn
  <2> HIDE DEF r, s
  <2> QED BY <1>1, <1>2, <1>10, <2>4, <2>5, ListEnds
<1>11. CASE Raise(q) /\ UNCHANGED module
  <2>1. Working /\ doc' = doc
    BY <1>1, <1>2 DEF Working, Rest
  <2> QED BY <1>1, <1>4, <1>11, <2>1, Raised DEF Rest
<1> QED BY <1>7, <1>9, <1>10, <1>11
-----------------------------------------------------------------------------
(* The imports.                                                            *)

(* An import starts.                                                       *)
LEMMA ParseImportStep ==
  ASSUME ModuleInv, ParseImport
  PROVE  ModuleInv' /\ Outlining
<1> DEFINE q == Skip(p)
           fr == New("import", Here(q))
           row == <<{"import"}, {"upper"}>>
<1>1. /\ at = "imports" /\ Runs(at) /\ Peek(q) = "import" /\ Expect(row, q, <<fr>>, "importName")
      /\ Rest /\ UNCHANGED module
  BY DEF ParseImport, Runs
<1>2. Reaches(p, q) /\ OK(q) /\ Stream /\ Ordered /\ Here(q) \in Nat /\ doc \in Nat
  BY ReadingOn, Reader
<1>3. Reaches(q, q)
  BY <1>2, SameReaches
<1>4. ErrorsBefore(errors, Here(q))
  <2>1. ~Stalled
    BY <1>1 DEF Stalled, Stopped, Skipping, Runs, Boundaries
  <2> QED BY <1>2, <2>1, ErrorsStay
<1>5. fr \in Frame /\ fr.fn = "import" /\ fr.from = Here(q)
  <2>1. "import" \in FrameNames
    BY DEF FrameNames
  <2>2. fr.from = Here(q)
    BY DEF New
  <2> QED BY <1>2, <2>1, <2>2, NewType
<1> HIDE DEF fr
<1>6. PlaceFits("importName", <<fr>>)
  BY <1>5 DEF PlaceFits, Inner, InImport
<1>7. row \in Rows /\ row # <<>> /\ "ok" \in Callable
  BY RowsAre DEF Callable
<1>8. /\ Goto(q, <<>>, "ok") /\ outer' = <<fr>> /\ at' = "importName" /\ want' = row
      /\ UNCHANGED <<decls, mode, module, errors>> /\ doc' \in Nat
  BY <1>1, <1>2 DEF Expect, Rest
<1> HIDE DEF q, row
<1> QED BY <1>1, <1>2, <1>3, <1>4, <1>5, <1>6, <1>7, <1>8, OpenOn

(* Between the constructs reading stands past the errors, or before a      *)
(* token that starts the next one.                                         *)
LEMMA Ahead ==
  ASSUME ModuleInv, at \in {"imports", "declarations"} \cup Skipping, Runs(at)
  PROVE  /\ Reaches(p, Skip(p)) /\ Skip(Skip(p)) = Skip(p) /\ (AtEof(Skip(p)) <=> Peek(Skip(p)) = "eof")
         /\ at \in {"imports", "declarations"} =>
              ErrorsBefore(errors, Here(Skip(p))) \/ Peek(Skip(p)) \in Boundaries \cup {"eof"}
<1> DEFINE q == Skip(p)
<1>1. Reaches(p, q) /\ Stream /\ OK(p)
  BY ReadingOn
<1>2. Skip(q) = q /\ (AtEof(q) <=> Peek(q) = "eof")
  BY <1>1, TokenAhead
<1>3. ASSUME at \in {"imports", "declarations"}
      PROVE  ErrorsBefore(errors, Here(q)) \/ Peek(q) \in Boundaries \cup {"eof"}
  <2>1. CASE Stalled
    BY <1>3, <2>1 DEF Stalled, Stopped, Skipping
  <2>2. CASE ~Stalled
    BY <1>1, <2>2, ErrorsStay
  <2> QED BY <2>1, <2>2
<1> QED BY <1>1, <1>2, <1>3

(* A doc comment after the header.                                         *)
LEMMA ModuleDocStep ==
  ASSUME ModuleInv, ModuleDoc
  PROVE  ModuleInv' /\ Outlining
<1> DEFINE q == Skip(p)
           r == Advance(q)
           first == module.doc = 0 /\ module.imports = <<>>
<1>1. at = "imports" /\ Runs(at) /\ Rest /\ Documented(q)
  BY Zenon DEF ModuleDoc, Runs
<1>2. module' = IF first THEN [module EXCEPT !.doc = toks[q.pos].ix] ELSE module
  BY Zenon DEF ModuleDoc
<1>3. \/ first /\ Proceed(Skip(r), <<>>, "imports")
      \/ first /\ Proceed(r, <<>>, "declarations")
      \/ Proceed(q, <<>>, "declarations")
  BY Zenon DEF ModuleDoc
<1>4. Reaches(p, q) /\ OK(q) /\ Stream /\ Ordered /\ doc \in Nat
  BY ReadingOn, Reader
<1>5. Peek(q) = "doc" /\ Skip(q) = q
  BY <1>1, Ahead DEF Documented
<1>6. Solid(q)
  BY <1>5, Zenon DEF Peek, Solid
<1>7. Passes(q, r) /\ OK(r)
  BY <1>4, <1>6, AdvancePasses
<1>8. toks[q.pos].ix \in Nat
  BY <1>4, Places
<1>9. module \in Module
  BY DEF ModuleInv, ModuleTypeOK
<1> HIDE DEF q, first
<1>10. module' \in Module /\ module'.header = module.header /\ module'.imports = module.imports
  <2>1. CASE first
    <3>1. module' = [module EXCEPT !.doc = toks[q.pos].ix]
      BY <1>2, <2>1
    <3> QED BY <1>8, <1>9, <3>1 DEF Module
  <2>2. CASE ~first
    <3>1. module' = module
      BY <1>2, <2>2
    <3> QED BY <1>9, <3>1
  <2> QED BY <2>1, <2>2
<1>11. UNCHANGED <<mode, errors>> /\ doc' \in Nat
  BY <1>1, <1>4 DEF Rest
<1>12. ASSUME NEW c \in {r, Skip(r)}, NEW a \in {"imports", "declarations"}, Proceed(c, <<>>, a)
       PROVE  ModuleInv' /\ Outlining
  <2>1. Passes(p, r) /\ Reaches(r, Skip(r))
    BY <1>4, <1>7, ReachesOn, Onward
  <2>2. Passes(p, c) /\ Reaches(p, c)
    BY <1>12, <2>1, ReachesOn
  <2>3. ErrorsBefore(errors, Here(c))
    BY <2>2, ErrorsStay
  <2> HIDE DEF r
  <2> QED BY <1>1, <1>10, <1>11, <1>12, <2>2, <2>3, MoveOn
<1>13. CASE Proceed(q, <<>>, "declarations")
  <2>1. Peek(Skip(q)) \in Boundaries
    BY <1>5 DEF Boundaries
  <2> QED BY <1>1, <1>4, <1>10, <1>11, <1>13, <2>1, MoveOn
<1> HIDE DEF r
<1> QED BY <1>3, <1>12, <1>13

(* From the imports to the declarations, from one declaration to the next, *)
(* and over what recovery skips.                                           *)
LEMMA MovingSteps ==
  ASSUME ModuleInv, NoMoreImports \/ NextDeclaration \/ SkipToken \/ EndSkip
  PROVE  ModuleInv' /\ Outlining
<1> DEFINE q == Skip(p)
<1>1. Rest /\ module' = module /\ at \in {"imports", "declarations"} \cup Skipping /\ Runs(at)
  BY Zenon DEF NoMoreImports, NextDeclaration, SkipToken, EndSkip, Runs
<1>2. Reaches(p, q) /\ Reaches(p, Advance(q)) /\ doc \in Nat
  BY ReadingOn
<1>3. Skip(q) = q /\ (AtEof(q) <=> Peek(q) = "eof")
  BY <1>1, Ahead
<1>4. at \in {"imports", "declarations"} => ErrorsBefore(errors, Here(q)) \/ Peek(Skip(q)) \in Boundaries \cup {"eof"}
  BY <1>1, <1>3, Ahead
<1>5. module' \in Module /\ module'.header = module.header /\ module'.imports = module.imports
  BY <1>1 DEF ModuleInv, ModuleTypeOK
<1>6. UNCHANGED <<mode, errors>> /\ doc' \in Nat
  BY <1>1, <1>2 DEF Rest
<1> HIDE DEF q
<1>7. CASE NoMoreImports
  <2>1. at = "imports" /\ Proceed(q, <<>>, "declarations")
    BY <1>7, Zenon DEF NoMoreImports, Runs, q
  <2> QED BY <1>1, <1>2, <1>4, <1>5, <1>6, <2>1, MoveOn
<1>8. CASE NextDeclaration
  <2>1. at = "declarations" /\ Proceed(q, <<>>, "declaration") /\ ~AtEof(q)
    BY <1>8, Zenon DEF NextDeclaration, Runs, q
  <2>2. ErrorsBefore(errors, Here(q)) \/ Peek(Skip(q)) \in Boundaries
    BY <1>3, <1>4, <2>1
  <2> QED BY <1>1, <1>2, <1>5, <1>6, <2>1, <2>2, MoveOn
<1>9. CASE SkipToken
  <2>1. at \in Skipping /\ Proceed(Advance(q), <<>>, at)
    BY <1>9, Zenon DEF SkipToken, q
  <2> QED BY <1>1, <1>2, <1>5, <1>6, <2>1, MoveOn
<1>10. CASE EndSkip
  <2>1. at \in Skipping /\ Boundary(q) /\ Proceed(q, <<>>, IF at = "skipInImports" THEN "imports" ELSE "declarations")
    BY <1>10, Zenon DEF EndSkip, q
  <2>2. Peek(Skip(q)) \in Boundaries \cup {"eof"}
    BY <1>3, <2>1 DEF Boundary, Boundaries
  <2>3. CASE at = "skipInImports"
    BY <1>1, <1>2, <1>5, <1>6, <2>1, <2>2, <2>3, MoveOn
  <2>4. CASE at # "skipInImports"
    BY <1>1, <1>2, <1>5, <1>6, <2>1, <2>2, <2>4, MoveOn
  <2> QED BY <2>3, <2>4
<1> QED BY <1>7, <1>8, <1>9, <1>10

(* The rest of an import.                                                  *)
LEMMA ImportTailStep ==
  ASSUME ModuleInv, at \in InImport, Runs(at), Rest, NEW q, Reaches(p, q), ImportTail(q)
  PROVE  ModuleInv' /\ Outlining
<1>1. /\ Working /\ at \notin InNone /\ at \notin Inner /\ "exposing" \notin Inner /\ Kin(at, "exposing")
      /\ at \notin {"signature", "pattern"}
  BY DEF Working, InNone, InImport, Inner, Kin, InList
<1>2. outer[1].fn = "import" /\ Outer \in Frame /\ Outer = outer[1] /\ doc \in Nat
  BY <1>1, Framed, ReadingOn
<1>3. Reaches(p, Advance(q))
  BY ReadingOn
<1>4. CASE Proceed(Advance(q), outer, "exposing") /\ UNCHANGED module
  <2>1. Going(Advance(q), outer, "exposing", <<>>, "ok")
    BY <1>2, <1>4 DEF Going, Proceed, Call, Rest
  <2>2. <<>> \in Rows /\ "ok" \in Callable
    BY RowsAre DEF Callable
  <2> QED BY <1>1, <1>3, <2>1, <2>2, GoOnSame
<1>5. CASE EndImport(q)
  <2> DEFINE n == Close(Outer, q)
  <2>1. n \in Node /\ n.from = outer[1].from /\ n.to = Done(q)
    BY <1>2, ClosedNode
  <2>2. Proceed(q, <<>>, "imports") /\ module' = [module EXCEPT !.imports = Append(@, n)]
    BY <1>5 DEF EndImport
  <2> HIDE DEF n
  <2> QED BY <1>1, <1>2, <2>1, <2>2, ImportIsRead
<1> QED BY <1>4, <1>5 DEF ImportTail

(* The alias and the exposing list of an import.                           *)
LEMMA ImportSteps ==
  ASSUME ModuleInv, AfterImportName \/ AfterImportAlias
  PROVE  ModuleInv' /\ Outlining
<1> DEFINE q == Skip(p)
<1>1. Reaches(p, q) /\ doc \in Nat
  BY ReadingOn
<1>2. at \in InImport /\ Runs(at) /\ Rest
  BY Zenon DEF AfterImportName, AfterImportAlias, Runs, InImport
<1>3. \/ Expect(<<{"as"}, {"upper"}>>, q, outer, "importAlias") /\ UNCHANGED module
      \/ ImportTail(q)
  BY Zenon DEF AfterImportName, AfterImportAlias
<1> HIDE DEF q
<1>4. CASE Expect(<<{"as"}, {"upper"}>>, q, outer, "importAlias") /\ UNCHANGED module
  <2>1. /\ Working /\ at \notin Inner /\ "importAlias" \notin Inner /\ Kin(at, "importAlias")
        /\ at \notin {"signature", "pattern"}
    BY <1>2 DEF Working, InNone, InImport, Inner, Kin
  <2>2. <<{"as"}, {"upper"}>> \in Rows /\ "ok" \in Callable
    BY RowsAre DEF Callable
  <2>3. Going(q, outer, "importAlias", <<{"as"}, {"upper"}>>, "ok")
    BY <1>1, <1>2, <1>4 DEF Going, Expect, Rest
  <2> QED BY <1>1, <2>1, <2>2, <2>3, GoOnSame
<1>5. CASE ImportTail(q)
  BY <1>1, <1>2, <1>5, ImportTailStep
<1> QED BY <1>3, <1>4, <1>5
-----------------------------------------------------------------------------
(* The arms of a declaration.                                              *)

Kept == UNCHANGED <<mode, module, errors>>

(* The token that says which arm: a doc comment before it is passed.       *)
LEMMA AtArm ==
  ASSUME ModuleInv, NEW kinds, Arm(kinds), NEW q, q = PastDoc(Skip(p))
  PROVE  /\ at = "declaration" /\ Runs(at) /\ Peek(q) \in kinds /\ doc' \in Nat /\ ~Stopped
         /\ Reaches(p, q) /\ OK(q) /\ Skip(q) = q
         /\ Solid(q) => Passes(p, Advance(q))
         /\ ErrorsBefore(errors, Here(q)) \/ Peek(q) \in {"lower", "type", "port", "infix"}
<1> DEFINE s == Skip(p)
           d == Skip(Advance(s))
<1>1. at = "declaration" /\ Runs(at) /\ Peek(q) \in kinds /\ doc' = IF Documented(s) THEN toks[s.pos].ix ELSE 0
  BY Zenon DEF Arm, Runs
<1>2. Stream /\ Ordered /\ OK(p) /\ Reaches(p, s) /\ OK(s)
  BY Reader, ReadingOn
<1>3. toks[s.pos].ix \in Nat
  BY <1>2, Places
<1>4. doc' \in Nat
  BY <1>1, <1>3
<1>5. ~Stopped
  BY <1>1 DEF Stopped
<1>6. Skip(s) = s
  BY <1>2, TokenAhead
<1>7. CASE ~Documented(s)
  <2>1. q = s
    BY <1>7 DEF PastDoc
  <2>2. ErrorsBefore(errors, Here(q)) \/ Peek(q) \in {"lower", "type", "port", "infix"}
    <3>1. CASE Stalled
      <4>1. Peek(q) \in Boundaries
        BY <1>1, <2>1, <3>1 DEF Stalled, Stopped, Skipping
      <4> QED BY <1>7, <2>1, <4>1 DEF Boundaries, Documented
    <3>2. CASE ~Stalled
      BY <1>2, <2>1, <3>2, ErrorsStay
    <3> QED BY <3>1, <3>2
  <2>3. Solid(q) => Passes(p, Advance(q))
    BY <1>2, <2>1, AdvancePasses, ReachesOn
  <2> HIDE DEF s
  <2> QED BY <1>1, <1>2, <1>4, <1>5, <1>6, <2>1, <2>2, <2>3
<1>8. CASE Documented(s)
  <2>1. q = d
    BY <1>8 DEF PastDoc
  <2>2. Solid(s)
    BY <1>8, Zenon DEF Documented, Peek, Solid
  <2>3. Passes(s, Advance(s)) /\ OK(Advance(s))
    BY <1>2, <2>2, AdvancePasses
  <2>4. Reaches(Advance(s), d) /\ OK(d) /\ Skip(d) = d
    BY <1>2, <2>3, Onward, TokenAhead
  <2>5. Passes(p, d) /\ Reaches(p, d)
    BY <1>2, <2>3, <2>4, ReachesOn
  <2>6. ErrorsBefore(errors, Here(q))
    BY <2>1, <2>5, ErrorsStay
  <2>7. Solid(q) => Passes(p, Advance(q))
    BY <1>2, <2>1, <2>4, <2>5, AdvancePasses, ReachesOn
  <2> HIDE DEF s, d
  <2> QED BY <1>1, <1>4, <1>5, <2>1, <2>4, <2>5, <2>6, <2>7
<1> QED BY <1>7, <1>8

(* The declaration is opened where it starts.                              *)
LEMMA OpensDeclaration ==
  ASSUME ModuleInv, at = "declaration", Runs(at), Kept, doc' \in Nat, NEW q, Reaches(p, q),
         NEW fr, Alike(Opened, fr), NEW a \in InDeclaration, a \notin Inner, NEW w \in Rows, NEW c \in Callable,
         c = "ok" \/ (a \in Waits /\ w = <<>>),
         w # <<>> \/ a \in {"signature", "pattern"} \/ Passes(p, q),
         \/ ErrorsBefore(errors, Here(q))
         \/ /\ Peek(Skip(q)) = "lower"
            /\ \/ a = "signature" /\ c = "signature"
               \/ a = "arguments" /\ c = "ok" /\ w = <<{"lower"}>>,
         Goto(q, <<>>, c), outer' = <<fr>>, at' = a, want' = w, UNCHANGED decls
  PROVE  ModuleInv' /\ Outlining
<1>1. Opened.fn = "declaration" /\ Opened.from = Here(p)
  BY DEF Opened, New
<1>2. fr \in Frame /\ fr.fn = "declaration" /\ fr.from = Here(p)
  BY <1>1 DEF Alike
<1>3. PlaceFits(a, <<fr>>)
  BY <1>2 DEF PlaceFits
<1>4. Reaches(p, p)
  BY ReadingOn
<1>5. UNCHANGED <<decls, mode, module, errors>>
  BY SMTT(30) DEF Kept
<1> QED BY <1>2, <1>3, <1>4, <1>5, OpenOn

(* The frame that a declaration is opened with.                            *)
LEMMA Openings ==
  ASSUME ModuleInv
  PROVE  /\ Alike(Opened, Opened)
         /\ \A x \in Nat : Alike(Opened, [Opened EXCEPT !.mark = x])
<1>1. Here(p) \in Nat
  BY ReadingOn
<1>2. "declaration" \in FrameNames
  BY DEF FrameNames
<1>3. Opened \in Frame
  BY <1>1, <1>2, NewType DEF Opened
<1> QED BY <1>3, SameFrames

(* A type, a port or an infix declaration starts.                          *)
LEMMA KeywordArms ==
  ASSUME ModuleInv, TypeArm \/ PortArm \/ InfixArm, Kept
  PROVE  ModuleInv' /\ Outlining
<1> DEFINE q == PastDoc(Skip(p))
           r == Skip(Advance(q))
           row == <<{"left"}, {"number"}, {"("}, {"op", "-"}, {")"}, {"="}, {"lower"}>>
<1>1. Arm({"type", "port", "infix"})
  BY DEF TypeArm, PortArm, InfixArm, Arm
<1>2. at = "declaration" /\ Runs(at) /\ doc' \in Nat /\ Peek(q) \in {"type", "port", "infix"}
  BY <1>1, AtArm
<1>3. Solid(q)
  BY <1>2, Zenon DEF Peek, Solid
<1>4. Passes(p, Advance(q)) /\ Reaches(p, Advance(q))
  BY <1>1, <1>3, AtArm, ReachesOn
<1>5. Reaches(p, r) /\ Reaches(p, Advance(r)) /\ Stream /\ Ordered
  BY <1>4, ReadingOn, Reader
<1>6. Passes(p, r) /\ Passes(p, Advance(r))
  <2>1. Reaches(Advance(q), r) /\ OK(r)
    BY <1>4, <1>5, Onward DEF Reaches
  <2>2. Reaches(r, Advance(r))
    BY <1>5, <2>1, AdvanceReaches
  <2> QED BY <1>4, <2>1, <2>2, ReachesOn
<1>7. <<>> \in Rows /\ row \in Rows
  BY RowsAre
<1>8. "ok" \in Callable /\ "signature" \in Callable /\ "port" \in Waits
  BY DEF Callable, Waits
<1>9. \A a \in {"aliasName", "typeName", "port", "infix"} : a \in InDeclaration /\ a \notin Inner
  BY DEF InDeclaration, Inner
<1>10. Alike(Opened, Opened)
  BY Openings
<1>11. PICK t \in {Advance(q), r, Advance(r)} : \E a \in {"aliasName", "typeName", "port", "infix"} :
         /\ outer' = <<Opened>> /\ at' = a /\ UNCHANGED decls
         /\ \/ Goto(t, <<>>, "ok") /\ want' \in {<<>>, row}
            \/ Goto(t, <<>>, "signature") /\ want' = <<>> /\ a = "port"
  <2>1. CASE TypeArm
    BY <2>1, Zenon DEF TypeArm, Proceed, Call
  <2>2. CASE PortArm
    BY <2>2, Zenon DEF PortArm, Call
  <2>3. CASE InfixArm
    BY <2>3, Zenon DEF InfixArm, Expect
  <2> QED BY <2>1, <2>2, <2>3
<1> HIDE DEF q, r, row
<1>12. PICK a \in {"aliasName", "typeName", "port", "infix"} :
         /\ outer' = <<Opened>> /\ at' = a /\ UNCHANGED decls
         /\ \/ Goto(t, <<>>, "ok") /\ want' \in {<<>>, row}
            \/ Goto(t, <<>>, "signature") /\ want' = <<>> /\ a = "port"
  BY <1>11
<1>13. Passes(p, t) /\ Reaches(p, t) /\ ErrorsBefore(errors, Here(t))
  BY <1>4, <1>6, <1>11, ReachesOn, ErrorsStay
<1>14. want' \in Rows
  BY <1>7, <1>12
<1>15. CASE Goto(t, <<>>, "ok")
  BY <1>2, <1>8, <1>9, <1>10, <1>12, <1>13, <1>14, <1>15, OpensDeclaration
<1>16. CASE Goto(t, <<>>, "signature") /\ want' = <<>> /\ a = "port"
  BY <1>2, <1>7, <1>8, <1>9, <1>10, <1>12, <1>13, <1>16, OpensDeclaration
<1> QED BY <1>12, <1>15, <1>16

(* A function starts, with its signature or without.                       *)
LEMMA FunctionArmStep ==
  ASSUME ModuleInv, FunctionArm, Kept
  PROVE  ModuleInv' /\ Outlining
<1> DEFINE q == PastDoc(Skip(p))
           marked == [Opened EXCEPT !.mark = Here(q)]
<1>1. Arm({"lower"})
  BY DEF FunctionArm
<1>2. at = "declaration" /\ Runs(at) /\ doc' \in Nat /\ Peek(q) = "lower" /\ Skip(q) = q /\ Reaches(p, q)
  BY <1>1, AtArm
<1>3. Here(q) \in Nat
  BY <1>2, ReadingOn
<1>4. Alike(Opened, Opened) /\ Alike(Opened, marked)
  BY <1>3, Openings
<1>5. \/ Call(q, <<Opened>>, "signature", "signature")
      \/ Expect(<<{"lower"}>>, q, <<marked>>, "arguments")
  BY Zenon DEF FunctionArm
<1>6. /\ "signature" \in InDeclaration /\ "signature" \notin Inner /\ "signature" \in Callable /\ "signature" \in Waits
      /\ "arguments" \in InDeclaration /\ "arguments" \notin Inner /\ "ok" \in Callable
  BY DEF InDeclaration, Inner, Callable, Waits
<1>7. <<>> \in Rows /\ <<{"lower"}>> \in Rows /\ <<{"lower"}>> # <<>>
  BY RowsAre
<1>8. Peek(Skip(q)) = "lower"
  BY <1>2
<1> HIDE DEF q, marked
<1>9. CASE Call(q, <<Opened>>, "signature", "signature")
  <2>1. /\ Goto(q, <<>>, "signature") /\ outer' = <<Opened>> /\ at' = "signature" /\ want' = <<>>
        /\ UNCHANGED decls
    BY <1>9 DEF Call
  <2> QED BY <1>2, <1>4, <1>6, <1>7, <1>8, <2>1, OpensDeclaration
<1>10. CASE Expect(<<{"lower"}>>, q, <<marked>>, "arguments")
  <2>1. /\ Goto(q, <<>>, "ok") /\ outer' = <<marked>> /\ at' = "arguments" /\ want' = <<{"lower"}>>
        /\ UNCHANGED decls
    BY <1>10 DEF Expect
  <2> QED BY <1>2, <1>4, <1>6, <1>7, <1>8, <2>1, OpensDeclaration
<1> QED BY <1>5, <1>9, <1>10

(* A pattern is destructured, or nothing that starts a declaration is      *)
(* there.                                                                  *)
LEMMA OtherArms ==
  ASSUME ModuleInv, DestructuringArm \/ NoDeclaration, Kept
  PROVE  ModuleInv' /\ Outlining
<1> DEFINE q == PastDoc(Skip(p))
<1>1. Arm(Kinds \ {"lower", "type", "port", "infix"})
  <2>1. PatternStarts \ {"lower"} \subseteq Kinds \ {"lower", "type", "port", "infix"}
    <3>1. PatternStarts \subseteq Kinds
      BY ZenonT(60) DEF PatternStarts, Kinds
    <3>2. "type" \notin PatternStarts /\ "port" \notin PatternStarts /\ "infix" \notin PatternStarts
      BY ZenonT(60) DEF PatternStarts
    <3> QED BY <3>1, <3>2, Zenon
  <2>2. "lower" \in PatternStarts
    BY DEF PatternStarts
  <2> QED BY <2>1, <2>2, Zenon DEF DestructuringArm, NoDeclaration, Arm
<1>2. /\ at = "declaration" /\ Runs(at) /\ doc' \in Nat /\ Reaches(p, q) /\ ~Stopped
      /\ ErrorsBefore(errors, Here(q))
  BY <1>1, AtArm
<1> HIDE DEF q
<1>3. CASE DestructuringArm
  <2>1. Call(q, <<Opened>>, "pattern", "pattern")
    BY <1>3 DEF DestructuringArm, q
  <2>2. /\ Goto(q, <<>>, "pattern") /\ outer' = <<Opened>> /\ at' = "pattern" /\ want' = <<>> /\ UNCHANGED decls
    BY <2>1 DEF Call
  <2>3. "pattern" \in InDeclaration /\ "pattern" \notin Inner /\ "pattern" \in Callable /\ "pattern" \in Waits
    BY DEF InDeclaration, Inner, Callable, Waits
  <2>4. <<>> \in Rows /\ Alike(Opened, Opened)
    BY RowsAre, Openings
  <2> QED BY <1>2, <2>2, <2>3, <2>4, OpensDeclaration
<1>4. CASE NoDeclaration
  <2>1. Raise(q)
    BY <1>4 DEF NoDeclaration, q
  <2> QED BY <1>2, <2>1, RaiseOn DEF Kept
<1> QED BY <1>3, <1>4
-----------------------------------------------------------------------------
(* Inside a declaration.                                                   *)

(* It goes on: g is what its innermost frame becomes, if it is exchanged.  *)
LEMMA DeclarationGoesOn ==
  ASSUME ModuleInv, at \in InDeclaration, Runs(at) \/ Given(at), Kept, doc' = doc, NEW q,
         Reaches(p, q),
         NEW a \in InDeclaration, at \in Inner <=> a \in Inner, NEW g, Alike(Outer, g),
         NEW w \in Rows, NEW c \in Callable, c = "ok" \/ (a \in Waits /\ w = <<>>),
         w # <<>> \/ at \notin {"signature", "pattern"},
         Goto(q, <<>>, c), outer' = outer \/ outer' = OuterSwap(g), at' = a, want' = w, UNCHANGED decls
  PROVE  ModuleInv' /\ Outlining
<1>1. Working /\ Kin(at, a)
  BY DEF Working, InDeclaration, InNone, Kin
<1>2. UNCHANGED <<decls, mode, module, errors>> /\ doc' \in Nat
  BY ReadingOn DEF Kept
<1>3. CASE outer' = outer
  <2>1. Going(q, outer, a, w, c)
    BY <1>2, <1>3 DEF Going
  <2> QED BY <1>1, <2>1, GoOnSame
<1>4. CASE outer' = OuterSwap(g)
  <2>1. Going(q, OuterSwap(g), a, w, c)
    BY <1>2, <1>4 DEF Going
  <2> QED BY <1>1, <2>1, GoOnWith
<1> QED BY <1>3, <1>4

(* It fails.                                                               *)
LEMMA DeclarationFails ==
  ASSUME ModuleInv, at \in InDeclaration, Runs(at) \/ Given(at), Kept, doc' = doc, NEW q,
         Reaches(p, q), Raise(q)
  PROVE  ModuleInv' /\ Outlining
<1>1. Working
  BY DEF Working, InDeclaration, InNone
<1> QED BY <1>1, Raised DEF Kept

(* It ends, with the frame fr.                                             *)
LEMMA DeclarationEnds ==
  ASSUME ModuleInv, at \in InDeclaration, at \notin {"signature", "pattern"}, Runs(at) \/ Given(at),
         Kept,
         NEW q, Reaches(p, q), NEW fr, Alike(outer[1], fr), NEW d \in Nat, EndDeclaration(q, Close(fr, q), d)
  PROVE  ModuleInv' /\ Outlining
<1> DEFINE n == Close(fr, q)
<1>1. Working /\ at \notin InNone
  BY DEF Working, InDeclaration, InNone
<1>2. outer[1].fn = "declaration"
  BY <1>1, Framed
<1>3. n \in Node /\ n.from = outer[1].from /\ n.to = Done(q)
  BY ClosedNode DEF Alike
<1>4. EndDeclaration(q, n, d)
  BY SMTT(30)
<1> HIDE DEF n
<1> QED BY <1>1, <1>2, <1>3, <1>4, DeclarationIsRead DEF Kept

(* What the functions of declarations find: their frames, and a value.     *)
LEMMA InDeclarations ==
  ASSUME ModuleInv, at \in InDeclaration
  PROVE  /\ Outer \in Frame /\ outer[1] \in Frame /\ Alike(Outer, Outer) /\ (at \notin Inner => Outer = outer[1])
         /\ val \in Node /\ Carried(val) \in Seq(Comment) /\ val.sub \in SUBSET Span
<1>1. at \notin InNone
  BY DEF InDeclaration, InNone
<1> QED BY <1>1, Framed, SameFrames, ReadingOn, NodeParts

(* Frames of the same function, one after the other.                       *)
LEMMA SameOn ==
  ASSUME NEW x, NEW y, NEW z, Alike(x, y), Alike(y, z)
  PROVE  Alike(x, z)
BY DEF Alike

(* A signature is read; the function follows under the same name.          *)
LEMMA AfterSignatureStep ==
  ASSUME ModuleInv, AfterSignature, Kept
  PROVE  ModuleInv' /\ Outlining
<1> DEFINE q == Skip(p)
           u == Outer.sub \cup val.sub
           g == [Outer EXCEPT !.sub = u, !.mark = Here(q)]
           fr == Hold(g, Carried(val))
<1>1. at = "signature" /\ Given(at) /\ Expect(<<{"lower"}>>, q, OuterSwap(fr), "arguments") /\ doc' = doc
  BY DEF AfterSignature, Given
<1>2. at \in InDeclaration /\ at \notin Inner /\ "arguments" \in InDeclaration /\ "arguments" \notin Inner
  BY <1>1 DEF InDeclaration, Inner
<1>3. Reaches(p, q) /\ Here(q) \in Nat
  BY ReadingOn
<1>4. Outer \in Frame /\ val \in Node /\ Carried(val) \in Seq(Comment) /\ u \in SUBSET Span
  BY SMTT(30), <1>2, InDeclarations, FrameParts
<1> HIDE DEF q, u
<1>5. Alike(Outer, g)
  BY <1>3, <1>4, SameFrames
<1>6. g \in Frame
  BY SMTT(30), <1>5 DEF Alike
<1> HIDE DEF g
<1>7. Alike(g, fr)
  BY <1>4, <1>6, SameFrames
<1>8. Alike(Outer, fr)
  BY <1>5, <1>7, SameOn
<1> HIDE DEF fr
<1>9. <<{"lower"}>> \in Rows /\ <<{"lower"}>> # <<>> /\ "ok" \in Callable
  BY RowsAre DEF Callable
<1>10. /\ Goto(q, <<>>, "ok") /\ outer' = OuterSwap(fr) /\ at' = "arguments" /\ want' = <<{"lower"}>>
       /\ UNCHANGED decls
  BY <1>1 DEF Expect
<1> QED BY <1>1, <1>2, <1>3, <1>8, <1>9, <1>10, DeclarationGoesOn

(* The arguments of a function, up to its body.                            *)
LEMMA FunctionArgumentsStep ==
  ASSUME ModuleInv, FunctionArguments, Kept
  PROVE  ModuleInv' /\ Outlining
<1> DEFINE q == Skip(p)
           r == Advance(q)
           g == [Outer EXCEPT !.body = Snapshot(r)]
<1>1. at = "arguments" /\ Runs(at) /\ doc' = doc
  BY Zenon DEF FunctionArguments, Runs
<1>2. /\ at \in InDeclaration /\ at \notin Inner /\ at \in Waits /\ "body" \in InDeclaration /\ "body" \notin Inner
      /\ "body" \in Waits /\ at \notin {"signature", "pattern"}
  BY <1>1 DEF InDeclaration, Inner, Waits
<1>3. Reaches(p, q) /\ Reaches(p, r) /\ Snapshot(r) \in Nat
  BY SMTT(30), ReadingOn
<1>4. Alike(Outer, Outer) /\ Alike(Outer, g)
  BY <1>2, <1>3, InDeclarations, SameFrames
<1>5. \/ Call(q, outer, "arguments", "pattern")
      \/ Call(r, OuterSwap(g), "body", "expr")
      \/ Raise(q)
  BY Zenon DEF FunctionArguments
<1>6. <<>> \in Rows /\ "pattern" \in Callable /\ "expr" \in Callable
  BY RowsAre DEF Callable
<1> HIDE DEF q, r, g
<1>7. CASE Call(q, outer, "arguments", "pattern")
  <2>1. Goto(q, <<>>, "pattern") /\ outer' = outer /\ at' = "arguments" /\ want' = <<>> /\ UNCHANGED decls
    BY <1>7 DEF Call
  <2> QED BY <1>1, <1>2, <1>3, <1>4, <1>6, <2>1, DeclarationGoesOn
<1>8. CASE Call(r, OuterSwap(g), "body", "expr")
  <2>1. Goto(r, <<>>, "expr") /\ outer' = OuterSwap(g) /\ at' = "body" /\ want' = <<>> /\ UNCHANGED decls
    BY <1>8 DEF Call
  <2> QED BY <1>1, <1>2, <1>3, <1>4, <1>6, <2>1, DeclarationGoesOn
<1>9. CASE Raise(q)
  BY <1>1, <1>2, <1>3, <1>9, DeclarationFails
<1> QED BY <1>5, <1>7, <1>8, <1>9

(* An argument or a destructured pattern is read.                          *)
LEMMA AfterArgumentStep ==
  ASSUME ModuleInv, AfterFunctionArgument \/ AfterDestructured \/ DestructuredBody, Kept
  PROVE  ModuleInv' /\ Outlining
<1> DEFINE g == AddPart(Outer, val)
<1>1. at \in {"arguments", "pattern", "destructured"} /\ (Runs(at) \/ Given(at)) /\ doc' = doc
  BY Zenon DEF AfterFunctionArgument, AfterDestructured, DestructuredBody, Runs, Given
<1>2. at \in InDeclaration /\ at \notin Inner
  BY <1>1 DEF InDeclaration, Inner
<1>3. Reaches(p, p)
  BY SMTT(30), ReadingOn
<1>4. Alike(Outer, Outer) /\ Alike(Outer, g)
  BY <1>2, InDeclarations, SameFrames
<1>5. /\ "arguments" \in InDeclaration /\ "arguments" \notin Inner /\ "destructured" \in InDeclaration
      /\ "destructured" \notin Inner /\ "destructured" \in Waits /\ "ok" \in Callable /\ "expr" \in Callable
  BY DEF InDeclaration, Inner, Waits, Callable
<1>6. <<>> \in Rows /\ <<{"="}>> \in Rows /\ <<{"="}>> # <<>>
  BY RowsAre
<1> HIDE DEF g
<1>7. CASE AfterFunctionArgument
  <2>1. at = "arguments" /\ Proceed(p, OuterSwap(g), "arguments")
    BY <1>7 DEF AfterFunctionArgument, Given, g
  <2>2. Goto(p, <<>>, "ok") /\ outer' = OuterSwap(g) /\ at' = "arguments" /\ want' = <<>> /\ UNCHANGED decls
    BY <2>1 DEF Proceed, Call
  <2> QED BY <1>1, <1>2, <1>3, <1>4, <1>5, <1>6, <2>1, <2>2, DeclarationGoesOn
<1>8. CASE AfterDestructured
  <2>1. Expect(<<{"="}>>, p, OuterSwap(g), "destructured")
    BY <1>8 DEF AfterDestructured, g
  <2>2. /\ Goto(p, <<>>, "ok") /\ outer' = OuterSwap(g) /\ at' = "destructured" /\ want' = <<{"="}>>
        /\ UNCHANGED decls
    BY <2>1 DEF Expect
  <2> QED BY <1>1, <1>2, <1>3, <1>4, <1>5, <1>6, <2>2, DeclarationGoesOn
<1>9. CASE DestructuredBody
  <2>1. at = "destructured" /\ Call(p, outer, "destructured", "expr")
    BY <1>9 DEF DestructuredBody, Runs
  <2>2. Goto(p, <<>>, "expr") /\ outer' = outer /\ at' = "destructured" /\ want' = <<>> /\ UNCHANGED decls
    BY <2>1 DEF Call
  <2> QED BY <1>1, <1>2, <1>3, <1>4, <1>5, <1>6, <2>1, <2>2, DeclarationGoesOn
<1> QED BY <1>7, <1>8, <1>9

(* The body of a function is read: the function is complete.               *)
LEMMA AfterBodyStep ==
  ASSUME ModuleInv, AfterFunctionBody, Kept
  PROVE  ModuleInv' /\ Outlining
<1> DEFINE q == AfterPre(p, val, Outer.body)
           body == WithPre(p, val, Outer.body)
           fr == AddPart(Outer, body)
           implementation == SpanNode(Outer.mark, q, <<>>, {})
           u == fr.sub \cup implementation.sub
           g == [fr EXCEPT !.sub = u]
<1>1. at = "body" /\ Given(at) /\ EndDeclaration(q, Close(g, q), doc)
  BY DEF AfterFunctionBody, Given
<1>2. at \in InDeclaration /\ at \notin Inner /\ at \notin {"signature", "pattern"}
  BY <1>1 DEF InDeclaration, Inner
<1>3. Outer \in Frame /\ Outer = outer[1] /\ val \in Node /\ Outer.body \in Nat /\ Outer.mark \in Nat
  BY <1>2, InDeclarations, FrameParts
<1>4. Stream /\ OK(p) /\ Reaches(p, p) /\ doc \in Nat
  BY ReadingOn
<1>5. Reaches(p, q) /\ OK(q)
  BY <1>3, <1>4, ReadingOn
<1>6. body \in Node
  BY <1>3, <1>4, PreType
<1> HIDE DEF body
<1>7. Alike(Outer, fr)
  BY <1>3, <1>6, SameFrames
<1>8. implementation \in Node
  <2>1. <<>> \in Seq(Comment) /\ {} \in SUBSET Span
    OBVIOUS
  <2> HIDE DEF q
  <2> QED BY <1>3, <1>4, <1>5, <2>1, SpanNodeType
<1> HIDE DEF fr, implementation
<1>9. fr \in Frame /\ u \in SUBSET Span
  BY <1>7, <1>8, FrameParts, NodeParts DEF Alike
<1> HIDE DEF u
<1>10. Alike(fr, g)
  BY <1>9, SameFrames
<1>11. Alike(outer[1], g)
  BY <1>3, <1>7, <1>10, SameOn
<1> HIDE DEF q, g
<1> QED BY <1>1, <1>2, <1>4, <1>5, <1>11, DeclarationEnds

(* The last part of a destructuring, of a port, of an infix declaration or *)
(* of an alias is read.                                                    *)
LEMMA AfterPartStep ==
  ASSUME ModuleInv, AfterDestructuredBody \/ AfterPortSignature \/ InfixDeclaration \/ AfterAliasedType, Kept
  PROVE  ModuleInv' /\ Outlining
<1> DEFINE value == [val EXCEPT !.sub = @ \ {<<val.from, val.to>>}]
<1>1. at \in {"destructured", "port", "infix", "alias"} /\ (Runs(at) \/ Given(at))
  BY Zenon DEF AfterDestructuredBody, AfterPortSignature, InfixDeclaration, AfterAliasedType, Runs,
     Given
<1>2. at \in InDeclaration /\ at \notin Inner /\ at \notin {"signature", "pattern"}
  BY <1>1 DEF InDeclaration, Inner
<1>3. Outer \in Frame /\ Outer = outer[1] /\ val \in Node /\ Alike(Outer, Outer)
  BY <1>2, InDeclarations
<1>4. Reaches(p, p) /\ doc \in Nat /\ 0 \in Nat
  BY ReadingOn
<1>5. value \in Node
  <2> DEFINE u == val.sub \ {<<val.from, val.to>>}
  <2>1. u \in SUBSET Span
    BY <1>3, NodeParts
  <2>2. value = [val EXCEPT !.sub = u]
    BY SMTT(30), <1>3 DEF Node
  <2> HIDE DEF u
  <2> QED BY <1>3, <2>1, <2>2 DEF Node
<1>6. Alike(Outer, AddPart(Outer, val)) /\ Alike(Outer, AddPart(Outer, value))
  BY <1>3, <1>5, SameFrames
<1>7. \/ EndDeclaration(p, Close(AddPart(Outer, val), p), 0)
      \/ EndDeclaration(p, Close(AddPart(Outer, value), p), 0)
      \/ EndDeclaration(p, Close(Outer, p), 0)
      \/ EndDeclaration(p, Close(AddPart(Outer, val), p), doc)
  BY Zenon DEF AfterDestructuredBody, AfterPortSignature, InfixDeclaration, AfterAliasedType
<1> HIDE DEF value
<1>8. \A fr : \A d \in Nat : Alike(outer[1], fr) /\ EndDeclaration(p, Close(fr, p), d) => ModuleInv' /\ Outlining
  BY <1>1, <1>2, <1>4, DeclarationEnds
<1> QED BY <1>3, <1>4, <1>6, <1>7, <1>8
-----------------------------------------------------------------------------
(* The headers of type declarations.                                       *)

(* The name and the variables of a declared type.                          *)
LEMMA TypeNameStep ==
  ASSUME ModuleInv, TypeName \/ Generic, Kept
  PROVE  ModuleInv' /\ Outlining
<1> DEFINE q == Skip(p)
           g == [Outer EXCEPT !.mark = toks[q.pos].ix, !.line = toks[q.pos].line]
<1>1. at \in {"aliasName", "typeName", "aliasGenerics", "typeGenerics"} /\ Runs(at) /\ doc' = doc
  BY Zenon DEF TypeName, Generic
<1>2. at \in InDeclaration /\ at \notin Inner /\ at \notin {"signature", "pattern"}
  BY <1>1 DEF InDeclaration, Inner
<1>3. Reaches(p, q) /\ Reaches(p, Advance(q)) /\ OK(q) /\ Stream
  BY ReadingOn
<1>4. toks[q.pos].ix \in Nat /\ toks[q.pos].line \in Nat
  <2>1. toks[q.pos] \in Token
    BY SMTT(30), <1>3, TokenAt DEF OK
  <2> QED BY <2>1 DEF Token
<1>5. Alike(Outer, g)
  BY <1>2, <1>4, InDeclarations, SameFrames
<1>6. \/ \E a \in {"aliasGenerics", "typeGenerics"} : Proceed(Advance(q), OuterSwap(g), a)
      \/ Raise(q)
  BY <1>1, Zenon DEF TypeName, Generic, Heading
<1> HIDE DEF q, g
<1>7. CASE Raise(q)
  BY <1>1, <1>2, <1>3, <1>7, DeclarationFails
<1>8. ASSUME NEW a \in {"aliasGenerics", "typeGenerics"}, Proceed(Advance(q), OuterSwap(g), a)
      PROVE  ModuleInv' /\ Outlining
  <2>1. /\ Goto(Advance(q), <<>>, "ok") /\ outer' = OuterSwap(g) /\ at' = a /\ want' = <<>> /\ UNCHANGED decls
    BY <1>8 DEF Proceed, Call
  <2>2. a \in InDeclaration /\ a \notin Inner /\ <<>> \in Rows /\ "ok" \in Callable
    BY RowsAre DEF InDeclaration, Inner, Callable
  <2> QED BY <1>1, <1>2, <1>3, <1>5, <2>1, <2>2, DeclarationGoesOn
<1> QED BY <1>6, <1>7, <1>8

(* The type of an alias follows.                                           *)
LEMMA AliasEqualsStep ==
  ASSUME ModuleInv, AliasEquals, Kept
  PROVE  ModuleInv' /\ Outlining
<1> DEFINE q == Skip(p)
<1>1. at = "aliasGenerics" /\ Runs(at) /\ doc' = doc
  BY Zenon DEF AliasEquals, Runs
<1>2. at \in InDeclaration /\ at \notin Inner /\ at \notin {"signature", "pattern"}
  BY <1>1 DEF InDeclaration, Inner
<1>3. Reaches(p, q) /\ Reaches(p, Advance(q)) /\ Alike(Outer, Outer)
  BY <1>2, ReadingOn, InDeclarations
<1>4. Call(Advance(q), outer, "alias", "type") \/ Raise(q)
  BY Zenon DEF AliasEquals
<1> HIDE DEF q
<1>5. CASE Call(Advance(q), outer, "alias", "type")
  <2>1. Goto(Advance(q), <<>>, "type") /\ outer' = outer /\ at' = "alias" /\ want' = <<>> /\ UNCHANGED decls
    BY <1>5 DEF Call
  <2>2. "alias" \in InDeclaration /\ "alias" \notin Inner /\ "alias" \in Waits /\ "type" \in Callable /\ <<>> \in Rows
    BY RowsAre DEF InDeclaration, Inner, Waits, Callable
  <2> QED BY <1>1, <1>2, <1>3, <2>1, <2>2, DeclarationGoesOn
<1>6. CASE Raise(q)
  BY <1>1, <1>2, <1>3, <1>6, DeclarationFails
<1> QED BY <1>4, <1>5, <1>6

(* The constructors of a custom type follow.                               *)
LEMMA CustomEqualsStep ==
  ASSUME ModuleInv, CustomEquals, Kept
  PROVE  ModuleInv' /\ Outlining
<1> DEFINE q == Skip(p)
           gap == {c \in Between(q, Outer.mark, Here(q)) : c.line > Outer.line /\ ~c.block}
           r == Unclaimed(q, 0, gap)
           s == Advance(r)
           held == Hold(Outer, Claimed(q, 0, gap))
           fr == [held EXCEPT !.snap = Snapshot(s)]
<1>1. at = "typeGenerics" /\ Runs(at) /\ doc' = doc
  BY Zenon DEF CustomEquals, Runs
<1>2. at \in InDeclaration /\ at \notin Inner /\ at \notin {"signature", "pattern"}
  BY <1>1 DEF InDeclaration, Inner
<1>3. Proceed(s, OuterSwap(fr), "constructor") \/ Raise(r)
  BY Zenon DEF CustomEquals
<1> HIDE DEF gap
<1>4. Reaches(p, q) /\ OK(q)
  BY ReadingOn
<1>5. Reaches(p, r)
  BY <1>4, ReadingOn
<1>6. Reaches(p, s) /\ Snapshot(s) \in Nat
  <2> HIDE DEF r
  <2> QED BY <1>5, ReadingOn
<1>7. Claimed(q, 0, gap) \in Seq(Comment)
  BY SMTT(30), <1>4, ClaimedType
<1>8. Alike(Outer, held)
  BY ZenonT(60), <1>2, <1>7, InDeclarations, SameFrames
<1> HIDE DEF held, s, r
<1>9. Alike(held, fr)
  BY <1>6, <1>8, SameFrames DEF Alike
<1>10. Alike(Outer, fr)
  BY <1>8, <1>9, SameOn
<1> HIDE DEF fr
<1>11. CASE Proceed(s, OuterSwap(fr), "constructor")
  <2>1. Goto(s, <<>>, "ok") /\ outer' = OuterSwap(fr) /\ at' = "constructor" /\ want' = <<>> /\ UNCHANGED decls
    BY <1>11 DEF Proceed, Call
  <2>2. "constructor" \in InDeclaration /\ "constructor" \notin Inner /\ "ok" \in Callable /\ <<>> \in Rows
    BY RowsAre DEF InDeclaration, Inner, Callable
  <2> QED BY <1>1, <1>2, <1>6, <1>10, <2>1, <2>2, DeclarationGoesOn
<1>12. CASE Raise(r)
  BY <1>1, <1>2, <1>5, <1>12, DeclarationFails
<1> QED BY <1>3, <1>11, <1>12
-----------------------------------------------------------------------------
(* Constructors.                                                           *)

(* A constructor starts.                                                   *)
LEMMA ConstructorStep ==
  ASSUME ModuleInv, Constructor, Kept
  PROVE  ModuleInv' /\ Outlining
<1> DEFINE q == Skip(p)
           name == toks[q.pos]
           fr == [New("constructor", Here(p)) EXCEPT !.mark = name.ix, !.lim = name.ix,
                                                     !.col = name.col, !.line = name.line]
           fs == Append(outer, fr)
<1>1. at = "constructor" /\ Runs(at) /\ doc' = doc
  BY Zenon DEF Constructor, Runs
<1>2. /\ at \in InDeclaration /\ at \notin Inner /\ at \notin {"signature", "pattern"} /\ at \notin InNone
      /\ Working /\ Kin(at, "fields")
  BY <1>1 DEF InDeclaration, Inner, InNone, Working, Kin
<1>3. Reaches(p, q) /\ Reaches(p, Advance(q)) /\ OK(q) /\ Stream /\ Reaches(p, p) /\ Here(p) \in Nat /\ doc \in Nat
  BY ReadingOn
<1>4. name.ix \in Nat /\ name.line \in Nat /\ name.col \in Nat
  <2>1. toks[q.pos] \in Token
    BY <1>3, TokenAt DEF OK
  <2> QED BY <2>1 DEF Token
<1>5. Proceed(Advance(q), fs, "fields") \/ Raise(q)
  BY Zenon DEF Constructor
<1>6. fr \in Frame
  <2>1. "constructor" \in FrameNames
    BY DEF FrameNames
  <2>2. New("constructor", Here(p)) \in Frame
    BY <1>3, <2>1, NewType
  <2> DEFINE g == New("constructor", Here(p))
  <2>3. g \in Frame
    BY <2>2
  <2> HIDE DEF g, name
  <2>4. [g EXCEPT !.mark = name.ix, !.lim = name.ix, !.col = name.col, !.line = name.line] \in Frame
    BY <1>4, <2>3 DEF Frame
  <2> QED BY <2>4 DEF g
<1> HIDE DEF q, fr
<1>7. outer \in Seq(Frame) /\ Len(outer) = 1
  BY <1>2, Framed
<1>8. fs \in Seq(Frame) /\ Len(fs) = 2 /\ fs[1] = outer[1]
  BY <1>6, <1>7, Stacks
<1> HIDE DEF fs
<1>9. CASE Proceed(Advance(q), fs, "fields")
  <2>1. Going(Advance(q), fs, "fields", <<>>, "ok")
    BY <1>1, <1>3, <1>9 DEF Going, Proceed, Call, Kept
  <2>2. "fields" \in Inner /\ "ok" \in Callable /\ <<>> \in Rows
    BY RowsAre DEF Inner, Callable
  <2> QED BY <1>2, <1>3, <1>8, <2>1, <2>2, GoOn
<1>10. CASE Raise(q)
  BY <1>1, <1>2, <1>3, <1>10, DeclarationFails
<1> QED BY <1>5, <1>9, <1>10

(* A field of a constructor, or none.                                      *)
LEMMA FieldStep ==
  ASSUME ModuleInv, ConstructorField, Kept
  PROVE  ModuleInv' /\ Outlining
<1> DEFINE q == Skip(p)
           g == [Outer EXCEPT !.snap = Snapshot(p), !.body = Here(q)]
<1>1. at = "fields" /\ Runs(at) /\ doc' = doc /\ Call(q, OuterSwap(g), "fields", "atomType")
  BY Zenon DEF ConstructorField, Runs
<1>2. /\ at \in InDeclaration /\ at \in Inner /\ at \notin {"signature", "pattern"} /\ at \in Waits
      /\ "atomType" \in Callable /\ <<>> \in Rows
  BY <1>1, RowsAre DEF InDeclaration, Inner, Waits, Callable
<1>3. Reaches(p, q) /\ Reaches(p, p) /\ Snapshot(p) \in Nat /\ Here(q) \in Nat
  BY SMTT(30), ReadingOn
<1>4. Alike(Outer, g)
  BY <1>2, <1>3, InDeclarations, SameFrames
<1> HIDE DEF q, g
<1>5. Goto(q, <<>>, "atomType") /\ outer' = OuterSwap(g) /\ at' = "fields" /\ want' = <<>> /\ UNCHANGED decls
  BY <1>1 DEF Call
<1> QED BY <1>1, <1>2, <1>3, <1>4, <1>5, DeclarationGoesOn

(* A field is read.                                                        *)
LEMMA AfterFieldStep ==
  ASSUME ModuleInv, AfterConstructorField, Kept
  PROVE  ModuleInv' /\ Outlining
<1> DEFINE gap == Between(p, Outer.lim, Outer.body)
           field == Lead(val, Claimed(p, Outer.snap, gap))
           q == Unclaimed(p, Outer.snap, gap)
           fr == AddPart(Outer, field)
           g == [fr EXCEPT !.lim = field.to]
<1>1. at = "fields" /\ Given(at) /\ doc' = doc /\ Proceed(q, OuterSwap(g), "fields")
  BY Zenon DEF AfterConstructorField, Given
<1>2. /\ at \in InDeclaration /\ at \in Inner /\ at \notin {"signature", "pattern"}
      /\ "ok" \in Callable /\ <<>> \in Rows
  BY <1>1, RowsAre DEF InDeclaration, Inner, Callable
<1>3. Outer \in Frame /\ Outer.snap \in Nat /\ val \in Node
  BY <1>2, InDeclarations, FrameParts
<1> HIDE DEF gap
<1>4. Reaches(p, p) /\ OK(p)
  BY ReadingOn
<1>5. Reaches(p, q)
  BY <1>3, <1>4, ReadingOn
<1>6. Claimed(p, Outer.snap, gap) \in Seq(Comment)
  BY <1>3, <1>4, ClaimedType
<1>7. field \in Node /\ field.to \in Nat
  <2>1. field \in Node
    BY SMTT(30), <1>3, <1>6, LeadType
  <2> HIDE DEF field
  <2> QED BY <2>1, NodeParts
<1> HIDE DEF field, q
<1>8. Alike(Outer, fr)
  BY ZenonT(60), <1>3, <1>7, SameFrames
<1> HIDE DEF fr
<1>9. Alike(fr, g)
  BY <1>7, <1>8, SameFrames DEF Alike
<1>10. Alike(Outer, g)
  BY <1>8, <1>9, SameOn
<1> HIDE DEF g
<1>11. Goto(q, <<>>, "ok") /\ outer' = OuterSwap(g) /\ at' = "fields" /\ want' = <<>> /\ UNCHANGED decls
  BY <1>1 DEF Proceed, Call
<1> QED BY <1>1, <1>2, <1>5, <1>10, <1>11, DeclarationGoesOn

(* A comment behind the constructor.                                       *)
LEMMA LineTrailType ==
  ASSUME ModuleInv, NEW q, Reaches(p, q), NEW line
  PROVE  LineTrail(q, line) \in Seq(Comment) /\ Reaches(p, DropLineTrail(q, line))
<1>1. OK(q) /\ Stream /\ Ordered
  BY Reader DEF Reaches
<1>2. <<>> \in Seq(Comment)
  OBVIOUS
<1>3. CASE LineTrail(q, line) = <<>>
  <2>1. DropLineTrail(q, line) = q
    BY <1>3 DEF DropLineTrail
  <2> QED BY <1>2, <1>3, <2>1
<1>4. CASE LineTrail(q, line) # <<>>
  <2> DEFINE N == Len(q.pending)
             s == SubSeq(q.pending, 1, N - 1)
             r == [q EXCEPT !.pending = s]
  <2>1. q.pending # <<>> /\ LineTrail(q, line) = <<q.pending[N]>>
    BY <1>4 DEF LineTrail
  <2>2. q.pending \in Seq(Comment) /\ N \in Nat /\ N # 0 /\ N \in 1..N
    BY <1>1, <2>1, PendingType, EmptySeq
  <2>3. q.pending[N] \in Comment
    BY <2>2
  <2>4. <<q.pending[N]>> \in Seq(Comment)
    BY <2>3
  <2>5. s \in Seq(Comment)
    BY <2>2
  <2>6. DropLineTrail(q, line) = r
    BY <1>1, <1>4 DEF DropLineTrail, OK, Cursor
  <2> HIDE DEF s, N
  <2>7. OK(r)
    BY <1>1, <2>5, PendingOK
  <2>8. AtSamePlace(q, r)
    BY <1>1 DEF AtSamePlace, OK, Cursor
  <2>9. Reaches(q, r)
    BY <1>1, <2>7, <2>8, SamePlace
  <2>10. Reaches(p, r)
    BY <2>9, ReachesOn
  <2> HIDE DEF r
  <2> QED BY <2>1, <2>4, <2>6, <2>10 DEF N
<1> QED BY <1>3, <1>4

(* The constructor ends: another follows, or the type is complete.         *)
LEMMA EndConstructorStep ==
  ASSUME ModuleInv, EndConstructor, Kept
  PROVE  ModuleInv' /\ Outlining
<1> DEFINE ctor == Outer
           ty == outer[1]
           line == IF ctor.n > 0 THEN ctor.last.end ELSE ctor.line
           q == Skip(p)
           r == DropLineTrail(q, line)
           cs == Separated(r, ty, ctor)
           s == Unclaimed(r, ty.snap, cs.lead \cup cs.inline)
           trail == LineTrail(q, line) \o Claimed(r, ty.snap, cs.inline)
           held == Hold(ctor, trail)
           node == Lead(Close(held, r), Claimed(r, ty.snap, cs.lead))
           fr == AddPart(ty, node)
           g == [fr EXCEPT !.lim = Here(s)]
<1>1. at = "fields" /\ Runs(at)
  BY Zenon DEF EndConstructor, Runs
<1>2. \/ Proceed(Advance(s), <<g>>, "constructor") /\ doc' = doc
      \/ EndDeclaration(s, Close(fr, s), doc)
  BY Zenon DEF EndConstructor
<1>3. /\ at \in InDeclaration /\ at \in Inner /\ at \notin {"signature", "pattern"} /\ at \notin InNone
      /\ Working /\ Kin(at, "constructor")
  BY <1>1 DEF InDeclaration, Inner, InNone, Working, Kin
<1>4. ctor \in Frame /\ ty \in Frame /\ ty.snap \in Nat
  BY <1>3, InDeclarations, FrameParts
<1> HIDE DEF line, cs, ctor
<1>5. Reaches(p, q) /\ doc \in Nat
  BY ReadingOn
<1> HIDE DEF q
<1>6. LineTrail(q, line) \in Seq(Comment) /\ Reaches(p, r)
  BY <1>5, LineTrailType
<1> HIDE DEF r, ty
<1>7. OK(r) /\ Claimed(r, ty.snap, cs.inline) \in Seq(Comment) /\ Claimed(r, ty.snap, cs.lead) \in Seq(Comment)
  <2>1. OK(r)
    BY <1>6 DEF Reaches
  <2> QED BY <1>4, <2>1, ClaimedType
<1>8. Reaches(p, s)
  BY <1>4, <1>6, ReadingOn
<1>9. Reaches(p, Advance(s)) /\ Here(s) \in Nat
  <2> HIDE DEF s
  <2> QED BY <1>8, ReadingOn
<1>10. trail \in Seq(Comment)
  BY <1>6, <1>7
<1> HIDE DEF trail, s
<1>11. held \in Frame
  BY <1>4, <1>10, HoldType
<1> HIDE DEF held
<1>12. Close(held, r) \in Node
  BY <1>6, <1>11, ClosedNode
<1>13. node \in Node
  BY SMTT(30), <1>7, <1>12, LeadType
<1> HIDE DEF node
<1>14. Alike(ty, fr)
  BY ZenonT(60), <1>4, <1>13, SameFrames
<1> HIDE DEF fr
<1>15. Alike(fr, g)
  BY <1>9, <1>14, SameFrames DEF Alike
<1>16. Alike(ty, g)
  BY <1>14, <1>15, SameOn
<1> HIDE DEF g
<1>17. CASE Proceed(Advance(s), <<g>>, "constructor") /\ doc' = doc
  <2>1. <<g>> \in Seq(Frame) /\ Len(<<g>>) = 1 /\ <<g>>[1].fn = outer[1].fn /\ <<g>>[1].from = outer[1].from
    BY <1>16 DEF Alike, ty
  <2>2. Going(Advance(s), <<g>>, "constructor", <<>>, "ok")
    BY <1>5, <1>17 DEF Going, Proceed, Call, Kept
  <2>3. "constructor" \notin Inner /\ "ok" \in Callable /\ <<>> \in Rows
    BY RowsAre DEF Inner, Callable
  <2> HIDE DEF Kin
  <2> QED BY <1>3, <1>9, <2>1, <2>2, <2>3, GoOn
<1>18. CASE EndDeclaration(s, Close(fr, s), doc)
  BY <1>1, <1>3, <1>5, <1>8, <1>14, <1>18, DeclarationEnds DEF ty
<1> QED BY <1>2, <1>17, <1>18
-----------------------------------------------------------------------------
(* The parser of modules, from start to end.                               *)

(* A new parser has given and reported nothing.                            *)
LEMMA InitiallyModuleInv == ASSUME ModuleInit PROVE ModuleInv /\ Outlined!OutlineInit
<1>1. /\ toks \in Sources /\ mode \in Modes /\ p = Start /\ conts = <<>> /\ calls = <<>> /\ ctl = "ok" /\ val = NoNode
      /\ outer = <<>> /\ at = "header" /\ doc = 0 /\ decls = <<>> /\ want = <<>> /\ errors = <<>>
      /\ module = [header |-> NoNode, doc |-> 0, imports |-> <<>>, comments |-> <<>>]
  BY DEF ModuleInit
<1>2. toks \in Seq(Token) /\ Len(toks) > 0 /\ toks[Len(toks)].kind = "eof"
  BY <1>1, SourcesAssumption
<1>3. p \in Cursor /\ p.pos = 1 /\ p.pos \in 1..Len(toks)
  <2>1. Start \in Cursor /\ Start.pos = 1
    BY DEF Start, Cursor
  <2>2. Len(toks) \in Nat
    BY <1>2
  <2> QED BY <1>1, <1>2, <2>1, <2>2
<1>4. IInv
  <2>1. TypeOK
    BY <1>1, <1>2, <1>3, NoNodeType, PlainAre DEF TypeOK, Plain
  <2>2. DepthBound
    BY <1>1, DepthAssumption DEF DepthBound
  <2>3. ControlFitsStack /\ NameConsumed
    BY <1>1, OwnersAre DEF ControlFitsStack, StackFits, NameConsumed
  <2> QED BY <2>1, <2>2, <2>3 DEF IInv
<1>5. Ordered
  BY <1>1, OrderAssumption DEF Ordered
<1>6. module \in Module /\ module.header = NoNode /\ module.imports = <<>>
  <2>1. <<>> \in Seq(Node) /\ <<>> \in Seq(Comment) /\ 0 \in Nat
    OBVIOUS
  <2> QED BY <1>1, <2>1, NoNodeType DEF Module
<1>7. ModuleTypeOK
  <2>1. outer \in Seq(Frame) /\ decls \in Seq(Declared) /\ want \in Rows /\ errors \in Seq(Nat) /\ doc \in Nat
    BY <1>1 DEF Rows
  <2> QED BY <1>1, <1>6, <2>1 DEF ModuleTypeOK
<1>8. ~Stopped /\ Stopped = FALSE
  BY <1>1 DEF Stopped
<1>9. PlaceFits(at, outer) /\ MachineFits
  BY <1>1, <1>8 DEF PlaceFits, MachineFits, InNone
<1>10. PartsFit
  BY <1>1, <1>6, <1>8 DEF PartsFit, UnderHeader, UnderImports
<1>11. Started
  BY <1>1 DEF Started
<1>12. ReadOn
  <2>1. Len(errors) = 0 /\ Len(module.imports) = 0 /\ Len(decls) = 0
    BY <1>1, <1>6
  <2> QED BY <1>6, <2>1 DEF ReadOn, ItemsBefore, ErrorsBefore
<1>13. Items = <<>>
  <2>1. Heads(module) = <<>> /\ DeclNodes(decls) = <<>>
    BY <1>1, <1>6, <1>7, Lists DEF Heads, ModuleTypeOK
  <2>2. Delivered = <<>>
    BY <1>6, <1>7, <2>1, DeliveredIs
  <2> QED BY <2>2 DEF Items
<1>14. (mode = "recovering") \in BOOLEAN
  OBVIOUS
<1> QED BY <1>1, <1>4, <1>5, <1>7, <1>8, <1>9, <1>10, <1>11, <1>12, <1>13, <1>14
    DEF ModuleInv, Outlined!OutlineInit

(* Every step, and every stutter, keeps the invariant, and is one of the   *)
(* outline or none.                                                        *)
LEMMA ModuleSteps == ASSUME ModuleInv, [ModuleNext]_moduleVars PROVE ModuleInv' /\ Outlining
<1>1. CASE UNCHANGED moduleVars
  <2>1. /\ toks' = toks /\ p' = p /\ conts' = conts /\ calls' = calls /\ ctl' = ctl /\ val' = val /\ outer' = outer
        /\ at' = at /\ doc' = doc /\ decls' = decls /\ want' = want /\ mode' = mode /\ module' = module
        /\ errors' = errors
    BY <1>1 DEF moduleVars, vars
  <2>2. IInv'
    <3>1. UNCHANGED vars
      BY <2>1 DEF vars
    <3> QED BY <3>1, StepsKeepIInv DEF ModuleInv
  <2>3. Ordered' /\ ModuleTypeOK' /\ PlaceFits(at, outer)' /\ MachineFits' /\ PartsFit'
    BY <2>1 DEF ModuleInv, Ordered, ModuleTypeOK, PlaceFits, MachineFits, Stopped, PartsFit,
       UnderHeader,
       UnderImports
  <2>4. Here(p)' = Here(p) /\ Done(p)' = Done(p) /\ Peek(Skip(p))' = Peek(Skip(p))
    BY <2>1 DEF Here, Done, Peek, Skip, OnTrivia
  <2>5. Started'
    BY <2>1, <2>4 DEF ModuleInv, Started, ItemsBefore, ErrorsBefore
  <2>6. Stalled => Stalled'
    BY <2>1, <2>4 DEF Stalled, Stopped
  <2>7. ReadOn'
    BY <2>1, <2>4, <2>6 DEF ModuleInv, ReadOn, ItemsBefore, ErrorsBefore
  <2>8. Outlining
    <3>1. Stopped' = Stopped
      BY <2>1 DEF Stopped
    <3>2. Delivered' = Delivered
      BY <2>1 DEF Delivered
    <3>3. Items' = Items
      BY <3>2 DEF Items
    <3> QED BY <2>1, <3>1, <3>3 DEF Outlining, Outlined!outlineVars
  <2> QED BY <2>2, <2>3, <2>5, <2>7, <2>8 DEF ModuleInv
<1>2. CASE Below
  BY <1>2, BelowStep
<1>3. CASE HeaderNext
  BY <1>3, ParseHeaderStep, MoreNameStep, HeaderSteps DEF HeaderNext
<1>4. CASE ExposingNext
  BY <1>4, OpenExposingStep, ExposedStep, EverythingStep, ExposedItemStep, EndItemStep
     DEF ExposingNext
<1>5. CASE ImportNext
  BY <1>5, ParseImportStep, ModuleDocStep, MovingSteps, ImportSteps DEF ImportNext
<1>6. CASE DeclarationStep
  <2>1. DeclarationNext /\ Kept
    BY <1>6 DEF DeclarationStep, Kept
  <2>2. CASE ExpectedToken
    BY <2>1, <2>2, ExpectedStep DEF Kept
  <2>3. CASE TypeArm \/ PortArm \/ InfixArm \/ FunctionArm \/ DestructuringArm \/ NoDeclaration
    BY <2>1, <2>3, KeywordArms, FunctionArmStep, OtherArms
  <2>4. CASE AfterSignature \/ FunctionArguments \/ AfterFunctionArgument \/ AfterFunctionBody
             \/ AfterDestructured \/ DestructuredBody \/ AfterDestructuredBody \/ AfterPortSignature
             \/ InfixDeclaration
    BY <2>1, <2>4, AfterSignatureStep, FunctionArgumentsStep, AfterArgumentStep, AfterBodyStep,
       AfterPartStep
  <2>5. CASE TypeName \/ Generic \/ AliasEquals \/ AfterAliasedType \/ CustomEquals
    BY <2>1, <2>5, TypeNameStep, AliasEqualsStep, AfterPartStep, CustomEqualsStep
  <2>6. CASE Constructor \/ ConstructorField \/ AfterConstructorField \/ EndConstructor
    BY <2>1, <2>6, ConstructorStep, FieldStep, AfterFieldStep, EndConstructorStep
  <2> QED BY <2>1, <2>2, <2>3, <2>4, <2>5, <2>6 DEF DeclarationNext
<1>7. CASE NextDeclaration \/ SkipToken \/ EndSkip
  BY <1>7, MovingSteps
<1>8. CASE EndOfText
  BY <1>8, EndStep
<1>9. CASE CatchError
  BY <1>9, CatchStep
<1> QED BY <1>1, <1>2, <1>3, <1>4, <1>5, <1>6, <1>7, <1>8, <1>9 DEF ModuleNext

(* Whatever the text, and in both modes, the state of the module parser is *)
(* well typed; every module-level function runs with its own frames, and   *)
(* calls the machine of expressions, patterns and types (which keeps IInv, *)
(* through all errors and recoveries) only where it waits for a value; and *)
(* what has been given and reported ends before what is left to read.      *)
THEOREM ModuleInvariance == ModuleSpec => []ModuleInv
<1>1. ModuleInit => ModuleInv
  BY InitiallyModuleInv
<1>2. ModuleInv /\ [ModuleNext]_moduleVars => ModuleInv'
  BY ModuleSteps
<1> QED BY <1>1, <1>2, PTL DEF ModuleSpec

(* The module parser implements the outline of a module: whatever the text *)
(* and the mode, it gives the header, the imports and the declarations in  *)
(* the order of the text, without overlap and never twice, and reports     *)
(* every error past all that was given and past the last error, so that    *)
(* recovery goes on past it; a fatal error, and only the end of the text   *)
(* besides, ends it.                                                       *)
THEOREM ImplementsOutlineSafely == ModuleSpec => Outlined!OutlineSafe
<1>1. ModuleInit => Outlined!OutlineInit
  BY InitiallyModuleInv
<1>2. ModuleInv /\ [ModuleNext]_moduleVars => [Outlined!OutlineNext]_Outlined!outlineVars
  BY ModuleSteps DEF Outlining
<1> QED BY <1>1, <1>2, ModuleInvariance, PTL DEF ModuleSpec, Outlined!OutlineSafe
=============================================================================
