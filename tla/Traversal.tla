----------------------------- MODULE Traversal -----------------------------
(***************************************************************************)
(* The traits Visit, VisitMut and Fold (src/src/visit.rs, visit_mut.rs and *)
(* fold.rs): the default methods, which go down the whole tree, with one   *)
(* method overridden by one that does not go on.                           *)
(***************************************************************************)
EXTENDS Ast

(* Every trait has these methods, visit_expr or fold_expr for one.         *)
Methods == {"module", "header", "import", "exposing", "item", "declaration", "function", "signature", "implementation",
            "alias", "custom_type", "constructor", "infix", "expr", "pattern", "type", "field", "let", "branch", "setter",
            "literal", "comment", "ident"}

CONSTANTS Trees,       \* the trees a traversal may start on, at the root
          Overridable  \* the methods that may be overridden

ASSUME OverridableAssumption == Overridable \subseteq Methods

ASSUME TreesAssumption ==
  \A t \in Trees : \A at \in DOMAIN t :
    /\ at \in Seq(Nat) /\ <<>> \in DOMAIN t
    /\ t[at].kind \in AstKinds
    /\ {Parts(t, at)[i] : i \in 1..Len(t[at].form)} = {b \in DOMAIN t : Len(b) = Len(at) + 1 /\ Within(b, at)}

VARIABLES trait,       \* which of the three it is
          tree,
          overridden,  \* the method that is
          pending,     \* the calls and returns still to come, the next one first
          seen,        \* the places a method was called with, in order
          built        \* the places that are in what Fold returns

traversalVars == <<trait, tree, overridden, pending, seen, built>>

Traits == {"visit", "visit_mut", "fold"}
-----------------------------------------------------------------------------
(* The method that is called with a node.                                  *)
MethodOf(kind) ==
  CASE kind \in DOMAIN ExprForms -> "expr"
    [] kind \in DOMAIN PatternForms -> "pattern"
    [] kind \in DOMAIN TypeForms -> "type"
    [] kind \in {"LetFunction", "LetDestructuring"} -> "let"
    [] kind \in {"FunctionDeclaration", "AliasDeclaration", "CustomTypeDeclaration", "PortDeclaration", "InfixDeclaration",
                 "Destructuring"} -> "declaration"
    [] kind \in {"Signature", "PortSignature"} -> "signature"
    [] kind = "CaseBranch" -> "branch"
    [] kind = "RecordSetter" -> "setter"
    [] kind = "RecordField" -> "field"
    [] kind = "Function" -> "function"
    [] kind = "FunctionImplementation" -> "implementation"
    [] kind = "TypeAlias" -> "alias"
    [] kind = "CustomType" -> "custom_type"
    [] kind = "ValueConstructor" -> "constructor"
    [] kind = "InfixDef" -> "infix"
    [] kind = "ElmModule" -> "module"
    [] kind = "ModuleHeader" -> "header"
    [] kind = "Import" -> "import"
    [] kind = "Exposing" -> "exposing"
    [] kind = "ExposedItem" -> "item"
    [] kind = "Ident" -> "ident"
    [] kind = "LiteralValue" -> "literal"
    [] kind = "Comment" -> "comment"
-----------------------------------------------------------------------------
(* What each walk function goes on to, loop by loop: a set of parts stands *)
(* for one pass over the parts of these names, in their order.             *)

(* Visit.                                                                  *)
VisitModule(kind) ==
  CASE kind = "ElmModule" -> <<{"header"}, {"import"}, {"declaration"}, {"file_comment"}>>
    [] kind \in {"ModuleHeader", "Import"} -> <<{"exposing"}>>
    [] kind = "Exposing" -> <<{"item"}>>
    [] kind \in {"ExposedItem", "Ident", "LiteralValue", "Comment"} -> <<>>

VisitDeclaration(kind) ==
  CASE kind = "FunctionDeclaration" -> <<{"function"}>>
    [] kind = "AliasDeclaration" -> <<{"alias"}>>
    [] kind = "CustomTypeDeclaration" -> <<{"custom_type"}>>
    [] kind = "PortDeclaration" -> <<{"port"}>>
    [] kind = "InfixDeclaration" -> <<{"infix"}>>
    [] kind = "Destructuring" -> <<{"pattern"}, {"body"}>>
    [] kind = "Function" -> <<{"signature"}, {"implementation"}>>
    [] kind \in {"Signature", "PortSignature"} -> <<{"name"}, {"type"}>>
    [] kind = "FunctionImplementation" -> <<{"name"}, {"parameter"}, {"body"}>>
    [] kind = "TypeAlias" -> <<{"type"}>>
    [] kind = "CustomType" -> <<{"constructor"}>>
    [] kind = "ValueConstructor" -> <<{"type"}>>
    [] kind = "InfixDef" -> <<>>

VisitExpr(kind) ==
  CASE kind \in {"Unit", "GLSLExpression", "RecordAccessFunction"} -> <<{"comment"}>>
    [] kind = "ExprLiteral" -> <<{"comment"}, {"literal"}>>
    [] kind \in {"FunctionOrValue", "PrefixOperator"} -> <<{"comment"}, {"name"}>>
    [] kind = "OperatorApplication" -> <<{"comment"}, {"left"}, {"right"}>>
    [] kind = "BinOps" -> <<{"comment"}, {"operand"}, {"final_operand"}>>
    [] kind \in {"Application", "Tuple", "List"} -> <<{"comment"}, {"element"}>>
    [] kind = "IfElse" -> <<{"comment"}, {"condition", "then_branch"}, {"else_branch"}>>
    [] kind \in {"Negation", "Parenthesized"} -> <<{"comment"}, {"inner"}>>
    [] kind = "LetIn" -> <<{"comment"}, {"let"}, {"body"}>>
    [] kind = "CaseOf" -> <<{"comment"}, {"subject"}, {"branch"}>>
    [] kind = "Lambda" -> <<{"comment"}, {"parameter"}, {"body"}>>
    [] kind \in {"Record", "RecordUpdate"} -> <<{"comment"}, {"setter"}>>
    [] kind = "RecordAccess" -> <<{"comment"}, {"record"}>>

(* Mutant of VisitExprPart: the body of a branch before its pattern. *)
BodyFirst(kind) == CASE kind = "LetFunction" -> <<{"comment"}, {"function"}>>
                     [] kind = "RecordSetter" -> <<{"body"}>>
                     [] kind = "LetDestructuring" -> <<{"comment"}, {"pattern"}, {"body"}>>
                     [] kind = "CaseBranch" -> <<{"body"}, {"pattern"}>>

VisitExprPart(kind) ==
  CASE kind = "LetFunction" -> <<{"comment"}, {"function"}>>
    [] kind = "LetDestructuring" -> <<{"comment"}, {"pattern"}, {"body"}>>
    [] kind = "CaseBranch" -> <<{"pattern"}, {"body"}>>
    [] kind = "RecordSetter" -> <<{"body"}>>

VisitPattern(kind) ==
  CASE kind \in {"Anything", "UnitPattern", "HexPattern"} -> <<{"comment"}>>
    [] kind \in {"Var", "RecordPattern"} -> <<{"comment"}, {"name"}>>
    [] kind = "PatternLiteral" -> <<{"comment"}, {"literal"}>>
    [] kind \in {"TuplePattern", "ListPattern", "Constructor", "ParenthesizedPattern"} -> <<{"comment"}, {"pattern"}>>
    [] kind = "Cons" -> <<{"comment"}, {"head"}, {"tail"}>>
    [] kind = "As" -> <<{"comment"}, {"pattern"}, {"name"}>>

VisitType(kind) ==
  CASE kind \in {"GenericType", "UnitType"} -> <<>>
    [] kind \in {"Typed", "Tupled", "RecordField"} -> <<{"type"}>>
    [] kind \in {"RecordType", "GenericRecord"} -> <<{"field"}>>
    [] kind = "FunctionType" -> <<{"from"}, {"to"}>>

(* VisitMut goes the same ways.                                            *)
VisitMutModule(kind) == VisitModule(kind)
VisitMutDeclaration(kind) == VisitDeclaration(kind)
VisitMutExpr(kind) == VisitExpr(kind)
VisitMutExprPart(kind) == VisitExprPart(kind)
VisitMutPattern(kind) == VisitPattern(kind)
VisitMutType(kind) == VisitType(kind)

(* Fold leaves the header and the imports, the fields of a record pattern, *)
(* the literal of a literal pattern and the name of an `as` as they are.   *)
FoldModule(kind) == CASE kind \in {"ModuleHeader", "Import", "Exposing"} -> <<>>
                      [] OTHER -> VisitModule(kind)

FoldDeclaration(kind) == VisitDeclaration(kind)
FoldExpr(kind) == VisitExpr(kind)
FoldExprPart(kind) == VisitExprPart(kind)

(* Mutant of FoldPattern: the pattern of an `as` is left as it is, too. *)
AsLeftAlone(kind) == CASE kind \in {"RecordPattern", "PatternLiteral", "As"} -> <<{"comment"}>>
                       [] OTHER -> VisitPattern(kind)

FoldPattern(kind) == CASE kind \in {"RecordPattern", "PatternLiteral"} -> <<{"comment"}>>
                       [] kind = "As" -> <<{"comment"}, {"pattern"}>>
                       [] OTHER -> VisitPattern(kind)

FoldType(kind) == VisitType(kind)

(* What the node that Fold makes does not get: it is a new Spanned, which  *)
(* is given the comments of the old one or not.                            *)
Dropped(kind) == IF \/ kind \in DOMAIN TypeForms
                    \/ kind \in {"RecordField", "RecordSetter", "ValueConstructor"}
                 THEN {"comment"} ELSE {}

Walk(kind) ==
  LET of(module, declaration, expr, part, pattern, type) ==
        CASE kind \in DOMAIN ModuleForms \cup DOMAIN Leaves -> module
          [] kind \in DOMAIN DeclarationForms \cup DOMAIN FunctionForms -> declaration
          [] kind \in DOMAIN ExprForms -> expr
          [] kind \in DOMAIN ExprPartForms -> part
          [] kind \in DOMAIN PatternForms -> pattern
          [] kind \in DOMAIN TypeForms \cup DOMAIN RecordFieldForms -> type
  IN  CASE trait = "visit" -> of(VisitModule(kind), VisitDeclaration(kind), VisitExpr(kind), VisitExprPart(kind),
                                 VisitPattern(kind), VisitType(kind))
        [] trait = "visit_mut" -> of(VisitMutModule(kind), VisitMutDeclaration(kind), VisitMutExpr(kind),
                                     VisitMutExprPart(kind), VisitMutPattern(kind), VisitMutType(kind))
        [] trait = "fold" -> of(FoldModule(kind), FoldDeclaration(kind), FoldExpr(kind), FoldExprPart(kind),
                                FoldPattern(kind), FoldType(kind))
-----------------------------------------------------------------------------
(* The traversal.                                                          *)

Call(at) == [does |-> "call", at |-> at]
Return(at) == [does |-> "return", at |-> at]

(* Visit and VisitMut look into the signature of a port themselves; Fold   *)
(* calls fold_signature.                                                   *)
HasMethod(kind) == trait = "fold" \/ kind # "PortSignature"

Overridden(kind) == HasMethod(kind) /\ MethodOf(kind) = overridden

(* The places walk goes on to, one pass after the other.                   *)
GoesOnTo(at) ==
  LET parts == Parts(tree, at)
      passes == Walk(tree[at].kind)
      upTo[n \in 0..Len(passes)] ==
        IF n = 0 THEN <<>>
        ELSE upTo[n - 1] \o SelectSeq(parts, LAMBDA b : PartOf(tree, b) \in passes[n])
  IN  upTo[Len(passes)]

Due(does) == pending # <<>> /\ Head(pending).does = does

Sees(at) == seen' = IF HasMethod(tree[at].kind) THEN Append(seen, at) ELSE seen

(* A default method goes down the node.                                    *)
WalkNode ==
  /\ Due("call")
  /\ LET at == Head(pending).at
         calls == GoesOnTo(at)
     IN  /\ ~Overridden(tree[at].kind)
         /\ pending' = [i \in 1..Len(calls) |-> Call(calls[i])] \o <<Return(at)>> \o Tail(pending)
         /\ Sees(at)
  /\ UNCHANGED <<trait, tree, overridden, built>>

(* The overridden one does not; that of a Fold gives back what it is given. *)
StopAt ==
  /\ Due("call")
  /\ LET at == Head(pending).at
     IN  /\ Overridden(tree[at].kind)
         /\ pending' = Tail(pending)
         /\ Sees(at)
         /\ built' = IF trait = "fold" THEN built \cup Below(tree, at) ELSE built
  /\ UNCHANGED <<trait, tree, overridden>>

Children(at) == {Parts(tree, at)[i] : i \in 1..Len(tree[at].form)}

(* Mutant of MovedAlong: only nodes, the other comments are forgotten. *)
OnlyNodes(at) == {b \in Children(at) :
                    /\ \A k \in 1..Len(GoesOnTo(at)) : b # GoesOnTo(at)[k]
                    /\ PartOf(tree, b) # "trailing"}

(* Parts that Fold moves into the new node as they are.                    *)
MovedAlong(at) == {b \in Children(at) :
                     \A k \in 1..Len(GoesOnTo(at)) : b # GoesOnTo(at)[k]}

LeftOut(at) == {b \in Children(at) : PartOf(tree, b) \in Dropped(tree[at].kind)}

AllBelow(places) == UNION {Below(tree, b) : b \in places}

Finish ==
  /\ Due("return")
  /\ LET at == Head(pending).at
     IN  built' = IF trait = "fold" THEN (built \cup {at} \cup AllBelow(MovedAlong(at))) \ AllBelow(LeftOut(at)) ELSE built
  /\ pending' = Tail(pending)
  /\ UNCHANGED <<trait, tree, overridden, seen>>

(* One trait on one tree, with one method overridden or none.              *)
StartOn(t) == /\ tree = t
              /\ trait \in Traits
              /\ overridden \in Overridable \cup {"none"}
              /\ pending = <<Call(<<>>)>>
              /\ seen = <<>> /\ built = {}

TraversalInit == \E t \in Trees : StartOn(t)

TraversalNext == WalkNode \/ StopAt \/ Finish

TraversalSpec == TraversalInit /\ [][TraversalNext]_traversalVars

Over == pending = <<>>
-----------------------------------------------------------------------------
Seen == {seen[i] : i \in 1..Len(seen)}

Stopped == {at \in Seen : Overridden(tree[at].kind)}

(* Methods are called in the order of the source, so that no node is       *)
(* visited twice, whatever is overridden: a visitor that numbers nodes or  *)
(* keeps scopes depends on it.                                             *)
InSourceOrder == \A i \in 1..Len(seen) - 1 : Precedes(seen[i], seen[i + 1])

(* A method that is not overridden for it leaves out no node of the        *)
(* program: every expression, pattern, type and declaration that is not    *)
(* inside a node with the overridden method is visited, in all traits.     *)
Code == {"declaration", "function", "implementation", "alias", "custom_type", "constructor", "infix",
         "expr", "pattern", "type", "field", "let", "branch", "setter", "header", "import"}

NothingMissed ==
  Over => \A at \in DOMAIN tree :
            \/ MethodOf(tree[at].kind) \notin Code
            \/ at \in Seen
            \/ \E b \in Stopped : Within(at, b)

(* Fold returns the tree it was given, whole, but for leading comments;    *)
(* and those before an expression, a pattern and a let declaration survive *)
(* it too: `expression-level comment preservation`.                        *)
FoldKeepsTree ==
  Over /\ trait = "fold" =>
    \A at \in DOMAIN tree :
      \/ at \in built
      \/ /\ at # <<>> /\ PartOf(tree, at) = "comment"
         /\ MethodOf(tree[SubSeq(at, 1, Len(at) - 1)].kind) \notin {"expr", "pattern", "let"}

(* The identity fold returns what it was given.                            *)
IdentityFoldKeepsAll == Over /\ trait = "fold" /\ overridden = "none" => built = DOMAIN tree

(* A Fold reaches the names and the literals that a VisitMut reaches.      *)
FoldReachesNames ==
  Over /\ trait = "fold" /\ overridden = "none" =>
    \A at \in DOMAIN tree : MethodOf(tree[at].kind) \in {"ident", "literal"} => at \in Seen
=============================================================================
