-------------------------------- MODULE Ast --------------------------------
(***************************************************************************)
(* The types of the syntax tree: which nodes there are and, for each, the  *)
(* parts it has in the order of their fields, as the parser makes it.      *)
(* Left out are the names that no traversal reaches.                       *)
(*                                                                         *)
(* A tree is a function on the places of its nodes.  A place is the        *)
(* sequence of the positions of parts that leads to it from the root; the  *)
(* order of places is the lexicographic one.                               *)
(***************************************************************************)
EXTENDS Naturals, Sequences

(* The forms of a node: the parts of each of its shapes.  "comment" is a   *)
(* leading comment of Spanned, "trailing" any other comment field.         *)
ExprForms == [
  Unit |-> {<<>>},
  GLSLExpression |-> {<<>>},
  RecordAccessFunction |-> {<<>>},
  ExprLiteral |-> {<<"literal">>},
  FunctionOrValue |-> {<<"name">>},
  PrefixOperator |-> {<<"name">>},
  OperatorApplication |-> {<<"left", "right">>},
  BinOps |-> {<<"operand", "operand", "final_operand">>},
  Application |-> {<<"element", "element">>},
  IfElse |-> {<<"condition", "then_branch", "else_branch">>,
              <<"condition", "then_branch", "trailing", "condition", "then_branch", "else_branch">>},
  Negation |-> {<<"inner">>},
  Tuple |-> {<<"element", "element">>},
  Parenthesized |-> {<<"inner", "trailing">>},
  LetIn |-> {<<"let", "let", "trailing", "body">>},
  CaseOf |-> {<<"subject", "branch", "branch">>},
  Lambda |-> {<<"parameter", "parameter", "body">>},
  Record |-> {<<>>, <<"setter", "setter">>},
  RecordUpdate |-> {<<"setter", "setter">>},
  RecordAccess |-> {<<"record">>},
  List |-> {<<>>, <<"element", "trailing", "element", "trailing">>}]

(* Destructuring and function declarations in a `let`, the branches of a   *)
(* `case`, and the fields of a record expression.                          *)
ExprPartForms == [
  LetFunction |-> {<<"function">>},
  LetDestructuring |-> {<<"pattern", "body">>},
  CaseBranch |-> {<<"pattern", "body">>},
  RecordSetter |-> {<<"body", "trailing">>}]

PatternForms == [
  Anything |-> {<<>>},
  UnitPattern |-> {<<>>},
  HexPattern |-> {<<>>},
  Var |-> {<<"name">>},
  PatternLiteral |-> {<<"literal">>},
  TuplePattern |-> {<<"pattern", "pattern">>},
  ListPattern |-> {<<>>, <<"pattern", "pattern">>},
  Constructor |-> {<<>>, <<"pattern", "pattern">>},
  RecordPattern |-> {<<"name", "name">>},
  Cons |-> {<<"head", "tail">>},
  As |-> {<<"pattern", "name">>},
  ParenthesizedPattern |-> {<<"pattern">>}]

TypeForms == [
  GenericType |-> {<<>>},
  UnitType |-> {<<>>},
  Typed |-> {<<>>, <<"type", "type">>},
  Tupled |-> {<<"type", "type">>},
  RecordType |-> {<<>>, <<"field", "field">>},
  GenericRecord |-> {<<"field", "field">>},
  FunctionType |-> {<<"from", "to">>}]

RecordFieldForms == [RecordField |-> {<<"type">>}]

DeclarationForms == [
  FunctionDeclaration |-> {<<"function">>},
  AliasDeclaration |-> {<<"alias">>},
  CustomTypeDeclaration |-> {<<"custom_type">>},
  PortDeclaration |-> {<<"port">>},
  InfixDeclaration |-> {<<"infix">>},
  Destructuring |-> {<<"pattern", "body">>},
  TypeAlias |-> {<<"documentation", "type">>},
  CustomType |-> {<<"documentation", "trailing", "constructor", "constructor">>},
  ValueConstructor |-> {<<"type", "trailing", "type", "trailing">>},
  InfixDef |-> {<<>>}]

FunctionForms == [
  Function |-> {<<"implementation">>, <<"documentation", "signature", "implementation">>},
  Signature |-> {<<"name", "type", "trailing">>},
  PortSignature |-> {<<"name", "type">>},
  FunctionImplementation |-> {<<"name", "body">>, <<"name", "parameter", "parameter", "body">>}]

ModuleForms == [
  ElmModule |-> {<<"header", "documentation", "import", "import", "declaration", "declaration", "file_comment">>},
  ModuleHeader |-> {<<"exposing">>},
  Import |-> {<<>>, <<"exposing">>},
  Exposing |-> {<<>>, <<"item", "item", "trailing">>},
  ExposedItem |-> {<<>>}]

Leaves == [Ident |-> {<<>>}, LiteralValue |-> {<<>>}, Comment |-> {<<>>}]

(* The nodes that the parser gives leading comments to.                    *)
Commented == DOMAIN ExprForms \cup DOMAIN PatternForms \cup DOMAIN TypeForms
             \cup {"LetFunction", "LetDestructuring", "RecordSetter", "RecordField", "ValueConstructor"}

Forms(kind) ==
  LET forms == CASE kind \in DOMAIN ExprForms -> ExprForms[kind]
                 [] kind \in DOMAIN ExprPartForms -> ExprPartForms[kind]
                 [] kind \in DOMAIN PatternForms -> PatternForms[kind]
                 [] kind \in DOMAIN TypeForms -> TypeForms[kind]
                 [] kind \in DOMAIN RecordFieldForms -> RecordFieldForms[kind]
                 [] kind \in DOMAIN DeclarationForms -> DeclarationForms[kind]
                 [] kind \in DOMAIN FunctionForms -> FunctionForms[kind]
                 [] kind \in DOMAIN ModuleForms -> ModuleForms[kind]
                 [] kind \in DOMAIN Leaves -> Leaves[kind]
  IN  {IF kind \in Commented THEN <<"comment">> \o form ELSE form : form \in forms}

AstKinds == DOMAIN ExprForms \cup DOMAIN ExprPartForms \cup DOMAIN PatternForms \cup DOMAIN TypeForms
            \cup DOMAIN RecordFieldForms \cup DOMAIN DeclarationForms \cup DOMAIN FunctionForms
            \cup DOMAIN ModuleForms \cup DOMAIN Leaves

(* What may stand in a part.                                               *)
ExprParts == {"left", "right", "operand", "final_operand", "element", "condition", "then_branch", "else_branch",
              "inner", "body", "subject", "record"}
PatternParts == {"parameter", "pattern", "head", "tail"}
TypeParts == {"type", "from", "to"}

Fillers(part) ==
  CASE part \in ExprParts -> DOMAIN ExprForms
    [] part \in PatternParts -> DOMAIN PatternForms
    [] part \in TypeParts -> DOMAIN TypeForms
    [] part \in {"comment", "trailing", "file_comment", "documentation"} -> {"Comment"}
    [] part = "name" -> {"Ident"}
    [] part = "literal" -> {"LiteralValue"}
    [] part = "let" -> {"LetFunction", "LetDestructuring"}
    [] part = "branch" -> {"CaseBranch"}
    [] part = "setter" -> {"RecordSetter"}
    [] part = "field" -> {"RecordField"}
    [] part = "function" -> {"Function"}
    [] part = "signature" -> {"Signature"}
    [] part = "port" -> {"PortSignature"}
    [] part = "implementation" -> {"FunctionImplementation"}
    [] part = "alias" -> {"TypeAlias"}
    [] part = "custom_type" -> {"CustomType"}
    [] part = "constructor" -> {"ValueConstructor"}
    [] part = "infix" -> {"InfixDef"}
    [] part = "header" -> {"ModuleHeader"}
    [] part = "import" -> {"Import"}
    [] part = "exposing" -> {"Exposing"}
    [] part = "item" -> {"ExposedItem"}
    [] part = "declaration" -> {"FunctionDeclaration", "AliasDeclaration", "CustomTypeDeclaration", "PortDeclaration",
                                "InfixDeclaration", "Destructuring"}
-----------------------------------------------------------------------------
(* A node knows its kind and its form, the parts it has.                   *)
Node(kind, form) == [kind |-> kind, form |-> form]

Parts(tree, at) == [i \in 1..Len(tree[at].form) |-> Append(at, i)]

(* The part that a place is of the node it belongs to.                     *)
PartOf(tree, at) == tree[SubSeq(at, 1, Len(at) - 1)].form[at[Len(at)]]

Within(at, outer) == Len(outer) <= Len(at) /\ SubSeq(at, 1, Len(outer)) = outer

Below(tree, outer) == {at \in DOMAIN tree : Within(at, outer)}

(* a comes before b in the source.                                         *)
Precedes(a, b) ==
  \/ Len(a) < Len(b) /\ Within(b, a)
  \/ \E i \in 1..Len(a) : /\ i <= Len(b)
                          /\ SubSeq(a, 1, i - 1) = SubSeq(b, 1, i - 1)
                          /\ a[i] < b[i]
=============================================================================
