---------------------------- MODULE MCTraversal ----------------------------
(***************************************************************************)
(* Every form of every node as the root, with every kind of node that may  *)
(* stand there as one of its parts, and the smallest nodes elsewhere.      *)
(***************************************************************************)
EXTENDS Traversal

CONSTANT Roots   \* the kinds of the roots

Smallest(part) ==
  CASE part \in ExprParts -> "FunctionOrValue"
    [] part \in PatternParts -> "Anything"
    [] part \in TypeParts -> "GenericType"
    [] part = "let" -> "LetDestructuring"
    [] part = "declaration" -> "InfixDeclaration"
    [] OTHER -> CHOOSE kind \in Fillers(part) : TRUE

Shortest(kind) == CHOOSE form \in Forms(kind) : \A g \in Forms(kind) : Len(form) <= Len(g)
Longest(kind) == CHOOSE form \in Forms(kind) : \A g \in Forms(kind) : Len(form) >= Len(g)

(* The tree of a node and the trees of its parts.                          *)
Graft(kind, form, parts) ==
  LET places == {<<>>} \cup UNION {{<<i>> \o at : at \in DOMAIN parts[i]} : i \in DOMAIN form}
  IN  [at \in places |-> IF at = <<>> THEN Node(kind, form) ELSE parts[Head(at)][Tail(at)]]

RECURSIVE Least(_)
Least(kind) == LET form == Shortest(kind)
               IN  Graft(kind, form, [i \in DOMAIN form |-> Least(Smallest(form[i]))])

LeastFor == [part \in UNION {{form[i] : i \in DOMAIN form} : form \in UNION {Forms(kind) : kind \in AstKinds}}
               |-> Least(Smallest(part))]

Full(kind) == LET form == Longest(kind)
              IN  Graft(kind, form, [i \in DOMAIN form |-> LeastFor[form[i]]])

FullOf == [kind \in AstKinds |-> Full(kind)]

WithOne(kind, form, i, filler) ==
  Graft(kind, form, [j \in DOMAIN form |-> IF j = i THEN FullOf[filler] ELSE LeastFor[form[j]]])

MCTrees ==
  UNION {UNION {UNION {{WithOne(kind, form, i, filler) : filler \in Fillers(form[i])}
                       : i \in DOMAIN form}
                : form \in Forms(kind)}
         : kind \in Roots}

MCRoots == AstKinds
=============================================================================
