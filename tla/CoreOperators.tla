---------------------------- MODULE CoreOperators ----------------------------
(***************************************************************************)
(* The binary operators of Elm's core library, as its documentation gives  *)
(* them: the table that the comment on operator_info (parse/expr.rs)       *)
(* quotes, stated on its own, against which the parser's table and the     *)
(* printer's table are checked.                                            *)
(***************************************************************************)
EXTENDS Integers

Table == [op \in {"<|", "|>", "||", "&&", "==", "::", "+", "-", "*", "^", "<<", ">>"} |->
            CASE op = "<|" -> <<0, "right">> [] op = "|>" -> <<0, "left">>
              [] op = "||" -> <<2, "right">> [] op = "&&" -> <<3, "right">>
              [] op = "==" -> <<4, "none">>  [] op = "::" -> <<5, "right">>
              [] op = "+" -> <<6, "left">>   [] op = "-" -> <<6, "left">>
              [] op = "*" -> <<7, "left">>   [] op = "^" -> <<8, "right">>
              [] op = "<<" -> <<9, "left">>  [] op = ">>" -> <<9, "right">>]

(* Whether an operand on that side of op may be an application of inner    *)
(* without parentheses.                                                    *)
Groups(inner, op, side) ==
  \/ Table[inner][1] > Table[op][1]
  \/ Table[inner] = Table[op] /\ Table[op][2] = side
=============================================================================
