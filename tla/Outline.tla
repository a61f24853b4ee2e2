------------------------------- MODULE Outline -------------------------------
(***************************************************************************)
(* What reading a module promises, whatever the text: its items (the       *)
(* header, then imports and declarations) and the faults met are given in  *)
(* the order of the text, each one after everything given before it; and   *)
(* reading ends.  ModuleParser implements this.                            *)
(***************************************************************************)
EXTENDS Integers, Sequences

VARIABLES tolerant,   \* go on after a fault in an import or a declaration
          items,      \* the spans of the items so far
          faults,     \* the places of the faults so far
          over

outlineVars == <<tolerant, items, faults, over>>

(* Where the text left to read begins: after the last item, at the place   *)
(* of the last fault or after it.                                          *)
Unread(x) == /\ items # <<>> => items[Len(items)][2] < x
             /\ faults # <<>> => faults[Len(faults)] <= x

OneMore(s, t) == Len(t) = Len(s) + 1 /\ \A i \in 1..Len(s) : t[i] = s[i]
-----------------------------------------------------------------------------
OutlineInit == /\ tolerant \in BOOLEAN
               /\ items = <<>> /\ faults = <<>>
               /\ over = FALSE

AddItem == /\ ~over
           /\ faults # <<>> => tolerant /\ items # <<>>
           /\ OneMore(items, items')
           /\ LET item == items'[Len(items')]
              IN  Unread(item[1]) /\ item[1] <= item[2]
           /\ UNCHANGED <<tolerant, faults, over>>

(* No place is reported twice: after a fault, reading has gone on past it. *)
Report == /\ ~over
          /\ OneMore(faults, faults')
          /\ LET fault == faults'[Len(faults')]
             IN  Unread(fault) /\ (faults # <<>> => faults[Len(faults)] < fault)
          /\ over' = (~tolerant \/ items = <<>>)
          /\ UNCHANGED <<tolerant, items>>

End == /\ ~over /\ items # <<>>
       /\ over' = TRUE
       /\ UNCHANGED <<tolerant, items, faults>>

OutlineNext == AddItem \/ Report \/ End

OutlineSafe == OutlineInit /\ [][OutlineNext]_outlineVars

OutlineSpec == OutlineSafe /\ <>over
=============================================================================
