--------------------------- MODULE ModuleBalance ---------------------------
(***************************************************************************)
(* Up to the first error paren_depth counts the brackets that are open in  *)
(* a whole module, header and exposing lists included, whatever the text.  *)
(* The invariant is ModuleBal, over ModuleInv: BalInv (ExprProofs) while   *)
(* the machine works, and what the module-level functions hold, with the   *)
(* brackets in the tokens they still expect, while it idles.               *)
(***************************************************************************)
EXTENDS ModuleProofs, BalanceProofs
LOCAL INSTANCE FiniteSetTheorems
LOCAL INSTANCE SequenceTheorems

(* The module-level functions that hold a bracket.                         *)
Bracketed == {"exposed", "item", "itemType", "itemEnd", "effectKey", "effectComma"}

HeldAt(a) == IF a \in Bracketed THEN 1 ELSE 0

(* Tokens that are all opening brackets, all closing ones, or neither.     *)
Opener(S) == S # {} /\ S \subseteq Openers

Closer(S) == S # {} /\ S \subseteq Closers

Neutral(S) == S \cap (Openers \cup Closers) = {}

(* Where brackets of K are expected in a row.                              *)
Hits(w, K) == {i \in 1..Len(w) : w[i] \cap K # {}}

Hit(S, K) == IF S \cap K # {} THEN 1 ELSE 0

Awaited(w, K) == Cardinality(Hits(w, K))

(* In a row no bracket opens after one was closed.                         *)
Orderly(w) == \A i \in 1..Len(w) :
                /\ Opener(w[i]) \/ Closer(w[i]) \/ Neutral(w[i])
                /\ Closer(w[i]) => \A j \in (i + 1)..Len(w) : ~Opener(w[j])

(* At depth d, before the row w, on the way to the function at a.          *)
Counted(d, a, w) == Orderly(w) /\ d + Awaited(w, Openers) = HeldAt(a) + Awaited(w, Closers)

ModuleBal ==
  errors = <<>> =>
    /\ at \notin Skipping
    /\ ctl = "ok" => Sorted(p) /\ p.ctx = 0 /\ Counted(p.depth, at, want)
    /\ ctl \notin {"ok", "error"} => BalInv
-----------------------------------------------------------------------------
(* Rows.                                                                   *)

(* The row without its first token.                                        *)
LEMMA TailHits ==
  ASSUME NEW T, NEW w \in Seq(T), NEW K
  PROVE  /\ Awaited(w, K) \in Nat
         /\ w = <<>> => Awaited(w, K) = 0
         /\ w # <<>> => Awaited(w, K) = Hit(w[1], K) + Awaited(Tail(w), K)
<1>1. /\ Len(w) \in Nat /\ IsFiniteSet(Hits(w, K)) /\ Awaited(w, K) \in Nat
  <2>1. Len(w) \in Nat
    OBVIOUS
  <2>2. Hits(w, K) \in SUBSET (1..Len(w))
    BY DEF Hits
  <2>3. IsFiniteSet(Hits(w, K))
    <3>1. 1 \in Int /\ Len(w) \in Int
      BY <2>1
    <3>2. IsFiniteSet(1..Len(w))
      BY <3>1, FS_Interval
    <3> QED BY <2>2, <3>2, FS_Subset
  <2> QED BY <2>1, <2>3, FS_CardinalityType DEF Awaited
<1>2. w = <<>> => Awaited(w, K) = 0
  <2>1. w = <<>> => Hits(w, K) = {}
    BY DEF Hits
  <2> QED BY <2>1, FS_EmptySet DEF Awaited
<1>3. ASSUME w # <<>>
      PROVE  Awaited(w, K) = Hit(w[1], K) + Awaited(Tail(w), K)
  <2> DEFINE t == Tail(w)
             n == Len(t)
             later == {i \in 2..Len(w) : w[i] \cap K # {}}
             up == [i \in Hits(t, K) |-> i + 1]
  <2>1. n \in Nat /\ Len(w) = n + 1 /\ \A i \in 1..n : t[i] = w[i + 1]
    BY <1>3, HeadTailProperties, EmptySeq
  <2> HIDE DEF t
  <2>2. Hits(t, K) \subseteq 1..n /\ IsFiniteSet(Hits(t, K))
    <3>1. Hits(t, K) \subseteq 1..n /\ IsFiniteSet(1..n)
      BY <2>1, FS_Interval DEF Hits
    <3> QED BY <3>1, FS_Subset
  <2>3. \A i \in Hits(t, K) : i \in Nat /\ i + 1 \in later
    BY <2>1 DEF Hits
  <2>4. \A j \in later : j - 1 \in Hits(t, K) /\ (j - 1) + 1 = j
    <3> TAKE j \in later
    <3>1. j - 1 \in 1..n /\ (j - 1) + 1 = j /\ w[j] \cap K # {}
      BY <2>1
    <3>2. t[j - 1] = w[j]
      BY <2>1, <3>1
    <3> QED BY <3>1, <3>2 DEF Hits
  <2> HIDE DEF n, later
  <2>5. up \in Bijection(Hits(t, K), later)
    <3>1. up \in [Hits(t, K) -> later]
      BY <2>3
    <3>2. \A i, j \in Hits(t, K) : up[i] = up[j] => i = j
      BY <2>3
    <3>3. \A j \in later : \E i \in Hits(t, K) : up[i] = j
      BY <2>4
    <3> QED BY <3>1, <3>2, <3>3 DEF Bijection, Injection, Surjection, IsInjective
  <2>6. IsFiniteSet(later) /\ Cardinality(later) = Awaited(t, K)
    BY <2>2, <2>5, FS_Bijection DEF Awaited, ExistsBijection
  <2>7. CASE w[1] \cap K # {}
    <3>1. Hits(w, K) = later \cup {1} /\ 1 \notin later
      BY <2>1, <2>7 DEF Hits, later
    <3>2. Cardinality(later \cup {1}) = Cardinality(later) + 1 /\ Cardinality(later) \in Nat
      BY <2>6, <3>1, FS_AddElement, FS_CardinalityType
    <3>3. Hit(w[1], K) = 1
      BY <2>7 DEF Hit
    <3> QED BY <2>6, <3>1, <3>2, <3>3 DEF Awaited, t
  <2>8. CASE w[1] \cap K = {}
    <3>1. Hits(w, K) = later
      BY <2>1, <2>8 DEF Hits, later
    <3>2. Hit(w[1], K) = 0
      BY <2>8 DEF Hit
    <3>3. Cardinality(later) \in Nat
      BY <2>6, FS_CardinalityType
    <3> QED BY <2>6, <3>1, <3>2, <3>3 DEF Awaited, t
  <2> QED BY <2>7, <2>8
<1> QED BY <1>1, <1>2, <1>3

(* What a token of each kind adds.                                         *)
LEMMA HitsAre ==
  /\ \A S : Opener(S) => Hit(S, Openers) = 1 /\ Hit(S, Closers) = 0 /\ ~Closer(S) /\ ~Neutral(S)
  /\ \A S : Closer(S) => Hit(S, Openers) = 0 /\ Hit(S, Closers) = 1 /\ ~Neutral(S)
  /\ \A S : Neutral(S) => Hit(S, Openers) = 0 /\ Hit(S, Closers) = 0
<1>1. Openers \cap Closers = {}
  BY Zenon DEF Openers, Closers
<1> QED BY <1>1 DEF Hit, Opener, Closer, Neutral

(* The token is passed.                                                    *)
LEMMA RowGoesOn ==
  ASSUME NEW T, NEW w \in Seq(T), w # <<>>, NEW d \in Nat, NEW a, Counted(d, a, w)
  PROVE  /\ Opener(w[1]) \/ Closer(w[1]) \/ Neutral(w[1])
         /\ Opener(w[1]) => Counted(d + 1, a, Tail(w))
         /\ Closer(w[1]) => d > 0 /\ Counted(d - 1, a, Tail(w))
         /\ Neutral(w[1]) => Counted(d, a, Tail(w))
<1> DEFINE t == Tail(w)
<1>1. /\ t \in Seq(T) /\ Len(t) \in Nat /\ Len(w) = Len(t) + 1 /\ \A i \in 1..Len(t) : t[i] = w[i + 1]
  BY HeadTailProperties, EmptySeq
<1>2. /\ Awaited(w, Openers) = Hit(w[1], Openers) + Awaited(t, Openers)
      /\ Awaited(w, Closers) = Hit(w[1], Closers) + Awaited(t, Closers)
      /\ Awaited(t, Openers) \in Nat /\ Awaited(t, Closers) \in Nat
  BY <1>1, TailHits
<1>3. Opener(w[1]) \/ Closer(w[1]) \/ Neutral(w[1])
  BY <1>1 DEF Counted, Orderly
<1> HIDE DEF t
<1>4. Orderly(t)
  <2> SUFFICES ASSUME NEW i \in 1..Len(t)
               PROVE  /\ Opener(t[i]) \/ Closer(t[i]) \/ Neutral(t[i])
                      /\ Closer(t[i]) => \A j \in (i + 1)..Len(t) : ~Opener(t[j])
    BY DEF Orderly
  <2>1. i + 1 \in 1..Len(w) /\ t[i] = w[i + 1]
    BY <1>1
  <2>2. \A j \in (i + 1)..Len(t) : j + 1 \in ((i + 1) + 1)..Len(w) /\ t[j] = w[j + 1]
    BY <1>1
  <2> QED BY <2>1, <2>2 DEF Counted, Orderly
<1>5. Closer(w[1]) => Awaited(t, Openers) = 0
  <2> SUFFICES ASSUME Closer(w[1]) PROVE Hits(t, Openers) = {}
    BY FS_EmptySet DEF Awaited
  <2> SUFFICES ASSUME NEW i \in 1..Len(t) PROVE t[i] \cap Openers = {}
    BY DEF Hits
  <2>1. i + 1 \in (1 + 1)..Len(w) /\ 1 \in 1..Len(w) /\ t[i] = w[i + 1]
    BY <1>1
  <2>2. ~Opener(t[i])
    BY <2>1 DEF Counted, Orderly
  <2>3. Closer(t[i]) \/ Neutral(t[i])
    BY <1>4, <2>2 DEF Orderly
  <2>4. Openers \cap Closers = {}
    BY Zenon DEF Openers, Closers
  <2> QED BY <2>3, <2>4 DEF Closer, Neutral
<1>6. HeldAt(a) \in Nat /\ d + Awaited(w, Openers) = HeldAt(a) + Awaited(w, Closers)
  BY DEF HeldAt, Counted
<1> QED BY <1>2, <1>3, <1>4, <1>5, <1>6, HitsAre DEF Counted, t

(* Rows of one, two, three and seven tokens, and what they add.            *)
Net(w, up, down) == Orderly(w) /\ Awaited(w, Openers) = up /\ Awaited(w, Closers) = down

LEMMA ShortRows ==
  ASSUME NEW a, NEW b, NEW c
  PROVE  /\ Net(<<>>, 0, 0)
         /\ Neutral(a) => Net(<<a>>, 0, 0)
         /\ Opener(a) => Net(<<a>>, 1, 0)
         /\ Closer(a) => Net(<<a>>, 0, 1)
         /\ Neutral(a) /\ Neutral(b) => Net(<<a, b>>, 0, 0)
         /\ Neutral(a) /\ Opener(b) => Net(<<a, b>>, 1, 0)
         /\ Closer(a) /\ Neutral(b) => Net(<<a, b>>, 0, 1)
         /\ Neutral(a) /\ Closer(b) => Net(<<a, b>>, 0, 1)
         /\ Neutral(a) /\ Neutral(b) /\ Neutral(c) => Net(<<a, b, c>>, 0, 0)
         /\ Opener(a) /\ Neutral(b) /\ Closer(c) => Net(<<a, b, c>>, 1, 1)
<1> DEFINE T == {a, b, c}
<1>1. <<>> \in Seq(T) /\ <<a>> \in Seq(T) /\ <<c>> \in Seq(T) /\ <<b>> \in Seq(T)
  OBVIOUS
<1>2. <<a, b>> \in Seq(T) /\ <<b, c>> \in Seq(T) /\ <<a, b, c>> \in Seq(T)
  OBVIOUS
<1>3. /\ Tail(<<a>>) = <<>> /\ Tail(<<b>>) = <<>> /\ Tail(<<c>>) = <<>>
      /\ Tail(<<a, b>>) = <<b>> /\ Tail(<<b, c>>) = <<c>> /\ Tail(<<a, b, c>>) = <<b, c>>
  OBVIOUS
<1>4. /\ <<a>> # <<>> /\ <<b>> # <<>> /\ <<c>> # <<>>
      /\ <<a, b>> # <<>> /\ <<b, c>> # <<>> /\ <<a, b, c>> # <<>>
  OBVIOUS
<1>5. \A K : /\ Hit(a, K) \in Nat /\ Hit(b, K) \in Nat /\ Hit(c, K) \in Nat
  BY DEF Hit
<1>f. /\ <<a>>[1] = a /\ <<b>>[1] = b /\ <<c>>[1] = c
      /\ <<a, b>>[1] = a /\ <<b, c>>[1] = b /\ <<a, b, c>>[1] = a
  OBVIOUS
<1> HIDE DEF T
<1>s. \A w \in Seq(T) : w # <<>> => \A K : Awaited(w, K) = Hit(w[1], K) + Awaited(Tail(w), K)
  BY TailHits
<1>6. \A K : Awaited(<<>>, K) = 0
  BY <1>1, TailHits
<1>7. \A K : /\ Awaited(<<a>>, K) = Hit(a, K)
             /\ Awaited(<<b>>, K) = Hit(b, K)
             /\ Awaited(<<c>>, K) = Hit(c, K)
  <2> TAKE K
  <2>1. Awaited(<<a>>, K) = Hit(<<a>>[1], K) + Awaited(Tail(<<a>>), K)
    BY <1>1, <1>4, <1>s, Zenon
  <2>2. Awaited(<<b>>, K) = Hit(<<b>>[1], K) + Awaited(Tail(<<b>>), K)
    BY <1>1, <1>4, <1>s, Zenon
  <2>3. Awaited(<<c>>, K) = Hit(<<c>>[1], K) + Awaited(Tail(<<c>>), K)
    BY <1>1, <1>4, <1>s, Zenon
  <2>4. /\ Awaited(<<a>>, K) = Hit(a, K) + 0
        /\ Awaited(<<b>>, K) = Hit(b, K) + 0
        /\ Awaited(<<c>>, K) = Hit(c, K) + 0
    BY <1>3, <1>f, <1>6, <2>1, <2>2, <2>3, Zenon
  <2> QED BY <1>5, <2>4
<1>8. \A K : /\ Awaited(<<a, b>>, K) = Hit(a, K) + Hit(b, K)
             /\ Awaited(<<b, c>>, K) = Hit(b, K) + Hit(c, K)
  <2> TAKE K
  <2>1. Awaited(<<a, b>>, K) = Hit(<<a, b>>[1], K) + Awaited(Tail(<<a, b>>), K)
    BY <1>2, <1>4, <1>s, Zenon
  <2>2. Awaited(<<b, c>>, K) = Hit(<<b, c>>[1], K) + Awaited(Tail(<<b, c>>), K)
    BY <1>2, <1>4, <1>s, Zenon
  <2> QED BY <1>3, <1>f, <1>7, <2>1, <2>2, Zenon
<1>9. \A K : Awaited(<<a, b, c>>, K) = Hit(a, K) + (Hit(b, K) + Hit(c, K))
  <2> TAKE K
  <2>1. Awaited(<<a, b, c>>, K) = Hit(<<a, b, c>>[1], K) + Awaited(Tail(<<a, b, c>>), K)
    BY <1>2, <1>4, <1>s, Zenon
  <2> QED BY <1>3, <1>f, <1>8, <2>1, Zenon
<1>10. Orderly(<<>>)
  BY DEF Orderly
<1>11. Opener(a) \/ Closer(a) \/ Neutral(a) => Orderly(<<a>>)
  BY DEF Orderly
<1>12. /\ Neutral(a) /\ (Opener(b) \/ Closer(b) \/ Neutral(b)) => Orderly(<<a, b>>)
       /\ Closer(a) /\ Neutral(b) => Orderly(<<a, b>>)
  BY HitsAre DEF Orderly
<1>13. /\ Neutral(a) /\ Neutral(b) /\ Neutral(c) => Orderly(<<a, b, c>>)
       /\ Opener(a) /\ Neutral(b) /\ Closer(c) => Orderly(<<a, b, c>>)
  BY HitsAre DEF Orderly
<1>14. Net(<<>>, 0, 0)
  BY <1>6, <1>10 DEF Net
<1>15. /\ Neutral(a) => Net(<<a>>, 0, 0)
       /\ Opener(a) => Net(<<a>>, 1, 0)
       /\ Closer(a) => Net(<<a>>, 0, 1)
  BY <1>7, <1>11, HitsAre DEF Net
<1>16. /\ Neutral(a) /\ Neutral(b) => Net(<<a, b>>, 0, 0)
       /\ Neutral(a) /\ Opener(b) => Net(<<a, b>>, 1, 0)
       /\ Closer(a) /\ Neutral(b) => Net(<<a, b>>, 0, 1)
       /\ Neutral(a) /\ Closer(b) => Net(<<a, b>>, 0, 1)
  <2>1. Neutral(a) /\ Neutral(b) => Net(<<a, b>>, 0, 0)
    <3> SUFFICES ASSUME Neutral(a), Neutral(b) PROVE Net(<<a, b>>, 0, 0)
      OBVIOUS
    <3>1. Hit(a, Openers) = 0 /\ Hit(b, Openers) = 0 /\ Hit(a, Closers) = 0 /\ Hit(b, Closers) = 0
      BY HitsAre
    <3>2. Awaited(<<a, b>>, Openers) = 0 + 0 /\ Awaited(<<a, b>>, Closers) = 0 + 0
      BY <1>8, <3>1, Zenon
    <3> QED BY <1>12, <3>2 DEF Net
  <2>2. Neutral(a) /\ Opener(b) => Net(<<a, b>>, 1, 0)
    <3> SUFFICES ASSUME Neutral(a), Opener(b) PROVE Net(<<a, b>>, 1, 0)
      OBVIOUS
    <3>1. Hit(a, Openers) = 0 /\ Hit(b, Openers) = 1 /\ Hit(a, Closers) = 0 /\ Hit(b, Closers) = 0
      BY HitsAre
    <3>2. Awaited(<<a, b>>, Openers) = 0 + 1 /\ Awaited(<<a, b>>, Closers) = 0 + 0
      BY <1>8, <3>1, Zenon
    <3> QED BY <1>12, <3>2 DEF Net
  <2>3. Closer(a) /\ Neutral(b) => Net(<<a, b>>, 0, 1)
    <3> SUFFICES ASSUME Closer(a), Neutral(b) PROVE Net(<<a, b>>, 0, 1)
      OBVIOUS
    <3>1. Hit(a, Openers) = 0 /\ Hit(b, Openers) = 0 /\ Hit(a, Closers) = 1 /\ Hit(b, Closers) = 0
      BY HitsAre
    <3>2. Awaited(<<a, b>>, Openers) = 0 + 0 /\ Awaited(<<a, b>>, Closers) = 1 + 0
      BY <1>8, <3>1, Zenon
    <3> QED BY <1>12, <3>2 DEF Net
  <2>4. Neutral(a) /\ Closer(b) => Net(<<a, b>>, 0, 1)
    <3> SUFFICES ASSUME Neutral(a), Closer(b) PROVE Net(<<a, b>>, 0, 1)
      OBVIOUS
    <3>1. Hit(a, Openers) = 0 /\ Hit(b, Openers) = 0 /\ Hit(a, Closers) = 0 /\ Hit(b, Closers) = 1
      BY HitsAre
    <3>2. Awaited(<<a, b>>, Openers) = 0 + 0 /\ Awaited(<<a, b>>, Closers) = 0 + 1
      BY <1>8, <3>1, Zenon
    <3> QED BY <1>12, <3>2 DEF Net
  <2> QED BY <2>1, <2>2, <2>3, <2>4
<1>17. Neutral(a) /\ Neutral(b) /\ Neutral(c) => Net(<<a, b, c>>, 0, 0)
  <2> SUFFICES ASSUME Neutral(a), Neutral(b), Neutral(c) PROVE Net(<<a, b, c>>, 0, 0)
    OBVIOUS
  <2>1. \A K \in {Openers, Closers} : Hit(a, K) = 0 /\ Hit(b, K) = 0 /\ Hit(c, K) = 0
    BY HitsAre
  <2>2. \A K \in {Openers, Closers} : Awaited(<<a, b, c>>, K) = 0 + (0 + 0)
    BY <1>9, <2>1, Zenon
  <2> QED BY <1>13, <2>2 DEF Net
<1>18. Opener(a) /\ Neutral(b) /\ Closer(c) => Net(<<a, b, c>>, 1, 1)
  <2> SUFFICES ASSUME Opener(a), Neutral(b), Closer(c) PROVE Net(<<a, b, c>>, 1, 1)
    OBVIOUS
  <2>1. /\ Hit(a, Openers) = 1 /\ Hit(b, Openers) = 0 /\ Hit(c, Openers) = 0
        /\ Hit(a, Closers) = 0 /\ Hit(b, Closers) = 0 /\ Hit(c, Closers) = 1
    BY HitsAre
  <2>2. Awaited(<<a, b, c>>, Openers) = 1 + (0 + 0) /\ Awaited(<<a, b, c>>, Closers) = 0 + (0 + 1)
    BY <1>9, <2>1, Zenon
  <2> QED BY <1>13, <2>2 DEF Net
<1> QED BY <1>14, <1>15, <1>16, <1>17, <1>18

(* The row of an infix declaration.                                        *)
LEMMA LongRow ==
  ASSUME NEW a, NEW b, NEW c, NEW d, NEW e, NEW f, NEW g,
         Neutral(a), Neutral(b), Opener(c), Neutral(d), Closer(e), Neutral(f), Neutral(g)
  PROVE  Net(<<a, b, c, d, e, f, g>>, 1, 1)
<1> DEFINE T == {a, b, c, d, e, f, g}
           w == <<a, b, c, d, e, f, g>>
           w2 == <<b, c, d, e, f, g>>
           w3 == <<c, d, e, f, g>>
           w4 == <<d, e, f, g>>
           w5 == <<e, f, g>>
<1>1. w \in Seq(T) /\ w # <<>> /\ w[1] = a /\ Tail(w) = w2
  OBVIOUS
<1>2. w2 \in Seq(T) /\ w2 # <<>> /\ w2[1] = b /\ Tail(w2) = w3
  OBVIOUS
<1>3. w3 \in Seq(T) /\ w3 # <<>> /\ w3[1] = c /\ Tail(w3) = w4
  OBVIOUS
<1>4. w4 \in Seq(T) /\ w4 # <<>> /\ w4[1] = d /\ Tail(w4) = w5
  OBVIOUS
<1>5. w5 \in Seq(T) /\ w5 # <<>> /\ w5[1] = e /\ Tail(w5) = <<f, g>>
  OBVIOUS
<1>6. Net(<<f, g>>, 0, 0)
  BY ShortRows
<1>7. Orderly(w)
  <2>1. \A i \in 1..7 : Opener(w[i]) => i = 3
    BY HitsAre
  <2>2. \A i \in 1..7 : Closer(w[i]) => i = 5
    BY HitsAre
  <2>3. \A i \in 1..7 : Opener(w[i]) \/ Closer(w[i]) \/ Neutral(w[i])
    OBVIOUS
  <2>4. Len(w) = 7
    OBVIOUS
  <2> HIDE DEF w
  <2> QED BY <2>1, <2>2, <2>3, <2>4 DEF Orderly
<1> HIDE DEF T, w, w2, w3, w4, w5
<1>8. \A K : /\ Awaited(w, K) = Hit(a, K) + Awaited(w2, K)
             /\ Awaited(w2, K) = Hit(b, K) + Awaited(w3, K)
             /\ Awaited(w3, K) = Hit(c, K) + Awaited(w4, K)
             /\ Awaited(w4, K) = Hit(d, K) + Awaited(w5, K)
             /\ Awaited(w5, K) = Hit(e, K) + Awaited(<<f, g>>, K)
  <2>1. \A v \in Seq(T) : v # <<>> => \A K : Awaited(v, K) = Hit(v[1], K) + Awaited(Tail(v), K)
    BY TailHits
  <2> TAKE K
  <2>2. Awaited(w, K) = Hit(a, K) + Awaited(w2, K) /\ Awaited(w2, K) = Hit(b, K) + Awaited(w3, K)
    BY <1>1, <1>2, <2>1
  <2>3. Awaited(w3, K) = Hit(c, K) + Awaited(w4, K) /\ Awaited(w4, K) = Hit(d, K) + Awaited(w5, K)
    BY <1>3, <1>4, <2>1
  <2>4. Awaited(w5, K) = Hit(e, K) + Awaited(<<f, g>>, K)
    BY <1>5, <2>1
  <2> QED BY <2>2, <2>3, <2>4
<1>9. /\ Hit(a, Openers) = 0 /\ Hit(b, Openers) = 0 /\ Hit(c, Openers) = 1 /\ Hit(d, Openers) = 0
      /\ Hit(e, Openers) = 0
  BY HitsAre
<1>10. /\ Hit(a, Closers) = 0 /\ Hit(b, Closers) = 0 /\ Hit(c, Closers) = 0 /\ Hit(d, Closers) = 0
       /\ Hit(e, Closers) = 1
  BY HitsAre
<1>11. Awaited(<<f, g>>, Openers) = 0 /\ Awaited(<<f, g>>, Closers) = 0
  BY <1>6 DEF Net
<1>12. Awaited(w, Openers) = 1
  BY <1>8, <1>9, <1>11
<1>13. Awaited(w, Closers) = 1
  BY <1>8, <1>10, <1>11
<1> QED BY <1>7, <1>12, <1>13 DEF Net, w

(* The rows of the module-level functions, each from the depth it starts   *)
(* at to the function it leads to.                                         *)
LEMMA RowsCount ==
  /\ \A d \in Nat : \A a : Counted(d, a, <<>>) <=> d = HeldAt(a)
  /\ Counted(0, "moduleName", <<{"effect"}, {"module"}, {"upper"}>>)
  /\ Counted(0, "moduleName", <<{"port"}, {"module"}, {"upper"}>>)
  /\ Counted(0, "moduleName", <<{"module"}, {"upper"}>>)
  /\ Counted(0, "effectKey", <<{"where"}, {"{"}>>) /\ Counted(0, "exposing", <<{"exposing"}>>)
  /\ Counted(1, "exposing", <<{"}"}, {"exposing"}>>)
  /\ Counted(1, "effectComma", <<{"key"}, {"="}, {"upper"}>>)
  /\ Counted(0, "exposed", <<{"("}>>) /\ Counted(1, "everything", <<{".."}, {")"}>>)
  /\ Counted(1, "itemEnd", <<{"("}, {"op", "-"}, {")"}>>)
  /\ Counted(2, "itemEnd", <<{".."}, {")"}>>) /\ Counted(2, "itemEnd", <<{")"}>>)
  /\ Counted(0, "importName", <<{"import"}, {"upper"}>>) /\ Counted(0, "importAlias", <<{"as"}, {"upper"}>>)
  /\ Counted(0, "arguments", <<{"lower"}>>) /\ Counted(0, "destructured", <<{"="}>>)
  /\ Counted(0, "infix", <<{"left"}, {"number"}, {"("}, {"op", "-"}, {")"}, {"="}, {"lower"}>>)
<1>1. /\ Neutral({"effect"}) /\ Neutral({"module"}) /\ Neutral({"upper"}) /\ Neutral({"port"})
      /\ Neutral({"where"}) /\ Neutral({"exposing"}) /\ Neutral({"key"}) /\ Neutral({"="})
      /\ Neutral({".."}) /\ Neutral({"op", "-"}) /\ Neutral({"import"}) /\ Neutral({"as"})
      /\ Neutral({"lower"}) /\ Neutral({"left"}) /\ Neutral({"number"})
  BY Zenon DEF Neutral, Openers, Closers
<1>2. Opener({"("}) /\ Opener({"{"}) /\ Closer({")"}) /\ Closer({"}"})
  BY Zenon DEF Opener, Closer, Openers, Closers
<1>3. /\ HeldAt("moduleName") = 0 /\ HeldAt("effectKey") = 1 /\ HeldAt("exposing") = 0
      /\ HeldAt("effectComma") = 1 /\ HeldAt("exposed") = 1 /\ HeldAt("everything") = 0
      /\ HeldAt("itemEnd") = 1 /\ HeldAt("importName") = 0 /\ HeldAt("importAlias") = 0
      /\ HeldAt("arguments") = 0 /\ HeldAt("destructured") = 0 /\ HeldAt("infix") = 0
  BY DEF HeldAt, Bracketed
<1>4. \A a, w : /\ Net(w, 0, 0) /\ HeldAt(a) = 0 => Counted(0, a, w)
                /\ Net(w, 0, 0) /\ HeldAt(a) = 1 => Counted(1, a, w)
                /\ Net(w, 1, 0) /\ HeldAt(a) = 1 => Counted(0, a, w)
                /\ Net(w, 0, 1) /\ HeldAt(a) = 0 => Counted(1, a, w)
                /\ Net(w, 0, 1) /\ HeldAt(a) = 1 => Counted(2, a, w)
                /\ Net(w, 1, 1) /\ HeldAt(a) = 1 => Counted(1, a, w)
                /\ Net(w, 1, 1) /\ HeldAt(a) = 0 => Counted(0, a, w)
  BY DEF Net, Counted
<1>5. \A d \in Nat : \A a : Counted(d, a, <<>>) <=> d = HeldAt(a)
  <2>1. Orderly(<<>>) /\ Awaited(<<>>, Openers) = 0 /\ Awaited(<<>>, Closers) = 0
    BY ShortRows DEF Net
  <2> QED BY <2>1 DEF Counted, HeldAt
<1>6. /\ Counted(0, "moduleName", <<{"effect"}, {"module"}, {"upper"}>>)
      /\ Counted(0, "moduleName", <<{"port"}, {"module"}, {"upper"}>>)
      /\ Counted(1, "effectComma", <<{"key"}, {"="}, {"upper"}>>)
  <2>1. /\ Net(<<{"effect"}, {"module"}, {"upper"}>>, 0, 0)
        /\ Net(<<{"port"}, {"module"}, {"upper"}>>, 0, 0)
        /\ Net(<<{"key"}, {"="}, {"upper"}>>, 0, 0)
    BY <1>1, ShortRows, Zenon
  <2> QED BY <1>3, <1>4, <2>1, Zenon
<1>7. Counted(1, "itemEnd", <<{"("}, {"op", "-"}, {")"}>>)
  <2>1. Net(<<{"("}, {"op", "-"}, {")"}>>, 1, 1)
    BY <1>1, <1>2, ShortRows, Zenon
  <2> QED BY <1>3, <1>4, <2>1, Zenon
<1>8. /\ Counted(0, "moduleName", <<{"module"}, {"upper"}>>)
      /\ Counted(0, "importName", <<{"import"}, {"upper"}>>)
      /\ Counted(0, "importAlias", <<{"as"}, {"upper"}>>)
  <2>1. /\ Net(<<{"module"}, {"upper"}>>, 0, 0) /\ Net(<<{"import"}, {"upper"}>>, 0, 0)
        /\ Net(<<{"as"}, {"upper"}>>, 0, 0)
    BY <1>1, ShortRows, Zenon
  <2> QED BY <1>3, <1>4, <2>1, Zenon
<1>9. /\ Counted(0, "effectKey", <<{"where"}, {"{"}>>) /\ Counted(1, "exposing", <<{"}"}, {"exposing"}>>)
      /\ Counted(1, "everything", <<{".."}, {")"}>>) /\ Counted(2, "itemEnd", <<{".."}, {")"}>>)
  <2>1. Net(<<{"where"}, {"{"}>>, 1, 0)
    BY <1>1, <1>2, ShortRows, Zenon
  <2>2. Net(<<{"}"}, {"exposing"}>>, 0, 1)
    BY <1>1, <1>2, ShortRows, Zenon
  <2>3. Net(<<{".."}, {")"}>>, 0, 1)
    BY <1>1, <1>2, ShortRows, Zenon
  <2> QED BY <1>3, <1>4, <2>1, <2>2, <2>3, Zenon
<1>10. /\ Counted(0, "exposing", <<{"exposing"}>>) /\ Counted(0, "arguments", <<{"lower"}>>)
       /\ Counted(0, "destructured", <<{"="}>>)
  <2>1. Net(<<{"exposing"}>>, 0, 0) /\ Net(<<{"lower"}>>, 0, 0) /\ Net(<<{"="}>>, 0, 0)
    BY <1>1, ShortRows, Zenon
  <2> QED BY <1>3, <1>4, <2>1, Zenon
<1>11. Counted(0, "exposed", <<{"("}>>) /\ Counted(2, "itemEnd", <<{")"}>>)
  <2>1. Net(<<{"("}>>, 1, 0) /\ Net(<<{")"}>>, 0, 1)
    BY <1>2, ShortRows, Zenon
  <2> QED BY <1>3, <1>4, <2>1, Zenon
<1>12. Counted(0, "infix", <<{"left"}, {"number"}, {"("}, {"op", "-"}, {")"}, {"="}, {"lower"}>>)
  <2>1. Net(<<{"left"}, {"number"}, {"("}, {"op", "-"}, {")"}, {"="}, {"lower"}>>, 1, 1)
    <3> DEFINE a == {"left"}
               b == {"number"}
               c == {"("}
               d == {"op", "-"}
               e == {")"}
               f == {"="}
               g == {"lower"}
    <3>1. Neutral(a) /\ Neutral(b) /\ Opener(c) /\ Neutral(d) /\ Closer(e) /\ Neutral(f) /\ Neutral(g)
      BY <1>1, <1>2, Zenon
    <3>2. Net(<<a, b, c, d, e, f, g>>, 1, 1)
      <4> HIDE DEF a, b, c, d, e, f, g
      <4> QED BY <3>1, LongRow
    <3> QED BY <3>2, Zenon
  <2> QED BY <1>3, <1>4, <2>1, Zenon
<1> QED BY <1>5, <1>6, <1>7, <1>8, <1>9, <1>10, <1>11, <1>12, Zenon

(* Where nothing is awaited the function that runs holds what is open.     *)
LEMMA NoneAwaited == \A d \in Nat : \A a : Counted(d, a, <<>>) <=> d = HeldAt(a)
BY RowsCount, Zenon
-----------------------------------------------------------------------------
(* A step of a module-level function, as long as no error was met.         *)

Intact == ModuleInv /\ ModuleBal /\ errors = <<>> /\ (Runs(at) \/ Given(at))

(* Where such a function starts.                                           *)
LEMMA Outset ==
  ASSUME Intact
  PROVE  /\ Stream /\ Ordered /\ OK(p) /\ Level(p) /\ p.ctx = 0 /\ p.depth = HeldAt(at)
         /\ conts = <<>> /\ calls = <<>> /\ want = <<>> /\ at \notin Skipping
<1>1. Stream /\ Ordered /\ OK(p)
  BY Reader DEF Intact
<1>2. p.depth \in Nat /\ p.ctx \in Nat
  BY <1>1 DEF OK, Cursor
<1>3. CASE Runs(at)
  <2>1. ctl = "ok" /\ want = <<>> /\ conts = <<>> /\ calls = <<>> /\ at \notin Skipping
    BY <1>3 DEF Intact, Runs, ModuleInv, MachineFits, ModuleBal
  <2>2. Sorted(p) /\ p.ctx = 0 /\ Counted(p.depth, at, <<>>)
    BY <2>1 DEF Intact, ModuleBal
  <2> QED BY <1>1, <1>2, <2>1, <2>2, NoneAwaited DEF Level, Good
<1>4. CASE Given(at)
  <2>1. ctl = "done" /\ conts = <<>> /\ calls = <<>> /\ at \notin Skipping
    BY <1>4 DEF Intact, Given, ModuleBal
  <2>2. at \in Waits /\ want = <<>> /\ BalInv
    BY <2>1 DEF Intact, ModuleInv, MachineFits, ModuleBal
  <2>3. HeldAt(at) = 0
    BY <2>2 DEF HeldAt, Bracketed, Waits
  <2>4. Sorted(p) /\ p.ctx = 0
    BY <1>2, <2>1, <2>2 DEF BalInv, ContextIsFresh
  <2>5. p.depth = 0
    <3>1. Open(<<>>) = {} /\ BracketsOf(<<>>) = {}
      BY DEF Open, BracketsOf
    <3>2. p.depth = Cardinality({}) + Cardinality({})
      BY <2>1, <2>2, <3>1 DEF BalInv, DepthIsOpen, Count
    <3> QED BY <3>2, FS_EmptySet
  <2> QED BY <1>1, <2>1, <2>2, <2>3, <2>4, <2>5 DEF Level, Good
<1> QED BY <1>3, <1>4 DEF Intact

(* Where it may land: idle at a, before the row w, or calling the machine. *)
LEMMA Lands ==
  ASSUME Ordered, p.ctx = 0, conts = <<>>, NEW q, Good(q), NEW c \in Callable, Goto(q, <<>>, c), at' \notin Skipping,
         c = "ok" => Counted(q.depth, at', want'),
         c # "ok" => q.depth = 0
  PROVE  ModuleBal'
<1>1. toks' = toks /\ p' = q /\ calls' = <<>> /\ conts' = <<>> /\ ctl' = c
  BY DEF Goto
<1>2. Ordered'
  BY <1>1 DEF Ordered
<1>3. Sorted(p)'
  <2>1. Reread' = Reread
    BY <1>1, ZenonT(60) DEF Reread
  <2>2. Here(q)' = Here(q)
    BY <1>1 DEF Here
  <2>3. Sorted(q)
    BY DEF Good
  <2> QED BY <1>1, <2>1, <2>2, <2>3 DEF Sorted, Rising, AllBefore, Here
<1>4. p'.ctx = 0
  BY <1>1 DEF Good
<1>5. ASSUME c # "ok" PROVE BalInv'
  <2>1. Open(conts)' = {}
    BY <1>1 DEF Open
  <2>2. Count(calls)' = Cardinality({})
    <3>1. BracketsOf(calls)' = {}
      BY <1>1 DEF BracketsOf
    <3> QED BY <3>1 DEF Count
  <2>3. DepthIsOpen'
    <3>1. IsFiniteSet({}) /\ Cardinality({}) = 0
      BY FS_EmptySet
    <3>2. p'.depth = 0
      BY <1>1, <1>5
    <3> QED BY <2>1, <2>2, <3>1, <3>2 DEF DepthIsOpen
  <2>4. ctl' # "reduce" /\ ~(p'.ctx > 0)
    BY <1>1, <1>4 DEF Callable
  <2> QED BY <1>2, <1>3, <2>3, <2>4 DEF BalInv, AtOperator, ContextIsFresh
<1>6. p'.depth = q.depth
  BY <1>1
<1>7. c # "error"
  BY DEF Callable
<1> QED BY <1>1, <1>3, <1>4, <1>5, <1>6, <1>7 DEF ModuleBal

(* ... or an error.                                                        *)
LEMMA RaiseLands ==
  ASSUME ModuleBal, errors = <<>>, NEW q, Raise(q)
  PROVE  ModuleBal'
BY DEF Raise, Fail, ModuleBal

(* What reading on leaves of the depth.                                    *)
LEMMA LevelReading ==
  ASSUME Intact
  PROVE  /\ Level(p)
         /\ \A q : Level(q) => Level(Skip(q)) /\ OK(q) /\ q.depth = HeldAt(at) /\ Good(q) /\ Snapshot(q) \in Nat
         /\ \A q : Level(q) /\ Flat(q) => Level(Advance(q))
         /\ \A q : Level(q) /\ Opens(q) => Inside(Advance(q))
         /\ \A q : Inside(q) => Inside(Skip(q)) /\ Good(q) /\ q.depth = HeldAt(at) + 1
         /\ \A q : Level(q) /\ Closes(q) /\ HeldAt(at) = 1 => Good(Advance(q)) /\ Advance(q).depth = 0
<1>1. Stream /\ Ordered /\ OK(p) /\ Level(p) /\ p.depth = HeldAt(at) /\ HeldAt(at) \in Nat
  BY Outset DEF HeldAt
<1>2. \A q : Level(q) => Level(Skip(q)) /\ OK(q) /\ q.depth = HeldAt(at) /\ Good(q) /\ Snapshot(q) \in Nat
  BY <1>1, SkipMoves, PendingType DEF Level, Good
<1>3. \A q : Level(q) /\ Flat(q) => Level(Advance(q))
  BY <1>1, AdvanceMoves
<1>4. \A q : Level(q) /\ Opens(q) => Inside(Advance(q))
  BY <1>1, AdvanceMoves
<1>5. \A q : Inside(q) => Inside(Skip(q)) /\ Good(q) /\ q.depth = HeldAt(at) + 1
  BY <1>1, SkipMoves DEF Inside
<1>6. ASSUME NEW q, Level(q), Closes(q), HeldAt(at) = 1 PROVE Good(Advance(q)) /\ Advance(q).depth = 0
  <2>1. Good(Advance(q)) /\ Outside(Advance(q)) /\ Advance(q).depth \in Nat
    BY <1>1, <1>6, AdvanceMoves DEF Outside, Good, OK, Cursor
  <2> QED BY <1>1, <1>6, <2>1 DEF Outside
<1> QED BY <1>1, <1>2, <1>3, <1>4, <1>5, <1>6

(* Words are no brackets.                                                  *)
LEMMA WordsAreFlat ==
  ASSUME NEW q
  PROVE  /\ Peek(q) \in {"lower", "upper", "number", ".", ",", "|", "=", ":", "as", "type", "port", "infix",
                         "alias", "exposing", "import", "doc", "..", "effect", "module"}
            => Flat(q)
         /\ Peek(q) \in {"("} => Opens(q)
         /\ Peek(q) \in {")"} => Closes(q)
BY Zenon DEF Peek, Opens, Closes, Flat, Openers, Closers

(* It goes on at another place, with brackets as before.                   *)
LEMMA Stays ==
  ASSUME Intact, NEW q, Level(q), NEW fs, NEW a, HeldAt(a) = HeldAt(at), a \notin Skipping, Proceed(q, fs, a)
  PROVE  ModuleBal'
<1>1. HeldAt(at) \in Nat /\ q.depth = HeldAt(at) /\ Good(q)
  BY Outset DEF HeldAt, Level
<1>2. Counted(q.depth, a, <<>>)
  BY <1>1, NoneAwaited
<1>3. "ok" \in Callable
  BY DEF Callable
<1> QED BY <1>1, <1>2, <1>3, Outset, Lands DEF Proceed, Call

(* ... to expect a row of tokens,                                          *)
LEMMA Expects ==
  ASSUME Intact, NEW q, Good(q), NEW fs, NEW a, a \notin Skipping, NEW w, Counted(q.depth, a, w), Expect(w, q, fs, a)
  PROVE  ModuleBal'
<1>1. "ok" \in Callable
  BY DEF Callable
<1> QED BY <1>1, Outset, Lands DEF Expect

(* ... or to call the machine.                                             *)
LEMMA CallsFor ==
  ASSUME Intact, HeldAt(at) = 0, NEW q, Level(q), NEW fs, NEW a, a \notin Skipping,
         NEW c \in Callable \ {"ok"}, Call(q, fs, a, c)
  PROVE  ModuleBal'
<1>1. q.depth = 0 /\ Good(q) /\ c \in Callable /\ c # "ok"
  BY Outset DEF Level
<1> QED BY <1>1, Outset, Lands DEF Call
-----------------------------------------------------------------------------
(* The header.                                                             *)

LEMMA HeaderBalanced ==
  ASSUME Intact, ParseHeader
  PROVE  ModuleBal'
<1> DEFINE q == Skip(p)
           effect == New("effect", Here(q))
           header == New("header", Here(q))
<1>1. Level(q) /\ Good(q) /\ q.depth = HeldAt(at) /\ at = "header"
  BY LevelReading DEF ParseHeader, Runs
<1>2. q.depth = 0 /\ "moduleName" \notin Skipping
  BY <1>1 DEF HeldAt, Bracketed, Skipping
<1> HIDE DEF q, effect, header
<1>3. \/ Expect(<<{"effect"}, {"module"}, {"upper"}>>, q, <<effect>>, "moduleName")
      \/ Expect(<<{"port"}, {"module"}, {"upper"}>>, q, <<header>>, "moduleName")
      \/ Expect(<<{"module"}, {"upper"}>>, q, <<header>>, "moduleName")
  BY Zenon DEF ParseHeader, q, effect, header
<1>4. /\ Counted(q.depth, "moduleName", <<{"effect"}, {"module"}, {"upper"}>>)
      /\ Counted(q.depth, "moduleName", <<{"port"}, {"module"}, {"upper"}>>)
      /\ Counted(q.depth, "moduleName", <<{"module"}, {"upper"}>>)
  BY <1>2, RowsCount, Zenon
<1> QED BY <1>1, <1>2, <1>3, <1>4, Expects, Zenon

LEMMA NamesBalanced ==
  ASSUME Intact, MoreName \/ AfterModuleName
  PROVE  ModuleBal'
<1>1. CASE MoreName
  <2> DEFINE q == Advance(p)
  <2>1. at \notin Skipping /\ Proceed(Advance(q), outer, at) /\ Peek(p) = "." /\ Peek(q) = "upper"
    BY <1>1, Outset, Zenon DEF MoreName, Dotted
  <2>2. Level(p) /\ Level(q)
    BY <2>1, LevelReading, WordsAreFlat
  <2> HIDE DEF q
  <2>3. Level(Advance(q))
    BY <2>1, <2>2, LevelReading, WordsAreFlat
  <2> QED BY <2>1, <2>3, Stays
<1>2. CASE AfterModuleName
  <2>1. Good(p) /\ p.depth = 0
    BY <1>2, LevelReading DEF AfterModuleName, Runs, HeldAt, Bracketed
  <2>2. /\ Counted(p.depth, "effectKey", <<{"where"}, {"{"}>>) /\ Counted(p.depth, "exposing", <<{"exposing"}>>)
        /\ "effectKey" \notin Skipping /\ "exposing" \notin Skipping
    BY <2>1, RowsCount, Zenon DEF Skipping
  <2>3. \/ Expect(<<{"where"}, {"{"}>>, p, outer, "effectKey")
        \/ Expect(<<{"exposing"}>>, p, outer, "exposing")
    BY <1>2, Zenon DEF AfterModuleName
  <2> QED BY <2>1, <2>2, <2>3, Expects, Zenon
<1> QED BY <1>1, <1>2

LEMMA EffectsBalanced ==
  ASSUME Intact, EffectKey \/ EffectComma
  PROVE  ModuleBal'
<1> DEFINE q == Skip(p)
<1>1. Level(q) /\ Good(q) /\ q.depth = HeldAt(at) /\ at \in {"effectKey", "effectComma"}
  BY LevelReading DEF EffectKey, EffectComma, Runs
<1>2. q.depth = 1 /\ HeldAt(at) = 1
  BY <1>1 DEF HeldAt, Bracketed
<1>3. "effectKey" \notin Skipping /\ "effectComma" \notin Skipping /\ "exposing" \notin Skipping /\ HeldAt("effectKey") = 1
  BY DEF Skipping, HeldAt, Bracketed
<1> HIDE DEF q
<1>4. CASE EffectKey
  <2>1. \/ Expect(<<{"}"}, {"exposing"}>>, q, outer, "exposing")
        \/ Expect(<<{"key"}, {"="}, {"upper"}>>, q, outer, "effectComma")
    BY <1>4, Zenon DEF EffectKey, q
  <2>2. /\ Counted(q.depth, "exposing", <<{"}"}, {"exposing"}>>)
        /\ Counted(q.depth, "effectComma", <<{"key"}, {"="}, {"upper"}>>)
    BY <1>2, RowsCount, Zenon
  <2> QED BY <1>1, <1>3, <2>1, <2>2, Expects, Zenon
<1>5. CASE EffectComma
  <2>1. \/ Peek(q) = "," /\ Proceed(Advance(q), outer, "effectKey")
        \/ Proceed(q, outer, "effectKey")
    BY <1>5, Zenon DEF EffectComma, q
  <2>2. Peek(q) = "," => Level(Advance(q))
    BY <1>1, LevelReading, WordsAreFlat
  <2> QED BY <1>1, <1>2, <1>3, <2>1, <2>2, Stays
<1> QED BY <1>4, <1>5
-----------------------------------------------------------------------------
(* Exposing lists.                                                         *)

LEMMA OpenBalanced ==
  ASSUME Intact, OpenExposing
  PROVE  ModuleBal'
<1>1. Good(p) /\ p.depth = 0 /\ "exposed" \notin Skipping
  BY LevelReading DEF OpenExposing, Runs, HeldAt, Bracketed, Skipping
<1>2. Counted(p.depth, "exposed", <<{"("}>>)
  BY <1>1, RowsCount, Zenon
<1> DEFINE fs == Append(outer, New("exposing", Here(p)))
<1>3. Expect(<<{"("}>>, p, fs, "exposed")
  BY Zenon DEF OpenExposing
<1> HIDE DEF fs
<1> QED BY <1>1, <1>2, <1>3, Expects, Zenon

(* The list is read: its bracket is closed.                                *)
LEMMA ListClosed ==
  ASSUME Intact, NEW q, Good(q), q.depth = 0, NEW e, EndExposing(q, e)
  PROVE  ModuleBal'
<1>1. Proceed(q, <<>>, "imports")
  BY Zenon DEF EndExposing
<1>2. "ok" \in Callable /\ "imports" \notin Skipping /\ HeldAt("imports") = 0
  BY DEF Callable, Skipping, HeldAt, Bracketed
<1>3. Counted(q.depth, "imports", <<>>)
  BY <1>2, NoneAwaited
<1> QED BY <1>1, <1>2, <1>3, Outset, Lands DEF Proceed, Call

LEMMA ExposedBalanced ==
  ASSUME Intact, Exposed \/ Everything
  PROVE  ModuleBal'
<1>1. CASE Exposed
  <2> DEFINE q == Skip(p)
  <2>1. Level(q) /\ Good(q) /\ q.depth = HeldAt(at) /\ at = "exposed"
    BY <1>1, LevelReading DEF Exposed, Runs
  <2>2. q.depth = 1 /\ HeldAt(at) = 1 /\ HeldAt("item") = 1 /\ "everything" \notin Skipping /\ "item" \notin Skipping
    BY <2>1 DEF HeldAt, Bracketed, Skipping
  <2> HIDE DEF q
  <2>3. \/ Expect(<<{".."}, {")"}>>, q, outer, "everything")
        \/ Proceed(q, outer, "item")
    BY <1>1, Zenon DEF Exposed, q
  <2>4. Counted(q.depth, "everything", <<{".."}, {")"}>>)
    BY <2>2, RowsCount, Zenon
  <2>5. CASE Proceed(q, outer, "item")
    BY <2>1, <2>2, <2>5, Stays
  <2> QED BY <2>1, <2>2, <2>3, <2>4, <2>5, Expects, Zenon
<1>2. CASE Everything
  <2>1. Good(p) /\ p.depth = 0 /\ EndExposing(p, Close(Outer, p))
    BY <1>2, LevelReading DEF Everything, Runs, HeldAt, Bracketed
  <2> QED BY <2>1, ListClosed
<1> QED BY <1>1, <1>2

LEMMA ItemsBalanced ==
  ASSUME Intact, ExposedItem \/ ExposedType
  PROVE  ModuleBal'
<1>1. HeldAt("itemEnd") = 1 /\ HeldAt("itemType") = 1 /\ "itemEnd" \notin Skipping /\ "itemType" \notin Skipping
  BY DEF HeldAt, Bracketed, Skipping
<1>2. HeldAt(at) = 1 /\ Level(p) /\ Good(p)
  BY LevelReading DEF ExposedItem, ExposedType, Runs, HeldAt, Bracketed
<1>3. CASE ExposedItem
  <2> DEFINE q == Skip(p)
             fs == OuterSwap([Outer EXCEPT !.mark = Here(q)])
  <2>1. Level(q) /\ Good(q) /\ q.depth = 1
    BY <1>2, LevelReading
  <2> HIDE DEF q, fs
  <2>2. \/ Peek(q) = "lower" /\ Proceed(Advance(q), fs, "itemEnd")
        \/ Peek(q) = "upper" /\ Proceed(Skip(Advance(q)), fs, "itemType")
        \/ Expect(<<{"("}, {"op", "-"}, {")"}>>, q, fs, "itemEnd")
        \/ Raise(q)
    BY <1>3, Zenon DEF ExposedItem, q, fs
  <2>3. Peek(q) \in {"lower", "upper"} => Level(Advance(q)) /\ Level(Skip(Advance(q)))
    BY <2>1, LevelReading, WordsAreFlat
  <2>4. Counted(q.depth, "itemEnd", <<{"("}, {"op", "-"}, {")"}>>)
    BY <2>1, RowsCount, Zenon
  <2>5. CASE Peek(q) = "lower" /\ Proceed(Advance(q), fs, "itemEnd")
    BY <1>1, <1>2, <2>3, <2>5, Stays
  <2>6. CASE Peek(q) = "upper" /\ Proceed(Skip(Advance(q)), fs, "itemType")
    BY <1>1, <1>2, <2>3, <2>6, Stays
  <2>7. CASE Expect(<<{"("}, {"op", "-"}, {")"}>>, q, fs, "itemEnd")
    BY <1>1, <2>1, <2>4, <2>7, Expects, Zenon
  <2>8. CASE Raise(q)
    BY <2>8, RaiseLands DEF Intact
  <2> QED BY <2>2, <2>5, <2>6, <2>7, <2>8
<1>4. CASE ExposedType
  <2> DEFINE q == Skip(Advance(p))
             row == IF Peek(q) = ".." THEN <<{".."}, {")"}>> ELSE <<{")"}>>
  <2>1. Peek(p) = "(" => Good(q) /\ q.depth = 2
    <3>1. ASSUME Peek(p) = "(" PROVE Inside(q)
      <4>1. Inside(Advance(p))
        BY <1>2, <3>1, LevelReading, WordsAreFlat
      <4> QED BY <4>1, LevelReading
    <3>2. Inside(q) => Good(q) /\ q.depth = HeldAt(at) + 1
      BY LevelReading
    <3> HIDE DEF q
    <3> QED BY <1>2, <3>1, <3>2
  <2>2. Counted(2, "itemEnd", row)
    <3>1. CASE Peek(q) = ".."
      BY <3>1, RowsCount, Zenon
    <3>2. CASE Peek(q) # ".."
      BY <3>2, RowsCount, Zenon
    <3> QED BY <3>1, <3>2, Zenon
  <2> HIDE DEF q, row
  <2>3. \/ Proceed(p, outer, "itemEnd")
        \/ Peek(p) = "(" /\ Expect(row, q, outer, "itemEnd")
    BY <1>4, Zenon DEF ExposedType, q, row
  <2>4. CASE Proceed(p, outer, "itemEnd")
    BY <1>1, <1>2, <2>4, Stays
  <2>5. CASE Peek(p) = "(" /\ Expect(row, q, outer, "itemEnd")
    BY <1>1, <2>1, <2>2, <2>5, Expects
  <2> QED BY <2>3, <2>4, <2>5
<1> QED BY <1>3, <1>4

LEMMA EndItemBalanced ==
  ASSUME Intact, EndItem
  PROVE  ModuleBal'
<1> DEFINE q == Skip(p)
           r == Advance(q)
           fr == AddPart(Outer, SpanNode(Outer.mark, p, <<>>, {}))
           fs == OuterSwap(fr)
           snap == Snapshot(p)
           list == Close(Hold(fr, Since(r, snap)), r)
<1>1. HeldAt(at) = 1 /\ HeldAt("item") = 1 /\ "item" \notin Skipping
  BY DEF EndItem, Runs, HeldAt, Bracketed, Skipping
<1>2. Level(q) /\ snap \in Nat
  BY LevelReading
<1> HIDE DEF q, r, fr, fs, snap, list
<1>3. \/ Peek(q) = "," /\ Proceed(r, fs, "item")
      \/ Peek(q) = ")" /\ EndExposing(DropSince(r, snap), list)
      \/ Raise(q)
  BY Zenon DEF EndItem, q, r, fr, fs, snap, list
<1>4. CASE Peek(q) = "," /\ Proceed(r, fs, "item")
  <2>1. Level(r)
    BY <1>2, <1>4, LevelReading, WordsAreFlat DEF r
  <2> QED BY <1>1, <1>4, <2>1, Stays
<1>5. CASE Peek(q) = ")" /\ EndExposing(DropSince(r, snap), list)
  <2>1. Good(r) /\ r.depth = 0
    BY <1>1, <1>2, <1>5, LevelReading, WordsAreFlat DEF r
  <2>2. Good(DropSince(r, snap)) /\ DropSince(r, snap).depth = 0
    BY <1>2, <2>1, DropSinceThinner, ThinGood DEF Good
  <2> QED BY <1>5, <2>2, ListClosed
<1>6. CASE Raise(q)
  BY <1>6, RaiseLands DEF Intact
<1> QED BY <1>3, <1>4, <1>5, <1>6
-----------------------------------------------------------------------------
(* The imports, and the loops over imports and declarations.               *)

(* Where these functions are no bracket is open, nor where they go.        *)
LEMMA NoneHeld ==
  /\ \A a \in {"imports", "importName", "importAlias", "exposing", "declarations", "declaration", "parsed"} :
       HeldAt(a) = 0 /\ a \notin Skipping
  /\ \A a \in InDeclaration : HeldAt(a) = 0 /\ a \notin Skipping
BY DEF HeldAt, Bracketed, Skipping, InDeclaration

LEMMA ImportNamesBalanced ==
  ASSUME Intact, ParseImport \/ AfterImportName \/ AfterImportAlias
  PROVE  ModuleBal'
<1> DEFINE q == Skip(p)
           fs == <<New("import", Here(q))>>
<1>1. Level(q) /\ Good(q) /\ q.depth = 0 /\ HeldAt(at) = 0
  BY LevelReading, NoneHeld DEF ParseImport, AfterImportName, AfterImportAlias, Runs
<1>2. ASSUME ImportTail(q) PROVE ModuleBal'
  <2>1. \/ Peek(q) = "exposing" /\ Proceed(Advance(q), outer, "exposing")
        \/ Proceed(q, <<>>, "imports")
    BY <1>2, Zenon DEF ImportTail, EndImport
  <2>2. Peek(q) = "exposing" => Level(Advance(q))
    BY <1>1, LevelReading, WordsAreFlat
  <2> HIDE DEF q
  <2> QED BY <1>1, <2>1, <2>2, NoneHeld, Stays
<1>3. CASE ParseImport
  <2>1. Expect(<<{"import"}, {"upper"}>>, q, fs, "importName")
    BY <1>3, Zenon DEF ParseImport
  <2>2. Counted(q.depth, "importName", <<{"import"}, {"upper"}>>) /\ "importName" \notin Skipping
    BY <1>1, NoneHeld, RowsCount, Zenon
  <2> HIDE DEF q, fs
  <2> QED BY <1>1, <2>1, <2>2, Expects, Zenon
<1>4. CASE AfterImportName
  <2>1. Expect(<<{"as"}, {"upper"}>>, q, outer, "importAlias") \/ ImportTail(q)
    BY <1>4, Zenon DEF AfterImportName
  <2>2. Counted(q.depth, "importAlias", <<{"as"}, {"upper"}>>) /\ "importAlias" \notin Skipping
    BY <1>1, NoneHeld, RowsCount, Zenon
  <2> HIDE DEF q
  <2> QED BY <1>1, <1>2, <2>1, <2>2, Expects, Zenon
<1>5. CASE AfterImportAlias
  BY <1>2, <1>5 DEF AfterImportAlias
<1> QED BY <1>3, <1>4, <1>5

LEMMA LoopsBalanced ==
  ASSUME Intact, ModuleDoc \/ NoMoreImports \/ NextDeclaration \/ EndOfText
  PROVE  ModuleBal'
<1> DEFINE q == Skip(p)
           r == Advance(q)
           end == [q EXCEPT !.pending = <<>>]
<1>1. Level(q) /\ OK(q) /\ HeldAt(at) = 0
  BY LevelReading, NoneHeld DEF ModuleDoc, NoMoreImports, NextDeclaration, EndOfText, Runs
<1>2. Peek(q) = "doc" => Level(r) /\ Level(Skip(r))
  BY <1>1, LevelReading, WordsAreFlat
<1>3. Level(end)
  <2>1. q.pending \in Seq(Comment) /\ <<>> \in Seq(Comment)
    BY <1>1, PendingType
  <2>2. Thinner(end, q)
    BY <1>1, <2>1, TrivialParts, PendingThinner
  <2> QED BY <1>1, <2>2, ThinMoves
<1> HIDE DEF q, r, end
<1>4. \/ Peek(q) = "doc" /\ (Proceed(Skip(r), <<>>, "imports") \/ Proceed(r, <<>>, "declarations"))
      \/ Proceed(q, <<>>, "declarations")
      \/ Proceed(q, <<>>, "declaration")
      \/ Proceed(end, <<>>, "parsed")
  BY Zenon DEF ModuleDoc, NoMoreImports, NextDeclaration, EndOfText, Documented, q, r, end
<1> QED BY <1>1, <1>2, <1>3, <1>4, NoneHeld, Stays
-----------------------------------------------------------------------------
(* Declarations.                                                           *)

(* Past the doc comment and past the keyword.                              *)
LEMMA ArmsMove ==
  ASSUME Intact, Runs("declaration")
  PROVE  LET q == PastDoc(Skip(p))
         IN  /\ Level(q) /\ Good(q) /\ q.depth = 0 /\ HeldAt(at) = 0
             /\ Peek(q) \in {"type", "port", "infix"} => Level(Advance(q)) /\ Level(Skip(Advance(q)))
<1> DEFINE s == Skip(p)
           q == PastDoc(s)
<1>1. Level(s) /\ HeldAt(at) = 0
  BY LevelReading, NoneHeld DEF Runs
<1>2. Level(q)
  <2>1. CASE Documented(s)
    <3>1. Flat(s)
      BY <2>1, WordsAreFlat DEF Documented
    <3> HIDE DEF s
    <3> QED BY <1>1, <2>1, <3>1, LevelReading DEF PastDoc
  <2>2. CASE ~Documented(s)
    BY <1>1, <2>2 DEF PastDoc
  <2> QED BY <2>1, <2>2
<1> HIDE DEF s, q
<1>3. Peek(q) \in {"type", "port", "infix"} => Level(Advance(q)) /\ Level(Skip(Advance(q)))
  BY <1>2, LevelReading, WordsAreFlat
<1>4. Good(q) /\ q.depth = 0
  BY <1>1, <1>2, LevelReading
<1> QED BY <1>1, <1>2, <1>3, <1>4 DEF q, s

LEMMA KeywordArmsBalanced ==
  ASSUME Intact, TypeArm \/ PortArm \/ InfixArm
  PROVE  ModuleBal'
<1> DEFINE k == PastDoc(Skip(p))
           r == Advance(k)
           q == Skip(r)
           fs == <<Opened>>
<1>1. HeldAt(at) = 0 /\ (Peek(k) \in {"type", "port", "infix"} => Level(r) /\ Level(q))
  BY ArmsMove DEF TypeArm, PortArm, InfixArm, Arm
<1>2. Peek(k) \in {"type", "port", "infix"}
  BY DEF TypeArm, PortArm, InfixArm, Arm
<1> HIDE DEF k, r, q, fs
<1>3. CASE TypeArm
  <2>1. \/ Peek(q) = "alias" /\ Proceed(Advance(q), fs, "aliasName")
        \/ Proceed(q, fs, "typeName")
    BY <1>3, Zenon DEF TypeArm, q, r, k, fs
  <2>2. Peek(q) = "alias" => Level(Advance(q))
    BY <1>1, <1>2, LevelReading, WordsAreFlat
  <2>3. "aliasName" \in InDeclaration /\ "typeName" \in InDeclaration
    BY DEF InDeclaration
  <2> QED BY <1>1, <1>2, <2>1, <2>2, <2>3, NoneHeld, Stays
<1>4. CASE PortArm
  <2>1. Call(q, fs, "port", "signature")
    BY <1>4, Zenon DEF PortArm, q, r, k, fs
  <2>2. "port" \in InDeclaration /\ "signature" \in Callable \ {"ok"}
    BY DEF InDeclaration, Callable
  <2> QED BY <1>1, <1>2, <2>1, <2>2, NoneHeld, CallsFor
<1>5. CASE InfixArm
  <2> DEFINE row == <<{"left"}, {"number"}, {"("}, {"op", "-"}, {")"}, {"="}, {"lower"}>>
  <2>1. Good(r) /\ r.depth = 0
    BY <1>1, <1>2, LevelReading
  <2>2. Counted(r.depth, "infix", row)
    BY <2>1, RowsCount, Zenon
  <2>3. Expect(row, r, fs, "infix")
    BY <1>5, Zenon DEF InfixArm, r, k, fs
  <2>4. "infix" \notin Skipping
    BY DEF Skipping
  <2> HIDE DEF row
  <2> QED BY <2>1, <2>2, <2>3, <2>4, Expects, Zenon
<1> QED BY <1>3, <1>4, <1>5

LEMMA OtherArmsBalanced ==
  ASSUME Intact, FunctionArm \/ DestructuringArm \/ NoDeclaration
  PROVE  ModuleBal'
<1> DEFINE q == PastDoc(Skip(p))
           fs == <<Opened>>
           gs == <<[Opened EXCEPT !.mark = Here(q)]>>
<1>1. Level(q) /\ Good(q) /\ q.depth = 0 /\ HeldAt(at) = 0
  BY ArmsMove DEF FunctionArm, DestructuringArm, NoDeclaration, Arm
<1> HIDE DEF q, fs, gs
<1>2. \/ Call(q, fs, "signature", "signature")
      \/ Expect(<<{"lower"}>>, q, gs, "arguments")
      \/ Call(q, fs, "pattern", "pattern")
      \/ Raise(q)
  BY Zenon DEF FunctionArm, DestructuringArm, NoDeclaration, q, fs, gs
<1>3. CASE Call(q, fs, "signature", "signature") \/ Call(q, fs, "pattern", "pattern")
  <2>1. /\ "signature" \in InDeclaration /\ "signature" \in Callable \ {"ok"}
        /\ "pattern" \in InDeclaration /\ "pattern" \in Callable \ {"ok"}
    BY DEF InDeclaration, Callable
  <2> QED BY <1>1, <1>3, <2>1, NoneHeld, CallsFor
<1>4. CASE Expect(<<{"lower"}>>, q, gs, "arguments")
  <2>1. Counted(q.depth, "arguments", <<{"lower"}>>) /\ "arguments" \notin Skipping
    BY <1>1, RowsCount, Zenon DEF Skipping
  <2> QED BY <1>1, <1>4, <2>1, Expects, Zenon
<1>5. CASE Raise(q)
  BY <1>5, RaiseLands DEF Intact
<1> QED BY <1>2, <1>3, <1>4, <1>5

(* The declaration is read.                                                *)
LEMMA DeclarationClosed ==
  ASSUME Intact, HeldAt(at) = 0, NEW q, Level(q), NEW n, NEW d, EndDeclaration(q, n, d)
  PROVE  ModuleBal'
<1>1. Good(q) /\ q.depth = 0 /\ "ok" \in Callable
  BY LevelReading DEF Callable
<1>2. HeldAt("declarations") = 0 /\ "declarations" \notin Skipping
  BY NoneHeld
<1>3. 0 \in Nat /\ Counted(0, "declarations", <<>>)
  BY <1>2, NoneAwaited
<1>4. Goto(q, <<>>, "ok") /\ at' = "declarations" /\ want' = <<>>
  BY DEF EndDeclaration
<1>5. Ordered /\ p.ctx = 0 /\ conts = <<>>
  BY Outset
<1> QED BY <1>1, <1>2, <1>3, <1>4, <1>5, Lands

(* The functions of a declaration in progress start outside all brackets.  *)
LEMMA InDeclarationMoves ==
  ASSUME Intact, at \in InDeclaration
  PROVE  /\ HeldAt(at) = 0 /\ Level(p) /\ Good(p) /\ p.depth = 0
         /\ outer[1] \in Frame /\ Outer \in Frame /\ Outer.snap \in Nat /\ Outer.body \in Nat /\ outer[1].snap \in Nat
<1>1. at \notin InNone
  BY DEF InDeclaration, InNone
<1>2. outer[1] \in Frame /\ Outer \in Frame
  BY <1>1, Framed DEF Intact
<1>3. Outer.snap \in Nat /\ Outer.body \in Nat /\ outer[1].snap \in Nat
  BY <1>2, FrameParts
<1>4. HeldAt(at) = 0
  BY NoneHeld
<1>5. Level(p) /\ Good(p) /\ p.depth = HeldAt(at)
  BY LevelReading
<1> QED BY <1>2, <1>3, <1>4, <1>5

LEMMA ArgumentsBalanced ==
  ASSUME Intact, AfterSignature \/ FunctionArguments \/ AfterFunctionArgument
  PROVE  ModuleBal'
<1> DEFINE q == Skip(p)
           r == Advance(q)
           body == OuterSwap([Outer EXCEPT !.body = Snapshot(r)])
           part == OuterSwap(AddPart(Outer, val))
           start == Hold([Outer EXCEPT !.sub = @ \cup val.sub, !.mark = Here(q)], Carried(val))
           fs == OuterSwap(start)
<1>1. at \in InDeclaration
  BY DEF AfterSignature, FunctionArguments, AfterFunctionArgument, Runs, Given, InDeclaration
<1>2. HeldAt(at) = 0 /\ Level(p) /\ Level(q) /\ Good(q) /\ q.depth = 0
  BY <1>1, InDeclarationMoves, LevelReading
<1>3. Peek(q) = "=" => Level(r)
  BY <1>2, LevelReading, WordsAreFlat
<1>4. "arguments" \in InDeclaration /\ "body" \in InDeclaration
  BY DEF InDeclaration
<1> HIDE DEF q, r, body, part, start, fs
<1>5. CASE AfterSignature
  <2>1. Expect(<<{"lower"}>>, q, fs, "arguments")
    BY <1>5, Zenon DEF AfterSignature, q, start, fs
  <2>2. Counted(q.depth, "arguments", <<{"lower"}>>) /\ "arguments" \notin Skipping
    BY <1>2, RowsCount, Zenon DEF Skipping
  <2> QED BY <1>2, <2>1, <2>2, Expects, Zenon
<1>6. CASE FunctionArguments
  <2>1. \/ Call(q, outer, "arguments", "pattern")
        \/ Peek(q) = "=" /\ Call(r, body, "body", "expr")
        \/ Raise(q)
    BY <1>6, Zenon DEF FunctionArguments, q, r, body
  <2>2. "pattern" \in Callable \ {"ok"} /\ "expr" \in Callable \ {"ok"}
    BY DEF Callable
  <2>3. CASE Raise(q)
    BY <2>3, RaiseLands DEF Intact
  <2> QED BY <1>2, <1>3, <1>4, <2>1, <2>2, <2>3, NoneHeld, CallsFor
<1>7. CASE AfterFunctionArgument
  <2>1. Proceed(p, part, "arguments")
    BY <1>7, Zenon DEF AfterFunctionArgument, part
  <2> QED BY <1>2, <1>4, <2>1, NoneHeld, Stays
<1> QED BY <1>5, <1>6, <1>7

LEMMA BodiesBalanced ==
  ASSUME Intact,
         \/ AfterFunctionBody \/ AfterDestructured \/ DestructuredBody \/ AfterDestructuredBody
         \/ AfterPortSignature \/ InfixDeclaration \/ AfterAliasedType
  PROVE  ModuleBal'
<1>1. at \in InDeclaration
  BY DEF AfterFunctionBody, AfterDestructured, DestructuredBody, AfterDestructuredBody, AfterPortSignature,
     InfixDeclaration, AfterAliasedType, Runs, Given, InDeclaration
<1>2. HeldAt(at) = 0 /\ Level(p) /\ Good(p) /\ p.depth = 0 /\ Outer.body \in Nat
  BY <1>1, InDeclarationMoves
<1>3. "destructured" \in InDeclaration /\ "destructured" \notin Skipping /\ "expr" \in Callable \ {"ok"}
  BY DEF InDeclaration, Skipping, Callable
<1>4. CASE AfterFunctionBody
  <2> DEFINE q == AfterPre(p, val, Outer.body)
             fr == AddPart(Outer, WithPre(p, val, Outer.body))
             implementation == SpanNode(Outer.mark, q, <<>>, {})
             node == Close([fr EXCEPT !.sub = @ \cup implementation.sub], q)
  <2>1. EndDeclaration(q, node, doc)
    BY <1>4, Zenon DEF AfterFunctionBody
  <2>2. Level(q)
    BY <1>2, Thins, ThinMoves
  <2> HIDE DEF q, fr, implementation, node
  <2> QED BY <1>2, <2>1, <2>2, DeclarationClosed
<1>5. CASE AfterDestructured
  <2> DEFINE fs == OuterSwap(AddPart(Outer, val))
  <2>1. Expect(<<{"="}>>, p, fs, "destructured")
    BY <1>5, Zenon DEF AfterDestructured
  <2>2. Counted(p.depth, "destructured", <<{"="}>>)
    BY <1>2, RowsCount, Zenon
  <2> HIDE DEF fs
  <2> QED BY <1>2, <1>3, <2>1, <2>2, Expects, Zenon
<1>6. CASE DestructuredBody
  BY <1>2, <1>3, <1>6, CallsFor DEF DestructuredBody
<1>7. CASE AfterDestructuredBody
  BY <1>2, <1>7, DeclarationClosed DEF AfterDestructuredBody
<1>8. CASE AfterPortSignature
  BY <1>2, <1>8, DeclarationClosed DEF AfterPortSignature
<1>9. CASE InfixDeclaration
  BY <1>2, <1>9, DeclarationClosed DEF InfixDeclaration
<1>10. CASE AfterAliasedType
  BY <1>2, <1>10, DeclarationClosed DEF AfterAliasedType
<1> QED BY <1>4, <1>5, <1>6, <1>7, <1>8, <1>9, <1>10

LEMMA HeadingsBalanced ==
  ASSUME Intact, TypeName \/ Generic \/ AliasEquals
  PROVE  ModuleBal'
<1> DEFINE q == Skip(p)
           r == Advance(q)
           fs == OuterSwap([Outer EXCEPT !.mark = toks[q.pos].ix, !.line = toks[q.pos].line])
<1>1. at \in InDeclaration
  BY DEF TypeName, Generic, AliasEquals, Runs, InDeclaration
<1>2. HeldAt(at) = 0 /\ Level(q)
  BY <1>1, InDeclarationMoves, LevelReading
<1>3. Peek(q) \in {"lower", "upper", "="} => Level(r)
  BY <1>2, LevelReading, WordsAreFlat
<1>4. {"aliasGenerics", "typeGenerics", "alias"} \subseteq InDeclaration /\ "type" \in Callable \ {"ok"}
  BY DEF InDeclaration, Callable
<1> HIDE DEF q, r, fs
<1>5. \/ Peek(q) \in {"lower", "upper"} /\ \E a \in {"aliasGenerics", "typeGenerics"} : Proceed(r, fs, a)
      \/ Peek(q) = "=" /\ Call(r, outer, "alias", "type")
      \/ Raise(q)
  <2>1. CASE TypeName
    <3>1. \/ Peek(q) = "upper" /\ Proceed(r, fs, IF at = "aliasName" THEN "aliasGenerics" ELSE "typeGenerics")
          \/ Raise(q)
      BY <2>1, Zenon DEF TypeName, Heading, q, r, fs
    <3>2. (IF at = "aliasName" THEN "aliasGenerics" ELSE "typeGenerics") \in {"aliasGenerics", "typeGenerics"}
      OBVIOUS
    <3> QED BY <3>1, <3>2
  <2>2. CASE Generic
    BY <2>2, Zenon DEF Generic, Heading, q, r, fs
  <2>3. CASE AliasEquals
    BY <2>3, Zenon DEF AliasEquals, q, r
  <2> QED BY <2>1, <2>2, <2>3
<1>6. CASE Peek(q) \in {"lower", "upper"} /\ \E a \in {"aliasGenerics", "typeGenerics"} : Proceed(r, fs, a)
  BY <1>2, <1>3, <1>4, <1>6, NoneHeld, Stays
<1>7. CASE Peek(q) = "=" /\ Call(r, outer, "alias", "type")
  BY <1>2, <1>3, <1>4, <1>7, NoneHeld, CallsFor
<1>8. CASE Raise(q)
  BY <1>8, RaiseLands DEF Intact
<1> QED BY <1>5, <1>6, <1>7, <1>8

LEMMA CustomEqualsBalanced ==
  ASSUME Intact, CustomEquals
  PROVE  ModuleBal'
<1> DEFINE q == Skip(p)
           gap == {c \in Between(q, Outer.mark, Here(q)) : c.line > Outer.line /\ ~c.block}
           r == Unclaimed(q, 0, gap)
           s == Advance(r)
           fr == [Hold(Outer, Claimed(q, 0, gap)) EXCEPT !.snap = Snapshot(s)]
           fs == OuterSwap(fr)
<1>1. at \in InDeclaration
  BY DEF CustomEquals, Runs, InDeclaration
<1>2. HeldAt(at) = 0 /\ Level(q)
  BY <1>1, InDeclarationMoves, LevelReading
<1> HIDE DEF q, gap
<1>3. Level(r) /\ Peek(r) = Peek(q)
  <2>1. OK(q) /\ 0 \in Nat
    BY <1>2, LevelReading
  <2>2. Thinner(r, q)
    BY <2>1, UnclaimedThinner
  <2>3. Good(q)
    BY <1>2 DEF Level
  <2> HIDE DEF r
  <2> QED BY <1>2, <2>2, <2>3, ThinMoves
<1> HIDE DEF r, fr, fs
<1>4. Peek(q) = "=" => Level(s)
  BY <1>3, LevelReading, WordsAreFlat
<1> HIDE DEF s
<1>5. \/ Peek(q) = "=" /\ Proceed(s, fs, "constructor")
      \/ Raise(r)
  BY Zenon DEF CustomEquals, q, gap, r, s, fr, fs
<1>6. "constructor" \in InDeclaration
  BY DEF InDeclaration
<1>7. CASE Raise(r)
  BY <1>7, RaiseLands DEF Intact
<1> QED BY <1>2, <1>4, <1>5, <1>6, <1>7, NoneHeld, Stays

LEMMA ConstructorsBalanced ==
  ASSUME Intact, Constructor \/ ConstructorField \/ AfterConstructorField
  PROVE  ModuleBal'
<1> DEFINE q == Skip(p)
           name == toks[q.pos]
           fr == [New("constructor", Here(p)) EXCEPT !.mark = name.ix, !.lim = name.ix,
                                                     !.col = name.col, !.line = name.line]
           more == Append(outer, fr)
           field == OuterSwap([Outer EXCEPT !.snap = Snapshot(p), !.body = Here(q)])
           gap == Between(p, Outer.lim, Outer.body)
           r == Unclaimed(p, Outer.snap, gap)
           lead == Lead(val, Claimed(p, Outer.snap, gap))
           fs == OuterSwap([AddPart(Outer, lead) EXCEPT !.lim = lead.to])
<1>1. at \in InDeclaration
  BY DEF Constructor, ConstructorField, AfterConstructorField, Runs, Given, InDeclaration
<1>2. HeldAt(at) = 0 /\ Level(p) /\ Good(p) /\ Level(q) /\ Outer.snap \in Nat
  BY <1>1, InDeclarationMoves, LevelReading
<1>3. Peek(q) = "upper" => Level(Advance(q))
  BY <1>2, LevelReading, WordsAreFlat
<1> HIDE DEF gap
<1>4. Level(r)
  BY <1>2, Thins, ThinMoves
<1>5. "fields" \in InDeclaration /\ "atomType" \in Callable \ {"ok"}
  BY DEF InDeclaration, Callable
<1> HIDE DEF q, name, fr, more, field, r, lead, fs
<1>6. CASE Constructor
  <2>1. \/ Peek(q) = "upper" /\ Proceed(Advance(q), more, "fields")
        \/ Raise(q)
    BY <1>6, Zenon DEF Constructor, q, name, fr, more
  <2>2. CASE Raise(q)
    BY <2>2, RaiseLands DEF Intact
  <2> QED BY <1>2, <1>3, <1>5, <2>1, <2>2, NoneHeld, Stays
<1>7. CASE ConstructorField
  <2>1. Call(q, field, "fields", "atomType")
    BY <1>7, Zenon DEF ConstructorField, q, field
  <2> QED BY <1>2, <1>5, <2>1, NoneHeld, CallsFor
<1>8. CASE AfterConstructorField
  <2>1. Proceed(r, fs, "fields")
    BY <1>8, Zenon DEF AfterConstructorField, gap, r, lead, fs
  <2> QED BY <1>2, <1>4, <1>5, <2>1, NoneHeld, Stays
<1> QED BY <1>6, <1>7, <1>8

(* The comment that trails a constructor is taken from the end.            *)
LEMMA LineTrailThinner ==
  ASSUME NEW q, OK(q), NEW line
  PROVE  Thinner(DropLineTrail(q, line), q)
<1>1. CASE LineTrail(q, line) = <<>>
  BY <1>1, SelfThinner DEF DropLineTrail
<1>2. CASE LineTrail(q, line) # <<>>
  <2> DEFINE N == Len(q.pending)
  <2>1. q.pending # <<>> /\ q.pending \in Seq(Comment) /\ N \in Nat /\ N # 0
    BY <1>2, PendingType, EmptySeq DEF LineTrail
  <2>2. SubSeq(q.pending, N - 1 + 1, N) \in Seq(Comment) /\ SubSeq(q.pending, 1, N - 1) \in Seq(Comment)
    BY <2>1, PartOfPending
  <2>3. SubSeq(q.pending, 1, N - 1) \o <<>> = SubSeq(q.pending, 1, N - 1)
    BY <2>2
  <2>4. PartOf(<<>>, SubSeq(q.pending, N - 1 + 1, N))
    BY <2>2, TrivialParts
  <2>5. <<>> \in Seq(Comment) /\ N - 1 \in Nat /\ N - 1 <= N
    BY <2>1
  <2>6. PartOf(SubSeq(q.pending, 1, N - 1), q.pending)
    <3> HIDE DEF N
    <3>1. PartOf(SubSeq(q.pending, 1, N - 1) \o <<>>, q.pending)
      BY <2>1, <2>4, <2>5, JoinPart DEF N
    <3> QED BY <2>3, <3>1
  <2> QED BY <1>2, <2>2, <2>6, PendingThinner DEF DropLineTrail
<1> QED BY <1>1, <1>2

LEMMA EndConstructorBalanced ==
  ASSUME Intact, EndConstructor
  PROVE  ModuleBal'
<1> DEFINE ctor == Outer
           ty == outer[1]
           line == IF ctor.n > 0 THEN ctor.last.end ELSE ctor.line
           q == Skip(p)
           r == DropLineTrail(q, line)
           cs == Separated(r, ty, ctor)
           both == cs.lead \cup cs.inline
           s == Unclaimed(r, ty.snap, both)
           held == Hold(ctor, LineTrail(q, line) \o Claimed(r, ty.snap, cs.inline))
           fr == AddPart(ty, Lead(Close(held, r), Claimed(r, ty.snap, cs.lead)))
           fs == <<[fr EXCEPT !.lim = Here(s)]>>
           node == Close(fr, s)
<1>1. at \in InDeclaration
  BY DEF EndConstructor, Runs, InDeclaration
<1>2. HeldAt(at) = 0 /\ Level(q) /\ ty.snap \in Nat
  BY <1>1, InDeclarationMoves, LevelReading
<1> HIDE DEF q, line, ctor, ty
<1>3. Level(r)
  <2>1. OK(q) /\ Good(q)
    BY <1>2, LevelReading
  <2> QED BY <1>2, <2>1, LineTrailThinner, ThinMoves
<1> HIDE DEF r, cs, both
<1>4. Level(s)
  <2>1. OK(r) /\ Good(r)
    BY <1>3, LevelReading
  <2> QED BY <1>2, <1>3, <2>1, UnclaimedThinner, ThinMoves
<1> HIDE DEF s, held, fr, fs, node
<1>5. Peek(s) = "|" => Level(Advance(s))
  BY <1>4, LevelReading, WordsAreFlat
<1>6. \/ Peek(s) = "|" /\ Proceed(Advance(s), fs, "constructor")
      \/ EndDeclaration(s, node, doc)
  BY Zenon DEF EndConstructor, ctor, ty, line, q, r, cs, both, s, held, fr, fs, node
<1>7. "constructor" \in InDeclaration
  BY DEF InDeclaration
<1>8. CASE EndDeclaration(s, node, doc)
  BY <1>2, <1>4, <1>8, DeclarationClosed
<1> QED BY <1>2, <1>5, <1>6, <1>7, <1>8, NoneHeld, Stays
-----------------------------------------------------------------------------
(* Rows of tokens, errors, the machine below, and the theorem.             *)

LEMMA ExpectedBalanced ==
  ASSUME ModuleInv, ModuleBal, errors = <<>>, ExpectedToken
  PROVE  ModuleBal'
<1> DEFINE q == Skip(p)
           r == Advance(q)
<1>1. ctl = "ok" /\ want # <<>> /\ want \in Rows /\ conts = <<>> /\ at \notin Skipping
  BY DEF ExpectedToken, ModuleInv, ModuleTypeOK, MachineFits, ModuleBal
<1>2. Stream /\ Ordered /\ OK(p) /\ Good(p) /\ p.ctx = 0 /\ p.depth \in Nat /\ Counted(p.depth, at, want)
  BY <1>1, Reader DEF ModuleBal, Good, OK, Cursor
<1>3. Good(q) /\ q.depth = p.depth /\ q.pos = p.pos /\ Peek(q) = toks[q.pos].kind
  BY <1>2, SkipGood
<1> HIDE DEF q
<1>4. /\ Good(r) /\ q.depth \in Nat
      /\ Opens(q) => r.depth = q.depth + 1
      /\ Closes(q) /\ q.depth > 0 => r.depth = q.depth - 1
      /\ Flat(q) => r.depth = q.depth
  BY <1>2, <1>3, AdvanceGood
<1>5. /\ Opener(want[1]) \/ Closer(want[1]) \/ Neutral(want[1])
      /\ Opener(want[1]) => Counted(p.depth + 1, at, Tail(want))
      /\ Closer(want[1]) => p.depth > 0 /\ Counted(p.depth - 1, at, Tail(want))
      /\ Neutral(want[1]) => Counted(p.depth, at, Tail(want))
  BY <1>1, <1>2, RowGoesOn DEF Rows
<1> HIDE DEF r
<1>6. CASE Raise(q)
  BY <1>6, RaiseLands
<1>7. CASE Peek(q) \in want[1] /\ Expect(Tail(want), r, outer, at)
  <2>2. /\ Opener(want[1]) => Opens(q)
        /\ Closer(want[1]) => Closes(q)
        /\ Neutral(want[1]) => Flat(q)
    BY <1>3, <1>7, Zenon DEF Opener, Closer, Neutral, Opens, Closes, Flat
  <2>3. Counted(r.depth, at, Tail(want))
    BY <1>3, <1>4, <1>5, <2>2
  <2>4. "ok" \in Callable
    BY DEF Callable
  <2> QED BY <1>1, <1>2, <1>4, <1>7, <2>3, <2>4, Lands DEF Expect
<1>8. \/ Peek(q) \in want[1] /\ Expect(Tail(want), r, outer, at)
      \/ Raise(q)
  BY Zenon DEF ExpectedToken, q, r
<1> QED BY <1>6, <1>7, <1>8

LEMMA BelowBalanced ==
  ASSUME ModuleInv, ModuleBal, errors = <<>>, Below
  PROVE  ModuleBal'
<1>1. ExprNext /\ at' = at /\ errors' = errors
  BY DEF Below
<1>2. WorksNext
  BY <1>1, StepWorks
<1>3. BalInv'
  <2>1. IInv /\ BalInv
    BY <1>2 DEF WorksNext, ModuleInv, ModuleBal
  <2>2. [ExprStep]_vars
    BY <1>1 DEF ExprStep
  <2> QED BY <2>1, <2>2, StepsKeepBalance
<1>4. ctl' # "ok"
  BY <1>2 DEF WorksNext
<1> QED BY <1>1, <1>3, <1>4 DEF ModuleBal

(* A module-level function runs on its own turn.                           *)
LEMMA TurnsAre ==
  ASSUME ModuleInv, ModuleBal, errors = <<>>, at \notin Skipping,
         \/ HeaderNext \/ ExposingNext \/ ImportNext
         \/ DeclarationStep /\ ~ExpectedToken
         \/ NextDeclaration \/ EndOfText
  PROVE  Intact
<1>1. CASE HeaderNext
  BY <1>1 DEF Intact, HeaderNext, ParseHeader, MoreName, AfterModuleName, EffectKey, EffectComma, Runs
<1>2. CASE ExposingNext
  BY <1>2 DEF Intact, ExposingNext, OpenExposing, Exposed, Everything, ExposedItem, ExposedType, EndItem, Runs
<1>3. CASE ImportNext
  BY <1>3 DEF Intact, ImportNext, ParseImport, ModuleDoc, NoMoreImports, AfterImportName, AfterImportAlias, Runs
<1>4. CASE NextDeclaration \/ EndOfText
  BY <1>4 DEF Intact, NextDeclaration, EndOfText, Runs
<1>5. CASE DeclarationStep /\ ~ExpectedToken
  <2>1. CASE TypeArm \/ PortArm \/ InfixArm \/ FunctionArm \/ DestructuringArm \/ NoDeclaration
    BY <2>1 DEF Intact, TypeArm, PortArm, InfixArm, FunctionArm, DestructuringArm, NoDeclaration, Arm, Runs
  <2>2. CASE AfterSignature \/ FunctionArguments \/ AfterFunctionArgument \/ AfterFunctionBody
             \/ AfterDestructured \/ DestructuredBody \/ AfterDestructuredBody \/ AfterPortSignature
    BY <2>2 DEF Intact, AfterSignature, FunctionArguments, AfterFunctionArgument, AfterFunctionBody,
       AfterDestructured, DestructuredBody, AfterDestructuredBody, AfterPortSignature, Runs, Given
  <2>3. CASE InfixDeclaration \/ TypeName \/ Generic \/ AliasEquals \/ AfterAliasedType \/ CustomEquals
    BY <2>3 DEF Intact, InfixDeclaration, TypeName, Generic, AliasEquals, AfterAliasedType, CustomEquals, Runs, Given
  <2>4. CASE Constructor \/ ConstructorField \/ AfterConstructorField \/ EndConstructor
    BY <2>4 DEF Intact, Constructor, ConstructorField, AfterConstructorField, EndConstructor, Runs, Given
  <2> QED BY <1>5, <2>1, <2>2, <2>3, <2>4 DEF DeclarationStep, DeclarationNext
<1> QED BY <1>1, <1>2, <1>3, <1>4, <1>5

LEMMA ModuleStepsBalanced ==
  ASSUME ModuleInv, ModuleBal, errors = <<>>, ModuleNext, ~CatchError
  PROVE  ModuleBal'
<1>1. at \notin Skipping
  BY DEF ModuleBal
<1>2. CASE Below
  BY <1>2, BelowBalanced
<1>3. CASE ExpectedToken
  BY <1>3, ExpectedBalanced
<1>4. CASE HeaderNext
  <2>1. Intact
    BY <1>1, <1>4, TurnsAre
  <2> QED BY <1>4, <2>1, HeaderBalanced, NamesBalanced, EffectsBalanced DEF HeaderNext
<1>5. CASE ExposingNext
  <2>1. Intact
    BY <1>1, <1>5, TurnsAre
  <2> QED BY <1>5, <2>1, OpenBalanced, ExposedBalanced, ItemsBalanced, EndItemBalanced DEF ExposingNext
<1>6. CASE ImportNext
  <2>1. Intact
    BY <1>1, <1>6, TurnsAre
  <2> QED BY <1>6, <2>1, ImportNamesBalanced, LoopsBalanced DEF ImportNext
<1>7. CASE NextDeclaration \/ EndOfText
  <2>1. Intact
    BY <1>1, <1>7, TurnsAre
  <2> QED BY <1>7, <2>1, LoopsBalanced
<1>8. CASE DeclarationStep /\ ~ExpectedToken
  <2>1. Intact
    BY <1>1, <1>8, TurnsAre
  <2>2. CASE TypeArm \/ PortArm \/ InfixArm \/ FunctionArm \/ DestructuringArm \/ NoDeclaration
    BY <2>1, <2>2, KeywordArmsBalanced, OtherArmsBalanced
  <2>3. CASE AfterSignature \/ FunctionArguments \/ AfterFunctionArgument
    BY <2>1, <2>3, ArgumentsBalanced
  <2>4. CASE \/ AfterFunctionBody \/ AfterDestructured \/ DestructuredBody \/ AfterDestructuredBody
             \/ AfterPortSignature \/ InfixDeclaration \/ AfterAliasedType
    BY <2>1, <2>4, BodiesBalanced
  <2>5. CASE TypeName \/ Generic \/ AliasEquals
    BY <2>1, <2>5, HeadingsBalanced
  <2>6. CASE CustomEquals
    BY <2>1, <2>6, CustomEqualsBalanced
  <2>7. CASE Constructor \/ ConstructorField \/ AfterConstructorField
    BY <2>1, <2>7, ConstructorsBalanced
  <2>8. CASE EndConstructor
    BY <2>1, <2>8, EndConstructorBalanced
  <2> QED BY <1>8, <2>2, <2>3, <2>4, <2>5, <2>6, <2>7, <2>8 DEF DeclarationStep, DeclarationNext
<1>9. ~SkipToken /\ ~EndSkip
  BY <1>1 DEF SkipToken, EndSkip
<1> QED BY <1>2, <1>3, <1>4, <1>5, <1>6, <1>7, <1>8, <1>9 DEF ModuleNext

(* An error ends what is claimed, and no step takes an error back.         *)
LEMMA ErrorsAreKept ==
  ASSUME ModuleInv, ModuleNext
  PROVE  /\ CatchError => errors' # <<>>
         /\ ~CatchError => errors' = errors
<1>1. errors \in Seq(Nat)
  BY DEF ModuleInv, ModuleTypeOK
<1>2. CatchError => errors' # <<>>
  BY <1>1 DEF CatchError
<1>3. Below \/ DeclarationStep => errors' = errors
  BY DEF Below, DeclarationStep
<1>4. HeaderNext => errors' = errors
  BY DEF HeaderNext, ParseHeader, MoreName, AfterModuleName, EffectKey, EffectComma, Rest
<1>5. ExposingNext => errors' = errors
  BY DEF ExposingNext, OpenExposing, Exposed, Everything, ExposedItem, ExposedType, EndItem, Rest
<1>6. ImportNext => errors' = errors
  BY DEF ImportNext, ParseImport, ModuleDoc, NoMoreImports, AfterImportName, AfterImportAlias, Rest
<1>7. NextDeclaration \/ EndOfText \/ SkipToken \/ EndSkip => errors' = errors
  BY DEF NextDeclaration, EndOfText, SkipToken, EndSkip, Rest
<1> QED BY <1>2, <1>3, <1>4, <1>5, <1>6, <1>7 DEF ModuleNext

LEMMA ModuleBalanceKept == ASSUME ModuleInv, ModuleBal, [ModuleNext]_moduleVars PROVE ModuleBal'
<1>1. CASE UNCHANGED moduleVars
  <2>1. UNCHANGED vars /\ at' = at /\ want' = want /\ errors' = errors
    BY <1>1 DEF moduleVars
  <2>2. toks' = toks /\ p' = p /\ ctl' = ctl
    BY <2>1 DEF vars
  <2>3. BalInv => BalInv'
    BY <2>1, StepsKeepBalance DEF ModuleInv
  <2>4. Sorted(p)' <=> Sorted(p)
    <3>1. Reread' = Reread
      BY <2>2, ZenonT(60) DEF Reread
    <3>2. Here(p)' = Here(p)
      BY <2>2 DEF Here
    <3> QED BY <2>2, <3>1, <3>2 DEF Sorted, Rising, AllBefore, Here
  <2> QED BY <2>1, <2>2, <2>3, <2>4 DEF ModuleBal
<1>2. CASE ModuleNext /\ errors' # <<>>
  BY <1>2 DEF ModuleBal
<1>3. CASE ModuleNext /\ errors' = <<>>
  BY <1>3, ErrorsAreKept, ModuleStepsBalanced
<1> QED BY <1>1, <1>2, <1>3

LEMMA InitiallyModuleBal == ASSUME ModuleInit PROVE ModuleBal
<1>1. p = Start /\ ctl = "ok" /\ at = "header" /\ want = <<>> /\ at \notin Skipping
  BY DEF ModuleInit, Skipping
<1>2. Sorted(p)
  <2>1. p.pending = <<>>
    BY <1>1 DEF Start
  <2> QED BY <2>1 DEF Sorted, Rising, AllBefore
<1>3. p.ctx = 0 /\ p.depth = 0
  BY <1>1 DEF Start
<1>4. HeldAt("header") = 0
  BY DEF HeldAt, Bracketed
<1>5. 0 \in Nat /\ 0 = HeldAt("header")
  BY <1>4
<1>6. Counted(0, "header", <<>>)
  BY <1>5, NoneAwaited
<1> QED BY <1>1, <1>2, <1>3, <1>6 DEF ModuleBal

LEMMA WhatModuleBalSays == ASSUME ModuleInv, ModuleBal PROVE ModuleBracketsBalanced
<1> SUFFICES ASSUME errors = <<>>, ctl # "error", want = <<>>
             PROVE  p.depth = Cardinality(Open(Append(conts, calls))) + HeldAt(at)
  BY DEF ModuleBracketsBalanced, HeldAt, Bracketed
<1>1. p.depth \in Nat
  BY Reader DEF OK, Cursor
<1>2. CASE ctl = "ok"
  <2>1. conts = <<>> /\ calls = <<>> /\ Counted(p.depth, at, <<>>)
    BY <1>2 DEF ModuleInv, MachineFits, ModuleBal
  <2>2. p.depth = HeldAt(at)
    BY <1>1, <2>1, NoneAwaited
  <2>3. Stack(conts) /\ Stack(calls)
    <3>1. conts \in Seq(Seq(Frame)) /\ calls \in Seq(Frame)
      BY <2>1
    <3> QED BY <3>1 DEF Stack
  <2>4. Open(conts) = {} /\ BracketsOf(calls) = {}
    BY <2>1 DEF Open, BracketsOf
  <2>5. IsFiniteSet({}) /\ Cardinality({}) = 0
    BY FS_EmptySet
  <2>6. Cardinality(Open(Append(conts, calls))) = Cardinality(Open(conts)) + Count(calls)
    BY <2>3, <2>4, <2>5, OpenAppend
  <2>7. HeldAt(at) \in Nat
    BY DEF HeldAt
  <2> QED BY <2>2, <2>4, <2>5, <2>6, <2>7 DEF Count
<1>3. CASE ctl # "ok"
  <2>1. BalInv /\ IInv /\ at \in Waits
    BY <1>3 DEF ModuleInv, MachineFits, ModuleBal
  <2>2. Stack(conts) /\ Stack(calls)
    BY <2>1, Ready DEF IInv, TypeOK, Stack
  <2>3. p.depth = Cardinality(Open(Append(conts, calls)))
    BY <2>1, <2>2, OpenAppend DEF BalInv, DepthIsOpen
  <2>4. HeldAt(at) = 0
    BY <2>1 DEF HeldAt, Bracketed, Waits
  <2> QED BY <1>1, <2>3, <2>4
<1> QED BY <1>2, <1>3

(* Up to the first error, whatever the text and in both modes, paren_depth *)
(* is the number of brackets the functions in progress hold, counted over  *)
(* every box of the trampoline and the exposing list or effect block that  *)
(* is read: every declaration starts with layout in force, and no path     *)
(* through the header, the imports or a declaration leaves its brackets    *)
(* uneven.                                                                 *)
THEOREM ModuleBracketsStayBalanced == ModuleSpec => []ModuleBracketsBalanced
<1>1. ModuleInit => ModuleBal
  BY InitiallyModuleBal
<1>2. ModuleInv /\ ModuleBal /\ [ModuleNext]_moduleVars => ModuleBal'
  BY ModuleBalanceKept
<1>3. ModuleInv /\ ModuleBal => ModuleBracketsBalanced
  BY WhatModuleBalSays
<1> QED BY <1>1, <1>2, <1>3, ModuleInvariance, PTL DEF ModuleSpec
=============================================================================
