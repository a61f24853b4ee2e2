---------------------------- MODULE TallyProofs ----------------------------
(***************************************************************************)
(* The account of the comments.  Of every comment c it counts the copies:  *)
(* those pending, and those that boxes, stack and value hold (Total).      *)
(* Tally says that a cursor with n copies held elsewhere has lost none of  *)
(* what it passed; the operations on a cursor keep it, each moving copies  *)
(* from the pending buffer to the one who claims them.  CommentInv is the  *)
(* inductive invariant, and a Sound step keeps it for c.  The steps are of *)
(* few kinds: a frame is pushed, swapped, boxed or left, with what its     *)
(* locals hold before and after.  CommentProofs takes the actions to them. *)
(***************************************************************************)
EXTENDS ExprProofs
LOCAL INSTANCE FiniteSetTheorems
LOCAL INSTANCE SequenceTheorems
LOCAL INSTANCE Functions
LOCAL INSTANCE SequencesExt
-----------------------------------------------------------------------------
(* How often a comment occurs in a sequence.                               *)

LEMMA TimesAre ==
  ASSUME NEW C, NEW s \in Seq(C), NEW c
  PROVE  /\ Times(c, s) \in Nat
         /\ IsFiniteSet({i \in 1..Len(s) : s[i] = c})
         /\ c \in Elements(s) <=> Times(c, s) >= 1
<1> DEFINE A == {i \in 1..Len(s) : s[i] = c}
<1>1. Len(s) \in Nat
  OBVIOUS
<1>2. IsFiniteSet(1..Len(s)) /\ A \in SUBSET (1..Len(s))
  BY <1>1, FS_Interval
<1>3. IsFiniteSet(A)
  BY <1>2, FS_Subset
<1>4. Cardinality(A) \in Nat
  BY <1>3, FS_CardinalityType
<1>5. c \in Elements(s) <=> A # {}
  BY DEF Elements
<1>6. A # {} <=> Cardinality(A) # 0
  BY <1>3, FS_EmptySet
<1> QED BY <1>3, <1>4, <1>5, <1>6 DEF Times

LEMMA TimesNone == ASSUME NEW c PROVE Times(c, <<>>) = 0
<1>1. {i \in 1..Len(<<>>) : <<>>[i] = c} = {}
  OBVIOUS
<1> QED BY <1>1, FS_EmptySet DEF Times

LEMMA TimesAppend ==
  ASSUME NEW C, NEW s \in Seq(C), NEW e \in C, NEW c
  PROVE  Times(c, Append(s, e)) = Times(c, s) + (IF e = c THEN 1 ELSE 0)
<1> DEFINE t == Append(s, e)
           A == {i \in 1..Len(s) : s[i] = c}
           B == {i \in 1..Len(t) : t[i] = c}
           n == Len(s) + 1
<1>1. /\ Len(s) \in Nat /\ Len(t) = n /\ t[n] = e /\ \A i \in 1..Len(s) : t[i] = s[i]
  BY AppendProperties
<1>2. IsFiniteSet(A) /\ Cardinality(A) = Times(c, s) /\ n \notin A /\ Times(c, s) \in Nat
  BY <1>1, TimesAre DEF Times
<1> HIDE DEF t
<1>3. B = IF e = c THEN A \cup {n} ELSE A
  <2>1. 1..n = 1..Len(s) \cup {n} /\ n \notin 1..Len(s)
    BY <1>1
  <2> HIDE DEF n
  <2> QED BY <1>1, <2>1
<1>4. Times(c, t) = Cardinality(B)
  BY DEF Times
<1>5. Cardinality(A \cup {n}) = Cardinality(A) + 1
  <2> HIDE DEF A, n
  <2> QED BY <1>2, FS_AddElement
<1> HIDE DEF A, B, n
<1> QED BY <1>2, <1>3, <1>4, <1>5 DEF t

LEMMA TimesOne ==
  ASSUME NEW e, NEW c
  PROVE  Times(c, <<e>>) = IF e = c THEN 1 ELSE 0
<1>1. <<>> \in Seq({e}) /\ <<e>> = Append(<<>>, e) /\ e \in {e}
  OBVIOUS
<1>2. Times(c, Append(<<>>, e)) = Times(c, <<>>) + (IF e = c THEN 1 ELSE 0)
  BY <1>1, TimesAppend
<1> QED BY <1>1, <1>2, TimesNone

LEMMA TimesConcat ==
  ASSUME NEW C, NEW s \in Seq(C), NEW t \in Seq(C), NEW c
  PROVE  Times(c, s \o t) = Times(c, s) + Times(c, t)
<1> DEFINE T == {n \in 0..Len(t) : Times(c, s \o SubSeq(t, 1, n)) # Times(c, s) + Times(c, SubSeq(t, 1, n))}
           u(n) == SubSeq(t, 1, n)
<1>0. Len(t) \in Nat
  OBVIOUS
<1>1. \A n \in 0..Len(t) : u(n) \in Seq(C)
  <2> SUFFICES ASSUME NEW n \in 0..Len(t) PROVE u(n) \in Seq(C)
    OBVIOUS
  <2>1. \A k \in 1..n : t[k] \in C
    BY <1>0
  <2>2. n \in Int /\ 1 \in Int
    BY <1>0
  <2> QED BY <2>1, <2>2, SubSeqProperties
<1>2. T = {}
  <2> SUFFICES ASSUME T # {} PROVE FALSE
    OBVIOUS
  <2>1. PICK n \in T : \A k \in T : n <= k
    <3>1. T \in SUBSET Nat
      BY <1>0
    <3> HIDE DEF T
    <3> QED BY <3>1, LeastNat
  <2>2. n \in 0..Len(t)
    OBVIOUS
  <2>3. n # 0
    <3> SUFFICES ASSUME n = 0 PROVE FALSE
      OBVIOUS
    <3>1. u(n) = <<>>
      BY SubSeqEmpty
    <3>2. s \o <<>> = s
      BY ConcatEmptySeq
    <3>3. Times(c, <<>>) = 0 /\ Times(c, s) \in Nat
      BY TimesNone, TimesAre
    <3>4. Times(c, s \o u(n)) # Times(c, s) + Times(c, u(n))
      OBVIOUS
    <3> HIDE DEF u
    <3>5. s \o u(n) = s
      BY <3>1, <3>2
    <3>6. Times(c, u(n)) = 0
      BY <3>1, <3>3
    <3>7. Times(c, s \o u(n)) = Times(c, s)
      BY <3>5, Zenon
    <3> DEFINE x == Times(c, s)
    <3>8. x \in Nat /\ x # x + 0
      BY <3>3, <3>4, <3>6, <3>7, Zenon
    <3> HIDE DEF x
    <3> QED BY <3>8
  <2> DEFINE m == n - 1
  <2>4. m \in 0..Len(t) /\ ~(n <= m) /\ n \in 1..Len(t) /\ t[n] \in C
    BY <2>2, <2>3, <1>0
  <2>5. Times(c, s \o u(m)) = Times(c, s) + Times(c, u(m))
    BY <2>1, <2>4
  <2>6. u(n) = Append(u(m), t[n])
    <3>1. 1 \in 1..Len(t) /\ n \in 1..Len(t) /\ u(m) \in Seq(C)
      BY <1>1, <2>4
    <3>2. u(n) = u(m) \o <<t[n]>>
      BY <3>1, SubSeqRecursiveSecond
    <3> HIDE DEF u
    <3> QED BY <3>1, <3>2, <2>4, AppendIsConcat
  <2>7. s \o u(n) = Append(s \o u(m), t[n]) /\ u(m) \in Seq(C) /\ s \o u(m) \in Seq(C)
    <3>1. u(m) \in Seq(C)
      BY <1>1, <2>4
    <3> HIDE DEF u
    <3> QED BY SMTT(30), <3>1, <2>6, <2>4
  <2> HIDE DEF u, m
  <2>8. Times(c, s \o u(n)) = Times(c, s) + Times(c, u(n))
    <3>1. Times(c, u(n)) = Times(c, u(m)) + (IF t[n] = c THEN 1 ELSE 0)
      BY <2>4, <2>6, <2>7, TimesAppend
    <3>2. Times(c, s \o u(n)) = Times(c, s \o u(m)) + (IF t[n] = c THEN 1 ELSE 0)
      <4> DEFINE v == s \o u(m)
      <4>1. v \in Seq(C) /\ s \o u(n) = Append(v, t[n])
        BY <2>7
      <4> HIDE DEF v
      <4>2. Times(c, Append(v, t[n])) = Times(c, v) + (IF t[n] = c THEN 1 ELSE 0)
        BY <2>4, <4>1, TimesAppend
      <4> QED BY <4>1, <4>2 DEF v
    <3>3. Times(c, s) \in Nat /\ Times(c, u(m)) \in Nat
      BY <2>7, TimesAre
    <3> QED BY <3>1, <3>2, <3>3, <2>5
  <2> QED BY <2>8 DEF u
<1>3. Len(t) \notin T
  BY <1>2
<1>4. u(Len(t)) = t
  BY SubSeqFull
<1>5. Times(c, s \o u(Len(t))) = Times(c, s) + Times(c, u(Len(t)))
  BY <1>0, <1>3
<1> HIDE DEF u
<1> QED BY <1>4, <1>5

(* A sequence cut in two.                                                  *)
LEMMA TimesCut ==
  ASSUME NEW C, NEW s \in Seq(C), NEW n \in 0..Len(s), NEW c
  PROVE  /\ SubSeq(s, 1, n) \in Seq(C) /\ SubSeq(s, n + 1, Len(s)) \in Seq(C)
         /\ Times(c, s) = Times(c, SubSeq(s, 1, n)) + Times(c, SubSeq(s, n + 1, Len(s)))
<1>1. SubSeq(s, 1, n) \in Seq(C) /\ SubSeq(s, n + 1, Len(s)) \in Seq(C)
  <2>1. \A k \in 1..n : s[k] \in C
    OBVIOUS
  <2>2. \A k \in (n + 1)..Len(s) : s[k] \in C
    OBVIOUS
  <2>3. 1 \in Int /\ n \in Int /\ n + 1 \in Int /\ Len(s) \in Int
    OBVIOUS
  <2>4. SubSeq(s, 1, n) \in Seq(C)
    BY <2>1, <2>3, SubSeqProperties
  <2>5. SubSeq(s, n + 1, Len(s)) \in Seq(C)
    BY <2>2, <2>3, SubSeqProperties
  <2> QED BY <2>4, <2>5
<1>2. s = SubSeq(s, 1, n) \o SubSeq(s, n + 1, Len(s))
  <2>1. 1 \in 1..(Len(s) + 1) /\ n \in (1 - 1)..Len(s) /\ Len(s) \in n..Len(s)
    OBVIOUS
  <2>2. SubSeq(s, 1, n) \o SubSeq(s, n + 1, Len(s)) = SubSeq(s, 1, Len(s))
    BY <2>1, ConcatAdjacentSubSeq
  <2> QED BY <2>2, SubSeqFull
<1> QED BY <1>1, <1>2, TimesConcat

LEMMA TimesSelect ==
  ASSUME NEW C, NEW s \in Seq(C), NEW S, NEW c
  PROVE  Times(c, Select(s, S)) = IF c \in S THEN Times(c, s) ELSE 0
<1> DEFINE u(n) == SubSeq(s, 1, n)
<1>0. Len(s) \in Nat
  OBVIOUS
<1>1. PICK G : /\ Select(s, S) = G[Len(s)]
               /\ \A n \in 0..Len(s) :
                    /\ G[n] \in Seq(C \cap S)
                    /\ G[n] = IF n = 0 THEN <<>>
                              ELSE IF s[n] \in S THEN Append(G[n - 1], s[n]) ELSE G[n - 1]
  BY SelectSolved
<1> DEFINE T == {n \in 0..Len(s) : Times(c, G[n]) # IF c \in S THEN Times(c, u(n)) ELSE 0}
<1>2. T = {}
  <2> SUFFICES ASSUME T # {} PROVE FALSE
    OBVIOUS
  <2>1. PICK n \in T : \A k \in T : n <= k
    <3>1. T \in SUBSET Nat
      BY <1>0
    <3> HIDE DEF T
    <3> QED BY <3>1, LeastNat
  <2>2. n \in 0..Len(s)
    OBVIOUS
  <2>3. n # 0
    <3> SUFFICES ASSUME n = 0 PROVE FALSE
      OBVIOUS
    <3>1. u(n) = <<>> /\ G[n] = <<>>
      BY <1>1, <2>2, SubSeqEmpty
    <3> QED BY <3>1, TimesNone
  <2> DEFINE m == n - 1
             e == s[n]
  <2>4. m \in 0..Len(s) /\ ~(n <= m) /\ n \in 1..Len(s) /\ e \in C
    BY <2>2, <2>3, <1>0
  <2>5. Times(c, G[m]) = IF c \in S THEN Times(c, u(m)) ELSE 0
    BY <2>1, <2>4
  <2>6. u(n) = Append(u(m), e) /\ u(m) \in Seq(C)
    <3>1. u(m) \in Seq(C)
      BY <2>4, TimesCut
    <3>2. 1 \in 1..Len(s) /\ n \in 1..Len(s)
      BY <2>4
    <3>3. u(n) = u(m) \o <<e>>
      BY <3>2, SubSeqRecursiveSecond
    <3> HIDE DEF u, e, m
    <3>4. u(m) \o <<e>> = Append(u(m), e)
      BY <3>1, <2>4, AppendIsConcat
    <3> QED BY <3>1, <3>3, <3>4
  <2>7. G[n] = (IF e \in S THEN Append(G[m], e) ELSE G[m]) /\ G[m] \in Seq(C \cap S)
    BY <1>1, <2>4, <2>3
  <2> HIDE DEF u, m, e
  <2>8. Times(c, u(n)) = Times(c, u(m)) + (IF e = c THEN 1 ELSE 0) /\ Times(c, u(m)) \in Nat
    <3>1. Times(c, Append(u(m), e)) = Times(c, u(m)) + (IF e = c THEN 1 ELSE 0)
      BY <2>4, <2>6, TimesAppend
    <3>2. Times(c, u(m)) \in Nat
      BY <2>6, TimesAre
    <3> QED BY <3>1, <3>2, <2>6
  <2>9. e \in S => Times(c, Append(G[m], e)) = Times(c, G[m]) + (IF e = c THEN 1 ELSE 0)
    <3> SUFFICES ASSUME e \in S PROVE Times(c, Append(G[m], e)) = Times(c, G[m]) + (IF e = c THEN 1 ELSE 0)
      OBVIOUS
    <3>1. e \in C \cap S
      BY <2>4
    <3> QED BY <3>1, <2>7, TimesAppend
  <2>10. Times(c, G[n]) = IF c \in S THEN Times(c, u(n)) ELSE 0
    <3>1. CASE e \in S
      BY <3>1, <2>5, <2>7, <2>8, <2>9
    <3>2. CASE e \notin S
      BY <3>2, <2>5, <2>7, <2>8
    <3> QED BY <3>1, <3>2
  <2> QED BY <2>10 DEF u
<1>3. Len(s) \notin T
  BY <1>2
<1>4. u(Len(s)) = s
  BY SubSeqFull
<1>5. Times(c, G[Len(s)]) = IF c \in S THEN Times(c, u(Len(s))) ELSE 0
  BY <1>0, <1>3
<1> HIDE DEF u
<1> QED BY <1>1, <1>4, <1>5
-----------------------------------------------------------------------------
(* Sequences of sequences.                                                 *)

LEMMA FlattenSolved ==
  ASSUME NEW C, NEW ss \in Seq(Seq(C)), ss # <<>>
  PROVE  \E G : /\ FlattenSeq(ss) = G[Len(ss)]
                /\ \A n \in 1..Len(ss) :
                     /\ G[n] \in Seq(C)
                     /\ G[n] = IF n = 1 THEN ss[n] ELSE G[n - 1] \o ss[n]
<1> DEFINE D == Seq(C)
           N == Len(ss)
           Rec(f, n) == [i \in 1..n |-> IF i = 1 THEN ss[i] ELSE f[i - 1] \o ss[i]]
           Solved(n) == \E f \in [1..n -> D] : f = Rec(f, n)
<1>0. N \in Nat /\ N # 0 /\ \A i \in 1..N : ss[i] \in D
  BY EmptySeq
<1>1. \A n \in 1..N : Solved(n)
  <2> DEFINE T == {n \in 1..N : ~Solved(n)}
  <2> SUFFICES ASSUME T # {} PROVE FALSE
    OBVIOUS
  <2>1. PICK n \in T : \A k \in T : n <= k
    <3>1. T \in SUBSET Nat
      <4>1. 1..N \subseteq Nat
        BY <1>0
      <4> HIDE DEF Solved, D, N, Rec
      <4>2. T \subseteq 1..N
        BY Zenon
      <4> HIDE DEF T
      <4> QED BY <4>1, <4>2
    <3> HIDE DEF T
    <3> QED BY <3>1, LeastNat
  <2>2. n \in 1..N /\ ~Solved(n)
    OBVIOUS
  <2>3. CASE n = 1
    <3> DEFINE g == [i \in 1..1 |-> ss[1]]
    <3>1. g \in [1..n -> D]
      BY <2>3, <1>0
    <3>2. g = Rec(g, n)
      BY <2>3
    <3> QED BY <3>1, <3>2, <2>2
  <2>4. CASE n # 1
    <3>1. n - 1 \in 1..N /\ ~(n <= n - 1)
      BY <1>0, <2>2, <2>4
    <3>2. Solved(n - 1)
      BY <3>1, <2>1
    <3>3. PICK f \in [1..(n - 1) -> D] : f = Rec(f, n - 1)
      BY <3>2
    <3> DEFINE last == f[n - 1] \o ss[n]
               g == [i \in 1..n |-> IF i = n THEN last ELSE f[i]]
    <3>4. last \in D
      <4>1. n - 1 \in 1..(n - 1) /\ n \in 1..N
        BY <1>0, <2>2, <2>4
      <4>2. f[n - 1] \in D /\ ss[n] \in D
        BY <4>1, <1>0
      <4> QED BY <4>2
    <3>5. g \in [1..n -> D]
      <4> SUFFICES ASSUME NEW i \in 1..n PROVE g[i] \in D
        OBVIOUS
      <4>1. i # n => i \in 1..(n - 1)
        BY <2>2
      <4> HIDE DEF D, last
      <4> QED BY <3>4, <4>1
    <3>6. \A i \in 1..n : g[i] = Rec(g, n)[i]
      <4> SUFFICES ASSUME NEW i \in 1..n PROVE g[i] = Rec(g, n)[i]
        OBVIOUS
      <4>1. CASE i = n
        <5>1. n # 1 /\ n \in 1..n /\ n - 1 \in 1..n /\ n - 1 # n
          BY <2>2, <2>4, <1>0
        <5>2. g[n - 1] = f[n - 1] /\ g[n] = last
          <6> HIDE DEF last
          <6> QED BY <5>1
        <5>3. Rec(g, n)[n] = g[n - 1] \o ss[n]
          <6> HIDE DEF g
          <6> QED BY <5>1
        <5> HIDE DEF g
        <5> QED BY <4>1, <5>2, <5>3
      <4>2. CASE i # n
        <5>1. i \in 1..(n - 1) /\ g[i] = f[i] /\ (i # 1 => g[i - 1] = f[i - 1])
          BY <4>2, <2>2
        <5>2. f[i] = Rec(f, n - 1)[i]
          BY <3>3
        <5> QED BY <5>1, <5>2
      <4> QED BY <4>1, <4>2
    <3>7. g = Rec(g, n)
      BY <3>5, <3>6
    <3> QED BY <3>5, <3>7, <2>2
  <2> QED BY <2>3, <2>4
<1> DEFINE G == CHOOSE f : f = Rec(f, N)
<1>2. G = Rec(G, N)
  <2>1. \E f : f = Rec(f, N)
    <3>1. Solved(N)
      <4> HIDE DEF Solved
      <4> QED BY <1>0, <1>1
    <3> HIDE DEF Rec
    <3> QED BY <3>1
  <2> HIDE DEF Rec
  <2> QED BY <2>1
<1>3. \A n \in 1..N : G[n] \in D
  <2> DEFINE T == {n \in 1..N : G[n] \notin D}
  <2> SUFFICES ASSUME T # {} PROVE FALSE
    OBVIOUS
  <2>1. PICK n \in T : \A k \in T : n <= k
    <3>1. T \in SUBSET Nat
      <4>1. 1..N \subseteq Nat
        BY <1>0
      <4> HIDE DEF Solved, D, N, Rec, G
      <4>2. T \subseteq 1..N
        BY Zenon
      <4> HIDE DEF T
      <4> QED BY <4>1, <4>2
    <3> HIDE DEF T
    <3> QED BY <3>1, LeastNat
  <2>2. n \in 1..N /\ G[n] \notin D
    BY SMTT(30)
  <2>3. G[n] = IF n = 1 THEN ss[n] ELSE G[n - 1] \o ss[n]
    BY <1>2, <2>2
  <2>4. n # 1 => n - 1 \in 1..N /\ ~(n <= n - 1)
    BY <1>0, <2>2
  <2>5. (n # 1 => G[n - 1] \in D) /\ ss[n] \in D
    BY <2>1, <2>2, <2>4, <1>0
  <2> HIDE DEF G
  <2>6. n # 1 => G[n - 1] \o ss[n] \in D
    BY <2>5
  <2> HIDE DEF D
  <2> QED BY <2>2, <2>3, <2>5, <2>6
<1>4. FlattenSeq(ss) = G[N]
  BY <1>0 DEF FlattenSeq
<1>5. \A n \in 1..N : G[n] = IF n = 1 THEN ss[n] ELSE G[n - 1] \o ss[n]
  <2> HIDE DEF G
  <2> QED BY <1>2
<1> HIDE DEF G
<1> QED BY <1>3, <1>4, <1>5

LEMMA FlattenNone == FlattenSeq(<<>>) = <<>>
BY DEF FlattenSeq

(* Flattening one sequence more.                                           *)
LEMMA FlattenAppend ==
  ASSUME NEW C, NEW ss \in Seq(Seq(C)), NEW t \in Seq(C)
  PROVE  /\ FlattenSeq(ss) \in Seq(C)
         /\ FlattenSeq(Append(ss, t)) = FlattenSeq(ss) \o t
<1>0. FlattenSeq(<<>>) = <<>>
  BY FlattenNone
<1>1. FlattenSeq(ss) \in Seq(C)
  <2>1. CASE ss = <<>>
    <3>1. <<>> \in Seq(C)
      OBVIOUS
    <3> QED BY <1>0, <2>1, <3>1
  <2>2. CASE ss # <<>>
    <3>1. Len(ss) \in 1..Len(ss)
      BY <2>2, EmptySeq
    <3> QED BY <2>2, <3>1, FlattenSolved
  <2> QED BY <2>1, <2>2
<1> DEFINE us == Append(ss, t)
           D == Seq(C)
<1>2. /\ us \in Seq(Seq(C)) /\ us # <<>> /\ Len(us) = Len(ss) + 1 /\ Len(ss) \in Nat
      /\ us[Len(us)] = t /\ \A i \in 1..Len(ss) : us[i] = ss[i]
  <2>1. ss \in Seq(D) /\ t \in D
    OBVIOUS
  <2> HIDE DEF D
  <2>2. /\ us \in Seq(D) /\ us # <<>> /\ Len(us) = Len(ss) + 1 /\ Len(ss) \in Nat
        /\ us[Len(us)] = t /\ \A i \in 1..Len(ss) : us[i] = ss[i]
    BY <2>1, AppendProperties
  <2> QED BY <2>2 DEF D
<1> HIDE DEF us
<1>3. PICK H : /\ FlattenSeq(us) = H[Len(us)]
               /\ \A n \in 1..Len(us) :
                     /\ H[n] \in Seq(C)
                     /\ H[n] = IF n = 1 THEN us[n] ELSE H[n - 1] \o us[n]
  <2>1. us \in Seq(Seq(C)) /\ us # <<>>
    BY <1>2
  <2> QED BY <2>1, FlattenSolved
<1>4. CASE ss = <<>>
  <2>1. Len(us) = 1
    BY <1>2, <1>4
  <2>2. FlattenSeq(us) = t
    BY <1>2, <1>3, <2>1
  <2>3. <<>> \o t = t
    BY ConcatEmptySeq
  <2> QED BY <1>0, <1>1, <1>4, <2>2, <2>3 DEF us
<1>5. CASE ss # <<>>
  <2>1. Len(ss) \in 1..Len(ss)
    BY <1>5, EmptySeq
  <2>2. PICK G : /\ FlattenSeq(ss) = G[Len(ss)]
                 /\ \A n \in 1..Len(ss) :
                     /\ G[n] \in Seq(C)
                     /\ G[n] = IF n = 1 THEN ss[n] ELSE G[n - 1] \o ss[n]
    BY <1>5, FlattenSolved
  <2> DEFINE T == {n \in 1..Len(ss) : G[n] # H[n]}
  <2>3. T = {}
    <3> SUFFICES ASSUME T # {} PROVE FALSE
      OBVIOUS
    <3>1. PICK n \in T : \A k \in T : n <= k
      <4>1. T \in SUBSET Nat
        OBVIOUS
      <4> HIDE DEF T
      <4> QED BY <4>1, LeastNat
    <3>2. n \in 1..Len(ss) /\ G[n] # H[n] /\ n \in 1..Len(us) /\ us[n] = ss[n]
      BY <1>2
    <3>3. n # 1 => n - 1 \in 1..Len(ss) /\ ~(n <= n - 1)
      BY <3>2
    <3>4. n # 1 => G[n - 1] = H[n - 1]
      BY <3>1, <3>3
    <3>5. G[n] = (IF n = 1 THEN ss[n] ELSE G[n - 1] \o ss[n]) /\ H[n] = IF n = 1 THEN us[n] ELSE H[n - 1] \o us[n]
      BY <1>3, <2>2, <3>2
    <3> QED BY <3>2, <3>4, <3>5
  <2>4. G[Len(ss)] = H[Len(ss)]
    BY <2>1, <2>3
  <2>5. H[Len(us)] = H[Len(ss)] \o t
    <3>1. Len(us) \in 1..Len(us) /\ Len(us) # 1 /\ Len(us) - 1 = Len(ss)
      BY <1>2, <2>1
    <3>2. H[Len(us)] = IF Len(us) = 1 THEN us[Len(us)] ELSE H[Len(us) - 1] \o us[Len(us)]
      BY <1>3, <3>1
    <3> QED BY <1>2, <3>1, <3>2
  <2> QED BY <1>0, <1>1, <1>3, <2>2, <2>4, <2>5 DEF us
<1> QED BY <1>4, <1>5

(* A sequence behind another, and one element more.                        *)
LEMMA ConcatAppend ==
  ASSUME NEW S, NEW s \in Seq(S), NEW t \in Seq(S), NEW e \in S
  PROVE  s \o t \in Seq(S) /\ s \o Append(t, e) = Append(s \o t, e)
OBVIOUS

(* Flattening two sequences one after the other.                           *)
LEMMA FlattenConcat ==
  ASSUME NEW C, NEW ss \in Seq(Seq(C)), NEW ts \in Seq(Seq(C)), NEW c
  PROVE  Times(c, FlattenSeq(ss \o ts)) = Times(c, FlattenSeq(ss)) + Times(c, FlattenSeq(ts))
<1> DEFINE u(n) == SubSeq(ts, 1, n)
           B(ss1) == Times(c, FlattenSeq(ss1))
           T == {n \in 0..Len(ts) : B(ss \o u(n)) # B(ss) + B(u(n))}
<1>0. Len(ts) \in Nat
  OBVIOUS
<1>1. \A n \in 0..Len(ts) : u(n) \in Seq(Seq(C))
  BY TimesCut
<1>2. T = {}
  <2> SUFFICES ASSUME T # {} PROVE FALSE
    OBVIOUS
  <2>1. PICK n \in T : \A k \in T : n <= k
    <3>1. T \in SUBSET Nat
      BY <1>0
    <3> HIDE DEF T
    <3> QED BY <3>1, LeastNat
  <2>2. n \in 0..Len(ts) /\ B(ss \o u(n)) # B(ss) + B(u(n))
    OBVIOUS
  <2>3. n # 0
    <3> SUFFICES ASSUME n = 0 PROVE FALSE
      OBVIOUS
    <3>1. u(n) = <<>>
      BY SubSeqEmpty
    <3> HIDE DEF u
    <3>2. ss \o u(n) = ss
      BY <3>1, ConcatEmptySeq
    <3>6. FlattenSeq(ss) \in Seq(C)
      <4>1. <<>> \in Seq(C)
        OBVIOUS
      <4> QED BY <4>1, FlattenAppend
    <3>3. B(u(n)) = 0
      BY <3>1, FlattenNone, TimesNone
    <3>4. B(ss) \in Nat
      BY <3>6, TimesAre
    <3>5. B(ss \o u(n)) = B(ss)
      BY <3>2, Zenon
    <3> HIDE DEF B
    <3> QED BY <2>2, <3>3, <3>4, <3>5
  <2> DEFINE m == n - 1
             e == ts[n]
  <2>4. m \in 0..Len(ts) /\ ~(n <= m) /\ n \in 1..Len(ts) /\ e \in Seq(C)
    <3>1. n \in 0..Len(ts)
      OBVIOUS
    <3> HIDE DEF B, T
    <3> QED BY <3>1, <2>3, <1>0
  <2>5. B(ss \o u(m)) = B(ss) + B(u(m))
    BY <2>1, <2>4
  <2>6. u(n) = Append(u(m), e) /\ u(m) \in Seq(Seq(C))
    <3>1. u(m) \in Seq(Seq(C))
      BY <2>4, <1>1
    <3>2. 1 \in 1..Len(ts) /\ n \in 1..Len(ts)
      BY <2>4
    <3>3. u(n) = u(m) \o <<e>>
      BY <3>2, SubSeqRecursiveSecond
    <3> HIDE DEF u, e, m
    <3>4. u(m) \o <<e>> = Append(u(m), e)
      BY <3>1, <2>4, AppendIsConcat
    <3> QED BY <3>1, <3>3, <3>4
  <2> DEFINE v == ss \o u(m)
             w == u(m)
  <2> HIDE DEF u, m, e
  <2>7. v \in Seq(Seq(C)) /\ w \in Seq(Seq(C)) /\ ss \o u(n) = Append(v, e) /\ u(n) = Append(w, e)
    <3> HIDE DEF B
    <3>1. w \in Seq(Seq(C)) /\ u(n) = Append(w, e) /\ e \in Seq(C)
      BY <2>4, <2>6
    <3> HIDE DEF w
    <3>2. ss \o w \in Seq(Seq(C)) /\ ss \o Append(w, e) = Append(ss \o w, e)
      BY <3>1, ConcatAppend
    <3>3. v = ss \o w
      BY DEF w
    <3> HIDE DEF v
    <3> QED BY <3>1, <3>2, <3>3, Zenon
  <2> HIDE DEF v, w
  <2>8. B(Append(v, e)) = B(v) + Times(c, e) /\ B(v) \in Nat
    <3>1. FlattenSeq(Append(v, e)) = FlattenSeq(v) \o e /\ FlattenSeq(v) \in Seq(C)
      BY <2>4, <2>7, FlattenAppend
    <3> DEFINE f == FlattenSeq(v)
    <3> HIDE DEF f
    <3>2. Times(c, f \o e) = Times(c, f) + Times(c, e) /\ Times(c, f) \in Nat
      BY <2>4, <3>1, TimesConcat, TimesAre DEF f
    <3> QED BY <3>1, <3>2 DEF f
  <2>9. B(Append(w, e)) = B(w) + Times(c, e) /\ B(w) \in Nat
    <3>1. FlattenSeq(Append(w, e)) = FlattenSeq(w) \o e /\ FlattenSeq(w) \in Seq(C)
      BY <2>4, <2>7, FlattenAppend
    <3> DEFINE f == FlattenSeq(w)
    <3> HIDE DEF f
    <3>2. Times(c, f \o e) = Times(c, f) + Times(c, e) /\ Times(c, f) \in Nat
      BY <2>4, <3>1, TimesConcat, TimesAre DEF f
    <3> QED BY <3>1, <3>2 DEF f
  <2>10. Times(c, e) \in Nat /\ B(ss) \in Nat
    <3>1. FlattenSeq(ss) \in Seq(C)
      BY <2>4, FlattenAppend
    <3> QED BY <2>4, <3>1, TimesAre
  <2>11. B(v) = B(ss) + B(w) /\ B(ss \o u(n)) = B(Append(v, e)) /\ B(u(n)) = B(Append(w, e))
    BY <2>5, <2>7, Zenon DEF v, w
  <2> HIDE DEF B
  <2> QED BY <2>2, <2>8, <2>9, <2>10, <2>11
<1>3. B(ss \o u(Len(ts))) = B(ss) + B(u(Len(ts)))
  BY <1>0, <1>2
<1>4. u(Len(ts)) = ts
  BY SubSeqFull
<1> HIDE DEF u
<1> QED BY <1>3, <1>4
-----------------------------------------------------------------------------
(* What a node, a frame and a stack hold of a comment.                     *)

Load(c, n) == Times(c, Carried(n))

OpsLoad(c, ops) == Times(c, FlattenSeq([i \in 1..Len(ops) |-> Carried(ops[i].left)]))

Bill(c, fr) == Times(c, HeldBy(fr))

Sum(c, cs) == Times(c, FlattenSeq([i \in 1..Len(cs) |-> HeldBy(cs[i])]))

Boxes(c) == Sum(c, FlattenSeq(conts))

Total(c) == Times(c, Attached)

LEMMA OpsLoads ==
  ASSUME NEW ops \in Seq(PendingOp), NEW c
  PROVE  /\ FlattenSeq([i \in 1..Len(ops) |-> Carried(ops[i].left)]) \in Seq(Comment)
         /\ OpsLoad(c, ops) \in Nat
         /\ OpsLoad(c, <<>>) = 0
         /\ \A o \in PendingOp : OpsLoad(c, Append(ops, o)) = OpsLoad(c, ops) + Load(c, o.left)
<1> DEFINE E(os) == [i \in 1..Len(os) |-> Carried(os[i].left)]
           D == Seq(Comment)
<1>1. \A o \in PendingOp : Carried(o.left) \in D
  BY NodeParts DEF PendingOp
<1>2. E(ops) \in Seq(D)
  <2>1. Len(ops) \in Nat /\ \A i \in 1..Len(ops) : ops[i] \in PendingOp
    OBVIOUS
  <2>2. \A i \in 1..Len(ops) : Carried(ops[i].left) \in D
    BY <1>1, <2>1
  <2> HIDE DEF D
  <2> QED BY <2>1, <2>2
<1>3. FlattenSeq(E(ops)) \in Seq(Comment)
  <2>1. <<>> \in Seq(Comment)
    OBVIOUS
  <2> HIDE DEF E
  <2> QED BY <1>2, <2>1, FlattenAppend
<1>4. OpsLoad(c, ops) \in Nat
  BY <1>3, TimesAre DEF OpsLoad
<1>5. OpsLoad(c, <<>>) = 0
  <2>1. E(<<>>) = <<>>
    OBVIOUS
  <2> QED BY <2>1, FlattenNone, TimesNone DEF OpsLoad
<1>6. ASSUME NEW o \in PendingOp PROVE OpsLoad(c, Append(ops, o)) = OpsLoad(c, ops) + Load(c, o.left)
  <2> DEFINE f == E(ops)
             t == Carried(o.left)
  <2>1. E(Append(ops, o)) = Append(f, t)
    <3>1. /\ Len(Append(ops, o)) = Len(ops) + 1 /\ Len(ops) \in Nat /\ Append(ops, o)[Len(ops) + 1] = o
          /\ \A i \in 1..Len(ops) : Append(ops, o)[i] = ops[i]
      BY AppendProperties
    <3>2. Len(f) = Len(ops) /\ \A i \in 1..Len(ops) : f[i] = Carried(ops[i].left)
      BY <3>1
    <3>3. f \in Seq(D) /\ t \in D
      BY <1>1, <1>2
    <3> HIDE DEF D
    <3>4. /\ Append(f, t) \in Seq(D) /\ Len(Append(f, t)) = Len(ops) + 1 /\ Append(f, t)[Len(ops) + 1] = t
          /\ \A i \in 1..Len(ops) : Append(f, t)[i] = Carried(ops[i].left)
      <4> HIDE DEF f
      <4> QED BY <3>2, <3>3, AppendProperties
    <3> DEFINE g == E(Append(ops, o))
    <3>5. Len(g) = Len(ops) + 1 /\ \A i \in 1..(Len(ops) + 1) : g[i] = Append(f, t)[i]
      <4>1. Len(g) = Len(ops) + 1
        BY <3>1
      <4>2. ASSUME NEW i \in 1..(Len(ops) + 1) PROVE g[i] = Append(f, t)[i]
        <5>1. g[i] = Carried(Append(ops, o)[i].left)
          BY <3>1
        <5>2. CASE i = Len(ops) + 1
          <6> HIDE DEF f, E, g
          <6> QED BY <3>1, <3>4, <5>1, <5>2
        <5>3. CASE i # Len(ops) + 1
          <6>1. i \in 1..Len(ops)
            BY <3>1, <5>3
          <6> HIDE DEF f, E, g
          <6> QED BY <3>1, <3>4, <5>1, <6>1
        <5> QED BY <5>2, <5>3
      <4> HIDE DEF f, E, g
      <4> QED BY <4>1, <4>2
    <3>6. g \in Seq(D)
      <4>1. Append(ops, o) \in Seq(PendingOp)
        OBVIOUS
      <4>2. \A i \in 1..(Len(ops) + 1) : Carried(Append(ops, o)[i].left) \in D
        <5> DEFINE os == Append(ops, o)
        <5>1. \A i \in 1..(Len(ops) + 1) : os[i] \in PendingOp
          BY <3>1
        <5> HIDE DEF os, D
        <5> QED BY <1>1, <5>1 DEF os
      <4> QED BY <3>1, <4>2
    <3> HIDE DEF f, E, g, D
    <3> QED BY <3>4, <3>5, <3>6, SeqEqual DEF g
  <2>2. t \in Seq(Comment)
    BY <1>1
  <2> HIDE DEF E
  <2>3. f \in Seq(Seq(Comment))
    BY <1>2
  <2> HIDE DEF f, t
  <2>4. FlattenSeq(Append(f, t)) = FlattenSeq(f) \o t /\ FlattenSeq(f) \in Seq(Comment)
    BY <2>2, <2>3, FlattenAppend
  <2>5. Times(c, FlattenSeq(f) \o t) = Times(c, FlattenSeq(f)) + Times(c, t)
    BY <2>2, <2>4, TimesConcat
  <2> QED BY <2>1, <2>4, <2>5 DEF OpsLoad, Load, E, f, t
<1> QED BY <1>3, <1>4, <1>5, <1>6

LEMMA Bills ==
  ASSUME NEW fr \in Frame, NEW c
  PROVE  /\ HeldBy(fr) \in Seq(Comment)
         /\ Bill(c, fr) = Times(c, fr.lead) + Times(c, fr.kept) + OpsLoad(c, fr.ops)
         /\ Times(c, fr.lead) \in Nat /\ Times(c, fr.kept) \in Nat /\ OpsLoad(c, fr.ops) \in Nat
<1> DEFINE o == FlattenSeq([i \in 1..Len(fr.ops) |-> Carried(fr.ops[i].left)])
           l == fr.lead
           k == fr.kept
<1>1. o \in Seq(Comment) /\ OpsLoad(c, fr.ops) \in Nat /\ OpsLoad(c, fr.ops) = Times(c, o)
  BY FrameParts, OpsLoads DEF OpsLoad
<1>2. l \in Seq(Comment) /\ k \in Seq(Comment)
  BY FrameParts
<1>3. HeldBy(fr) = l \o k \o o
  BY DEF HeldBy
<1> HIDE DEF o, l, k
<1>4. l \o k \in Seq(Comment) /\ l \o k \o o \in Seq(Comment)
  BY <1>1, <1>2
<1>5. Times(c, l \o k) = Times(c, l) + Times(c, k)
  BY <1>2, TimesConcat
<1> DEFINE lk == l \o k
<1>6. Times(c, lk \o o) = Times(c, lk) + Times(c, o)
  <2> HIDE DEF lk
  <2> QED BY <1>1, <1>4, TimesConcat DEF lk
<1>7. Times(c, l) \in Nat /\ Times(c, k) \in Nat
  BY <1>2, TimesAre
<1> QED BY <1>1, <1>3, <1>4, <1>5, <1>6, <1>7 DEF Bill, l, k

LEMMA HeldSeq ==
  ASSUME NEW cs \in Seq(Frame)
  PROVE  [i \in 1..Len(cs) |-> HeldBy(cs[i])] \in Seq(Seq(Comment))
<1> DEFINE D == Seq(Comment)
<1>1. Len(cs) \in Nat /\ \A i \in 1..Len(cs) : cs[i] \in Frame
  OBVIOUS
<1>2. \A i \in 1..Len(cs) : HeldBy(cs[i]) \in D
  BY <1>1, Bills
<1> HIDE DEF D
<1>3. [i \in 1..Len(cs) |-> HeldBy(cs[i])] \in Seq(D)
  BY <1>1, <1>2
<1> QED BY <1>3 DEF D

LEMMA SumConcat ==
  ASSUME NEW cs \in Seq(Frame), NEW ds \in Seq(Frame), NEW c
  PROVE  Sum(c, cs \o ds) = Sum(c, cs) + Sum(c, ds)
<1> DEFINE E(x) == [i \in 1..Len(x) |-> HeldBy(x[i])]
<1>1. E(cs \o ds) = E(cs) \o E(ds)
  <2> DEFINE j == cs \o ds
             a == E(cs)
             b == E(ds)
             g == E(j)
  <2>1. /\ j \in Seq(Frame) /\ Len(j) = Len(cs) + Len(ds) /\ Len(cs) \in Nat /\ Len(ds) \in Nat
        /\ \A i \in 1..(Len(cs) + Len(ds)) : j[i] = IF i <= Len(cs) THEN cs[i] ELSE ds[i - Len(cs)]
    BY ConcatProperties
  <2>2. a \in Seq(Seq(Comment)) /\ b \in Seq(Seq(Comment)) /\ g \in Seq(Seq(Comment))
    <3> HIDE DEF j
    <3> QED BY <2>1, HeldSeq
  <2>3. Len(a) = Len(cs) /\ \A i \in 1..Len(cs) : a[i] = HeldBy(cs[i])
    BY <2>1
  <2>4. Len(b) = Len(ds) /\ \A i \in 1..Len(ds) : b[i] = HeldBy(ds[i])
    BY <2>1
  <2>5. Len(g) = Len(j) /\ \A i \in 1..Len(j) : g[i] = HeldBy(j[i])
    <3> HIDE DEF j
    <3> QED BY <2>1
  <2> HIDE DEF a, b, g, j, E
  <2>6. /\ a \o b \in Seq(Seq(Comment)) /\ Len(a \o b) = Len(a) + Len(b)
        /\ \A i \in 1..(Len(a) + Len(b)) : (a \o b)[i] = IF i <= Len(a) THEN a[i] ELSE b[i - Len(a)]
    <3> DEFINE D == Seq(Comment)
    <3>1. a \in Seq(D) /\ b \in Seq(D)
      BY <2>2
    <3> HIDE DEF D
    <3>2. /\ a \o b \in Seq(D) /\ Len(a \o b) = Len(a) + Len(b)
          /\ \A i \in 1..(Len(a) + Len(b)) : (a \o b)[i] = IF i <= Len(a) THEN a[i] ELSE b[i - Len(a)]
      BY <3>1, ConcatProperties
    <3> QED BY <3>2 DEF D
  <2>7. ASSUME NEW i \in 1..Len(g) PROVE g[i] = (a \o b)[i]
    <3>1. i \in 1..(Len(cs) + Len(ds)) /\ g[i] = HeldBy(j[i])
      BY <2>1, <2>5
    <3>2. CASE i <= Len(cs)
      <4>1. i \in 1..Len(cs)
        BY <2>1, <3>1, <3>2
      <4> QED BY <2>1, <2>3, <2>4, <2>6, <3>1, <3>2, <4>1
    <3>3. CASE ~(i <= Len(cs))
      <4>1. i - Len(cs) \in 1..Len(ds)
        BY <2>1, <3>1, <3>3
      <4> QED BY <2>1, <2>3, <2>4, <2>6, <3>1, <3>3, <4>1
    <3> QED BY <3>2, <3>3
  <2>8. Len(g) = Len(a \o b)
    BY <2>1, <2>3, <2>4, <2>5, <2>6
  <2>9. g = a \o b
    BY <2>2, <2>6, <2>7, <2>8, SeqEqual
  <2> QED BY <2>9 DEF a, b, g, j
<1>2. E(cs) \in Seq(Seq(Comment)) /\ E(ds) \in Seq(Seq(Comment))
  BY HeldSeq
<1> HIDE DEF E
<1>3. Times(c, FlattenSeq(E(cs) \o E(ds))) = Times(c, FlattenSeq(E(cs))) + Times(c, FlattenSeq(E(ds)))
  BY <1>2, FlattenConcat
<1> QED BY <1>1, <1>3 DEF Sum, E

LEMMA SumOf ==
  ASSUME NEW cs \in Seq(Frame), NEW c
  PROVE  /\ FlattenSeq([i \in 1..Len(cs) |-> HeldBy(cs[i])]) \in Seq(Comment)
         /\ Sum(c, cs) \in Nat
         /\ Sum(c, <<>>) = 0
         /\ \A fr \in Frame : Sum(c, Append(cs, fr)) = Sum(c, cs) + Bill(c, fr) /\ Bill(c, fr) \in Nat
<1> DEFINE E(x) == [i \in 1..Len(x) |-> HeldBy(x[i])]
<1>1. FlattenSeq(E(cs)) \in Seq(Comment)
  <2>1. <<>> \in Seq(Comment)
    OBVIOUS
  <2>2. E(cs) \in Seq(Seq(Comment))
    BY HeldSeq
  <2> HIDE DEF E
  <2> QED BY <2>1, <2>2, FlattenAppend
<1>2. Sum(c, cs) \in Nat
  BY <1>1, TimesAre DEF Sum
<1>3. Sum(c, <<>>) = 0
  <2>1. E(<<>>) = <<>>
    OBVIOUS
  <2> QED BY <2>1, FlattenNone, TimesNone DEF Sum
<1>4. ASSUME NEW fr \in Frame PROVE Sum(c, Append(cs, fr)) = Sum(c, cs) + Bill(c, fr) /\ Bill(c, fr) \in Nat
  <2>1. Append(cs, fr) = cs \o <<fr>> /\ <<fr>> \in Seq(Frame)
    BY AppendIsConcat
  <2>2. Sum(c, cs \o <<fr>>) = Sum(c, cs) + Sum(c, <<fr>>)
    BY <2>1, SumConcat
  <2>3. HeldBy(fr) \in Seq(Comment) /\ Bill(c, fr) \in Nat
    BY Bills, TimesAre DEF Bill
  <2>4. Sum(c, <<fr>>) = Bill(c, fr)
    <3> DEFINE h == HeldBy(fr)
    <3>1. E(<<fr>>) = Append(<<>>, h)
      OBVIOUS
    <3>2. <<>> \in Seq(Seq(Comment)) /\ h \in Seq(Comment)
      BY <2>3
    <3> HIDE DEF E, h
    <3>3. FlattenSeq(Append(<<>>, h)) = FlattenSeq(<<>>) \o h
      BY <3>2, FlattenAppend
    <3>4. <<>> \o h = h
      BY <3>2, ConcatEmptySeq
    <3>5. FlattenSeq(E(<<fr>>)) = h
      BY <3>1, <3>3, <3>4, FlattenNone
    <3> QED BY <3>5 DEF Sum, Bill, E, h
  <2> QED BY <2>1, <2>2, <2>3, <2>4
<1> QED BY <1>1, <1>2, <1>3, <1>4

(* The comments attached, added up.                                        *)
LEMMA Totals ==
  ASSUME NEW boxes \in Seq(Seq(Frame)), NEW c
  PROVE  /\ FlattenSeq(boxes) \in Seq(Frame) /\ Sum(c, FlattenSeq(boxes)) \in Nat
         /\ \A cs \in Seq(Frame) : Sum(c, FlattenSeq(Append(boxes, cs))) = Sum(c, FlattenSeq(boxes)) + Sum(c, cs)
<1>1. FlattenSeq(boxes) \in Seq(Frame)
  <2>1. <<>> \in Seq(Frame)
    OBVIOUS
  <2> QED BY <2>1, FlattenAppend
<1>2. Sum(c, FlattenSeq(boxes)) \in Nat
  BY <1>1, SumOf
<1>3. ASSUME NEW cs \in Seq(Frame)
      PROVE  Sum(c, FlattenSeq(Append(boxes, cs))) = Sum(c, FlattenSeq(boxes)) + Sum(c, cs)
  <2>1. FlattenSeq(Append(boxes, cs)) = FlattenSeq(boxes) \o cs
    BY FlattenAppend
  <2> QED BY <1>1, <2>1, SumConcat
<1> QED BY <1>1, <1>2, <1>3

(* What boxes, stack and value hold, the function x running.               *)
AttachedBy(boxes, cs, x, v) ==
  FlattenSeq([i \in 1..Len(FlattenSeq(boxes) \o cs) |-> HeldBy((FlattenSeq(boxes) \o cs)[i])])
  \o (IF x \in Passing THEN Carried(v) ELSE <<>>)

Passes(c, x, v) == IF x \in Passing THEN Load(c, v) ELSE 0

Owed(c, boxes, cs, x, v) == Sum(c, FlattenSeq(boxes)) + Sum(c, cs) + Passes(c, x, v)

LEMMA Owes ==
  ASSUME NEW boxes \in Seq(Seq(Frame)), NEW cs \in Seq(Frame), NEW x, NEW v \in Node, NEW c
  PROVE  /\ Times(c, AttachedBy(boxes, cs, x, v)) = Owed(c, boxes, cs, x, v)
         /\ Sum(c, FlattenSeq(boxes)) \in Nat /\ Sum(c, cs) \in Nat /\ Load(c, v) \in Nat
         /\ Passes(c, x, v) \in Nat /\ Owed(c, boxes, cs, x, v) \in Nat
<1> DEFINE f == FlattenSeq(boxes)
           g == f \o cs
           h == FlattenSeq([i \in 1..Len(g) |-> HeldBy(g[i])])
           w == IF x \in Passing THEN Carried(v) ELSE <<>>
<1>1. Carried(v) \in Seq(Comment)
  BY NodeParts
<1>2. f \in Seq(Frame) /\ Sum(c, f) \in Nat
  BY Totals
<1>3. g \in Seq(Frame) /\ Sum(c, g) = Sum(c, f) + Sum(c, cs)
  <2> HIDE DEF f
  <2> QED BY <1>2, SumConcat
<1>4. Sum(c, cs) \in Nat /\ Load(c, v) \in Nat
  BY <1>1, SumOf, TimesAre DEF Load
<1> HIDE DEF f, g
<1>5. h \in Seq(Comment) /\ Times(c, h) = Sum(c, g)
  BY <1>3, SumOf DEF Sum
<1>6. w \in Seq(Comment) /\ Times(c, w) = Passes(c, x, v)
  <2>1. CASE x \in Passing
    BY <1>1, <2>1 DEF Load, Passes
  <2>2. CASE x \notin Passing
    BY <2>2, TimesNone DEF Passes
  <2> QED BY <2>1, <2>2
<1>7. AttachedBy(boxes, cs, x, v) = h \o w
  BY DEF AttachedBy, f, g
<1>8. Passes(c, x, v) \in Nat
  BY <1>4 DEF Passes
<1> HIDE DEF h, w
<1>9. Times(c, h \o w) = Times(c, h) + Times(c, w)
  BY <1>5, <1>6, TimesConcat
<1>10. Times(c, AttachedBy(boxes, cs, x, v)) = Sum(c, f) + Sum(c, cs) + Passes(c, x, v)
  BY <1>2, <1>3, <1>4, <1>5, <1>6, <1>7, <1>8, <1>9
<1> QED BY <1>2, <1>4, <1>8, <1>10 DEF Owed, f

LEMMA TotalIs ==
  ASSUME IInv, NEW c
  PROVE  /\ Total(c) = Boxes(c) + Sum(c, calls) + Passes(c, ctl, val)
         /\ Boxes(c) \in Nat /\ Sum(c, calls) \in Nat /\ Load(c, val) \in Nat /\ Total(c) \in Nat
<1>1. conts \in Seq(Seq(Frame)) /\ calls \in Seq(Frame) /\ val \in Node
  BY DEF IInv, TypeOK
<1>2. Attached = AttachedBy(conts, calls, ctl, val)
  BY DEF Attached, AttachedBy, Frames
<1> QED BY <1>1, <1>2, Owes DEF Total, Owed, Boxes

-----------------------------------------------------------------------------
(* What the cursor has passed.                                             *)

(* Only trivia hold comments.                                              *)
Gapped == \A i \in 1..Len(toks) : toks[i].gap # "trivia" => toks[i].before = <<>>

Seen(q) == UNION {Elements(toks[i].before) : i \in 1..(IF q.raw THEN q.pos - 1 ELSE q.pos)}

(* Of n attached comments c and the pending ones, the cursor having passed *)
(* what it has: none is missing, and none is there twice but those reread. *)
Even(q, c, n) ==
  LET m == Times(c, q.pending) + n
  IN  /\ c \in Seen(q) => m >= 1
      /\ c \notin Reread => m = IF c \in Seen(q) THEN 1 ELSE 0

(* With that cursor, n comments c may be attached where Total(c) were.     *)
Tally(q, c, n) == OK(q) /\ n \in Nat /\ Total(c) \in Nat /\ n >= Total(c) /\ Even(q, c, n)

LEMMA TokensRise ==
  ASSUME Stream, Ordered, NEW i \in 1..Len(toks), NEW j \in 1..Len(toks), i < j
  PROVE  toks[i].ix < toks[j].tix
<1> DEFINE T == {k \in (i + 1)..Len(toks) : ~(toks[i].ix < toks[k].tix)}
<1>0. Len(toks) \in Nat /\ \A k \in 1..Len(toks) : toks[k].ix \in Nat /\ toks[k].tix \in Nat
  <2>1. Len(toks) \in Nat
    BY DEF Stream
  <2>2. ASSUME NEW k \in 1..Len(toks) PROVE toks[k].ix \in Nat /\ toks[k].tix \in Nat
    <3>1. toks[k] \in Token
      BY TokenAt
    <3> QED BY <3>1 DEF Token
  <2> QED BY <2>1, <2>2
<1>1. T = {}
  <2> SUFFICES ASSUME T # {} PROVE FALSE
    OBVIOUS
  <2>1. PICK k \in T : \A m \in T : k <= m
    <3>1. T \in SUBSET Nat
      BY <1>0
    <3> HIDE DEF T
    <3> QED BY <3>1, LeastNat
  <2>2. k \in 1..Len(toks) /\ k - 1 \in 1..Len(toks) /\ i <= k - 1 /\ ~(k <= k - 1) /\ (k - 1) + 1 = k
    BY <1>0
  <2>3. toks[k - 1].ix < toks[k].tix
    BY <2>2 DEF Ordered
  <2>4. k - 1 # i => toks[i].ix < toks[k - 1].tix
    BY <2>1, <2>2
  <2>5. toks[k - 1].tix <= toks[k - 1].ix
    BY <2>2 DEF Ordered
  <2>6. /\ toks[i].ix \in Nat /\ toks[k].tix \in Nat /\ toks[k - 1].ix \in Nat /\ toks[k - 1].tix \in Nat
        /\ ~(toks[i].ix < toks[k].tix)
    BY <1>0, <2>2
  <2> HIDE DEF T
  <2> QED BY SMTT(30), <2>2, <2>3, <2>4, <2>5, <2>6
<1> QED BY <1>0, <1>1

(* A comment stands before one token, once.                                *)
LEMMA OncePassed ==
  ASSUME Stream, Ordered, NEW i \in 1..Len(toks), NEW c \in Elements(toks[i].before)
  PROVE  /\ Times(c, toks[i].before) = 1
         /\ \A j \in 1..Len(toks) : j # i => c \notin Elements(toks[j].before)
<1> DEFINE s == toks[i].before
<1>0. \A k \in 1..Len(toks) : /\ toks[k].ix \in Nat /\ toks[k].tix \in Nat /\ toks[k].before \in Seq(Comment)
                              /\ \A m \in 1..Len(toks[k].before) : toks[k].before[m].ix \in Nat
  <2> TAKE k \in 1..Len(toks)
  <2>1. toks[k] \in Token
    BY TokenAt
  <2>2. toks[k].ix \in Nat /\ toks[k].tix \in Nat /\ toks[k].before \in Seq(Comment)
    BY <2>1 DEF Token
  <2>3. ASSUME NEW m \in 1..Len(toks[k].before) PROVE toks[k].before[m].ix \in Nat
    <3>1. toks[k].before[m] \in Comment
      BY <2>2
    <3> QED BY <3>1 DEF Comment
  <2> QED BY <2>2, <2>3
<1>1. PICK k \in 1..Len(s) : s[k] = c
  BY DEF Elements
<1>2. \A m \in 1..Len(s) : s[m] = c => m = k
  <2> SUFFICES ASSUME NEW m \in 1..Len(s), s[m] = c, m # k PROVE FALSE
    OBVIOUS
  <2>1. m \in Nat /\ k \in Nat /\ c.ix \in Nat
    BY <1>0, <1>1
  <2>2. m < k => s[m].ix < s[k].ix
    BY <2>1 DEF Ordered
  <2>3. k < m => s[k].ix < s[m].ix
    BY <2>1 DEF Ordered
  <2> QED BY <2>1, <2>2, <2>3, <1>1
<1>3. {m \in 1..Len(s) : s[m] = c} = {k}
  BY <1>1, <1>2
<1>4. Times(c, s) = 1
  BY <1>3, FS_Singleton DEF Times
<1>5. ASSUME NEW j \in 1..Len(toks), j # i, c \in Elements(toks[j].before) PROVE FALSE
  <2>1. PICK m \in 1..Len(toks[j].before) : toks[j].before[m] = c
    BY <1>5 DEF Elements
  <2>2. toks[i].tix <= c.ix /\ c.ix < toks[i].ix
    BY <1>1 DEF Ordered
  <2>3. toks[j].tix <= c.ix /\ c.ix < toks[j].ix
    BY <2>1 DEF Ordered
  <2>4. i < j => toks[i].ix < toks[j].tix
    BY TokensRise
  <2>5. j < i => toks[j].ix < toks[i].tix
    BY TokensRise
  <2>6. i \in Nat /\ j \in Nat /\ c.ix \in Nat
    BY <1>0, <1>1
  <2> QED BY <1>0, <1>5, <2>2, <2>3, <2>4, <2>5, <2>6
<1> QED BY <1>4, <1>5

(* Trivia skipped: their comments are pending.                             *)
LEMMA SkipTally ==
  ASSUME Stream, Ordered, NEW q, NEW c, NEW n, Tally(q, c, n)
  PROVE  Tally(Skip(q), c, n) /\ ~Skip(q).raw /\ Skip(q).pos = q.pos
<1> DEFINE r == Skip(q)
           b == toks[q.pos].before
<1>1. OK(q) /\ OK(r) /\ r.pos = q.pos /\ q.pending \in Seq(Comment) /\ q.pos \in 1..Len(toks) /\ q.raw \in BOOLEAN
  BY SkipOK, PendingType DEF Tally, OK, Cursor
<1>2. CASE ~q.raw
  BY <1>1, <1>2 DEF Skip
<1>3. CASE q.raw
  <2>1. ~r.raw /\ r.pending = q.pending \o b /\ b \in Seq(Comment)
    BY <1>1, <1>3, TokenAt DEF Skip, OK, Cursor, Token
  <2>2. Times(c, r.pending) = Times(c, q.pending) + Times(c, b)
    <3> HIDE DEF b, r
    <3> QED BY <1>1, <2>1, TimesConcat
  <2>3. Times(c, q.pending) \in Nat /\ Times(c, b) \in Nat /\ n \in Nat /\ (c \in Elements(b) <=> Times(c, b) >= 1)
    BY <1>1, <2>1, TimesAre DEF Tally
  <2>4. Seen(r) = Seen(q) \cup Elements(b)
    <3>1. 1..q.pos = 1..(q.pos - 1) \cup {q.pos}
      BY <1>1
    <3>2. Seen(r) = UNION {Elements(toks[i].before) : i \in 1..q.pos}
      BY <1>1, <2>1 DEF Seen
    <3>3. Seen(q) = UNION {Elements(toks[i].before) : i \in 1..(q.pos - 1)}
      BY <1>3 DEF Seen
    <3> HIDE DEF r
    <3> QED BY <3>1, <3>2, <3>3
  <2>5. c \in Elements(b) => Times(c, b) = 1 /\ c \notin Seen(q)
    <3> SUFFICES ASSUME c \in Elements(b) PROVE Times(c, b) = 1 /\ c \notin Seen(q)
      OBVIOUS
    <3>1. Times(c, b) = 1 /\ \A j \in 1..Len(toks) : j # q.pos => c \notin Elements(toks[j].before)
      BY <1>1, OncePassed
    <3>2. \A i \in 1..(q.pos - 1) : i \in 1..Len(toks) /\ i # q.pos
      BY <1>1
    <3> QED BY <1>3, <3>1, <3>2 DEF Seen
  <2>6. Even(q, c, n)
    BY DEF Tally
  <2> HIDE DEF r, b
  <2>7. Even(r, c, n)
    <3>1. CASE c \in Elements(b)
      <4>1. Times(c, b) = 1 /\ c \notin Seen(q) /\ c \in Seen(r)
        BY <2>4, <2>5, <3>1
      <4>2. c \notin Reread => Times(c, q.pending) + n = 0
        BY <2>6, <4>1 DEF Even
      <4>3. /\ Times(c, r.pending) + n >= 1
            /\ c \notin Reread => Times(c, r.pending) + n = 1
        <5> DEFINE x == Times(c, r.pending)
                   y == Times(c, q.pending)
        <5>1. x = y + 1 /\ y \in Nat /\ n \in Nat /\ (c \notin Reread => y + n = 0)
          BY <2>2, <2>3, <4>1, <4>2
        <5> HIDE DEF x, y
        <5> QED BY <5>1 DEF x, y
      <4> QED BY <4>1, <4>3 DEF Even
    <3>2. CASE c \notin Elements(b)
      <4>1. Times(c, b) = 0
        BY <2>3, <3>2
      <4> QED BY <2>2, <2>3, <2>4, <2>6, <3>2, <4>1 DEF Even
    <3> QED BY <3>1, <3>2
  <2> QED BY <1>1, <2>1, <2>7 DEF Tally, r
<1> QED BY <1>1, <1>2, <1>3

(* A token passed, with no trivia before it.                               *)
LEMMA AdvanceTally ==
  ASSUME Stream, Gapped, NEW q, NEW c, NEW n, Tally(q, c, n), Peek(q) # "trivia"
  PROVE  Tally(Advance(q), c, n)
<1> DEFINE r == Advance(q)
<1>1. OK(q) /\ OK(r) /\ q.pos \in 1..Len(toks) /\ q.raw \in BOOLEAN /\ Len(toks) \in Nat
  BY AdvanceOK DEF Tally, OK, Cursor, Stream
<1>2. /\ r.pending = q.pending
      /\ r.pos = IF q.pos < Len(toks) THEN q.pos + 1 ELSE q.pos
      /\ r.raw = IF q.pos < Len(toks) THEN TRUE ELSE q.raw
  BY <1>1 DEF Advance, OK, Cursor
<1> HIDE DEF r
<1>3. Seen(r) = Seen(q)
  <2>1. CASE ~(q.pos < Len(toks))
    BY <1>2, <2>1 DEF Seen
  <2>2. CASE q.pos < Len(toks)
    <3>1. Seen(r) = UNION {Elements(toks[i].before) : i \in 1..q.pos}
      <4>1. r.raw /\ r.pos - 1 = q.pos
        BY <1>1, <1>2, <2>2
      <4> QED BY <4>1 DEF Seen
    <3>2. CASE ~q.raw
      BY <3>1, <3>2 DEF Seen
    <3>3. CASE q.raw
      <4>1. toks[q.pos].gap # "trivia"
        BY <3>3 DEF Peek, OnTrivia
      <4>2. toks[q.pos].before = <<>>
        BY <1>1, <4>1 DEF Gapped
      <4>3. Elements(toks[q.pos].before) = {}
        BY <4>2 DEF Elements
      <4>4. 1..q.pos = 1..(q.pos - 1) \cup {q.pos}
        BY <1>1
      <4>5. Seen(q) = UNION {Elements(toks[i].before) : i \in 1..(q.pos - 1)}
        BY <3>3 DEF Seen
      <4> QED BY <3>1, <4>3, <4>4, <4>5
    <3> QED BY <3>2, <3>3
  <2> QED BY <2>1, <2>2
<1>4. Even(r, c, n)
  BY <1>2, <1>3 DEF Tally, Even
<1> QED BY <1>1, <1>4 DEF Tally, r

(* Comments taken out of the pending buffer are attached.                  *)
LEMMA TakenTally ==
  ASSUME NEW q, NEW c, NEW n, Tally(q, c, n), NEW r, OK(r), r.pos = q.pos, r.raw = q.raw,
         NEW k \in Nat, Times(c, q.pending) = Times(c, r.pending) + k
  PROVE  Tally(r, c, n + k)
<1>1. Seen(r) = Seen(q)
  BY DEF Seen
<1>2. Times(c, r.pending) \in Nat /\ n \in Nat /\ Total(c) <= n
  BY PendingType, TimesAre DEF Tally
<1>3. Times(c, r.pending) + (n + k) = Times(c, q.pending) + n
  BY <1>2
<1>4. Even(r, c, n + k)
  BY <1>1, <1>3 DEF Tally, Even
<1>5. n + k >= Total(c) /\ n + k \in Nat
  <2>1. \A x \in Int : x <= n => x <= n + k
    BY <1>2
  <2>2. Total(c) \in Int
    BY DEF Tally
  <2> QED BY <1>2, <2>1, <2>2
<1> QED BY <1>4, <1>5 DEF Tally

(* Setting app_context_col takes nothing.                                  *)
LEMMA ContextTally ==
  ASSUME NEW q, NEW c, NEW n, Tally(q, c, n), NEW x \in Nat
  PROVE  Tally([q EXCEPT !.ctx = x], c, n)
<1> DEFINE r == [q EXCEPT !.ctx = x]
<1>1. OK(r) /\ r.pos = q.pos /\ r.raw = q.raw /\ r.pending = q.pending
  BY ContextOK DEF Tally, OK, Cursor
<1> HIDE DEF r
<1>2. Seen(r) = Seen(q)
  BY <1>1 DEF Seen
<1>3. Even(r, c, n)
  BY <1>1, <1>2 DEF Even, Tally
<1> QED BY <1>1, <1>3 DEF Tally, r

(* take_pending_comments_since.                                            *)
LEMMA SinceSplits ==
  ASSUME NEW q, OK(q), NEW snap \in Nat, NEW c
  PROVE  Times(c, q.pending) = Times(c, DropSince(q, snap).pending) + Times(c, Since(q, snap))
<1>1. q.pending \in Seq(Comment) /\ Times(c, q.pending) \in Nat /\ Len(q.pending) \in Nat
  <2> DEFINE s == q.pending
  <2>1. s \in Seq(Comment)
    BY PendingType
  <2> HIDE DEF s
  <2>2. Times(c, s) \in Nat
    BY <2>1, TimesAre, Zenon
  <2>3. Len(s) \in Nat
    BY <2>1
  <2> QED BY <2>1, <2>2, <2>3 DEF s
<1>2. CASE snap >= Len(q.pending)
  <2>1. DropSince(q, snap) = q /\ Since(q, snap) = <<>>
    BY <1>2 DEF Since, DropSince
  <2>2. Times(c, Since(q, snap)) = 0 /\ Times(c, DropSince(q, snap).pending) = Times(c, q.pending)
    BY <2>1, TimesNone, Zenon
  <2> QED BY <1>1, <2>2
<1>3. CASE ~(snap >= Len(q.pending))
  <2>1. snap \in 0..Len(q.pending)
    BY <1>1, <1>3
  <2>2. DropSince(q, snap).pending = SubSeq(q.pending, 1, snap)
    BY <1>3 DEF DropSince, OK, Cursor
  <2>3. Since(q, snap) = SubSeq(q.pending, snap + 1, Len(q.pending))
    BY <1>3 DEF Since
  <2> QED BY <1>1, <2>1, <2>2, <2>3, TimesCut
<1> QED BY <1>2, <1>3

LEMMA SinceTally ==
  ASSUME NEW q, NEW c, NEW n, Tally(q, c, n), NEW snap \in Nat
  PROVE  /\ Tally(DropSince(q, snap), c, n + Times(c, Since(q, snap)))
         /\ Times(c, Since(q, snap)) \in Nat
         /\ DropSince(q, snap).pos = q.pos /\ DropSince(q, snap).raw = q.raw
<1> DEFINE r == DropSince(q, snap)
           k == Times(c, Since(q, snap))
<1>1. OK(q)
  BY DEF Tally
<1>2. OK(r) /\ r.pos = q.pos /\ r.raw = q.raw /\ Since(q, snap) \in Seq(Comment)
  BY <1>1, SinceType DEF DropSince, OK, Cursor
<1>3. k \in Nat
  BY <1>2, TimesAre
<1>4. Times(c, q.pending) = Times(c, r.pending) + k
  BY <1>1, SinceSplits
<1> HIDE DEF r, k
<1>5. Tally(r, c, n + k)
  BY <1>2, <1>3, <1>4, TakenTally
<1> QED BY <1>2, <1>3, <1>5 DEF r, k

(* The claiming loops.                                                     *)
LEMMA ClaimTally ==
  ASSUME NEW q, NEW c, NEW n, Tally(q, c, n), NEW snap \in Nat, NEW S
  PROVE  /\ Tally(Unclaimed(q, snap, S), c, n + Times(c, Claimed(q, snap, S)))
         /\ Times(c, Claimed(q, snap, S)) \in Nat
         /\ Unclaimed(q, snap, S).pos = q.pos /\ Unclaimed(q, snap, S).raw = q.raw
<1> DEFINE r == Unclaimed(q, snap, S)
           k == Times(c, Claimed(q, snap, S))
           d == DropSince(q, snap).pending
           s == Since(q, snap)
           t == Select(s, Elements(q.pending) \ S)
<1>1. OK(q)
  BY DEF Tally
<1>2. OK(r) /\ r.pos = q.pos /\ r.raw = q.raw /\ Claimed(q, snap, S) \in Seq(Comment)
  BY <1>1, ClaimedType DEF Unclaimed, OK, Cursor
<1>3. k \in Nat
  BY <1>2, TimesAre
<1>4. s \in Seq(Comment) /\ d \in Seq(Comment)
  BY <1>1, SinceType, PendingType
<1>5. t \in Seq(Comment)
  <2> HIDE DEF s
  <2>1. t \in Seq(Comment \cap (Elements(q.pending) \ S))
    BY <1>4, SelectType
  <2> QED BY <2>1
<1>6. r.pending = d \o t
  BY <1>1 DEF Unclaimed, OK, Cursor
<1>7. Times(c, d \o t) = Times(c, d) + Times(c, t) /\ Times(c, d) \in Nat /\ Times(c, s) \in Nat
  <2> HIDE DEF d, t, s
  <2> QED BY <1>4, <1>5, TimesConcat, TimesAre
<1>8. Times(c, t) = IF c \in Elements(q.pending) \ S THEN Times(c, s) ELSE 0
  <2> HIDE DEF s
  <2> QED BY <1>4, TimesSelect
<1>9. k = IF c \in S THEN Times(c, s) ELSE 0
  <2> HIDE DEF s
  <2>1. k = Times(c, Select(s, S))
    BY DEF Claimed, s
  <2> QED BY <1>4, <2>1, TimesSelect
<1>10. Times(c, q.pending) = Times(c, d) + Times(c, s)
  BY <1>1, SinceSplits
<1>11. c \notin Elements(q.pending) => Times(c, q.pending) = 0
  <2>1. q.pending \in Seq(Comment)
    BY <1>1, PendingType
  <2>2. Times(c, q.pending) \in Nat /\ (c \in Elements(q.pending) <=> Times(c, q.pending) >= 1)
    BY <2>1, TimesAre
  <2> QED BY <2>2
<1> HIDE DEF r, k, d, s, t
<1>12. Times(c, q.pending) = Times(c, r.pending) + k
  BY <1>6, <1>7, <1>8, <1>9, <1>10, <1>11
<1>13. Tally(r, c, n + k)
  BY <1>2, <1>3, <1>12, TakenTally
<1> QED BY <1>2, <1>3, <1>13 DEF r, k

(* A trailing comment.                                                     *)
LEMMA TrailingTally ==
  ASSUME NEW q, NEW c, NEW n, Tally(q, c, n), NEW m
  PROVE  /\ Tally(DropTrailing(q, m), c, n + Times(c, Trailing(q, m)))
         /\ Times(c, Trailing(q, m)) \in Nat
         /\ DropTrailing(q, m).pos = q.pos /\ DropTrailing(q, m).raw = q.raw
<1> DEFINE r == DropTrailing(q, m)
           k == Times(c, Trailing(q, m))
           s == q.pending
           l == Len(s) - 1
<1>1. OK(q) /\ s \in Seq(Comment) /\ Len(s) \in Nat
  BY PendingType DEF Tally
<1>2. OK(r) /\ r.pos = q.pos /\ r.raw = q.raw /\ Trailing(q, m) \in Seq(Comment)
  BY <1>1, TrailingType DEF DropTrailing, OK, Cursor
<1>3. k \in Nat
  BY <1>2, TimesAre
<1>4. Times(c, s) = Times(c, r.pending) + k
  <2>1. CASE Trailing(q, m) = <<>>
    <3>1. Times(c, s) \in Nat
      BY <1>1, TimesAre
    <3> QED BY <2>1, <3>1, TimesNone DEF DropTrailing
  <2>2. CASE Trailing(q, m) # <<>>
    <3>1. Trailing(q, m) = <<s[Len(s)]>> /\ s # <<>>
      BY <2>2 DEF Trailing
    <3>2. r.pending = SubSeq(s, 1, l)
      BY <1>1, <2>2 DEF DropTrailing, OK, Cursor
    <3>3. l \in 0..Len(s) /\ l + 1 = Len(s) /\ Len(s) \in 1..Len(s)
      BY <1>1, <3>1, EmptySeq
    <3> HIDE DEF s, l
    <3>4. Times(c, s) = Times(c, SubSeq(s, 1, l)) + Times(c, SubSeq(s, l + 1, Len(s)))
      BY <1>1, <3>3, TimesCut
    <3>5. SubSeq(s, Len(s), Len(s)) = <<s[Len(s)]>>
      <4>1. SubSeq(s, Len(s), Len(s)) = <<s[Len(s)]>> \o SubSeq(s, Len(s) + 1, Len(s))
        <5>1. Len(s) \in Len(s)..Len(s)
          BY <3>3
        <5> QED BY <1>1, <3>3, <5>1, SubSeqRecursiveFirst
      <4>2. SubSeq(s, Len(s) + 1, Len(s)) = <<>>
        BY <1>1, SubSeqEmpty
      <4>3. <<s[Len(s)]>> \o <<>> = <<s[Len(s)]>>
        BY ConcatEmptySeq
      <4> QED BY <4>1, <4>2, <4>3
    <3> QED BY <3>1, <3>2, <3>3, <3>4, <3>5
  <2> QED BY <2>1, <2>2
<1> HIDE DEF r, k
<1>5. Tally(r, c, n + k)
  BY <1>2, <1>3, <1>4, TakenTally
<1> QED BY <1>2, <1>3, <1>5 DEF r, k

(* take_element_inline_trailing.                                           *)
LEMMA InlineTally ==
  ASSUME NEW q, NEW c, NEW n, Tally(q, c, n), NEW m
  PROVE  /\ Tally(DropInline(q, m), c, n + Times(c, Inline(q, m)))
         /\ Times(c, Inline(q, m)) \in Nat
         /\ DropInline(q, m).pos = q.pos /\ DropInline(q, m).raw = q.raw
<1> DEFINE r == DropInline(q, m)
           k == Times(c, Inline(q, m))
           s == q.pending
           at == InlineIndex(q, m)
           i == CHOOSE j \in at : TRUE
           a == SubSeq(s, 1, i - 1)
           b == SubSeq(s, i + 1, Len(s))
<1>1. OK(q) /\ s \in Seq(Comment) /\ Len(s) \in Nat
  BY PendingType DEF Tally
<1>2. OK(r) /\ r.pos = q.pos /\ r.raw = q.raw /\ Inline(q, m) \in Seq(Comment)
  BY <1>1, InlineType DEF DropInline, OK, Cursor
<1>3. k \in Nat
  BY <1>2, TimesAre
<1>4. Times(c, s) = Times(c, r.pending) + k
  <2>1. CASE at = {}
    <3>1. Times(c, s) \in Nat
      BY <1>1, TimesAre
    <3> QED BY <2>1, <3>1, TimesNone DEF DropInline, Inline
  <2>2. CASE at # {}
    <3>1. i \in 1..Len(s)
      BY <2>2 DEF InlineIndex
    <3>2. Inline(q, m) = <<s[i]>> /\ r.pending = a \o b
      BY <1>1, <2>2 DEF DropInline, Inline, OK, Cursor
    <3>3. i - 1 \in 0..Len(s) /\ i \in 0..Len(s) /\ (i - 1) + 1 = i /\ i \in Int
      BY <1>1, <3>1
    <3> HIDE DEF i, s
    <3>4. a \in Seq(Comment) /\ SubSeq(s, i, Len(s)) \in Seq(Comment)
          /\ Times(c, s) = Times(c, a) + Times(c, SubSeq(s, i, Len(s)))
      BY <1>1, <3>3, TimesCut
    <3>5. b \in Seq(Comment)
      BY <1>1, <3>3, TimesCut
    <3>6. SubSeq(s, i, Len(s)) = <<s[i]>> \o b
      <4>1. Len(s) \in i..Len(s)
        BY <1>1, <3>1
      <4> QED BY <1>1, <3>1, <4>1, SubSeqRecursiveFirst
    <3>7. <<s[i]>> \in Seq(Comment)
      BY <1>1, <3>1
    <3> HIDE DEF a, b
    <3>8. Times(c, <<s[i]>> \o b) = Times(c, <<s[i]>>) + Times(c, b)
      <4> DEFINE h == <<s[i]>>
      <4> HIDE DEF h
      <4> QED BY <3>5, <3>7, TimesConcat DEF h
    <3>9. Times(c, a \o b) = Times(c, a) + Times(c, b) /\ Times(c, a) \in Nat /\ Times(c, b) \in Nat
      BY <3>4, <3>5, TimesConcat, TimesAre
    <3>10. k = Times(c, <<s[i]>>) /\ k \in Nat
      BY <1>3, <3>2
    <3> HIDE DEF k, r
    <3> QED BY <3>2, <3>4, <3>6, <3>8, <3>9, <3>10
  <2> QED BY <2>1, <2>2
<1> HIDE DEF r, k
<1>5. Tally(r, c, n + k)
  BY <1>2, <1>3, <1>4, TakenTally
<1> QED BY <1>2, <1>3, <1>5 DEF r, k
(* The comments after `{ name`, which the look for `|` puts in the buffer  *)
(* before it goes back, are those read twice.                              *)
LEMMA LooksAhead ==
  ASSUME Stream, NEW q, OK(q), AtRecord(q), NEW r, r = Skip(Advance(q)), Peek(r) = "lower"
  PROVE  /\ OK(r) /\ ~r.raw /\ r.pos + 1 \in 1..Len(toks) /\ toks[r.pos].kind = "lower"
         /\ Elements(toks[r.pos + 1].before) \subseteq Reread
<1> DEFINE i == q.pos
           Brace(k) == toks[k].kind = "{"
           Name(k) == toks[k].kind = "lower"
           More(k) == toks[k].kind # "eof"
<1>1. i \in 1..Len(toks) /\ Len(toks) \in Nat
  BY DEF OK, Stream
<1>2. Brace(i) /\ More(i)
  BY Zenon DEF AtRecord, Peek
<1>3. Name(r.pos) /\ More(r.pos)
  BY Zenon DEF Peek
<1>4. OK(Advance(q)) /\ Advance(q).pos = i + 1
  BY <1>2, AdvanceOK
<1>5. OK(r) /\ r.pos = i + 1
  BY <1>4, SkipOK
<1>6. ~r.raw
  BY <1>4 DEF Skip, OK, Cursor
<1>7. r.pos # Len(toks)
  BY <1>3 DEF Stream
<1>8. i \in Nat \ {0} /\ i + 2 <= Len(toks) /\ r.pos \in 1..Len(toks) /\ r.pos + 1 = i + 2
  BY <1>1, <1>5, <1>7 DEF OK
<1>9. RecordName(i)
  BY <1>2, <1>3, <1>5, Zenon DEF RecordName
<1>10. Elements(toks[i + 2].before) \subseteq Reread
  BY <1>8, <1>9, ReadTwice
<1>11. Elements(toks[r.pos + 1].before) \subseteq Reread
  BY <1>8, <1>10
<1> QED BY <1>1, <1>3, <1>5, <1>6, <1>8, <1>11

LEMMA BackIs ==
  ASSUME Stream, NEW q, AtRecord(q), OK(q), NEW r, r = Skip(Advance(q)), Peek(r) = "lower"
  PROVE  LET more == toks[r.pos + 1].before
         IN  /\ OK(r) /\ ~r.raw /\ r.pos + 1 \in 1..Len(toks) /\ r.pos \in 1..Len(toks)
             /\ more \in Seq(Comment) /\ Elements(more) \subseteq Reread
             /\ OK(Back(r)) /\ Back(r).pending = r.pending \o more /\ Back(r).pos = r.pos /\ ~Back(r).raw
<1> DEFINE back == Back(r)
           a == Advance(r)
           s == Skip(a)
           more == toks[r.pos + 1].before
<1>1. /\ OK(r) /\ r \in Cursor /\ ~r.raw /\ r.pos + 1 \in 1..Len(toks) /\ r.pos \in 1..Len(toks)
      /\ more \in Seq(Comment) /\ Elements(more) \subseteq Reread
      /\ toks[r.pos].kind # "eof"
  <2>1. /\ OK(r) /\ ~r.raw /\ r.pos + 1 \in 1..Len(toks) /\ toks[r.pos].kind = "lower"
        /\ Elements(more) \subseteq Reread
    BY LooksAhead
  <2>2. toks[r.pos].kind # "eof"
    BY <2>1, Zenon
  <2> QED BY <2>1, <2>2, TokenAt DEF OK, Token
<1>2. OK(a) /\ a.pos = r.pos + 1 /\ a.raw /\ a.pending = r.pending
  <2>1. a.pos = r.pos + 1 /\ OK(a)
    BY <1>1, AdvanceOK
  <2>2. r.pos < Len(toks)
    BY <1>1 DEF Stream
  <2>3. a.raw /\ a.pending = r.pending
    BY ZenonT(60), <1>1, <2>2 DEF Advance, Cursor
  <2> QED BY <2>1, <2>3
<1> HIDE DEF a
<1>3. s.pending = r.pending \o more /\ s \in Cursor
  <2>1. s \in Cursor
    BY <1>2, SkipOK DEF OK
  <2> QED BY <1>2, <2>1 DEF Skip, OK, Cursor
<1>4. back.pending = s.pending /\ back.pos = r.pos /\ ~back.raw /\ back \in Cursor
  <2>1. back = [s EXCEPT !.pos = r.pos, !.raw = FALSE] /\ r.pos \in Nat
    BY <1>1 DEF Back, a, OK
  <2> HIDE DEF s, back
  <2> QED BY <1>3, <2>1 DEF Cursor
<1>5. OK(back)
  BY <1>1, <1>4 DEF OK
<1> HIDE DEF s, back
<1> QED BY <1>1, <1>3, <1>4, <1>5 DEF back

LEMMA BackTally ==
  ASSUME Stream, NEW q, AtRecord(q), OK(q), NEW r, r = Skip(Advance(q)), Peek(r) = "lower",
         NEW c, NEW n, Tally(r, c, n)
  PROVE  Tally(Back(r), c, n)
<1> DEFINE back == Back(r)
           more == toks[r.pos + 1].before
<1>1. /\ OK(r) /\ ~r.raw /\ r.pos \in 1..Len(toks) /\ more \in Seq(Comment) /\ Elements(more) \subseteq Reread
      /\ OK(back) /\ back.pending = r.pending \o more /\ back.pos = r.pos /\ ~back.raw
  BY BackIs
<1>6. Seen(back) = Seen(r)
  BY <1>1 DEF Seen
<1>7. /\ Times(c, back.pending) \in Nat /\ Times(c, r.pending) \in Nat /\ Times(c, more) \in Nat
      /\ Times(c, back.pending) = Times(c, r.pending) + Times(c, more)
      /\ c \notin Reread => Times(c, more) = 0
  <2> DEFINE b == r.pending
  <2>1. b \in Seq(Comment) /\ back.pending = b \o more
    BY <1>1 DEF OK, Cursor
  <2> HIDE DEF b, more
  <2>2. Times(c, b \o more) = Times(c, b) + Times(c, more)
    BY <1>1, <2>1, TimesConcat
  <2>3. Times(c, b) \in Nat
    BY <2>1, TimesAre, Zenon
  <2>4. Times(c, more) \in Nat /\ (c \in Elements(more) <=> Times(c, more) >= 1)
    BY <1>1, TimesAre, Zenon
  <2>5. Times(c, back.pending) = Times(c, b \o more)
    BY <2>1, Zenon
  <2> QED BY <1>1, <2>2, <2>3, <2>4, <2>5 DEF b
<1> HIDE DEF back
<1>8. Even(back, c, n)
  <2> DEFINE x == Times(c, back.pending)
             y == Times(c, r.pending)
             z == Times(c, more)
  <2>1. x \in Nat /\ y \in Nat /\ z \in Nat /\ x = y + z /\ n \in Nat /\ (c \notin Reread => z = 0)
    BY <1>7 DEF Tally
  <2>2. /\ c \in Seen(r) => y + n >= 1
        /\ c \notin Reread => y + n = IF c \in Seen(r) THEN 1 ELSE 0
    BY DEF Tally, Even
  <2> HIDE DEF x, y, z
  <2>3. /\ c \in Seen(r) => x + n >= 1
        /\ c \notin Reread => x + n = IF c \in Seen(r) THEN 1 ELSE 0
    BY <2>1, <2>2
  <2> QED BY <1>6, <2>3 DEF Even, x
<1> QED BY <1>1, <1>8 DEF Tally, back
-----------------------------------------------------------------------------
(* Nodes and frames.                                                       *)

LEMMA LeadLoad ==
  ASSUME NEW n \in Node, NEW cs \in Seq(Comment), NEW c
  PROVE  /\ Load(c, Lead(n, cs)) = Load(c, n) + Times(c, cs)
         /\ Load(c, n) \in Nat /\ Times(c, cs) \in Nat
<1>1. n.cs \in Seq(Comment) /\ n.kept \in Seq(Comment)
  BY DEF Node
<1>2. Lead(n, cs).cs = cs \o n.cs /\ Lead(n, cs).kept = n.kept
  BY DEF Lead, Node
<1> DEFINE a == n.cs
           b == n.kept
<1>3. Carried(n) = a \o b /\ Carried(Lead(n, cs)) = (cs \o a) \o b
  BY <1>2 DEF Carried
<1>4. a \in Seq(Comment) /\ b \in Seq(Comment)
  BY <1>1
<1> HIDE DEF a, b
<1> DEFINE d == cs \o a
<1>5. d \in Seq(Comment) /\ Times(c, d) = Times(c, cs) + Times(c, a)
  BY <1>4, TimesConcat
<1> HIDE DEF d
<1>6. Times(c, d \o b) = Times(c, d) + Times(c, b) /\ Times(c, a \o b) = Times(c, a) + Times(c, b)
  BY <1>4, <1>5, TimesConcat
<1>7. Times(c, cs) \in Nat /\ Times(c, a) \in Nat /\ Times(c, b) \in Nat
  BY <1>4, TimesAre
<1> QED BY <1>3, <1>5, <1>6, <1>7 DEF Load, d

LEMMA SpanNodeLoad ==
  ASSUME NEW from, NEW q, NEW kept \in Seq(Comment), NEW sub, NEW c
  PROVE  Load(c, SpanNode(from, q, kept, sub)) = Times(c, kept)
<1>1. Carried(SpanNode(from, q, kept, sub)) = <<>> \o kept
  BY DEF Carried, SpanNode
<1>2. <<>> \o kept = kept
  BY ConcatEmptySeq
<1> QED BY <1>1, <1>2 DEF Load

LEMMA LeafLoad ==
  ASSUME NEW from, NEW q, NEW c
  PROVE  Load(c, Leaf(from, q)) = 0
<1>1. <<>> \in Seq(Comment)
  OBVIOUS
<1> QED BY <1>1, SpanNodeLoad, TimesNone DEF Leaf

LEMMA CloseLoad ==
  ASSUME NEW fr \in Frame, NEW q, NEW c
  PROVE  Load(c, Close(fr, q)) = Times(c, fr.kept)
BY FrameParts, SpanNodeLoad DEF Close

LEMMA AddPartBill ==
  ASSUME NEW fr \in Frame, NEW n \in Node, NEW c
  PROVE  /\ AddPart(fr, n).lead = fr.lead /\ AddPart(fr, n).ops = fr.ops
         /\ Times(c, AddPart(fr, n).kept) = Times(c, fr.kept) + Load(c, n)
         /\ Load(c, n) \in Nat
<1> DEFINE k == fr.kept
           m == Carried(n)
<1>1. k \in Seq(Comment) /\ m \in Seq(Comment)
  BY FrameParts, NodeParts
<1>2. AddPart(fr, n).lead = fr.lead /\ AddPart(fr, n).ops = fr.ops /\ AddPart(fr, n).kept = k \o m
  BY DEF AddPart, Frame
<1> HIDE DEF k, m
<1>3. Times(c, k \o m) = Times(c, k) + Times(c, m) /\ Times(c, m) \in Nat
  BY <1>1, TimesConcat, TimesAre
<1> QED BY <1>2, <1>3 DEF Load, k, m

LEMMA HoldBill ==
  ASSUME NEW fr \in Frame, NEW cs \in Seq(Comment), NEW c
  PROVE  /\ Hold(fr, cs).lead = fr.lead /\ Hold(fr, cs).ops = fr.ops
         /\ Times(c, Hold(fr, cs).kept) = Times(c, fr.kept) + Times(c, cs)
         /\ Times(c, cs) \in Nat
<1> DEFINE k == fr.kept
<1>1. k \in Seq(Comment)
  BY FrameParts
<1>2. Hold(fr, cs).lead = fr.lead /\ Hold(fr, cs).ops = fr.ops /\ Hold(fr, cs).kept = k \o cs
  BY DEF Hold, Frame
<1> HIDE DEF k
<1>3. Times(c, k \o cs) = Times(c, k) + Times(c, cs) /\ Times(c, cs) \in Nat
  BY <1>1, TimesConcat, TimesAre
<1> QED BY <1>2, <1>3 DEF k

LEMMA NewBill ==
  ASSUME NEW fn, NEW from, NEW c
  PROVE  /\ New(fn, from).lead = <<>> /\ New(fn, from).kept = <<>> /\ New(fn, from).ops = <<>>
         /\ New(fn, from).fn = fn
BY DEF New

(* attach_pre_body_comments: what leaves the buffer is in the body.        *)
LEMMA PreTally ==
  ASSUME NEW q, NEW c, NEW body \in Node, NEW m \in Nat, Tally(q, c, m + Load(c, body)), NEW snap \in Nat
  PROVE  /\ Tally(AfterPre(q, body, snap), c, m + Load(c, WithPre(q, body, snap)))
         /\ Load(c, WithPre(q, body, snap)) \in Nat /\ WithPre(q, body, snap) \in Node
         /\ AfterPre(q, body, snap).raw = q.raw
<1> DEFINE S == Before(q, body.from)
           k == Times(c, Claimed(q, snap, S))
           w == Load(c, WithPre(q, body, snap))
           v == Load(c, body)
<1>1. OK(q)
  BY DEF Tally
<1>2. Claimed(q, snap, S) \in Seq(Comment) /\ WithPre(q, body, snap) \in Node
  BY <1>1, ClaimedType, PreType
<1>3. w = v + k /\ v \in Nat /\ k \in Nat
  BY <1>2, LeadLoad DEF WithPre
<1>4. /\ Tally(Unclaimed(q, snap, S), c, (m + v) + k)
      /\ Unclaimed(q, snap, S).raw = q.raw
  BY ClaimTally
<1> HIDE DEF w, v, k, S
<1>5. (m + v) + k = m + w
  BY <1>3
<1>6. w \in Nat
  BY <1>3
<1>7. Tally(Unclaimed(q, snap, S), c, m + w)
  BY <1>4, <1>5
<1> QED BY <1>2, <1>4, <1>6, <1>7 DEF AfterPre, S, w
-----------------------------------------------------------------------------
(* The inductive invariant.                                                *)

PatternFrames == {"as", "cons", "consTail", "ctor", "patParen", "patTuple", "patList", "patRecord"}

TypeFrames == {"type", "arrow", "typeApp", "typeParen", "typeTuple", "typeFields"}

(* What waits for a pattern without comments of its own.                   *)
Branching == PatternFrames \cup {"casePattern"}

PatternControls == {"pattern", "consPattern", "appPattern", "atomPattern", "ctorName", "atomCtor",
                    "ctorArgs", "patternField"}

TypeControls == {"type", "typeApp", "atomType", "typeName", "atomTypeName", "typeArgs", "typeField"}

(* The functions that hold comments for the next part, and those that hold *)
(* no part at all.                                                         *)
Leading == {"binary", "app", "casePattern", "letSig", "letArgs", "letPattern", "letValue", "arrow"}

Bare == {"binary", "access", "as", "cons", "type", "typeParen", "parenNeg"}

(* A function holds comments only where it will pass them on.              *)
Neat(fr) ==
  /\ fr.fn # "binary" => fr.ops = <<>>
  /\ fr.fn \in Bare => fr.kept = <<>>
  /\ fr.fn \notin Leading => fr.lead = <<>>
  /\ fr.fn = "app" /\ fr.n = 0 => fr.kept = <<>>
  /\ fr.fn = "app" /\ fr.n = 1 => fr.kept = Carried(fr.last)

(* A stack with neither patterns nor types in progress.                    *)
Free(cs) == \A i \in 1..Len(cs) : Neat(cs[i]) /\ cs[i].fn \notin Branching \cup TypeFrames

(* Above a pattern are patterns, above a type types, and no type is the    *)
(* first arm of a type.                                                    *)
Layered(cs) ==
  /\ \A i \in 1..Len(cs) : Neat(cs[i])
  /\ \A j \in 1..Len(cs) : \A i \in 1..(j - 1) :
       /\ cs[i].fn \in Branching => cs[j].fn \in PatternFrames
       /\ cs[i].fn \in TypeFrames => cs[j].fn \in TypeFrames
  /\ \A i \in 1..(Len(cs) - 1) : cs[i + 1].fn = "type" => cs[i].fn # "type"

(* A type that opens a parenthesis finds no comment before its first arm.  *)
Late(cs, q) ==
  \A i \in 1..(Len(cs) - 1) : cs[i].fn = "typeParen" /\ cs[i + 1].fn = "type" =>
    /\ cs[i + 1].lim <= Here(q)
    /\ \A k \in 1..Len(q.pending) : k > cs[i + 1].snap => q.pending[k].ix >= cs[i + 1].lim

(* The innermost function fr and control x belong together; a pattern, or  *)
(* a type in parentheses, comes back without comments of its own.          *)
Meets(fr, x, q, v) ==
  /\ fr.fn \in PatternFrames => x \in PatternControls \cup {"done"}
  /\ fr.fn = "casePattern" => x \in {"branch", "pattern", "done"}
  /\ fr.fn \in TypeFrames => x \in TypeControls \cup {"done"}
  /\ fr.fn = "type" => x # "type"
  /\ fr.fn = "typeParen" /\ x = "type" => ~q.raw
  /\ x \in {"binary", "fold", "args", "branch", "letNext"} => fr.lead = <<>>
  /\ x = "done" /\ fr.fn \in Branching \cup {"type", "typeParen"} => v.cs = <<>>

Plainly(x, q, v) == /\ x = "valueName" => v.cs = <<>> /\ v.kept = <<>>
                    /\ x = "reduce" => ~q.raw

Tidy == /\ Gapped /\ Ordered
        /\ \A b \in 1..Len(conts) : Free(conts[b])
        /\ Layered(calls) /\ Late(calls, p)
        /\ calls # <<>> => Meets(Top, ctl, p, val)
        /\ Plainly(ctl, p, val)

(* Every comment passed is pending or attached.                            *)
Fair == ctl # "error" => \A c : Even(p, c, Total(c))

(* After a step, every comment c passed is pending or attached, and no     *)
(* fewer are attached.                                                     *)
Booked(c) == ctl' # "error" => Even(p, c, Total(c))' /\ Total(c)' >= Total(c)

Sound(c) == Tidy' /\ Booked(c)

CommentInv == Tidy /\ Fair
-----------------------------------------------------------------------------
(* Stacks.                                                                 *)

LEMMA AppendIs ==
  ASSUME NEW cs \in Seq(Frame), NEW fr
  PROVE  /\ Len(cs) \in Nat /\ Len(Append(cs, fr)) = Len(cs) + 1 /\ Append(cs, fr)[Len(cs) + 1] = fr
         /\ Append(cs, fr) # <<>> /\ Append(cs, fr)[Len(Append(cs, fr))] = fr
         /\ \A i \in 1..Len(cs) : Append(cs, fr)[i] = cs[i]
<1> DEFINE S == Frame \cup {fr}
<1>1. cs \in Seq(S) /\ fr \in S
  OBVIOUS
<1> HIDE DEF S
<1> QED BY <1>1, AppendProperties

(* The stack of a state, taken apart.                                      *)
LEMMA TopAgain ==
  ASSUME IInv, calls # <<>>
  PROVE  calls = Append(Pop, Top) /\ Pop \in Seq(Frame) /\ Top \in Frame
<1>1. Pop \in Seq(Frame) /\ Top \in Frame /\ calls \in Seq(Frame) /\ Len(calls) \in Nat
      /\ Len(Pop) = Len(calls) - 1 /\ \A i \in 1..Len(Pop) : Pop[i] = calls[i]
  BY State, TopAndPop
<1> DEFINE s == Append(Pop, Top)
<1>2. Len(s) = Len(calls) /\ s \in Seq(Frame) /\ \A i \in 1..Len(calls) : s[i] = calls[i]
  <2>1. /\ s \in Seq(Frame) /\ Len(s) = Len(Pop) + 1 /\ s[Len(Pop) + 1] = Top
        /\ \A i \in 1..Len(Pop) : s[i] = Pop[i]
    BY <1>1, AppendProperties
  <2> HIDE DEF s
  <2> QED BY <1>1, <2>1 DEF Top
<1> HIDE DEF s
<1>3. s = calls
  BY <1>1, <1>2, SeqEqual
<1> QED BY <1>1, <1>3 DEF s

LEMMA FreeIsLayered ==
  ASSUME NEW cs \in Seq(Frame), Free(cs), NEW q
  PROVE  Layered(cs) /\ Late(cs, q)
<1>1. Len(cs) \in Nat
  OBVIOUS
<1>2. \A i \in 1..Len(cs) : Neat(cs[i]) /\ cs[i].fn \notin Branching /\ cs[i].fn \notin TypeFrames
  BY DEF Free
<1>3. \A i \in 1..Len(cs) : cs[i].fn # "type" /\ cs[i].fn # "typeParen"
  BY <1>2 DEF TypeFrames
<1>4. \A j \in 1..Len(cs) : \A i \in 1..(j - 1) : i \in 1..Len(cs)
  BY <1>1
<1>5. \A i \in 1..(Len(cs) - 1) : i + 1 \in 1..Len(cs) /\ i \in 1..Len(cs)
  BY <1>1
<1>6. Layered(cs)
  BY <1>2, <1>3, <1>4, <1>5 DEF Layered
<1>7. Late(cs, q)
  BY <1>3, <1>5 DEF Late
<1> QED BY <1>6, <1>7

LEMMA FreePush ==
  ASSUME NEW cs \in Seq(Frame), Free(cs), NEW fr, Neat(fr), fr.fn \notin PatternFrames \cup TypeFrames, NEW q
  PROVE  /\ Layered(Append(cs, fr)) /\ Late(Append(cs, fr), q)
         /\ fr.fn # "casePattern" => Free(Append(cs, fr))
<1> DEFINE s == Append(cs, fr)
           n == Len(cs) + 1
<1>1. Len(cs) \in Nat /\ Len(s) = n /\ s[n] = fr /\ \A i \in 1..Len(cs) : s[i] = cs[i]
  BY AppendIs
<1> HIDE DEF s
<1>2. \A i \in 1..Len(cs) : Neat(s[i]) /\ s[i].fn \notin Branching /\ s[i].fn \notin TypeFrames
  BY <1>1 DEF Free
<1>3. \A i \in 1..Len(s) : i = n \/ i \in 1..Len(cs)
  BY <1>1
<1>4. \A i \in 1..Len(s) : Neat(s[i]) /\ s[i].fn # "type" /\ s[i].fn # "typeParen"
  BY <1>1, <1>2, <1>3, Zenon DEF TypeFrames
<1>5. \A j \in 1..Len(s) : \A i \in 1..(j - 1) : i \in 1..Len(cs)
  BY <1>1
<1>6. \A i \in 1..(Len(s) - 1) : i + 1 \in 1..Len(s) /\ i \in 1..Len(s)
  BY <1>1
<1>7. Layered(s)
  BY <1>2, <1>4, <1>5, <1>6 DEF Layered
<1>8. Late(s, q)
  BY <1>4, <1>6 DEF Late
<1>9. fr.fn # "casePattern" => Free(s)
  BY <1>1, <1>2, <1>3, Zenon DEF Free, Branching
<1> QED BY <1>7, <1>8, <1>9 DEF s

(* The innermost function, and what is under it.                           *)
LEMMA TopNeat ==
  ASSUME IInv, Tidy, calls # <<>>
  PROVE  /\ Neat(Top) /\ Meets(Top, ctl, p, val)
         /\ Layered(Pop)
         /\ Top.fn \notin PatternFrames \cup TypeFrames => Free(Pop)
         /\ Top.fn \notin TypeFrames => \A i \in 1..Len(calls) : calls[i].fn \notin TypeFrames
<1>1. Pop \in Seq(Frame) /\ Top \in Frame /\ Len(calls) \in Nat /\ Len(calls) > 0
      /\ Len(Pop) = Len(calls) - 1 /\ \A i \in 1..Len(Pop) : Pop[i] = calls[i]
  BY State, TopAndPop
<1>2. Top = calls[Len(calls)]
  BY DEF Top
<1>3. Layered(calls)
  BY DEF Tidy
<1>4. \A i \in 1..Len(Pop) : i \in 1..Len(calls) /\ i \in 1..(Len(calls) - 1)
  BY <1>1
<1>5. Len(calls) \in 1..Len(calls)
  BY <1>1
<1>6. Neat(Top)
  BY <1>2, <1>3, <1>5 DEF Layered
<1>7. Layered(Pop)
  <2>1. \A i \in 1..Len(Pop) : Neat(Pop[i])
    BY <1>1, <1>3, <1>4 DEF Layered
  <2>2. \A j \in 1..Len(Pop) : \A i \in 1..(j - 1) :
           /\ Pop[i].fn \in Branching => Pop[j].fn \in PatternFrames
           /\ Pop[i].fn \in TypeFrames => Pop[j].fn \in TypeFrames
    <3>1. \A j \in 1..Len(Pop) : \A i \in 1..(j - 1) : i \in 1..Len(Pop)
      BY <1>1
    <3> QED BY <1>1, <1>3, <1>4, <3>1 DEF Layered
  <2>3. \A i \in 1..(Len(Pop) - 1) : Pop[i + 1].fn = "type" => Pop[i].fn # "type"
    <3>1. \A i \in 1..(Len(Pop) - 1) : i \in 1..Len(Pop) /\ i + 1 \in 1..Len(Pop) /\ i \in 1..(Len(calls) - 1)
      BY <1>1
    <3> QED BY <1>1, <1>3, <3>1 DEF Layered
  <2> QED BY <2>1, <2>2, <2>3 DEF Layered
<1>8. \A i \in 1..Len(Pop) : /\ calls[i].fn \in Branching => Top.fn \in PatternFrames
                             /\ calls[i].fn \in TypeFrames => Top.fn \in TypeFrames
  BY <1>2, <1>3, <1>4, <1>5 DEF Layered
<1>9. Top.fn \notin PatternFrames \cup TypeFrames => Free(Pop)
  BY <1>1, <1>7, <1>8 DEF Free, Layered
<1>10. Top.fn \notin TypeFrames => \A i \in 1..Len(calls) : calls[i].fn \notin TypeFrames
  <2>1. \A i \in 1..Len(calls) : i = Len(calls) \/ i \in 1..Len(Pop)
    BY <1>1
  <2> QED BY <1>2, <1>8, <2>1
<1> QED BY <1>6, <1>7, <1>9, <1>10 DEF Tidy

(* Where neither a pattern nor a type is in progress.                      *)
LEMMA FreeCalls ==
  ASSUME IInv, Tidy, ctl \notin PatternControls \cup TypeControls \cup {"done", "branch"}
  PROVE  Free(calls)
<1>1. CASE calls = <<>>
  BY <1>1 DEF Free
<1>2. CASE calls # <<>>
  <2>1. Meets(Top, ctl, p, val) /\ Neat(Top)
    BY <1>2, TopNeat
  <2>2. "pattern" \in PatternControls
    BY DEF PatternControls
  <2>3. Top.fn \notin Branching \cup TypeFrames
    BY <2>1, <2>2, Zenon DEF Meets, Branching
  <2>4. Free(Pop)
    BY <1>2, <2>3, TopNeat DEF Branching
  <2>5. calls = Append(Pop, Top) /\ Pop \in Seq(Frame)
    BY <1>2, TopAgain
  <2>6. Top.fn \notin PatternFrames \cup TypeFrames /\ Top.fn # "casePattern"
    BY <2>3 DEF Branching
  <2>7. Free(Append(Pop, Top))
    BY <2>1, <2>4, <2>5, <2>6, FreePush
  <2> QED BY <2>5, <2>7
<1> QED BY <1>1, <1>2
-----------------------------------------------------------------------------
(* The kinds of step.                                                      *)

(* n comments c are attached after the step.                               *)
LEMMA Turned ==
  ASSUME IInv', NEW c, NEW n, NEW q, Tally(q, c, n), toks' = toks, p' = q,
         n = Owed(c, conts', calls', ctl', val')
  PROVE  Booked(c)
<1>1. conts' \in Seq(Seq(Frame)) /\ calls' \in Seq(Frame) /\ val' \in Node
  BY DEF IInv, TypeOK
<1>2. Attached' = AttachedBy(conts', calls', ctl', val')
  BY DEF Attached, AttachedBy, Frames
<1>3. Times(c, AttachedBy(conts', calls', ctl', val')) = n
  BY <1>1, Owes
<1>4. Total(c)' = n
  BY <1>2, <1>3, Zenon DEF Total
<1>5. Seen(p)' = Seen(q) /\ Reread' = Reread
  BY ZenonT(60) DEF Seen, Reread
<1>6. Even(p, c, Total(c))' = Even(q, c, n)
  BY <1>4, <1>5, Zenon DEF Even
<1> QED BY <1>4, <1>6 DEF Booked, Tally

(* The step goes to x with the stack cs and the value v.                   *)
Goes(q, cs, x, v) == (Goto(q, cs, x) /\ v = val) \/ GotoWith(q, cs, x, v)

LEMMA GoesTo ==
  ASSUME NEW q, NEW cs, NEW x, NEW v, Goes(q, cs, x, v)
  PROVE  toks' = toks /\ p' = q /\ conts' = conts /\ calls' = cs /\ ctl' = x /\ val' = v
BY DEF Goes, Goto, GotoWith

LEMMA GapsStay == ASSUME Gapped, Ordered, toks' = toks PROVE Gapped' /\ Ordered'
BY DEF Gapped, Ordered

LEMMA StaysTidy ==
  ASSUME Tidy, NEW q, NEW cs, NEW x, NEW v, Goes(q, cs, x, v),
         Layered(cs), Late(cs, q), cs # <<>> => Meets(cs[Len(cs)], x, q, v), Plainly(x, q, v)
  PROVE  Tidy'
<1>1. toks' = toks /\ p' = q /\ conts' = conts /\ calls' = cs /\ ctl' = x /\ val' = v
  BY GoesTo
<1>2. Gapped' /\ Ordered'
  BY <1>1, GapsStay DEF Tidy
<1>3. \A b \in 1..Len(conts') : Free(conts'[b])
  BY <1>1 DEF Tidy
<1>4. Late(calls, p)' /\ Layered(calls)'
  BY <1>1 DEF Late, Layered, Here, Neat
<1>5. (calls # <<>> => Meets(Top, ctl, p, val))' /\ Plainly(ctl, p, val)'
  BY <1>1 DEF Top, Meets, Plainly
<1> QED BY <1>2, <1>3, <1>4, <1>5 DEF Tidy, Free, Neat

(* What a function holds.                                                  *)
Holds(c, fr) == Times(c, fr.lead) + Times(c, fr.kept) + OpsLoad(c, fr.ops)

(* With a function fr on top.                                              *)
LEMMA Framed ==
  ASSUME IInv, IInv', NEW c, NEW n, NEW q, Tally(q, c, n), NEW cs \in Seq(Frame), NEW fr, NEW x, NEW v,
         Goes(q, Append(cs, fr), x, v),
         n = Boxes(c) + Sum(c, cs) + Holds(c, fr) + Passes(c, x, v)
  PROVE  Booked(c)
<1>1. toks' = toks /\ p' = q /\ conts' = conts /\ calls' = Append(cs, fr) /\ ctl' = x /\ val' = v
  BY GoesTo
<1>2. fr \in Frame
  <2> DEFINE s == Append(cs, fr)
  <2>1. s \in Seq(Frame) /\ s[Len(cs) + 1] = fr /\ Len(s) = Len(cs) + 1 /\ Len(cs) \in Nat
    BY <1>1, AppendIs DEF IInv, TypeOK
  <2> HIDE DEF s
  <2>2. Len(cs) + 1 \in 1..Len(s)
    BY <2>1
  <2> QED BY <2>1, <2>2
<1>3. Sum(c, Append(cs, fr)) = Sum(c, cs) + Bill(c, fr) /\ Sum(c, cs) \in Nat
  BY <1>2, SumOf
<1>4. Bill(c, fr) = Times(c, fr.lead) + Times(c, fr.kept) + OpsLoad(c, fr.ops)
      /\ Times(c, fr.lead) \in Nat /\ Times(c, fr.kept) \in Nat /\ OpsLoad(c, fr.ops) \in Nat
  BY <1>2, Bills
<1>5. Boxes(c) \in Nat /\ Passes(c, x, v) \in Nat
  <2>1. conts \in Seq(Seq(Frame)) /\ calls' \in Seq(Frame) /\ v \in Node
    BY <1>1 DEF IInv, TypeOK
  <2> QED BY <2>1, Owes, TotalIs
<1>6. n = Boxes(c) + Sum(c, Append(cs, fr)) + Passes(c, x, v)
  BY <1>3, <1>4, <1>5 DEF Holds
<1>7. n = Owed(c, conts', calls', ctl', val')
  BY <1>1, <1>6 DEF Owed, Boxes
<1> QED BY <1>1, <1>7, Turned

LEMMA Unframed ==
  ASSUME IInv', NEW c, NEW n, NEW q, Tally(q, c, n), NEW cs, NEW x, NEW v,
         Goes(q, cs, x, v), n = Boxes(c) + Sum(c, cs) + Passes(c, x, v)
  PROVE  Booked(c)
<1>1. toks' = toks /\ p' = q /\ conts' = conts /\ calls' = cs /\ ctl' = x /\ val' = v
  BY GoesTo
<1>2. n = Owed(c, conts', calls', ctl', val')
  BY <1>1 DEF Owed, Boxes
<1> QED BY <1>1, <1>2, Turned

(* What holds n comments c before the step: the boxes, the stack below the *)
(* innermost function, that function, the value passed.                    *)
Base(c) == Boxes(c) + Sum(c, Pop)

LEMMA Opening ==
  ASSUME IInv, Fair, ctl # "error", NEW c
  PROVE  /\ Tally(p, c, Boxes(c) + Sum(c, calls) + Passes(c, ctl, val))
         /\ Boxes(c) \in Nat /\ Sum(c, calls) \in Nat /\ Load(c, val) \in Nat
<1>1. /\ Total(c) = Boxes(c) + Sum(c, calls) + Passes(c, ctl, val)
      /\ Boxes(c) \in Nat /\ Sum(c, calls) \in Nat /\ Load(c, val) \in Nat /\ Total(c) \in Nat
  BY TotalIs
<1>2. OK(p) /\ Even(p, c, Total(c))
  BY State DEF Fair
<1>3. Tally(p, c, Total(c))
  BY <1>1, <1>2 DEF Tally
<1> QED BY <1>1, <1>3

LEMMA OpeningTop ==
  ASSUME IInv, Tidy, Fair, ctl # "error", calls # <<>>, NEW c
  PROVE  /\ Tally(p, c, Base(c) + Holds(c, Top) + Passes(c, ctl, val))
         /\ Base(c) \in Nat /\ Boxes(c) \in Nat /\ Sum(c, Pop) \in Nat /\ Load(c, val) \in Nat
         /\ Times(c, Top.lead) \in Nat /\ Times(c, Top.kept) \in Nat /\ OpsLoad(c, Top.ops) \in Nat
         /\ Top.fn # "binary" => OpsLoad(c, Top.ops) = 0
         /\ Top.lead = <<>> => Times(c, Top.lead) = 0
         /\ Top.kept = <<>> => Times(c, Top.kept) = 0
         /\ Top.ops = <<>> => OpsLoad(c, Top.ops) = 0
<1>1. /\ Tally(p, c, Boxes(c) + Sum(c, calls) + Passes(c, ctl, val))
      /\ Boxes(c) \in Nat /\ Sum(c, calls) \in Nat /\ Load(c, val) \in Nat
  BY Opening
<1>2. calls = Append(Pop, Top) /\ Pop \in Seq(Frame) /\ Top \in Frame
  BY TopAgain
<1>3. Sum(c, Pop) \in Nat /\ Sum(c, Append(Pop, Top)) = Sum(c, Pop) + Bill(c, Top)
  BY <1>2, SumOf
<1>4. /\ Bill(c, Top) = Times(c, Top.lead) + Times(c, Top.kept) + OpsLoad(c, Top.ops)
      /\ Times(c, Top.lead) \in Nat /\ Times(c, Top.kept) \in Nat /\ OpsLoad(c, Top.ops) \in Nat
  BY <1>2, Bills
<1>5. OpsLoad(c, <<>>) = 0
  <2>1. <<>> \in Seq(PendingOp)
    OBVIOUS
  <2> QED BY <2>1, OpsLoads
<1>6. Top.fn # "binary" => Top.ops = <<>>
  BY TopNeat DEF Neat
<1>7. /\ Top.lead = <<>> => Times(c, Top.lead) = 0
      /\ Top.kept = <<>> => Times(c, Top.kept) = 0
      /\ Top.ops = <<>> => OpsLoad(c, Top.ops) = 0
  BY <1>5, TimesNone, Zenon
<1>8. Sum(c, calls) = Sum(c, Pop) + (Times(c, Top.lead) + Times(c, Top.kept) + OpsLoad(c, Top.ops))
  <2>1. Sum(c, calls) = Sum(c, Append(Pop, Top))
    BY <1>2, Zenon
  <2> QED BY <1>3, <1>4, <2>1
<1>9. Passes(c, ctl, val) \in Nat
  BY <1>1 DEF Passes
<1> DEFINE t == Times(c, Top.lead) + Times(c, Top.kept) + OpsLoad(c, Top.ops)
<1>10. t \in Nat /\ Sum(c, calls) = Sum(c, Pop) + t
  BY <1>4, <1>8
<1> HIDE DEF t
<1>11. Boxes(c) + Sum(c, calls) + Passes(c, ctl, val) = Base(c) + t + Passes(c, ctl, val)
       /\ Base(c) \in Nat
  BY <1>1, <1>3, <1>9, <1>10 DEF Base
<1>12. Tally(p, c, Base(c) + t + Passes(c, ctl, val))
  BY <1>1, <1>11
<1> QED BY <1>1, <1>3, <1>4, <1>6, <1>7, <1>11, <1>12 DEF t, Holds

(* The step puts fr on a stack with neither patterns nor types.            *)
Fit(fr, x, q, v) ==
  /\ fr.fn \notin PatternFrames \cup TypeFrames
  /\ fr.fn = "casePattern" => x \in {"branch", "pattern"}
  /\ x \in {"binary", "fold", "args", "branch", "letNext"} => fr.lead = <<>>
  /\ Plainly(x, q, v)

LEMMA PushSound ==
  ASSUME IInv, Tidy, IInv', NEW c, NEW n, NEW q, Tally(q, c, n),
         NEW cs \in Seq(Frame), Free(cs), NEW fr, Neat(fr), NEW x, NEW v, Goes(q, Append(cs, fr), x, v),
         Fit(fr, x, q, v),
         n = Boxes(c) + Sum(c, cs) + Holds(c, fr) + Passes(c, x, v)
  PROVE  Sound(c)
<1> DEFINE s == Append(cs, fr)
<1>1. Layered(s) /\ Late(s, q)
  BY FreePush DEF Fit
<1>2. s[Len(s)] = fr
  BY AppendIs
<1>3. Meets(fr, x, q, v)
  <2>1. fr.fn \notin PatternFrames /\ fr.fn \notin TypeFrames
    BY DEF Fit
  <2>2. fr.fn # "type" /\ fr.fn # "typeParen"
    BY <2>1 DEF TypeFrames
  <2>3. x = "done" => fr.fn # "casePattern"
    BY DEF Fit
  <2> QED BY <2>1, <2>2, <2>3, Zenon DEF Meets, Fit, Branching
<1>4. Booked(c)
  BY Framed
<1> HIDE DEF s
<1>5. s # <<>> => Meets(s[Len(s)], x, q, v)
  BY <1>2, <1>3
<1>6. Tidy'
  BY <1>1, <1>5, StaysTidy DEF Fit, s
<1> QED BY <1>4, <1>6 DEF Sound

(* The step changes no function in progress, or drops the innermost one.   *)
LEMMA CarrySound ==
  ASSUME IInv, Tidy, IInv', NEW c, NEW n, NEW q, Tally(q, c, n),
         NEW cs \in Seq(Frame), Free(cs), NEW x, NEW v, Goes(q, cs, x, v),
         x \notin {"binary", "fold", "args", "branch", "letNext"}, Plainly(x, q, v),
         n = Boxes(c) + Sum(c, cs) + Passes(c, x, v)
  PROVE  Sound(c)
<1>1. Layered(cs) /\ Late(cs, q)
  BY FreeIsLayered
<1>2. cs # <<>> => Meets(cs[Len(cs)], x, q, v)
  <2> SUFFICES ASSUME cs # <<>> PROVE Meets(cs[Len(cs)], x, q, v)
    OBVIOUS
  <2> DEFINE fr == cs[Len(cs)]
  <2>1. Len(cs) \in 1..Len(cs)
    OBVIOUS
  <2>2. fr.fn \notin Branching \cup TypeFrames
    BY <2>1 DEF Free
  <2>3. /\ fr.fn \notin PatternFrames /\ fr.fn # "casePattern" /\ fr.fn \notin TypeFrames
        /\ fr.fn # "type" /\ fr.fn # "typeParen"
    BY <2>2 DEF Branching, TypeFrames
  <2> HIDE DEF fr
  <2>4. Meets(fr, x, q, v)
    BY <2>2, <2>3, Zenon DEF Meets
  <2> QED BY <2>4 DEF fr
<1>3. Booked(c)
  BY Unframed
<1>4. Tidy'
  BY <1>1, <1>2, StaysTidy
<1> QED BY <1>3, <1>4 DEF Sound

LEMMA FailSound ==
  ASSUME Tidy, NEW q, Fail(q), NEW c
  PROVE  Sound(c)
<1>1. toks' = toks /\ conts' = <<>> /\ calls' = <<>> /\ ctl' = "error"
  BY DEF Fail
<1>2. Gapped' /\ Ordered'
  BY <1>1, GapsStay DEF Tidy
<1>3. Len(<<>>) = 0 /\ 1..0 = {} /\ 1..(0 - 1) = {}
  OBVIOUS
<1>4. Layered(calls)' /\ Late(calls, p)' /\ \A b \in 1..Len(conts') : Free(conts'[b])
  BY <1>1, <1>3 DEF Layered, Late
<1> QED BY <1>1, <1>2, <1>4 DEF Sound, Booked, Tidy, Plainly, Free, Neat

(* The step boxes the stack.                                               *)
LEMMA NeedSound ==
  ASSUME IInv, Tidy, IInv', NEW c, NEW n, NEW q, Tally(q, c, n),
         NEW cs \in Seq(Frame), Free(cs), NEW fr, Neat(fr), fr.fn \notin Branching \cup TypeFrames,
         Need(q, Append(cs, fr)),
         n = Boxes(c) + Sum(c, cs) + Holds(c, fr)
  PROVE  Sound(c)
<1> DEFINE s == Append(cs, fr)
<1>1. CASE Fail(q)
  BY <1>1, FailSound
<1>2. CASE ~Fail(q)
  <2>1. /\ toks' = toks /\ p' = q /\ conts' = Append(conts, s) /\ calls' = <<>> /\ ctl' = "expr"
        /\ val' = val
    BY <1>2 DEF Need
  <2>2. Free(s)
    BY FreePush DEF Branching
  <2> DEFINE boxes == Append(conts, s)
             m == Len(conts) + 1
  <2>3. /\ boxes \in Seq(Seq(Frame)) /\ conts \in Seq(Seq(Frame)) /\ val \in Node
    BY <2>1 DEF IInv, TypeOK
  <2>4. /\ Len(conts) \in Nat /\ Len(boxes) = m /\ boxes[m] = s /\ \A i \in 1..Len(conts) : boxes[i] = conts[i]
    <3> DEFINE S == Seq(Frame) \cup {s}
    <3>1. conts \in Seq(S) /\ s \in S
      BY <2>3
    <3> HIDE DEF S, s
    <3> QED BY <3>1, AppendProperties
  <2> HIDE DEF boxes
  <2>5. s \in Seq(Frame)
    <3>1. m \in 1..Len(boxes)
      BY <2>4
    <3> QED BY <2>3, <2>4, <3>1
  <2> HIDE DEF s
  <2>6. \A b \in 1..Len(boxes) : Free(boxes[b])
    <3>1. \A b \in 1..Len(boxes) : b = m \/ b \in 1..Len(conts)
      BY <2>4
    <3>2. \A b \in 1..Len(conts) : Free(conts[b])
      BY DEF Tidy
    <3> QED BY <2>2, <2>4, <3>1, <3>2
  <2>7. Tidy'
    <3>1. Gapped' /\ Ordered'
      BY <2>1, GapsStay DEF Tidy
    <3>2. Len(<<>>) = 0 /\ 1..0 = {} /\ 1..(0 - 1) = {}
      OBVIOUS
    <3>3. Layered(calls)' /\ Late(calls, p)'
      BY <2>1, <3>2 DEF Layered, Late
    <3>4. \A b \in 1..Len(conts') : Free(conts'[b])
      BY <2>1, <2>6 DEF boxes
    <3> QED BY <2>1, <3>1, <3>3, <3>4 DEF Tidy, Plainly, Free, Neat
  <2>8. Sum(c, s) = Sum(c, cs) + Bill(c, fr) /\ Sum(c, cs) \in Nat
        /\ Bill(c, fr) = Times(c, fr.lead) + Times(c, fr.kept) + OpsLoad(c, fr.ops) /\ Bill(c, fr) \in Nat
    <3>1. fr \in Frame
      <4>1. s[Len(cs) + 1] = fr /\ Len(s) = Len(cs) + 1 /\ Len(cs) \in Nat
        BY AppendIs DEF s
      <4>2. Len(cs) + 1 \in 1..Len(s)
        BY <4>1
      <4> QED BY <2>5, <4>1, <4>2
    <3>2. Sum(c, s) = Sum(c, cs) + Bill(c, fr) /\ Sum(c, cs) \in Nat /\ Bill(c, fr) \in Nat
      BY <3>1, SumOf DEF s
    <3>3. Bill(c, fr) = Times(c, fr.lead) + Times(c, fr.kept) + OpsLoad(c, fr.ops)
      BY <3>1, Bills
    <3> QED BY <3>2, <3>3
  <2>9. Sum(c, FlattenSeq(boxes)) = Boxes(c) + Sum(c, s) /\ Boxes(c) \in Nat
    BY <2>3, <2>5, Totals DEF boxes, Boxes
  <2>10. Sum(c, <<>>) = 0
    <3>1. <<>> \in Seq(Frame)
      OBVIOUS
    <3> QED BY <3>1, SumOf
  <2>11. Passes(c, "expr", val) = 0
    BY DEF Passes, Passing
  <2>12. n = Sum(c, FlattenSeq(boxes)) + Sum(c, <<>>) + Passes(c, "expr", val)
    BY <2>8, <2>9, <2>10, <2>11 DEF Holds
  <2>13. n = Owed(c, conts', calls', ctl', val')
    BY <2>1, <2>12 DEF Owed, boxes
  <2> QED BY <2>1, <2>7, <2>13, Turned DEF Sound
<1> QED BY <1>1, <1>2

(* The innermost function replaced or left, its place boxed.               *)
LEMMA SwapSound ==
  ASSUME IInv, Tidy, IInv', calls # <<>>, Free(Pop), NEW c, NEW n, NEW q, Tally(q, c, n),
         NEW fr, Neat(fr), NEW x, NEW v, Goes(q, Swap(fr), x, v), Fit(fr, x, q, v),
         n = Base(c) + Holds(c, fr) + Passes(c, x, v)
  PROVE  Sound(c)
<1>1. Pop \in Seq(Frame)
  BY TopAndPop
<1>2. Goes(q, Append(Pop, fr), x, v)
  BY DEF Swap
<1>3. n = Boxes(c) + Sum(c, Pop) + Holds(c, fr) + Passes(c, x, v)
  BY DEF Base
<1> QED BY <1>1, <1>2, <1>3, PushSound

LEMMA RestSound ==
  ASSUME IInv, Tidy, IInv', calls # <<>>, Free(Pop), NEW c, NEW n, NEW q, Tally(q, c, n),
         NEW v, Return(q, Pop, v), n = Base(c) + Load(c, v)
  PROVE  Sound(c)
<1>1. Pop \in Seq(Frame)
  BY TopAndPop
<1>2. Goes(q, Pop, "done", v)
  BY DEF Goes, Return
<1>3. n = Boxes(c) + Sum(c, Pop) + Passes(c, "done", v)
  BY DEF Base, Passes, Passing
<1>4. Plainly("done", q, v)
  BY DEF Plainly
<1> QED BY <1>1, <1>2, <1>3, <1>4, CarrySound

LEMMA NeedNextSound ==
  ASSUME IInv, Tidy, IInv', calls # <<>>, Free(Pop), NEW c, NEW n, NEW q, Tally(q, c, n),
         NEW fr, Neat(fr), fr.fn \notin Branching \cup TypeFrames, Need(q, Swap(fr)),
         n = Base(c) + Holds(c, fr)
  PROVE  Sound(c)
<1>1. Pop \in Seq(Frame)
  BY TopAndPop
<1>2. Need(q, Append(Pop, fr))
  BY DEF Swap
<1>3. n = Boxes(c) + Sum(c, Pop) + Holds(c, fr)
  BY DEF Base
<1> QED BY <1>1, <1>2, <1>3, NeedSound

(* A function that holds nothing for later.                                *)
Quiet(fr) == fr.lead = <<>> /\ fr.ops = <<>>

LEMMA QuietHolds ==
  ASSUME NEW fr, Quiet(fr), NEW c, Times(c, fr.kept) \in Nat
  PROVE  Holds(c, fr) = Times(c, fr.kept)
<1>1. Times(c, fr.lead) = 0
  BY TimesNone, Zenon DEF Quiet
<1>2. OpsLoad(c, fr.ops) = 0
  <2>1. <<>> \in Seq(PendingOp)
    OBVIOUS
  <2>2. OpsLoad(c, <<>>) = 0
    BY <2>1, OpsLoads
  <2> QED BY <2>2, Zenon DEF Quiet
<1> QED BY <1>1, <1>2 DEF Holds

(* A function starts with nothing.                                         *)
Empty(fr) == Quiet(fr) /\ fr.kept = <<>>

LEMMA EmptyHolds ==
  ASSUME NEW fr, Empty(fr), NEW c
  PROVE  /\ Holds(c, fr) = 0
         /\ fr.fn # "app" \/ fr.n = 0 => Neat(fr)
<1>1. Times(c, fr.kept) = 0
  BY TimesNone, Zenon DEF Empty
<1>2. Holds(c, fr) = Times(c, fr.kept)
  BY <1>1, QuietHolds DEF Empty
<1>3. fr.fn # "app" \/ fr.n = 0 => Neat(fr)
  <2>1. fr.lead = <<>> /\ fr.ops = <<>> /\ fr.kept = <<>>
    BY Zenon DEF Empty, Quiet
  <2> QED BY <2>1 DEF Neat
<1> QED BY <1>1, <1>2, <1>3

LEMMA NewEmpty ==
  ASSUME NEW fn, NEW from
  PROVE  /\ Empty(New(fn, from)) /\ New(fn, from).fn = fn /\ New(fn, from).n = 0
         /\ \A x : Empty([New(fn, from) EXCEPT !.mark = x]) /\ [New(fn, from) EXCEPT !.mark = x].fn = fn
         /\ \A x : Empty([New(fn, from) EXCEPT !.snap = x]) /\ [New(fn, from) EXCEPT !.snap = x].fn = fn
         /\ \A x, y : /\ Empty([New(fn, from) EXCEPT !.col = x, !.snap = y])
                      /\ [New(fn, from) EXCEPT !.col = x, !.snap = y].fn = fn
         /\ \A x, y : /\ Empty([New(fn, from) EXCEPT !.col = x, !.lim = y])
                      /\ [New(fn, from) EXCEPT !.col = x, !.lim = y].fn = fn
         /\ \A x, y : /\ Empty([New(fn, from) EXCEPT !.snap = x, !.lim = y])
                      /\ [New(fn, from) EXCEPT !.snap = x, !.lim = y].fn = fn
                      /\ [New(fn, from) EXCEPT !.snap = x, !.lim = y].lim = y
                      /\ [New(fn, from) EXCEPT !.snap = x, !.lim = y].snap = x
         /\ \A x, y : /\ Empty([New(fn, from) EXCEPT !.snap = x, !.chain = y])
                      /\ [New(fn, from) EXCEPT !.snap = x, !.chain = y].fn = fn
         /\ \A x, y, z : /\ Empty([New(fn, from) EXCEPT !.col = x, !.ctx = y, !.line = z])
                         /\ [New(fn, from) EXCEPT !.col = x, !.ctx = y, !.line = z].fn = fn
                         /\ [New(fn, from) EXCEPT !.col = x, !.ctx = y, !.line = z].n = 0
         /\ \A x, y, z : /\ Empty([New(fn, from) EXCEPT !.col = x, !.n = y, !.line = z])
                         /\ [New(fn, from) EXCEPT !.col = x, !.n = y, !.line = z].fn = fn
         /\ \A x, y, z : /\ Empty([New(fn, from) EXCEPT !.col = x, !.ref = y, !.snap = z])
                         /\ [New(fn, from) EXCEPT !.col = x, !.ref = y, !.snap = z].fn = fn
BY DEF New, Empty, Quiet

(* A function starts on a stack with neither patterns nor types.           *)
LEMMA StartSound ==
  ASSUME IInv, Tidy, IInv', Free(calls), NEW c, NEW n, NEW q, Tally(q, c, n),
         NEW fr, Empty(fr), fr.fn # "app" \/ fr.n = 0, fr.fn \notin Branching \cup TypeFrames, NEW x,
         x \notin Passing, Goto(q, Append(calls, fr), x), n = Boxes(c) + Sum(c, calls)
  PROVE  Sound(c)
<1>1. Holds(c, fr) = 0 /\ Neat(fr)
  BY EmptyHolds
<1>2. calls \in Seq(Frame)
  BY State
<1>3. Fit(fr, x, q, val)
  <2>1. x # "reduce" /\ x # "valueName"
    BY DEF Passing
  <2> QED BY <2>1 DEF Fit, Plainly, Branching, Empty, Quiet
<1>4. Passes(c, x, val) = 0
  BY DEF Passes
<1>5. Boxes(c) \in Nat /\ Sum(c, calls) \in Nat
  BY TotalIs
<1>6. n = Boxes(c) + Sum(c, calls) + Holds(c, fr) + Passes(c, x, val)
  BY <1>1, <1>4, <1>5
<1>7. Goes(q, Append(calls, fr), x, val)
  BY DEF Goes
<1> QED BY <1>1, <1>2, <1>3, <1>6, <1>7, PushSound

(* The chain of field accesses goes under a compound expression.           *)
LEMMA CompoundIn ==
  ASSUME IInv, Free(calls), NEW fr, NEW c
  PROVE  LET cs == Append(calls, New("access", 0))
         IN  /\ Compound(fr) = Append(cs, fr) /\ cs \in Seq(Frame) /\ Free(cs) /\ Sum(c, cs) = Sum(c, calls)
             /\ Sum(c, calls) \in Nat
<1> DEFINE new == New("access", 0)
           cs == Append(calls, new)
<1>1. new.fn = "access" /\ Empty(new)
  BY NewEmpty
<1>2. new \in Frame
  BY NewType DEF FrameNames
<1> HIDE DEF new
<1>3. calls \in Seq(Frame)
  BY State
<1>4. calls \o <<new, fr>> = Append(Append(calls, new), fr)
  <2>1. calls \in Seq(Frame \cup {new, fr})
    BY <1>3
  <2> QED BY <2>1
<1>5. Neat(new) /\ Holds(c, new) = 0
  BY <1>1, EmptyHolds
<1>6. new.fn \notin PatternFrames \cup TypeFrames /\ new.fn # "casePattern"
  BY <1>1 DEF PatternFrames, TypeFrames
<1>7. Free(cs)
  BY <1>3, <1>5, <1>6, FreePush
<1>8. cs \in Seq(Frame)
  BY <1>2, <1>3
<1>9. Sum(c, cs) = Sum(c, calls) + Bill(c, new) /\ Sum(c, calls) \in Nat
  BY <1>2, <1>3, SumOf
<1>10. Bill(c, new) = Holds(c, new)
  BY <1>2, Bills DEF Holds
<1> HIDE DEF cs
<1>11. Sum(c, cs) = Sum(c, calls)
  BY <1>5, <1>9, <1>10
<1>12. Compound(fr) = Append(cs, fr)
  BY <1>4 DEF Compound, cs, new
<1> QED BY SMTT(30), <1>7, <1>8, <1>9, <1>11, <1>12 DEF cs, new

LEMMA CompoundSound ==
  ASSUME IInv, Tidy, IInv', Free(calls), NEW c, NEW n, NEW q, Tally(q, c, n), NEW fr, Empty(fr),
         fr.fn # "app", fr.fn \notin Branching \cup TypeFrames, n = Boxes(c) + Sum(c, calls),
         Need(q, Compound(fr)) \/ \E x : x \notin Passing /\ Goto(q, Compound(fr), x)
  PROVE  Sound(c)
<1> DEFINE cs == Append(calls, New("access", 0))
<1>1. /\ Compound(fr) = Append(cs, fr) /\ cs \in Seq(Frame) /\ Free(cs)
      /\ Sum(c, cs) = Sum(c, calls) /\ Sum(c, calls) \in Nat
  BY CompoundIn
<1> HIDE DEF cs
<1>2. Holds(c, fr) = 0 /\ Neat(fr)
  BY EmptyHolds
<1>3. Boxes(c) \in Nat
  BY TotalIs
<1>4. CASE Need(q, Compound(fr))
  <2>1. n = Boxes(c) + Sum(c, cs) + Holds(c, fr)
    BY <1>1, <1>2, <1>3
  <2>2. Need(q, Append(cs, fr))
    BY <1>1, <1>4
  <2> QED BY <1>1, <1>2, <2>1, <2>2, NeedSound
<1>5. ASSUME NEW x, x \notin Passing, Goto(q, Compound(fr), x)
      PROVE  Sound(c)
  <2>1. Fit(fr, x, q, val)
    <3>1. x # "reduce" /\ x # "valueName"
      BY <1>5 DEF Passing
    <3> QED BY <3>1 DEF Fit, Plainly, Branching, Empty, Quiet
  <2>2. Passes(c, x, val) = 0
    BY <1>5 DEF Passes
  <2>3. n = Boxes(c) + Sum(c, cs) + Holds(c, fr) + Passes(c, x, val)
    BY <1>1, <1>2, <1>3, <2>2
  <2>4. Goes(q, Append(cs, fr), x, val)
    BY <1>1, <1>5 DEF Goes
  <2> QED BY <1>1, <1>2, <2>1, <2>3, <2>4, PushSound
<1> QED BY <1>4, <1>5
-----------------------------------------------------------------------------
(* Where actions start.                                                    *)

LEMMA Begin ==
  ASSUME IInv, Tidy, Fair,
         ctl \notin Passing \cup PatternControls \cup TypeControls \cup {"branch", "error"}, NEW c
  PROVE  /\ Free(calls) /\ calls \in Seq(Frame)
         /\ Tally(p, c, Boxes(c) + Sum(c, calls)) /\ Boxes(c) \in Nat /\ Sum(c, calls) \in Nat
<1>1. ctl # "done" /\ ctl # "error"
  BY DEF Passing
<1>2. Free(calls)
  BY <1>1, FreeCalls
<1>3. Passes(c, ctl, val) = 0
  BY DEF Passes
<1>4. /\ Tally(p, c, Boxes(c) + Sum(c, calls) + Passes(c, ctl, val))
      /\ Boxes(c) \in Nat /\ Sum(c, calls) \in Nat
  BY <1>1, Opening
<1>5. Boxes(c) + Sum(c, calls) + Passes(c, ctl, val) = Boxes(c) + Sum(c, calls)
  BY <1>3, <1>4
<1> QED BY <1>2, <1>4, <1>5, State

(* A function that gets a value back.                                      *)
LEMMA Given ==
  ASSUME IInv, Tidy, Fair, NEW fn, Resumes(fn), NEW c
  PROVE  /\ calls # <<>> /\ Top \in Frame /\ Top.fn = fn /\ Pop \in Seq(Frame) /\ val \in Node
         /\ Neat(Top) /\ Meets(Top, "done", p, val)
         /\ fn \notin PatternFrames \cup TypeFrames => Free(Pop)
         /\ Tally(p, c, Base(c) + Holds(c, Top) + Load(c, val))
         /\ Base(c) \in Nat /\ Load(c, val) \in Nat /\ Times(c, Top.kept) \in Nat
         /\ Times(c, Top.lead) \in Nat /\ OpsLoad(c, Top.ops) \in Nat
         /\ fn \notin Leading => Quiet(Top) /\ Tally(p, c, Base(c) + Times(c, Top.kept) + Load(c, val))
         /\ fn # "binary" => Top.ops = <<>> /\ OpsLoad(c, Top.ops) = 0
         /\ Holds(c, Top) = Times(c, Top.lead) + Times(c, Top.kept) + OpsLoad(c, Top.ops)
<1>1. calls # <<>> /\ Top.fn = fn /\ ctl = "done" /\ ctl # "error"
  BY DEF Resumes
<1>2. Top \in Frame /\ Pop \in Seq(Frame) /\ val \in Node
  BY <1>1, TopAgain, State
<1>3. Passes(c, ctl, val) = Load(c, val)
  BY <1>1 DEF Passes, Passing
<1>4. /\ Tally(p, c, Base(c) + Holds(c, Top) + Passes(c, ctl, val))
      /\ Base(c) \in Nat /\ Load(c, val) \in Nat /\ Times(c, Top.kept) \in Nat
      /\ Times(c, Top.lead) \in Nat /\ OpsLoad(c, Top.ops) \in Nat
      /\ Top.fn # "binary" => OpsLoad(c, Top.ops) = 0
  BY <1>1, OpeningTop
<1>5. Neat(Top) /\ Meets(Top, "done", p, val) /\ (fn \notin PatternFrames \cup TypeFrames => Free(Pop))
  BY <1>1, TopNeat
<1>6. fn \notin Leading => fn # "binary"
  BY DEF Leading
<1>7. /\ fn \notin Leading => Quiet(Top)
      /\ fn # "binary" => Top.ops = <<>>
  BY <1>1, <1>5, <1>6 DEF Neat, Quiet
<1>8. fn \notin Leading => Holds(c, Top) = Times(c, Top.kept)
  BY <1>4, <1>7, QuietHolds
<1> QED BY <1>1, <1>2, <1>3, <1>4, <1>5, <1>7, <1>8 DEF Holds

(* A function that runs on its own locals.                                 *)
LEMMA Running ==
  ASSUME IInv, Tidy, Fair, ctl \in DOMAIN Owners, NEW c
  PROVE  /\ calls # <<>> /\ Top \in Frame /\ Top.fn = Owners[ctl] /\ Pop \in Seq(Frame) /\ val \in Node
         /\ Neat(Top) /\ Meets(Top, ctl, p, val)
         /\ Owners[ctl] \notin PatternFrames \cup TypeFrames => Free(Pop)
         /\ Tally(p, c, Base(c) + Holds(c, Top) + Passes(c, ctl, val))
         /\ ctl \notin Passing => Tally(p, c, Base(c) + Holds(c, Top))
         /\ ctl \in Passing => Passes(c, ctl, val) = Load(c, val)
         /\ Base(c) \in Nat /\ Load(c, val) \in Nat /\ Times(c, Top.kept) \in Nat
         /\ Times(c, Top.lead) \in Nat /\ OpsLoad(c, Top.ops) \in Nat
         /\ Owners[ctl] \notin Leading => Quiet(Top)
         /\ Owners[ctl] # "binary" => Top.ops = <<>> /\ OpsLoad(c, Top.ops) = 0
         /\ Holds(c, Top) = Times(c, Top.lead) + Times(c, Top.kept) + OpsLoad(c, Top.ops)
         /\ Top.lead = <<>> => Times(c, Top.lead) = 0
         /\ Top.kept = <<>> => Times(c, Top.kept) = 0
         /\ Top.ops = <<>> => OpsLoad(c, Top.ops) = 0
<1>1. Top \in Frame /\ Top.fn = Owners[ctl] /\ Pop \in Seq(Frame) /\ val \in Node
  BY Owned, State
<1>2. calls # <<>>
  BY DEF IInv, ControlFitsStack, StackFits
<1>a. ctl # "error"
  <2>1. ctl \in DOMAIN Owners => ctl # "error"
    BY OwnersAre
  <2> QED BY <2>1
<1>3. /\ ctl \notin Passing => Passes(c, ctl, val) = 0
      /\ ctl \in Passing => Passes(c, ctl, val) = Load(c, val)
  BY DEF Passes
<1>4. /\ Tally(p, c, Base(c) + Holds(c, Top) + Passes(c, ctl, val))
      /\ Base(c) \in Nat /\ Load(c, val) \in Nat /\ Times(c, Top.kept) \in Nat
      /\ Times(c, Top.lead) \in Nat /\ OpsLoad(c, Top.ops) \in Nat
      /\ Top.fn # "binary" => OpsLoad(c, Top.ops) = 0
      /\ Top.lead = <<>> => Times(c, Top.lead) = 0
      /\ Top.kept = <<>> => Times(c, Top.kept) = 0
      /\ Top.ops = <<>> => OpsLoad(c, Top.ops) = 0
  BY <1>2, <1>a, OpeningTop
<1>5. Neat(Top) /\ Meets(Top, ctl, p, val) /\ (Top.fn \notin PatternFrames \cup TypeFrames => Free(Pop))
  BY <1>2, TopNeat
<1>6. Top.fn \notin Leading => Top.fn # "binary"
  BY DEF Leading
<1>7. /\ Top.fn \notin Leading => Quiet(Top)
      /\ Top.fn # "binary" => Top.ops = <<>>
  BY <1>5, <1>6 DEF Neat, Quiet
<1>8. Holds(c, Top) \in Nat
  BY <1>4 DEF Holds
<1>9. ctl \notin Passing => Tally(p, c, Base(c) + Holds(c, Top))
  <2>1. ctl \notin Passing => Base(c) + Holds(c, Top) + Passes(c, ctl, val) = Base(c) + Holds(c, Top)
    BY <1>3, <1>4, <1>8
  <2> QED BY <1>4, <2>1
<1> QED BY <1>1, <1>2, <1>3, <1>4, <1>5, <1>7, <1>9 DEF Holds

(* Locals that hold no comments may change.                                *)
Kin(f, g) == f.lead = g.lead /\ f.kept = g.kept /\ f.ops = g.ops

LEMMA Edits ==
  ASSUME NEW g \in Frame
  PROVE  /\ \A x : Kin([g EXCEPT !.mark = x], g) /\ [g EXCEPT !.mark = x].fn = g.fn
         /\ \A x : Kin([g EXCEPT !.lim = x], g) /\ [g EXCEPT !.lim = x].fn = g.fn
         /\ \A x : Kin([g EXCEPT !.sub = x], g) /\ [g EXCEPT !.sub = x].fn = g.fn
         /\ \A x : Kin([g EXCEPT !.fn = x], g) /\ [g EXCEPT !.fn = x].fn = x
         /\ \A x, y : Kin([g EXCEPT !.fn = x, !.snap = y], g) /\ [g EXCEPT !.fn = x, !.snap = y].fn = x
         /\ \A x, y : Kin([g EXCEPT !.fn = x, !.chain = y], g) /\ [g EXCEPT !.fn = x, !.chain = y].fn = x
         /\ \A x, y : Kin([g EXCEPT !.fn = x, !.body = y], g) /\ [g EXCEPT !.fn = x, !.body = y].fn = x
         /\ \A x, y : Kin([g EXCEPT !.fn = x, !.lim = y], g) /\ [g EXCEPT !.fn = x, !.lim = y].fn = x
         /\ \A x, y : Kin([g EXCEPT !.sub = x, !.lim = y], g) /\ [g EXCEPT !.sub = x, !.lim = y].fn = g.fn
         /\ \A x, y : Kin([g EXCEPT !.col = x, !.line = y], g) /\ [g EXCEPT !.col = x, !.line = y].fn = g.fn
         /\ \A x, y, z : /\ Kin([g EXCEPT !.fn = x, !.n = y, !.ref = z], g)
                         /\ [g EXCEPT !.fn = x, !.n = y, !.ref = z].fn = x
BY DEF Frame, Kin

(* What is claimed for the next part, what is passed on to it.             *)
LEMMA LeadEdits ==
  ASSUME NEW g \in Frame
  PROVE  /\ \A x : /\ [g EXCEPT !.lead = x].fn = g.fn /\ [g EXCEPT !.lead = x].lead = x
                   /\ [g EXCEPT !.lead = x].kept = g.kept /\ [g EXCEPT !.lead = x].ops = g.ops
                   /\ [g EXCEPT !.lead = x].n = g.n /\ [g EXCEPT !.lead = x].last = g.last
         /\ \A x : /\ [g EXCEPT !.ops = x].fn = g.fn /\ [g EXCEPT !.ops = x].lead = g.lead
                   /\ [g EXCEPT !.ops = x].kept = g.kept /\ [g EXCEPT !.ops = x].ops = x
         /\ \A x, y : /\ [g EXCEPT !.fn = x, !.lead = y].fn = x /\ [g EXCEPT !.fn = x, !.lead = y].lead = y
                      /\ [g EXCEPT !.fn = x, !.lead = y].kept = g.kept /\ [g EXCEPT !.fn = x, !.lead = y].ops = g.ops
         /\ \A x, y : /\ [g EXCEPT !.sub = x, !.lead = y].fn = g.fn /\ [g EXCEPT !.sub = x, !.lead = y].lead = y
                      /\ [g EXCEPT !.sub = x, !.lead = y].kept = g.kept /\ [g EXCEPT !.sub = x, !.lead = y].ops = g.ops
         /\ \A x, y : /\ [g EXCEPT !.lead = x, !.mark = y].fn = g.fn /\ [g EXCEPT !.lead = x, !.mark = y].lead = x
                      /\ [g EXCEPT !.lead = x, !.mark = y].kept = g.kept /\ [g EXCEPT !.lead = x, !.mark = y].ops = g.ops
BY DEF Frame
=============================================================================
