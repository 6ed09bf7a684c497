--------------------------- MODULE TomlTable_proof ---------------------------
(***************************************************************************)
(* Lemmas about the tables of the TOML parser, for tables of any size and  *)
(* keys of any length.                                                     *)
(***************************************************************************)
EXTENDS TomlTable, SequenceTheorems, FiniteSetTheorems, WellFoundedInduction, TLAPS

(***************************************************************************)
(* Induction on the natural numbers.  The property is a set of numbers and *)
(* not an operator, so that the lemma can be cited.                        *)
(***************************************************************************)
LEMMA NatInd ==
  ASSUME NEW S, 0 \in S, \A n \in Nat : n \in S => n + 1 \in S
  PROVE  Nat \subseteq S
<1> DEFINE R == OpToRel(<, Nat)
           T == Nat \ S
<1>1. SUFFICES ASSUME T # {} PROVE FALSE
  OBVIOUS
<1>2. IsWellFoundedOn(R, Nat)
  BY NatLessThanWellFounded
<1>3. \A a, b \in Nat : <<a, b>> \in R <=> a < b
  BY DEF OpToRel
<1> HIDE DEF R
<1>4. PICK x \in T : \A y \in T : ~(<<y, x>> \in R)
  <2>1. T \subseteq Nat
    OBVIOUS
  <2> HIDE DEF T
  <2> QED
    BY <1>1, <1>2, <2>1, WFMin
<1>5. x # 0 /\ x \in Nat /\ x - 1 \in Nat /\ x - 1 < x
  OBVIOUS
<1>6. x - 1 \notin T
  BY <1>3, <1>4, <1>5
<1>7. x - 1 + 1 \in S
  BY <1>5, <1>6
<1> QED
  BY <1>5, <1>7

\* The tail of a concatenation.
LEMMA SubSeqOfConcatTail ==
  ASSUME NEW K, NEW q \in Seq(K), NEW s \in Seq(K)
  PROVE  SubSeq(q \o s, Len(q) + 1, Len(q \o s)) = s
<1> DEFINE c == q \o s
<1>1. /\ c \in Seq(K) /\ Len(c) = Len(q) + Len(s)
      /\ \A i \in 1..(Len(q) + Len(s)) : c[i] = IF i <= Len(q) THEN q[i] ELSE s[i - Len(q)]
  BY ConcatProperties
<1>2. Len(q) \in Nat /\ Len(s) \in Nat
  OBVIOUS
<1> HIDE DEF c
<1>3. \A i \in (Len(q) + 1)..Len(c) : c[i] \in K
  BY <1>1, <1>2
<1> DEFINE b == SubSeq(c, Len(q) + 1, Len(c))
<1>4. /\ b \in Seq(K)
      /\ Len(b) = IF Len(q) + 1 <= Len(c) THEN Len(c) - (Len(q) + 1) + 1 ELSE 0
      /\ \A i \in 1..(Len(c) - (Len(q) + 1) + 1) : b[i] = c[Len(q) + 1 + i - 1]
  BY <1>1, <1>2, <1>3, SubSeqProperties
<1> HIDE DEF b
<1>5. Len(b) = Len(s)
  BY <1>1, <1>2, <1>4
<1>6. ASSUME NEW i \in 1..Len(s) PROVE b[i] = s[i]
  <2>1. b[i] = c[Len(q) + i]
    BY <1>1, <1>2, <1>4
  <2>2. Len(q) + i \in 1..(Len(q) + Len(s)) /\ ~(Len(q) + i <= Len(q)) /\ Len(q) + i - Len(q) = i
    BY <1>2
  <2> QED
    BY <1>1, <2>1, <2>2
<1>7. b = s
  BY <1>4, <1>5, <1>6, SeqEqual
<1> QED
  BY <1>7 DEF b, c

-----------------------------------------------------------------------------
(* The descent along a key *)

\* The recursion of Descent has a solution for every number of parts.
LEMMA DescentExists ==
  ASSUME NEW t, NEW from, NEW key, NEW caller, NEW N \in Nat
  PROVE  \E d : d = [i \in 0..N |-> IF i = 0 THEN Result(t, from)
                                    ELSE descend_part(d[i - 1], from, key[i], caller)]
<1> DEFINE Eq(d, n) == d = [i \in 0..n |-> IF i = 0 THEN Result(t, from)
                                           ELSE descend_part(d[i - 1], from, key[i], caller)]
           S == {n \in Nat : \E d : Eq(d, n)}
<1>1. 0 \in S
  <2> DEFINE d0 == [i \in 0..0 |-> Result(t, from)]
  <2>1. Eq(d0, 0)
    OBVIOUS
  <2> QED
    BY <2>1
<1>2. ASSUME NEW n \in Nat, n \in S PROVE n + 1 \in S
  <2>1. PICK d : Eq(d, n)
    BY <1>2
  <2> DEFINE h == [i \in 0..(n + 1) |-> IF i = n + 1 THEN descend_part(d[n], from, key[n + 1], caller) ELSE d[i]]
             rhs == [i \in 0..(n + 1) |-> IF i = 0 THEN Result(t, from)
                                          ELSE descend_part(h[i - 1], from, key[i], caller)]
  <2>2. ASSUME NEW i \in 0..(n + 1) PROVE h[i] = rhs[i]
    <3>1. CASE i = n + 1
      <4>1. h[i] = descend_part(d[n], from, key[n + 1], caller)
        BY <3>1
      <4>2. h[n] = d[n] /\ i - 1 = n /\ i # 0
        BY <3>1
      <4>3. rhs[i] = descend_part(h[n], from, key[n + 1], caller)
        BY <3>1, <4>2
      <4> QED
        BY <4>1, <4>2, <4>3
    <3>2. CASE i # n + 1
      <4>1. i \in 0..n /\ h[i] = d[i] /\ (i # 0 => i - 1 \in 0..n /\ h[i - 1] = d[i - 1])
        BY <3>2
      <4>2. d[i] = IF i = 0 THEN Result(t, from) ELSE descend_part(d[i - 1], from, key[i], caller)
        BY <2>1, <4>1
      <4> QED
        BY <4>1, <4>2
    <3> QED
      BY <3>1, <3>2
  <2>3. Eq(h, n + 1)
    BY <2>2
  <2> HIDE DEF h
  <2>4. n + 1 \in Nat /\ \E e : Eq(e, n + 1)
    BY <2>3
  <2> QED
    BY <2>4
<1>3. Nat \subseteq S
  <2> HIDE DEF S
  <2> QED
    BY <1>1, <1>2, NatInd
<1> QED
  BY <1>3

\* So Descent is the function its definition says.
LEMMA DescentDef ==
  ASSUME NEW t, NEW from, NEW key, NEW caller, Len(key) \in Nat
  PROVE  /\ Descent(t, from, key, caller)[0] = Result(t, from)
         /\ \A i \in 1..Len(key) : Descent(t, from, key, caller)[i] =
              descend_part(Descent(t, from, key, caller)[i - 1], from, key[i], caller)
<1> DEFINE D == Descent(t, from, key, caller)
<1>1. D = CHOOSE d : d = [i \in 0..Len(key) |-> IF i = 0 THEN Result(t, from)
                                               ELSE descend_part(d[i - 1], from, key[i], caller)]
  BY DEF Descent
<1>2. D = [i \in 0..Len(key) |-> IF i = 0 THEN Result(t, from)
                                 ELSE descend_part(D[i - 1], from, key[i], caller)]
  BY <1>1, DescentExists
<1> HIDE DEF D
<1>3. D[0] = Result(t, from)
  BY <1>2
<1>4. \A i \in 1..Len(key) : i \in 0..Len(key) /\ i # 0
  OBVIOUS
<1>5. \A i \in 1..Len(key) : D[i] = descend_part(D[i - 1], from, key[i], caller)
  BY <1>2, <1>4
<1> QED
  BY <1>3, <1>5 DEF D

-----------------------------------------------------------------------------
(* Trees *)

\* Finite trees with the key parts K and the values V; K holds the numbers of elements too.
Data(V) == [type : Types, flag : SUBSET Flags, val : V]
Trees(K, V) == {t \in UNION {[D -> Data(V)] : D \in SUBSET Seq(K)} : IsFiniteSet(DOMAIN t)}

AtOrBelow(p, q) == Len(p) <= Len(q) /\ \A i \in 1..Len(p) : q[i] = p[i]
Below(p, q)     == AtOrBelow(p, q) /\ Len(p) < Len(q)

(***************************************************************************)
(* u is t with more data, all below the place from: what was there stays,  *)
(* and keeps its flags.                                                    *)
(***************************************************************************)
Grows(t, u, from) ==
  /\ \A p \in DOMAIN t : /\ p \in DOMAIN u /\ u[p].type = t[p].type /\ u[p].val = t[p].val
                         /\ t[p].flag \subseteq u[p].flag
  /\ \A p \in DOMAIN u : p \in DOMAIN t \/ Below(from, p)

\* What an operation on t that starts at from may return.
Proper(r, t, from, K, V) ==
  /\ r.err \in Errors
  /\ r.err = "" => /\ r.t \in Trees(K, V) /\ Grows(t, r.t, from)
                   /\ r.p \in DOMAIN r.t /\ AtOrBelow(from, r.p)

LEMMA TreeFacts ==
  ASSUME NEW K, NEW V, NEW t
  PROVE  t \in Trees(K, V) <=> /\ t \in [DOMAIN t -> Data(V)] /\ DOMAIN t \subseteq Seq(K)
                               /\ IsFiniteSet(DOMAIN t)
BY DEF Trees

LEMMA SingleTree ==
  ASSUME NEW K, NEW V, NEW d \in Data(V)
  PROVE  Single(d) \in Trees(K, V) /\ DOMAIN Single(d) = {<<>>} /\ Single(d)[<<>>] = d
<1>1. DOMAIN Single(d) = {<<>>} /\ Single(d) \in [{<<>>} -> Data(V)] /\ Single(d)[<<>>] = d
  BY DEF Single
<1>2. IsFiniteSet({<<>>})
  BY FS_Singleton
<1>3. {<<>>} \subseteq Seq(K)
  OBVIOUS
<1> QED
  BY <1>1, <1>2, <1>3, TreeFacts

LEMMA SizeNat ==
  ASSUME NEW K, NEW V, NEW t \in Trees(K, V), NEW p
  PROVE  size(t, p) \in Nat
<1> DEFINE C == {q \in DOMAIN t : Len(q) = Len(p) + 1 /\ IsPrefix(p, q)}
<1>1. IsFiniteSet(DOMAIN t)
  BY TreeFacts
<1>2. C \subseteq DOMAIN t
  OBVIOUS
<1>3. size(t, p) = Cardinality(C)
  BY DEF size
<1> HIDE DEF C
<1>4. IsFiniteSet(C)
  BY <1>1, <1>2, FS_Subset
<1> QED
  BY <1>3, <1>4, FS_CardinalityType

\* A child's path, and what is at or below it.
LEMMA ChildBelow ==
  ASSUME NEW K, NEW p \in Seq(K), NEW k \in K
  PROVE  /\ Append(p, k) \in Seq(K) /\ Below(p, Append(p, k))
         /\ Len(Append(p, k)) = Len(p) + 1 /\ Append(p, k)[Len(p) + 1] = k
         /\ \A i \in 1..Len(p) : Append(p, k)[i] = p[i]
BY DEF Below, AtOrBelow

LEMMA ConcatBelow ==
  ASSUME NEW K, NEW p \in Seq(K), NEW q \in Seq(K)
  PROVE  AtOrBelow(p, p \o q)
<1>1. /\ Len(p \o q) = Len(p) + Len(q)
      /\ \A i \in 1..(Len(p) + Len(q)) : (p \o q)[i] = IF i <= Len(p) THEN p[i] ELSE q[i - Len(p)]
  BY ConcatProperties
<1>2. Len(p) \in Nat /\ Len(q) \in Nat
  OBVIOUS
<1> QED
  BY <1>1, <1>2 DEF AtOrBelow

LEMMA BelowTransitive ==
  ASSUME NEW K, NEW p \in Seq(K), NEW q \in Seq(K), NEW r \in Seq(K)
  PROVE  /\ AtOrBelow(p, p)
         /\ AtOrBelow(p, q) /\ AtOrBelow(q, r) => AtOrBelow(p, r)
         /\ AtOrBelow(p, q) /\ Below(q, r) => Below(p, r)
         /\ Below(p, q) /\ AtOrBelow(q, r) => Below(p, r)
         /\ Below(p, q) => AtOrBelow(p, q)
<1>1. Len(p) \in Nat /\ Len(q) \in Nat /\ Len(r) \in Nat
  OBVIOUS
<1> QED
  BY <1>1 DEF AtOrBelow, Below

\* A tree moved to the place q keeps what was there, and all it adds is at q or below.
LEMMA GraftTree ==
  ASSUME NEW K, NEW V, NEW t \in Trees(K, V), NEW sub \in Trees(K, V), NEW q \in Seq(K)
  PROVE  /\ Graft(t, q, sub) \in Trees(K, V)
         /\ \A r : r \in DOMAIN Graft(t, q, sub) <=> r \in DOMAIN t \/ \E s \in DOMAIN sub : r = q \o s
         /\ \A r \in DOMAIN t : Graft(t, q, sub)[r] = t[r]
         /\ \A s \in DOMAIN sub : q \o s \notin DOMAIN t => Graft(t, q, sub)[q \o s] = sub[s]
<1> DEFINE N == {q \o s : s \in DOMAIN sub}
           u == Graft(t, q, sub)
<1>1. /\ t \in [DOMAIN t -> Data(V)] /\ DOMAIN t \subseteq Seq(K) /\ IsFiniteSet(DOMAIN t)
      /\ sub \in [DOMAIN sub -> Data(V)] /\ DOMAIN sub \subseteq Seq(K) /\ IsFiniteSet(DOMAIN sub)
  BY TreeFacts
<1>2. DOMAIN u = DOMAIN t \cup N
  BY DEF Graft
<1>3. \A r \in DOMAIN t : u[r] = t[r]
  BY DEF Graft
<1>4. ASSUME NEW s \in DOMAIN sub, q \o s \notin DOMAIN t PROVE u[q \o s] = sub[s]
  <2>1. u[q \o s] = sub[SubSeq(q \o s, Len(q) + 1, Len(q \o s))]
    BY <1>4 DEF Graft
  <2>2. s \in Seq(K)
    BY <1>1
  <2>3. SubSeq(q \o s, Len(q) + 1, Len(q \o s)) = s
    BY <2>2, SubSeqOfConcatTail
  <2> QED
    BY <2>1, <2>3
<1>5. N \subseteq Seq(K)
  BY <1>1, ConcatProperties
<1>6. IsFiniteSet(N)
  <2> DEFINE move == [s \in DOMAIN sub |-> q \o s]
  <2>1. move \in Surjection(DOMAIN sub, N)
    BY DEF Surjection
  <2> HIDE DEF move, N
  <2> QED
    BY <1>1, <2>1, FS_Surjection
<1>7. IsFiniteSet(DOMAIN t \cup N)
  BY <1>1, <1>6, FS_Union
<1>8. \A r \in DOMAIN u : u[r] \in Data(V)
  <2> SUFFICES ASSUME NEW r \in DOMAIN u PROVE u[r] \in Data(V)
    OBVIOUS
  <2>1. CASE r \in DOMAIN t
    BY <1>1, <1>3, <2>1
  <2>2. CASE r \notin DOMAIN t
    <3>1. PICK s \in DOMAIN sub : r = q \o s
      BY <1>2, <2>2
    <3> QED
      BY <1>1, <1>4, <2>2, <3>1
  <2> QED
    BY <2>1, <2>2
<1>9. u \in [DOMAIN u -> Data(V)]
  <2>1. u = [r \in DOMAIN u |-> u[r]]
    BY DEF Graft
  <2> HIDE DEF u
  <2> QED
    BY <1>8, <2>1
<1>10. u \in Trees(K, V)
  <2> HIDE DEF u, N
  <2> QED
    BY <1>1, <1>2, <1>5, <1>7, <1>9, TreeFacts
<1> QED
  BY <1>2, <1>3, <1>4, <1>10

\* One datum put at a free place.
LEMMA GraftOne ==
  ASSUME NEW K, NEW V, NEW t \in Trees(K, V), NEW q \in Seq(K), q \notin DOMAIN t, NEW d \in Data(V)
  PROVE  /\ Graft(t, q, Single(d)) \in Trees(K, V)
         /\ \A r : r \in DOMAIN Graft(t, q, Single(d)) <=> (r \in DOMAIN t \/ r = q)
         /\ Graft(t, q, Single(d))[q] = d
         /\ \A r \in DOMAIN t : Graft(t, q, Single(d))[r] = t[r]
<1> DEFINE s == Single(d)
           g == Graft(t, q, s)
<1>1. s \in Trees(K, V) /\ (\A x : x \in DOMAIN s <=> x = <<>>) /\ s[<<>>] = d
  BY SingleTree
<1> HIDE DEF s
<1>2. /\ g \in Trees(K, V)
      /\ \A r : r \in DOMAIN g <=> r \in DOMAIN t \/ \E x \in DOMAIN s : r = q \o x
      /\ \A r \in DOMAIN t : g[r] = t[r]
  <2>1. g \in Trees(K, V)
    BY <1>1, GraftTree
  <2>2. \A r : r \in DOMAIN g <=> r \in DOMAIN t \/ \E x \in DOMAIN s : r = q \o x
    BY DEF Graft
  <2>3. \A r \in DOMAIN t : g[r] = t[r]
    BY <1>1, GraftTree
  <2> QED
    BY <2>1, <2>2, <2>3
<1> HIDE DEF g
<1>3. q \o <<>> = q
  BY ConcatEmptySeq
<1>4. \A r : r \in DOMAIN g <=> (r \in DOMAIN t \/ r = q)
  BY <1>1, <1>2, <1>3
<1>5. g[q] = d
  <2>1. SubSeq(q, Len(q) + 1, Len(q)) = <<>>
    <3>1. <<>> \in Seq(K)
      BY EmptySeq
    <3> QED
      BY <1>3, <3>1, SubSeqOfConcatTail
  <2>2. q \in DOMAIN g
    BY <1>4
  <2>3. g[q] = s[SubSeq(q, Len(q) + 1, Len(q))]
    BY <2>2 DEF g, Graft
  <2> QED
    BY <1>1, <2>1, <2>3
<1> QED
  BY <1>2, <1>4, <1>5 DEF g, s

\* What grows twice has grown.
LEMMA GrowsTwice ==
  ASSUME NEW K, NEW V, NEW t \in Trees(K, V), NEW u \in Trees(K, V), NEW v \in Trees(K, V),
         NEW from \in Seq(K), NEW p \in Seq(K), AtOrBelow(from, p),
         Grows(t, u, from), Grows(u, v, p)
  PROVE  Grows(t, v, from)
<1>1. DOMAIN v \subseteq Seq(K)
  BY TreeFacts
<1>2. \A q \in DOMAIN t : /\ q \in DOMAIN v /\ v[q].type = t[q].type /\ v[q].val = t[q].val
                          /\ t[q].flag \subseteq v[q].flag
  BY DEF Grows
<1>3. ASSUME NEW q \in DOMAIN v, q \notin DOMAIN t PROVE Below(from, q)
  <2>1. CASE q \in DOMAIN u
    BY <1>3, <2>1 DEF Grows
  <2>2. CASE q \notin DOMAIN u
    <3>1. Below(p, q) /\ q \in Seq(K)
      BY <1>1, <2>2 DEF Grows
    <3> QED
      BY <3>1, BelowTransitive
  <2> QED
    BY <2>1, <2>2
<1> QED
  BY <1>2, <1>3 DEF Grows

LEMMA GrowsNot ==
  ASSUME NEW t, NEW from
  PROVE  Grows(t, t, from)
BY DEF Grows

\* A tree put at a free place below p.
LEMMA GraftGrows ==
  ASSUME NEW K, NEW V, NEW t \in Trees(K, V), NEW sub \in Trees(K, V), NEW p \in Seq(K), NEW k \in K,
         <<>> \in DOMAIN sub
  PROVE  /\ Graft(t, Append(p, k), sub) \in Trees(K, V)
         /\ Grows(t, Graft(t, Append(p, k), sub), p)
         /\ Append(p, k) \in DOMAIN Graft(t, Append(p, k), sub)
         /\ AtOrBelow(p, Append(p, k))
<1> DEFINE q == Append(p, k)
           u == Graft(t, q, sub)
<1>1. q \in Seq(K) /\ Below(p, q)
  BY ChildBelow
<1> HIDE DEF q
<1>2. /\ u \in Trees(K, V) /\ \A r : r \in DOMAIN u <=> r \in DOMAIN t \/ \E s \in DOMAIN sub : r = q \o s
      /\ \A r \in DOMAIN t : u[r] = t[r]
  <2>1. u \in Trees(K, V)
    BY <1>1, GraftTree
  <2>2. \A r : r \in DOMAIN u <=> r \in DOMAIN t \/ \E s \in DOMAIN sub : r = q \o s
    BY DEF Graft
  <2>3. \A r \in DOMAIN t : u[r] = t[r]
    BY <1>1, GraftTree
  <2> QED
    BY <2>1, <2>2, <2>3
<1> HIDE DEF u
<1>3. ASSUME NEW r \in DOMAIN u, r \notin DOMAIN t PROVE Below(p, r)
  <2>1. PICK s \in DOMAIN sub : r = q \o s
    BY <1>2, <1>3
  <2>2. s \in Seq(K)
    BY TreeFacts
  <2>3. r \in Seq(K) /\ AtOrBelow(q, r)
    BY <1>1, <2>1, <2>2, ConcatBelow, ConcatProperties
  <2> QED
    BY <1>1, <2>3, BelowTransitive
<1>4. q \o <<>> = q
  BY <1>1, ConcatEmptySeq
<1>5. q \in DOMAIN u
  BY <1>2, <1>4
<1>6. AtOrBelow(p, q)
  BY <1>1 DEF Below
<1>7. Grows(t, u, p)
  BY <1>2, <1>3 DEF Grows
<1> QED
  BY <1>2, <1>5, <1>6, <1>7 DEF q, u

LEMMA ResultProper ==
  ASSUME NEW K, NEW V, NEW t, NEW from, NEW u \in Trees(K, V), NEW p \in DOMAIN u,
         Grows(t, u, from), AtOrBelow(from, p)
  PROVE  Proper(Result(u, p), t, from, K, V)
<1>1. Result(u, p).err = "" /\ Result(u, p).t = u /\ Result(u, p).p = p
  BY DEF Result
<1> QED
  BY <1>1 DEF Proper, Errors

LEMMA RefuseProper ==
  ASSUME NEW K, NEW V, NEW t, NEW from, NEW e \in Errors, e # ""
  PROVE  Proper(Refuse(e), t, from, K, V) /\ Refuse(e).err = e
BY DEF Proper, Refuse

\* tab_add and arr_emplace (tomlc17.c:275-345).
LEMMA TabAddProper ==
  ASSUME NEW K, NEW V, NEW t \in Trees(K, V), NEW sub \in Trees(K, V), NEW p \in Seq(K), NEW k \in K,
         <<>> \in DOMAIN sub
  PROVE  Proper(tab_add(t, p, k, sub), t, p, K, V)
<1>1. CASE tab_find(t, p, k)
  BY <1>1, RefuseProper DEF tab_add, Errors
<1>2. CASE ~tab_find(t, p, k) /\ size(t, p) >= TABLE_MAX
  BY <1>2, RefuseProper DEF tab_add, Errors
<1>3. CASE ~tab_find(t, p, k) /\ ~(size(t, p) >= TABLE_MAX)
  <2>1. tab_add(t, p, k, sub) = Result(Graft(t, Append(p, k), sub), Append(p, k))
    BY <1>3 DEF tab_add
  <2> QED
    BY <2>1, GraftGrows, ResultProper
<1> QED
  BY <1>1, <1>2, <1>3

LEMMA ArrEmplaceProper ==
  ASSUME NEW K, NEW V, NEW t \in Trees(K, V), NEW sub \in Trees(K, V), NEW p \in Seq(K), Nat \subseteq K,
         <<>> \in DOMAIN sub
  PROVE  Proper(arr_emplace(t, p, sub), t, p, K, V)
<1>1. CASE size(t, p) >= ARRAY_MAX
  BY <1>1, RefuseProper DEF arr_emplace, Errors
<1>2. CASE ~(size(t, p) >= ARRAY_MAX)
  <2>1. size(t, p) + 1 \in K
    BY SizeNat
  <2>2. arr_emplace(t, p, sub) = Result(Graft(t, Append(p, size(t, p) + 1), sub), Append(p, size(t, p) + 1))
    BY <1>2 DEF arr_emplace
  <2> QED
    BY <2>1, <2>2, GraftGrows, ResultProper
<1> QED
  BY <1>1, <1>2

-----------------------------------------------------------------------------
(* Expressions *)

\* A flag changes no type and no value.
LEMMA SetFlagGrows ==
  ASSUME NEW K, NEW V, NEW t \in Trees(K, V), NEW p \in DOMAIN t, NEW f \in Flags, NEW from
  PROVE  set_flag(t, p, f) \in Trees(K, V) /\ DOMAIN set_flag(t, p, f) = DOMAIN t
         /\ Grows(t, set_flag(t, p, f), from)
<1> DEFINE u == set_flag(t, p, f)
<1>1. t \in [DOMAIN t -> Data(V)] /\ DOMAIN t \subseteq Seq(K) /\ IsFiniteSet(DOMAIN t)
  BY TreeFacts
<1>2. DOMAIN u = DOMAIN t /\ \A q \in DOMAIN t : u[q] = IF q = p THEN [t[p] EXCEPT !.flag = @ \cup {f}] ELSE t[q]
  BY DEF set_flag
<1>3. t[p].flag \cup {f} \in SUBSET Flags
  BY <1>1 DEF Data
<1>4. \A q \in DOMAIN t : /\ u[q] \in Data(V) /\ u[q].type = t[q].type /\ u[q].val = t[q].val
                          /\ t[q].flag \subseteq u[q].flag
  BY <1>1, <1>2, <1>3 DEF Data
<1>5. u \in [DOMAIN t -> Data(V)]
  <2>1. u = [q \in DOMAIN t |-> u[q]]
    BY DEF set_flag
  <2> HIDE DEF u
  <2> QED
    BY <1>4, <2>1
<1> HIDE DEF u
<1>6. u \in Trees(K, V)
  BY <1>1, <1>2, <1>5, TreeFacts
<1> QED
  BY <1>2, <1>4, <1>6 DEF Grows, u

\* A value that is complete is marked from its root down (tomlc17.c:300-312).
LEMMA SetFlagRecursiveTree ==
  ASSUME NEW K, NEW V, NEW t \in Trees(K, V), NEW f \in Flags
  PROVE  set_flag_recursive(t, f) \in Trees(K, V) /\ DOMAIN set_flag_recursive(t, f) = DOMAIN t
<1> DEFINE u == set_flag_recursive(t, f)
<1>1. t \in [DOMAIN t -> Data(V)] /\ DOMAIN t \subseteq Seq(K) /\ IsFiniteSet(DOMAIN t)
  BY TreeFacts
<1>2. DOMAIN u = DOMAIN t /\ \A q \in DOMAIN t : u[q] = [t[q] EXCEPT !.flag = @ \cup {f}]
  BY DEF set_flag_recursive
<1>3. \A q \in DOMAIN t : u[q] \in Data(V)
  BY <1>1, <1>2 DEF Data
<1>4. u \in [DOMAIN t -> Data(V)]
  <2>1. u = [q \in DOMAIN t |-> u[q]]
    BY DEF set_flag_recursive
  <2> HIDE DEF u
  <2> QED
    BY <1>3, <2>1
<1> HIDE DEF u
<1>5. u \in Trees(K, V)
  BY <1>1, <1>2, <1>4, TreeFacts
<1> QED
  BY <1>2, <1>5 DEF u

LEMMA NewTrees ==
  ASSUME NEW K, NEW V, 0 \in V, NEW F \in SUBSET Flags
  PROVE  /\ NewTable(F) \in Trees(K, V) /\ DOMAIN NewTable(F) = {<<>>}
         /\ NewArray \in Trees(K, V) /\ DOMAIN NewArray = {<<>>}
<1>1. mkdatum("table", F, 0) \in Data(V) /\ mkdatum("array", {}, 0) \in Data(V)
  BY DEF mkdatum, Data, Types
<1> QED
  BY <1>1, SingleTree DEF NewTable, NewArray

\* An operation that goes on from a proper result.
LEMMA ProperTwice ==
  ASSUME NEW K, NEW V, NEW t \in Trees(K, V), NEW from \in Seq(K), NEW r, NEW s,
         Proper(r, t, from, K, V), r.err = "", Proper(s, r.t, r.p, K, V)
  PROVE  Proper(s, t, from, K, V)
<1>1. CASE s.err # ""
  BY <1>1 DEF Proper
<1>2. CASE s.err = ""
  <2>1. r.t \in Trees(K, V) /\ Grows(t, r.t, from) /\ r.p \in DOMAIN r.t /\ AtOrBelow(from, r.p)
    BY DEF Proper
  <2>2. s.t \in Trees(K, V) /\ Grows(r.t, s.t, r.p) /\ s.p \in DOMAIN s.t /\ AtOrBelow(r.p, s.p)
    BY <1>2 DEF Proper
  <2>3. r.p \in Seq(K) /\ s.p \in Seq(K)
    BY <2>1, <2>2, TreeFacts
  <2>4. Grows(t, s.t, from)
    BY <2>1, <2>2, <2>3, GrowsTwice
  <2>5. AtOrBelow(from, s.p)
    BY <2>1, <2>2, <2>3, BelowTransitive
  <2> QED
    BY <1>2, <2>2, <2>4, <2>5 DEF Proper
<1> QED
  BY <1>1, <1>2

\* The table that a path leads to is there or one level deeper.
LEMMA EnterBelow ==
  ASSUME NEW K, NEW V, Nat \subseteq K, NEW t \in Trees(K, V), NEW q \in Seq(K)
  PROVE  Enter(t, q) \in Seq(K) /\ AtOrBelow(q, Enter(t, q))
<1>1. size(t, q) \in K
  BY SizeNat
<1>2. Append(q, size(t, q)) \in Seq(K) /\ AtOrBelow(q, Append(q, size(t, q)))
  BY <1>1, ChildBelow DEF Below
<1>3. AtOrBelow(q, q)
  BY BelowTransitive
<1> QED
  BY <1>2, <1>3 DEF Enter

\* One part of a key: what it does to a result that is fine (tomlc17.c:1299-1370).
LEMMA PartProper ==
  ASSUME NEW K, NEW V, 0 \in V, Nat \subseteq K, NEW s, NEW from, NEW k \in K, NEW caller,
         s.err = "", s.t \in Trees(K, V), s.p \in DOMAIN s.t
  PROVE  Proper(descend_part(s, from, k, caller), s.t, s.p, K, V)
<1> DEFINE q == Append(s.p, k)
           new == IF caller \in {"std", "array"} THEN {"STDEXPR"} ELSE {}
           r == descend_part(s, from, k, caller)
<1>1. s.p \in Seq(K) /\ q \in Seq(K) /\ AtOrBelow(s.p, q)
  BY TreeFacts, ChildBelow DEF Below
<1>2. new \in SUBSET Flags
  BY DEF Flags
<1>3. NewTable(new) \in Trees(K, V) /\ <<>> \in DOMAIN NewTable(new)
  BY <1>2, NewTrees
<1> HIDE DEF new
<1>4. CASE ~tab_find(s.t, s.p, k) /\ MayAdd(caller, s.t, from, s.p)
  <2>1. r = tab_add(s.t, s.p, k, NewTable(new))
    BY <1>4 DEF descend_part, new
  <2> QED
    BY <1>1, <1>3, <2>1, TabAddProper
<1>5. CASE ~tab_find(s.t, s.p, k) /\ ~MayAdd(caller, s.t, from, s.p)
  <2>1. r = Refuse("conflict")
    BY <1>5 DEF descend_part
  <2> QED
    BY <2>1, RefuseProper DEF Errors
<1>6. CASE tab_find(s.t, s.p, k) /\ IsTable(s.t, Enter(s.t, q)) /\ MayEnter(caller, s.t, q)
  <2>1. r = Result(s.t, Enter(s.t, q))
    BY <1>6 DEF descend_part
  <2>2. Enter(s.t, q) \in DOMAIN s.t
    BY <1>6 DEF IsTable
  <2>3. AtOrBelow(s.p, Enter(s.t, q))
    <3>1. Enter(s.t, q) \in Seq(K) /\ AtOrBelow(q, Enter(s.t, q))
      BY <1>1, EnterBelow
    <3> HIDE DEF q
    <3> QED
      BY <1>1, <3>1, BelowTransitive
  <2> QED
    BY <2>1, <2>2, <2>3, ResultProper, GrowsNot
<1>7. CASE tab_find(s.t, s.p, k) /\ ~(IsTable(s.t, Enter(s.t, q)) /\ MayEnter(caller, s.t, q))
  <2>1. r = Refuse("conflict")
    BY <1>7 DEF descend_part
  <2> QED
    BY <2>1, RefuseProper DEF Errors
<1> QED
  BY <1>4, <1>5, <1>6, <1>7

(***************************************************************************)
(* A descent ends at a table at or below its start, or in an error; all it *)
(* has made is below its start (tomlc17.c:1299-1370).                      *)
(***************************************************************************)
LEMMA DescentProper ==
  ASSUME NEW K, NEW V, 0 \in V, Nat \subseteq K, NEW t \in Trees(K, V), NEW from \in DOMAIN t,
         NEW key \in Seq(K), NEW caller
  PROVE  Proper(descend_keypart(t, from, key, caller), t, from, K, V)
<1> DEFINE D == Descent(t, from, key, caller)
           S == {n \in Nat : n <= Len(key) => Proper(D[n], t, from, K, V)}
<1>1. Len(key) \in Nat
  OBVIOUS
<1>2. /\ D[0] = Result(t, from)
      /\ \A i \in 1..Len(key) : D[i] = descend_part(D[i - 1], from, key[i], caller)
  BY <1>1, DescentDef
<1> HIDE DEF D
<1>3. from \in Seq(K)
  BY TreeFacts
<1>4. 0 \in S
  <2>1. AtOrBelow(from, from)
    BY <1>3, BelowTransitive
  <2>2. Proper(D[0], t, from, K, V)
    BY <1>2, <2>1, ResultProper, GrowsNot
  <2> QED
    BY <2>2
<1>5. ASSUME NEW n \in Nat, n \in S PROVE n + 1 \in S
  <2> SUFFICES ASSUME n + 1 <= Len(key) PROVE Proper(D[n + 1], t, from, K, V)
    OBVIOUS
  <2>1. Proper(D[n], t, from, K, V)
    BY <1>1, <1>5
  <2>2. n + 1 \in 1..Len(key) /\ n + 1 - 1 = n /\ key[n + 1] \in K
    BY <1>1
  <2>3. D[n + 1] = descend_part(D[n], from, key[n + 1], caller)
    BY <1>2, <2>2
  <2>4. CASE D[n].err # ""
    <3>1. D[n + 1] = D[n]
      BY <2>3, <2>4 DEF descend_part
    <3> QED
      BY <2>1, <3>1
  <2>5. CASE D[n].err = ""
    <3>1. Proper(D[n + 1], D[n].t, D[n].p, K, V)
      BY <2>1, <2>2, <2>3, <2>5, PartProper DEF Proper
    <3> QED
      BY <1>3, <2>1, <2>5, <3>1, ProperTwice
  <2> QED
    BY <2>4, <2>5
<1>6. Nat \subseteq S
  <2> HIDE DEF S
  <2> QED
    BY <1>4, <1>5, NatInd
<1> QED
  BY <1>1, <1>6 DEF descend_keypart, D

LEMMA KeyParts ==
  ASSUME NEW K, NEW key \in Seq(K), key # <<>>
  PROVE  /\ Front(key) \in Seq(K) /\ Last(key) \in K
         /\ Len(Front(key)) = Len(key) - 1 /\ \A i \in 1..(Len(key) - 1) : Front(key)[i] = key[i]
<1>1. Len(key) \in Nat /\ Len(key) > 0
  OBVIOUS
<1>2. \A i \in 1..(Len(key) - 1) : key[i] \in K
  BY <1>1
<1>3. /\ SubSeq(key, 1, Len(key) - 1) \in Seq(K)
      /\ Len(SubSeq(key, 1, Len(key) - 1)) = IF 1 <= Len(key) - 1 THEN Len(key) - 1 - 1 + 1 ELSE 0
      /\ \A i \in 1..(Len(key) - 1 - 1 + 1) : SubSeq(key, 1, Len(key) - 1)[i] = key[1 + i - 1]
  BY <1>1, <1>2, SubSeqProperties
<1>4. Len(SubSeq(key, 1, Len(key) - 1)) = Len(key) - 1
  <2> DEFINE b == SubSeq(key, 1, Len(key) - 1)
  <2>1. Len(b) = IF 1 <= Len(key) - 1 THEN Len(key) - 1 - 1 + 1 ELSE 0
    BY <1>3
  <2>2. ASSUME NEW n \in Nat, n > 0 PROVE n - 1 = IF 1 <= n - 1 THEN n - 1 - 1 + 1 ELSE 0
    BY <2>2
  <2>3. Len(key) - 1 = IF 1 <= Len(key) - 1 THEN Len(key) - 1 - 1 + 1 ELSE 0
    BY <1>1, <2>2
  <2> QED
    BY <2>1, <2>3
<1>5. \A i \in 1..(Len(key) - 1) : SubSeq(key, 1, Len(key) - 1)[i] = key[i]
  BY <1>1, <1>3
<1>6. key[Len(key)] \in K
  BY <1>1
<1> QED
  BY <1>3, <1>4, <1>5, <1>6 DEF Front, Last

\* [key] (tomlc17.c:1372-1430).
LEMMA StdTableProper ==
  ASSUME NEW K, NEW V, 0 \in V, Nat \subseteq K, NEW t \in Trees(K, V), <<>> \in DOMAIN t,
         NEW key \in Seq(K), key # <<>>
  PROVE  Proper(parse_std_table_expr(t, key), t, <<>>, K, V)
<1> DEFINE d == descend_keypart(t, <<>>, Front(key), "std")
           k == Last(key)
           q == Append(d.p, k)
           a == IF q \in DOMAIN d.t THEN Result(d.t, q) ELSE tab_add(d.t, d.p, k, NewTable({"STDEXPR"}))
           bad == \/ q \in DOMAIN d.t /\ (Has(d.t, q, "EXPLICIT") \/ ~Has(d.t, q, "STDEXPR"))
                  \/ q \notin DOMAIN d.t /\ Has(d.t, d.p, "INLINED")
           r == parse_std_table_expr(t, key)
<1>1. r = IF d.err # "" THEN d ELSE IF bad THEN Refuse("conflict") ELSE IF a.err # "" THEN a
          ELSE Result(set_flag(a.t, q, "EXPLICIT"), q)
  BY DEF parse_std_table_expr
<1>2. Front(key) \in Seq(K) /\ k \in K
  BY KeyParts
<1>3. Proper(d, t, <<>>, K, V)
  BY <1>2, DescentProper
<1>4. NewTable({"STDEXPR"}) \in Trees(K, V) /\ <<>> \in DOMAIN NewTable({"STDEXPR"})
  BY NewTrees DEF Flags
<1> SUFFICES Proper(r, t, <<>>, K, V)
  OBVIOUS
<1>e. <<>> \in Seq(K)
  OBVIOUS
<1> HIDE DEF d, k, bad, r
<1>5. CASE d.err # ""
  BY <1>1, <1>3, <1>5
<1>6. CASE d.err = "" /\ bad
  BY <1>1, <1>6, RefuseProper DEF Errors
<1>7. CASE d.err = "" /\ ~bad
  <2>1. d.t \in Trees(K, V) /\ d.p \in DOMAIN d.t
    BY <1>3, <1>7 DEF Proper
  <2>2. d.p \in Seq(K)
    BY <2>1, TreeFacts
  <2>3. AtOrBelow(d.p, q)
    BY <1>2, <2>2, ChildBelow DEF Below
  <2>4. Proper(a, d.t, d.p, K, V)
    BY <1>2, <1>4, <2>1, <2>2, <2>3, ResultProper, GrowsNot, TabAddProper
  <2>5. CASE a.err # ""
    <3>1. r = a
      BY <1>1, <1>7, <2>5
    <3> HIDE DEF a
    <3> QED
      BY <1>e, <1>3, <1>7, <2>4, <3>1, ProperTwice
  <2>6. CASE a.err = ""
    <3>1. a.p = q
      BY <2>6 DEF tab_add, Result, Refuse
    <3> HIDE DEF a, q
    <3>2. a.t \in Trees(K, V) /\ q \in DOMAIN a.t
      BY <2>4, <2>6, <3>1 DEF Proper
    <3>3. q \in Seq(K)
      BY <3>2, TreeFacts
    <3>4. /\ set_flag(a.t, q, "EXPLICIT") \in Trees(K, V) /\ q \in DOMAIN set_flag(a.t, q, "EXPLICIT")
          /\ Grows(a.t, set_flag(a.t, q, "EXPLICIT"), q)
      BY <3>2, SetFlagGrows DEF Flags
    <3>5. Proper(Result(set_flag(a.t, q, "EXPLICIT"), q), a.t, q, K, V)
      BY <3>3, <3>4, ResultProper, BelowTransitive
    <3>6. Proper(r, d.t, d.p, K, V)
      BY <1>1, <1>7, <2>1, <2>2, <2>4, <2>6, <3>1, <3>5, ProperTwice
    <3> QED
      BY <1>e, <1>3, <1>7, <3>6, ProperTwice
  <2> QED
    BY <2>5, <2>6
<1> QED
  BY <1>5, <1>6, <1>7

\* [[key]] (tomlc17.c:1432-1500).
LEMMA ArrayTableProper ==
  ASSUME NEW K, NEW V, 0 \in V, Nat \subseteq K, NEW t \in Trees(K, V), <<>> \in DOMAIN t,
         NEW key \in Seq(K), key # <<>>
  PROVE  Proper(parse_array_table_expr(t, key), t, <<>>, K, V)
<1> DEFINE d == descend_keypart(t, <<>>, Front(key), "array")
           k == Last(key)
           q == Append(d.p, k)
           a == IF q \in DOMAIN d.t THEN Result(d.t, q) ELSE tab_add(d.t, d.p, k, NewArray)
           bad == a.t[q].type # "array" \/ Has(a.t, q, "INLINED")
           r == parse_array_table_expr(t, key)
<1>1. r = IF d.err # "" THEN d ELSE IF a.err # "" THEN a ELSE IF bad THEN Refuse("conflict")
          ELSE arr_emplace(a.t, q, NewTable({}))
  BY DEF parse_array_table_expr
<1>2. Front(key) \in Seq(K) /\ k \in K
  BY KeyParts
<1>3. Proper(d, t, <<>>, K, V)
  BY <1>2, DescentProper
<1>4. /\ NewArray \in Trees(K, V) /\ <<>> \in DOMAIN NewArray
      /\ NewTable({}) \in Trees(K, V) /\ <<>> \in DOMAIN NewTable({})
  BY NewTrees
<1> SUFFICES Proper(r, t, <<>>, K, V)
  OBVIOUS
<1>e. <<>> \in Seq(K)
  OBVIOUS
<1> HIDE DEF d, k, bad, r
<1>5. CASE d.err # ""
  BY <1>1, <1>3, <1>5
<1>6. CASE d.err = ""
  <2>1. d.t \in Trees(K, V) /\ d.p \in DOMAIN d.t
    BY <1>3, <1>6 DEF Proper
  <2>2. d.p \in Seq(K)
    BY <2>1, TreeFacts
  <2>3. AtOrBelow(d.p, q)
    BY <1>2, <2>2, ChildBelow DEF Below
  <2>4. Proper(a, d.t, d.p, K, V)
    BY <1>2, <1>4, <2>1, <2>2, <2>3, ResultProper, GrowsNot, TabAddProper
  <2>5. CASE a.err # ""
    <3>1. r = a
      BY <1>1, <1>6, <2>5
    <3> HIDE DEF a
    <3> QED
      BY <1>e, <1>3, <1>6, <2>4, <3>1, ProperTwice
  <2>6. CASE a.err = "" /\ bad
    <3>1. r = Refuse("conflict")
      BY <1>1, <1>6, <2>6
    <3> QED
      BY <3>1, RefuseProper DEF Errors
  <2>7. CASE a.err = "" /\ ~bad
    <3>1. a.p = q
      BY <2>7 DEF tab_add, Result, Refuse
    <3> HIDE DEF a, q
    <3>2. a.t \in Trees(K, V) /\ q \in DOMAIN a.t
      BY <2>4, <2>7, <3>1 DEF Proper
    <3>3. q \in Seq(K)
      BY <3>2, TreeFacts
    <3>4. r = arr_emplace(a.t, q, NewTable({}))
      BY <1>1, <1>6, <2>7
    <3>5. Proper(r, a.t, a.p, K, V)
      BY <1>4, <3>1, <3>2, <3>3, <3>4, ArrEmplaceProper
    <3>6. Proper(r, d.t, d.p, K, V)
      BY <2>1, <2>2, <2>4, <2>7, <3>5, ProperTwice
    <3> QED
      BY <1>e, <1>3, <1>6, <3>6, ProperTwice
  <2> QED
    BY <2>5, <2>6, <2>7
<1> QED
  BY <1>5, <1>6

\* key = (tomlc17.c:1502-1560).
LEMMA KeyValueProper ==
  ASSUME NEW K, NEW V, 0 \in V, Nat \subseteq K, NEW t \in Trees(K, V), NEW curtab \in DOMAIN t,
         NEW key \in Seq(K), key # <<>>
  PROVE  Proper(parse_keyvalue_expr(t, curtab, key), t, curtab, K, V)
<1>1. Front(key) \in Seq(K)
  BY KeyParts
<1>2. Proper(descend_keypart(t, curtab, Front(key), "keyvalue"), t, curtab, K, V)
  BY <1>1, DescentProper
<1>3. \/ parse_keyvalue_expr(t, curtab, key) = descend_keypart(t, curtab, Front(key), "keyvalue")
      \/ parse_keyvalue_expr(t, curtab, key) = Refuse("conflict")
  BY DEF parse_keyvalue_expr
<1>4. Proper(Refuse("conflict"), t, curtab, K, V)
  BY RefuseProper DEF Errors
<1> QED
  BY <1>2, <1>3, <1>4

\* The key of an entry in braces (tomlc17.c:1176-1240).
LEMMA InlineKeyProper ==
  ASSUME NEW K, NEW V, 0 \in V, Nat \subseteq K, NEW t \in Trees(K, V), <<>> \in DOMAIN t,
         NEW key \in Seq(K), key # <<>>
  PROVE  Proper(parse_inline_key(t, key), t, <<>>, K, V)
<1> DEFINE d == descend_keypart(t, <<>>, Front(key), "inline")
<1>1. Front(key) \in Seq(K)
  BY KeyParts
<1>2. Proper(d, t, <<>>, K, V)
  BY <1>1, DescentProper
<1>3. parse_inline_key(t, key) = IF d.err # "" THEN d ELSE IF Has(d.t, d.p, "INLINED") THEN Refuse("conflict")
                                 ELSE Result(set_flag(d.t, d.p, "EXPLICIT"), d.p)
  BY DEF parse_inline_key
<1> HIDE DEF d
<1>4. CASE d.err # ""
  BY <1>2, <1>3, <1>4
<1>5. CASE d.err = "" /\ Has(d.t, d.p, "INLINED")
  BY <1>3, <1>5, RefuseProper DEF Errors
<1>6. CASE d.err = "" /\ ~Has(d.t, d.p, "INLINED")
  <2>1. d.t \in Trees(K, V) /\ d.p \in DOMAIN d.t
    BY <1>2, <1>6 DEF Proper
  <2>2. d.p \in Seq(K)
    BY <2>1, TreeFacts
  <2>3. /\ set_flag(d.t, d.p, "EXPLICIT") \in Trees(K, V) /\ d.p \in DOMAIN set_flag(d.t, d.p, "EXPLICIT")
        /\ Grows(d.t, set_flag(d.t, d.p, "EXPLICIT"), d.p)
    BY <2>1, SetFlagGrows DEF Flags
  <2>4. Proper(Result(set_flag(d.t, d.p, "EXPLICIT"), d.p), d.t, d.p, K, V)
    BY <2>2, <2>3, ResultProper, BelowTransitive
  <2>5. parse_inline_key(t, key) = Result(set_flag(d.t, d.p, "EXPLICIT"), d.p)
    BY <1>3, <1>6
  <2>6. <<>> \in Seq(K)
    OBVIOUS
  <2> QED
    BY <1>2, <1>6, <2>4, <2>5, <2>6, ProperTwice
<1> QED
  BY <1>4, <1>5, <1>6

=============================================================================
