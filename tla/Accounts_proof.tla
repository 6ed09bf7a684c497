--------------------------- MODULE Accounts_proof ---------------------------
(***************************************************************************)
(* Theorems about newcaal and delcaal, for any number of users, scripts    *)
(* and settings, and about what a login reads from the file they write.    *)
(***************************************************************************)
EXTENDS Accounts, TomlTable_proof

-----------------------------------------------------------------------------
(* sed *)

SedZero == [in |-> FALSE, out |-> <<>>]
IsSed(d, f, u, n) == d = [i \in 0..n |-> IF i = 0 THEN SedZero ELSE sed_line(d[i - 1], f[i], u)]

\* The recursion of Sed has a solution for every number of lines.
LEMMA SedExists ==
  ASSUME NEW f, NEW u, NEW N \in Nat
  PROVE  \E d : IsSed(d, f, u, N)
<1> DEFINE S == {n \in Nat : \E d : IsSed(d, f, u, n)}
<1>1. 0 \in S
  <2> DEFINE d0 == [i \in 0..0 |-> SedZero]
  <2>1. IsSed(d0, f, u, 0)
    BY DEF IsSed
  <2> QED
    BY <2>1
<1>2. ASSUME NEW n \in Nat, n \in S PROVE n + 1 \in S
  <2>1. PICK d : IsSed(d, f, u, n)
    BY <1>2
  <2> DEFINE h == [i \in 0..(n + 1) |-> IF i = n + 1 THEN sed_line(d[n], f[n + 1], u) ELSE d[i]]
             rhs == [i \in 0..(n + 1) |-> IF i = 0 THEN SedZero ELSE sed_line(h[i - 1], f[i], u)]
  <2>2. ASSUME NEW i \in 0..(n + 1) PROVE h[i] = rhs[i]
    <3>1. CASE i = n + 1
      <4>1. h[i] = sed_line(d[n], f[n + 1], u)
        BY <3>1
      <4>2. h[n] = d[n] /\ i - 1 = n /\ i # 0
        BY <3>1
      <4>3. rhs[i] = sed_line(h[n], f[n + 1], u)
        BY <3>1, <4>2
      <4> QED
        BY <4>1, <4>2, <4>3
    <3>2. CASE i # n + 1
      <4>1. i \in 0..n /\ h[i] = d[i] /\ (i # 0 => i - 1 \in 0..n /\ h[i - 1] = d[i - 1])
        BY <3>2
      <4>2. d[i] = IF i = 0 THEN SedZero ELSE sed_line(d[i - 1], f[i], u)
        BY <2>1, <4>1 DEF IsSed
      <4> QED
        BY <4>1, <4>2
    <3> QED
      BY <3>1, <3>2
  <2>3. IsSed(h, f, u, n + 1)
    BY <2>2 DEF IsSed
  <2> HIDE DEF h
  <2>4. n + 1 \in Nat /\ \E e : IsSed(e, f, u, n + 1)
    BY <2>3
  <2> QED
    BY <2>4
<1>3. Nat \subseteq S
  <2> HIDE DEF S
  <2> QED
    BY <1>1, <1>2, NatInd
<1> QED
  BY <1>3

\* So Sed is the function its definition says.
LEMMA SedDef ==
  ASSUME NEW f, NEW u, Len(f) \in Nat
  PROVE  /\ Sed(f, u)[0] = SedZero
         /\ \A i \in 1..Len(f) : Sed(f, u)[i] = sed_line(Sed(f, u)[i - 1], f[i], u)
<1> DEFINE D == Sed(f, u)
<1>1. D = CHOOSE d : IsSed(d, f, u, Len(f))
  BY DEF Sed, IsSed, SedZero
<1>2. IsSed(D, f, u, Len(f))
  BY <1>1, SedExists
<1> HIDE DEF D
<1>3. D[0] = SedZero
  BY <1>2 DEF IsSed
<1>4. \A i \in 1..Len(f) : i \in 0..Len(f) /\ i # 0
  OBVIOUS
<1>5. \A i \in 1..Len(f) : D[i] = sed_line(D[i - 1], f[i], u)
  BY <1>2, <1>4 DEF IsSed
<1> QED
  BY <1>3, <1>5 DEF D

\* sed writes lines of the file, whatever the file.
SedStates == [in : BOOLEAN, out : Seq(Items)]

LEMMA SedLineType ==
  ASSUME NEW r \in SedStates, NEW i \in Items, NEW u
  PROVE  sed_line(r, i, u) \in SedStates
<1>1. r.in \in BOOLEAN /\ r.out \in Seq(Items) /\ Append(r.out, i) \in Seq(Items)
  BY DEF SedStates
<1>2. [r EXCEPT !.in = ~@] \in SedStates
  BY DEF SedStates
<1>3. [in |-> FALSE, out |-> Append(r.out, i)] \in SedStates
  BY <1>1 DEF SedStates
<1>4. [r EXCEPT !.out = Append(@, i)] \in SedStates
  BY <1>1 DEF SedStates
<1> QED
  BY <1>2, <1>3, <1>4 DEF sed_line

LEMMA SedType ==
  ASSUME NEW f \in Seq(Items), NEW u
  PROVE  sed(f, u) \in Seq(Items)
<1> DEFINE D == Sed(f, u)
           S == {n \in Nat : n <= Len(f) => D[n] \in SedStates}
<1>1. Len(f) \in Nat
  OBVIOUS
<1>2. D[0] = SedZero /\ \A i \in 1..Len(f) : D[i] = sed_line(D[i - 1], f[i], u)
  BY <1>1, SedDef
<1> HIDE DEF D
<1>3. 0 \in S
  <2>1. <<>> \in Seq(Items)
    BY EmptySeq
  <2>2. D[0] \in SedStates
    BY <1>2, <2>1 DEF SedStates, SedZero
  <2> QED
    BY <2>2
<1>4. ASSUME NEW n \in Nat, n \in S PROVE n + 1 \in S
  <2> SUFFICES ASSUME n + 1 <= Len(f) PROVE D[n + 1] \in SedStates
    OBVIOUS
  <2>1. D[n] \in SedStates /\ n + 1 \in 1..Len(f) /\ n + 1 - 1 = n
    BY <1>1, <1>4
  <2>2. D[n + 1] = sed_line(D[n], f[n + 1], u) /\ f[n + 1] \in Items
    BY <1>2, <2>1
  <2> QED
    BY <2>1, <2>2, SedLineType
<1>5. Nat \subseteq S
  <2> HIDE DEF S
  <2> QED
    BY <1>3, <1>4, NatInd
<1>6. D[Len(f)] \in SedStates
  BY <1>1, <1>5
<1> QED
  BY <1>6 DEF sed, SedStates, D

-----------------------------------------------------------------------------
(* Well-formed files *)

(***************************************************************************)
(* What the scripts write when they run one after another: each header     *)
(* with the lines of its section below it, and no user with two of them.   *)
(***************************************************************************)
WellFormed(f) ==
  /\ \A i \in 1..Len(f) : f[i].item = "header" => i + 1 \in 1..Len(f) /\ f[i + 1].item = "body"
  /\ \A i \in 1..Len(f) : f[i].item = "body" => i - 1 \in 1..Len(f) /\ f[i - 1].item = "header"
  /\ \A i, j \in 1..Len(f) : f[i].item = "header" /\ f[i] = f[j] => i = j

Section(f, v, s) ==
  \E i \in 1..Len(f) : i + 1 \in 1..Len(f) /\ f[i] = Header(v) /\ f[i + 1] = Body(s)

\* g is f without the section at a.
IsCut(g, f, a) ==
  Len(g) = Len(f) - 2 /\ \A j \in 1..Len(g) : g[j] = IF j < a THEN f[j] ELSE f[j + 2]

LEMMA ItemFacts ==
  ASSUME NEW i \in Items
  PROVE  /\ i.item \in {"header", "body"}
         /\ i.item = "header" => i.user \in Users /\ i = Header(i.user)
         /\ i.item = "body"   => i.settings \in Settings /\ i = Body(i.settings)
BY DEF Items, Header, Body

LEMMA HeaderFacts ==
  ASSUME NEW u, NEW v, NEW s
  PROVE  /\ Header(u).item = "header" /\ Header(u).user = u
         /\ Body(s).item = "body" /\ Body(s).settings = s
         /\ Header(u) = Header(v) => u = v
BY DEF Header, Body

\* Where sed is after n lines of a file with the section of u at a.
LEMMA SedCut ==
  ASSUME NEW f \in Seq(Items), WellFormed(f), NEW a \in 1..Len(f), NEW u, f[a] = Header(u)
  PROVE  IsCut(sed(f, u), f, a)
<1> DEFINE D == Sed(f, u)
           L(n) == IF n < a THEN n ELSE IF n <= a + 1 THEN a - 1 ELSE n - 2
           Here(n) == /\ D[n] \in SedStates /\ (D[n].in <=> (n = a \/ n = a + 1))
                      /\ Len(D[n].out) = L(n)
                      /\ \A j \in 1..L(n) : D[n].out[j] = IF j < a THEN f[j] ELSE f[j + 2]
           S == {n \in Nat : n <= Len(f) => Here(n)}
<1>1. Len(f) \in Nat /\ a \in Nat /\ a > 0 /\ f[a].item = "header"
  BY HeaderFacts
<1>2. D[0] = SedZero /\ \A i \in 1..Len(f) : D[i] = sed_line(D[i - 1], f[i], u)
  BY <1>1, SedDef
<1>3. a + 1 \in 1..Len(f) /\ f[a + 1].item = "body"
  BY <1>1 DEF WellFormed
<1>4. ASSUME NEW i \in 1..Len(f), f[i] = Header(u) PROVE i = a
  BY <1>1, <1>4 DEF WellFormed
<1>5. ASSUME NEW i \in 1..Len(f), i = a + 2 PROVE f[i].item = "header"
  <2>1. f[i] \in Items /\ i - 1 = a + 1
    BY <1>1, <1>5
  <2>2. f[i].item = "body" => f[i - 1].item = "header"
    BY DEF WellFormed
  <2> QED
    BY <1>3, <2>1, <2>2, ItemFacts
<1> HIDE DEF D
<1>6. 0 \in S
  <2>1. <<>> \in Seq(Items) /\ Len(<<>>) = 0
    BY EmptySeq
  <2>2. D[0] \in SedStates /\ D[0].in = FALSE /\ D[0].out = <<>>
    BY <1>2, <2>1 DEF SedStates, SedZero
  <2>3. L(0) = 0 /\ 0 # a /\ 0 # a + 1
    BY <1>1
  <2> QED
    BY <2>1, <2>2, <2>3
<1>7. ASSUME NEW n \in Nat, n \in S PROVE n + 1 \in S
  <2> SUFFICES ASSUME n + 1 <= Len(f) PROVE Here(n + 1)
    OBVIOUS
  <2>1. Here(n)
    BY <1>1, <1>7
  <2>2. PICK m \in Nat : m = n + 1
    OBVIOUS
  <2> SUFFICES Here(m)
    BY <2>2
  <2>3. m \in 1..Len(f) /\ m - 1 = n
    BY <1>1, <2>2
  <2>4. L(n) \in Nat
    BY <1>1
  <2>5. m = a \/ m = a + 1 => L(m) = L(n)
    BY <1>1, <2>2
  <2>6. m # a /\ m # a + 1 => L(m) = L(n) + 1 /\ m = IF L(m) < a THEN L(m) ELSE L(m) + 2
    <3>1. CASE m < a
      BY <1>1, <2>2, <3>1
    <3>2. CASE m > a + 1
      <4>1. L(m) = m - 2
        BY <1>1, <2>2, <3>2
      <4>2. L(n) = n - 2
        BY <1>1, <2>2, <3>2
      <4> QED
        BY <1>1, <2>2, <3>2, <4>1, <4>2
    <3> QED
      BY <1>1, <2>2, <3>1, <3>2
  <2> HIDE DEF L
  <2> DEFINE i == f[m]
             r == D[n]
  <2>7. D[m] = sed_line(r, i, u) /\ i \in Items
    BY <1>2, <2>3
  <2>8. /\ r \in SedStates /\ (r.in <=> (n = a \/ n = a + 1)) /\ Len(r.out) = L(n)
        /\ \A j \in 1..L(n) : r.out[j] = IF j < a THEN f[j] ELSE f[j + 2]
    BY <2>1
  <2>9. i = Header(u) => m = a
    BY <1>4, <2>3
  <2>10. m = a => i = Header(u)
    OBVIOUS
  <2>11. m = a + 1 => i.item = "body"
    BY <1>3
  <2>12. m = a + 2 => i.item = "header"
    BY <1>5, <2>3
  <2>13. m # a /\ m # a + 1 => i = IF L(m) < a THEN f[L(m)] ELSE f[L(m) + 2]
    BY <2>6
  <2> HIDE DEF i, r
  <2>14. D[m] \in SedStates /\ r.in \in BOOLEAN /\ r.out \in Seq(Items)
    BY <2>7, <2>8, SedLineType DEF SedStates
  <2>15. ASSUME D[m].in <=> (m = a \/ m = a + 1), L(m) = L(n), D[m].out = r.out
         PROVE  Here(m)
    BY <2>8, <2>14, <2>15
  <2>16. ASSUME ~D[m].in, m # a, m # a + 1, D[m].out = Append(r.out, i)
         PROVE  Here(m)
    <3>1. L(m) = L(n) + 1
      BY <2>6, <2>16
    <3>2. Len(D[m].out) = L(m) /\ D[m].out[L(m)] = i /\ \A j \in 1..L(n) : D[m].out[j] = r.out[j]
      BY <2>4, <2>7, <2>8, <2>14, <2>16, <3>1
    <3>3. \A j \in 1..L(m) : j = L(m) \/ j \in 1..L(n)
      BY <2>4, <3>1
    <3>4. \A j \in 1..L(m) : D[m].out[j] = IF j < a THEN f[j] ELSE f[j + 2]
      BY <2>8, <2>13, <2>16, <3>2, <3>3
    <3> QED
      BY <2>14, <2>16, <3>2, <3>4
  <2>17. CASE m = a
    <3>1. i = Header(u) /\ ~r.in
      BY <1>1, <2>2, <2>8, <2>10, <2>17
    <3>2. D[m].in /\ D[m].out = r.out
      BY <2>7, <2>8, <3>1 DEF sed_line, SedStates
    <3> QED
      BY <2>5, <2>15, <2>17, <3>2
  <2>18. CASE m = a + 1
    <3>1. r.in /\ i.item # "header" /\ i # Header(u)
      BY <1>1, <2>2, <2>8, <2>11, <2>18, HeaderFacts
    <3>2. D[m] = r
      BY <2>7, <3>1 DEF sed_line
    <3> QED
      BY <2>5, <2>15, <2>18, <3>1, <3>2
  <2>19. CASE m # a /\ m # a + 1
    <3>1. i # Header(u)
      BY <2>9, <2>19
    <3>2. CASE i.item = "header"
      BY <2>7, <2>16, <2>19, <3>1, <3>2 DEF sed_line
    <3>3. CASE i.item # "header"
      <4>1. ~r.in
        BY <1>1, <2>2, <2>8, <2>12, <2>19, <3>3
      <4>2. D[m] = [r EXCEPT !.out = Append(@, i)]
        BY <2>7, <3>1, <3>3, <4>1 DEF sed_line
      <4>3. ~D[m].in /\ D[m].out = Append(r.out, i)
        BY <2>8, <4>1, <4>2 DEF SedStates
      <4> QED
        BY <2>16, <2>19, <4>3
    <3> QED
      BY <3>2, <3>3
  <2> QED
    BY <2>17, <2>18, <2>19
<1>8. Nat \subseteq S
  <2> HIDE DEF S
  <2> QED
    BY <1>6, <1>7, NatInd
<1>9. Here(Len(f))
  BY <1>1, <1>8
<1>10. L(Len(f)) = Len(f) - 2
  BY <1>1, <1>3
<1> HIDE DEF L
<1> QED
  BY <1>9, <1>10 DEF sed, IsCut, D

(***************************************************************************)
(* The file without the section at a is well-formed, and has the sections  *)
(* of the other users as they were.                                        *)
(***************************************************************************)
LEMMA CutWellFormed ==
  ASSUME NEW f \in Seq(Items), NEW g \in Seq(Items), WellFormed(f), NEW a \in 1..Len(f), NEW u,
         f[a] = Header(u), IsCut(g, f, a)
  PROVE  /\ WellFormed(g) /\ Header(u) \notin Range(g)
         /\ \A v : v # u => (Header(v) \in Range(g) <=> Header(v) \in Range(f))
         /\ \A v, s : v # u => (Section(g, v, s) <=> Section(f, v, s))
         /\ \A i \in Range(g) : i \in Range(f)
<1> DEFINE F == Len(f)
           G == Len(g)
           M(j) == IF j < a THEN j ELSE j + 2
<1>1. F \in Nat /\ G \in Nat /\ a \in 1..F /\ G = F - 2 /\ f[a].item = "header"
  <2>1. F \in Nat /\ G \in Nat
    OBVIOUS
  <2>2. G = F - 2
    BY DEF IsCut
  <2>3. f[a].item = "header"
    BY HeaderFacts
  <2> QED
    BY <2>1, <2>2, <2>3
<1>2. a + 1 \in 1..F /\ f[a + 1].item = "body"
  BY <1>1 DEF WellFormed
<1>3. \A j \in 1..G : g[j] = f[M(j)]
  BY DEF IsCut
<1>4. \A j \in 1..G : M(j) \in 1..F /\ M(j) # a /\ M(j) # a + 1
  BY <1>1, <1>2
<1>5. \A i \in 1..F : i # a /\ i # a + 1 => \E j \in 1..G : M(j) = i
  <2> SUFFICES ASSUME NEW i \in 1..F, i # a, i # a + 1 PROVE \E j \in 1..G : M(j) = i
    OBVIOUS
  <2>1. CASE i < a
    <3>1. i \in 1..G /\ M(i) = i
      BY <1>1, <1>2, <2>1
    <3> QED
      BY <3>1
  <2>2. CASE i > a + 1
    <3>1. i - 2 \in 1..G /\ M(i - 2) = i
      BY <1>1, <1>2, <2>2
    <3> QED
      BY <3>1
  <2> QED
    BY <1>1, <2>1, <2>2
<1>6. \A i, j \in 1..G : M(i) = M(j) => i = j
  BY <1>1
<1>7. \A j \in 1..F : f[j].item = "header" /\ f[j] = Header(u) => j = a
  BY <1>1 DEF WellFormed
<1>8. \A j \in 1..F : j + 1 = a => f[j].item # "header"
  <2> SUFFICES ASSUME NEW j \in 1..F, j + 1 = a, f[j].item = "header" PROVE FALSE
    OBVIOUS
  <2>1. f[j + 1].item = "body"
    BY DEF WellFormed
  <2> QED
    BY <1>1, <2>1
<1>9. \A j \in 1..F : j = a + 2 => f[j].item # "body"
  <2> SUFFICES ASSUME NEW j \in 1..F, j = a + 2, f[j].item = "body" PROVE FALSE
    OBVIOUS
  <2>1. f[j - 1].item = "header" /\ j - 1 = a + 1
    BY <1>1 DEF WellFormed
  <2> QED
    BY <1>2, <2>1
<1>10. ASSUME NEW j \in 1..G, f[M(j)].item = "header"
       PROVE  M(j) + 1 \in 1..F /\ f[M(j) + 1].item = "body" /\ j + 1 \in 1..G /\ M(j + 1) = M(j) + 1
  <2>1. M(j) \in 1..F
    BY <1>4
  <2>2. M(j) + 1 \in 1..F /\ f[M(j) + 1].item = "body"
    <3> HIDE DEF M
    <3> QED
      BY <1>10, <2>1 DEF WellFormed
  <2>3. M(j) + 1 # a
    BY <1>8, <1>10, <2>1
  <2>4. CASE j < a
    <3>1. M(j) = j /\ j + 1 # a
      BY <2>3, <2>4
    <3>2. j + 1 < a
      BY <1>1, <2>4, <3>1
    <3> QED
      BY <1>1, <1>2, <2>2, <3>1, <3>2
  <2>5. CASE ~(j < a)
    <3>1. M(j) = j + 2 /\ ~(j + 1 < a)
      BY <1>1, <2>5
    <3>2. M(j + 1) = j + 1 + 2
      BY <3>1
    <3>3. j + 2 + 1 \in 1..F
      BY <2>2, <3>1
    <3> QED
      BY <1>1, <2>2, <3>1, <3>2, <3>3
  <2> QED
    BY <2>4, <2>5
<1>11. ASSUME NEW j \in 1..G, f[M(j)].item = "body"
       PROVE  M(j) - 1 \in 1..F /\ f[M(j) - 1].item = "header" /\ j - 1 \in 1..G /\ M(j - 1) = M(j) - 1
  <2>1. M(j) \in 1..F
    BY <1>4
  <2>2. M(j) - 1 \in 1..F /\ f[M(j) - 1].item = "header"
    <3> HIDE DEF M
    <3> QED
      BY <1>11, <2>1 DEF WellFormed
  <2>3. M(j) # a + 2
    BY <1>9, <1>11, <2>1
  <2>4. CASE j < a
    <3>1. M(j) = j /\ j - 1 < a /\ M(j - 1) = j - 1
      BY <1>1, <2>4
    <3>2. j - 1 \in 1..F
      BY <2>2, <3>1
    <3> QED
      BY <1>1, <2>2, <3>1, <3>2
  <2>5. CASE ~(j < a)
    <3>1. M(j) = j + 2
      BY <2>5
    <3>2. j # a
      BY <1>1, <2>3, <3>1
    <3>3. M(j - 1) = j - 1 + 2
      BY <1>1, <2>5, <3>2
    <3> QED
      BY <1>1, <2>2, <2>5, <3>1, <3>2, <3>3
  <2> QED
    BY <2>4, <2>5
<1> HIDE DEF M, F, G
<1>12. WellFormed(g)
  <2>1. ASSUME NEW j \in 1..G, g[j].item = "header" PROVE j + 1 \in 1..G /\ g[j + 1].item = "body"
    BY <1>3, <1>10, <2>1
  <2>2. ASSUME NEW j \in 1..G, g[j].item = "body" PROVE j - 1 \in 1..G /\ g[j - 1].item = "header"
    BY <1>3, <1>11, <2>2
  <2>3. ASSUME NEW i \in 1..G, NEW j \in 1..G, g[i].item = "header", g[i] = g[j] PROVE i = j
    <3>1. f[M(i)].item = "header" /\ f[M(i)] = f[M(j)] /\ M(i) \in 1..F /\ M(j) \in 1..F
      BY <1>3, <1>4, <2>3
    <3>2. M(i) = M(j)
      BY <3>1 DEF WellFormed, F
    <3> QED
      BY <1>6, <3>2
  <2> QED
    BY <2>1, <2>2, <2>3 DEF WellFormed, G
<1>13. /\ \A i : i \in Range(f) <=> \E j \in 1..F : i = f[j]
       /\ \A i : i \in Range(g) <=> \E j \in 1..G : i = g[j]
  BY DEF Range, F, G
<1>14. Header(u) \notin Range(g)
  BY <1>3, <1>4, <1>7, <1>13, HeaderFacts
<1>15. ASSUME NEW v, v # u PROVE Header(v) \in Range(g) <=> Header(v) \in Range(f)
  <2>1. Header(v) # f[a] /\ Header(v) # f[a + 1]
    BY <1>2, <1>15, HeaderFacts
  <2> QED
    BY <1>3, <1>4, <1>5, <1>13, <2>1
<1>16. ASSUME NEW v, NEW s, v # u PROVE Section(g, v, s) <=> Section(f, v, s)
  <2>1. ASSUME Section(g, v, s) PROVE Section(f, v, s)
    <3>1. PICK j \in 1..G : j + 1 \in 1..G /\ g[j] = Header(v) /\ g[j + 1] = Body(s)
      BY <2>1 DEF Section, G
    <3>2. f[M(j)] = Header(v) /\ f[M(j + 1)] = Body(s)
      BY <1>3, <3>1
    <3>3. M(j) + 1 \in 1..F /\ M(j + 1) = M(j) + 1 /\ M(j) \in 1..F
      BY <1>4, <1>10, <3>2, HeaderFacts
    <3> QED
      BY <3>2, <3>3 DEF Section, F
  <2>2. ASSUME Section(f, v, s) PROVE Section(g, v, s)
    <3>1. PICK i \in 1..F : i + 1 \in 1..F /\ f[i] = Header(v) /\ f[i + 1] = Body(s)
      BY <2>2 DEF Section, F
    <3>2. i # a /\ i # a + 1
      BY <1>2, <1>16, <3>1, HeaderFacts
    <3>3. PICK j \in 1..G : M(j) = i
      BY <1>5, <3>2
    <3>4. j + 1 \in 1..G /\ M(j + 1) = i + 1
      BY <1>10, <3>1, <3>3, HeaderFacts
    <3>5. g[j] = Header(v) /\ g[j + 1] = Body(s)
      BY <1>3, <3>1, <3>3, <3>4
    <3> QED
      BY <3>4, <3>5 DEF Section, G
  <2> QED
    BY <2>1, <2>2
<1>17. \A i \in Range(g) : i \in Range(f)
  BY <1>3, <1>4, <1>13
<1> QED
  BY <1>12, <1>14, <1>15, <1>16, <1>17

\* sed takes out the section of its user and nothing else (newcaal.sh:188, delcaal.sh:150).
LEMMA SedWellFormed ==
  ASSUME NEW f \in Seq(Items), WellFormed(f), NEW u, Header(u) \in Range(f)
  PROVE  /\ WellFormed(sed(f, u)) /\ Header(u) \notin Range(sed(f, u))
         /\ \A v : v # u => (Header(v) \in Range(sed(f, u)) <=> Header(v) \in Range(f))
         /\ \A v, s : v # u => (Section(sed(f, u), v, s) <=> Section(f, v, s))
         /\ \A i \in Range(sed(f, u)) : i \in Range(f)
<1>1. PICK a \in 1..Len(f) : f[a] = Header(u)
  BY DEF Range
<1>2. sed(f, u) \in Seq(Items) /\ IsCut(sed(f, u), f, a)
  BY <1>1, SedType, SedCut
<1> QED
  BY <1>1, <1>2, CutWellFormed

\* One more section at the end of the file.
LEMMA SectionAdded ==
  ASSUME NEW f \in Seq(Items), WellFormed(f), NEW u, NEW s, Header(u) \notin Range(f),
         NEW g \in Seq(Items), Len(g) = Len(f) + 2, \A i \in 1..Len(f) : g[i] = f[i],
         g[Len(f) + 1] = Header(u), g[Len(f) + 2] = Body(s)
  PROVE  /\ WellFormed(g) /\ Section(g, u, s)
         /\ \A v : v # u => (Header(v) \in Range(g) <=> Header(v) \in Range(f))
         /\ \A v, r : v # u => (Section(g, v, r) <=> Section(f, v, r))
         /\ \A i \in Range(f) : i \in Range(g)
<1> DEFINE F == Len(f)
           G == Len(g)
<1>1. F \in Nat /\ G \in Nat /\ G = F + 2
  OBVIOUS
<1>2. \A i \in 1..F : i \in 1..G /\ g[i] = f[i]
  BY <1>1
<1>3. F + 1 \in 1..G /\ g[F + 1] = Header(u)
  BY <1>1
<1>4. F + 2 \in 1..G /\ g[F + 2] = Body(s)
  BY <1>1
<1>5. \A i \in 1..G : i \in 1..F \/ i = F + 1 \/ i = F + 2
  BY <1>1
<1>6. /\ \A i : i \in Range(f) <=> \E j \in 1..F : i = f[j]
      /\ \A i : i \in Range(g) <=> \E j \in 1..G : i = g[j]
  BY DEF Range
<1>7. F + 1 + 1 = F + 2 /\ F + 2 - 1 = F + 1
  BY <1>1
<1>8. \A i \in 1..F : f[i].item = "header" => i + 1 \in 1..F /\ f[i + 1].item = "body"
  BY DEF WellFormed
<1>9. \A i \in 1..F : f[i].item = "body" => i - 1 \in 1..F /\ f[i - 1].item = "header"
  BY DEF WellFormed
<1>10. \A i, j \in 1..F : f[i].item = "header" /\ f[i] = f[j] => i = j
  BY DEF WellFormed
<1> HIDE DEF F, G
<1>11. WellFormed(g)
  <2>1. ASSUME NEW i \in 1..G, g[i].item = "header" PROVE i + 1 \in 1..G /\ g[i + 1].item = "body"
    <3>1. CASE i \in 1..F
      BY <1>2, <1>8, <2>1, <3>1
    <3>2. CASE i = F + 1
      BY <1>4, <1>7, <3>2, HeaderFacts
    <3> QED
      BY <1>4, <1>5, <2>1, <3>1, <3>2, HeaderFacts
  <2>2. ASSUME NEW i \in 1..G, g[i].item = "body" PROVE i - 1 \in 1..G /\ g[i - 1].item = "header"
    <3>1. CASE i \in 1..F
      BY <1>2, <1>9, <2>2, <3>1
    <3>2. CASE i = F + 2
      BY <1>3, <1>7, <3>2, HeaderFacts
    <3> QED
      BY <1>3, <1>5, <2>2, <3>1, <3>2, HeaderFacts
  <2>3. ASSUME NEW i \in 1..G, NEW j \in 1..G, g[i].item = "header", g[i] = g[j] PROVE i = j
    <3>1. i # F + 2 /\ j # F + 2
      BY <1>4, <2>3, HeaderFacts
    <3>2. CASE i \in 1..F /\ j \in 1..F
      BY <1>2, <1>10, <2>3, <3>2
    <3>3. CASE i = F + 1 /\ j \in 1..F
      BY <1>2, <1>3, <1>6, <2>3, <3>3
    <3>4. CASE j = F + 1 /\ i \in 1..F
      BY <1>2, <1>3, <1>6, <2>3, <3>4
    <3> QED
      BY <1>5, <3>1, <3>2, <3>3, <3>4
  <2> QED
    BY <2>1, <2>2, <2>3 DEF WellFormed, G
<1>12. Section(g, u, s)
  BY <1>3, <1>4, <1>7 DEF Section, G
<1>13. ASSUME NEW v, v # u PROVE Header(v) \in Range(g) <=> Header(v) \in Range(f)
  <2>1. Header(v) # Header(u) /\ Header(v) # Body(s)
    BY <1>13, HeaderFacts
  <2> QED
    BY <1>2, <1>3, <1>4, <1>5, <1>6, <2>1
<1>14. ASSUME NEW v, NEW r, v # u PROVE Section(g, v, r) <=> Section(f, v, r)
  <2>1. ASSUME Section(g, v, r) PROVE Section(f, v, r)
    <3>1. PICK i \in 1..G : i + 1 \in 1..G /\ g[i] = Header(v) /\ g[i + 1] = Body(r)
      BY <2>1 DEF Section, G
    <3>2. i \in 1..F
      BY <1>3, <1>4, <1>5, <1>14, <3>1, HeaderFacts
    <3>3. f[i] = Header(v) /\ i + 1 \in 1..F
      BY <1>2, <1>8, <3>1, <3>2, HeaderFacts
    <3>4. f[i + 1] = Body(r)
      BY <1>2, <3>1, <3>3
    <3> QED
      BY <3>2, <3>3, <3>4 DEF Section, F
  <2>2. ASSUME Section(f, v, r) PROVE Section(g, v, r)
    <3>1. PICK i \in 1..F : i + 1 \in 1..F /\ f[i] = Header(v) /\ f[i + 1] = Body(r)
      BY <2>2 DEF Section, F
    <3> QED
      BY <1>2, <3>1 DEF Section, G
  <2> QED
    BY <2>1, <2>2
<1>15. \A i \in Range(f) : i \in Range(g)
  BY <1>2, <1>6
<1> QED
  BY <1>11, <1>12, <1>13, <1>14, <1>15

\* The section that newcaal appends (newcaal.sh:191-198).
LEMMA AppendWellFormed ==
  ASSUME NEW f \in Seq(Items), WellFormed(f), NEW u \in Users, NEW s \in Settings,
         Header(u) \notin Range(f)
  PROVE  LET g == f \o <<Header(u), Body(s)>>
         IN /\ g \in Seq(Items) /\ WellFormed(g) /\ Section(g, u, s)
            /\ \A v : v # u => (Header(v) \in Range(g) <=> Header(v) \in Range(f))
            /\ \A v, r : v # u => (Section(g, v, r) <=> Section(f, v, r))
            /\ \A i \in Range(f) : i \in Range(g)
<1> DEFINE e == <<Header(u), Body(s)>>
           g == f \o e
<1>1. Header(u) \in Items /\ Body(s) \in Items
  BY DEF Items, Header, Body
<1>2. e \in Seq(Items) /\ Len(e) = 2 /\ e[1] = Header(u) /\ e[2] = Body(s)
  BY <1>1
<1> SUFFICES /\ g \in Seq(Items) /\ WellFormed(g) /\ Section(g, u, s)
             /\ \A v : v # u => (Header(v) \in Range(g) <=> Header(v) \in Range(f))
             /\ \A v, r : v # u => (Section(g, v, r) <=> Section(f, v, r))
             /\ \A i \in Range(f) : i \in Range(g)
  OBVIOUS
<1> HIDE DEF e
<1>3. /\ g \in Seq(Items) /\ Len(g) = Len(f) + Len(e)
      /\ \A i \in 1..(Len(f) + Len(e)) : g[i] = IF i <= Len(f) THEN f[i] ELSE e[i - Len(f)]
  BY <1>2, ConcatProperties
<1> HIDE DEF g
<1>4. Len(f) \in Nat
  OBVIOUS
<1>5. Len(g) = Len(f) + 2 /\ \A i \in 1..Len(f) : g[i] = f[i]
  BY <1>2, <1>3, <1>4
<1>6. g[Len(f) + 1] = Header(u)
  <2>1. Len(f) + 1 \in 1..(Len(f) + Len(e)) /\ ~(Len(f) + 1 <= Len(f)) /\ Len(f) + 1 - Len(f) = 1
    BY <1>2, <1>4
  <2> QED
    BY <1>2, <1>3, <2>1
<1>7. g[Len(f) + 2] = Body(s)
  <2>1. Len(f) + 2 \in 1..(Len(f) + Len(e)) /\ ~(Len(f) + 2 <= Len(f)) /\ Len(f) + 2 - Len(f) = 2
    BY <1>2, <1>4
  <2> QED
    BY <1>2, <1>3, <2>1
<1>8. g \in Seq(Items)
  BY <1>3
<1> QED
  BY <1>5, <1>6, <1>7, <1>8, SectionAdded

\* sed leaves a file alone that has no section of u.
LEMMA SedNone ==
  ASSUME NEW f \in Seq(Items), NEW u, Header(u) \notin Range(f)
  PROVE  sed(f, u) = f
<1> DEFINE D == Sed(f, u)
           Here(n) == /\ D[n] \in SedStates /\ D[n].in = FALSE /\ Len(D[n].out) = n
                      /\ \A j \in 1..n : D[n].out[j] = f[j]
           S == {n \in Nat : n <= Len(f) => Here(n)}
<1>1. Len(f) \in Nat
  OBVIOUS
<1>2. D[0] = SedZero /\ \A i \in 1..Len(f) : D[i] = sed_line(D[i - 1], f[i], u)
  BY <1>1, SedDef
<1>3. \A i \in 1..Len(f) : f[i] # Header(u) /\ f[i] \in Items
  BY DEF Range
<1> HIDE DEF D
<1>4. 0 \in S
  <2>1. <<>> \in Seq(Items) /\ Len(<<>>) = 0
    BY EmptySeq
  <2>2. D[0] \in SedStates /\ D[0].in = FALSE /\ D[0].out = <<>>
    BY <1>2, <2>1 DEF SedStates, SedZero
  <2>3. Here(0)
    BY <2>1, <2>2
  <2> HIDE DEF Here
  <2> QED
    BY <2>3
<1>5. ASSUME NEW n \in Nat, n \in S PROVE n + 1 \in S
  <2> SUFFICES ASSUME n + 1 <= Len(f) PROVE Here(n + 1)
    <3> HIDE DEF Here
    <3> QED
      OBVIOUS
  <2>1. Here(n) /\ n + 1 \in 1..Len(f) /\ n + 1 - 1 = n
    BY <1>1, <1>5
  <2> DEFINE r == D[n]
             i == f[n + 1]
  <2>2. D[n + 1] = sed_line(r, i, u) /\ i \in Items /\ i # Header(u)
    BY <1>2, <1>3, <2>1
  <2>3. r \in SedStates /\ r.in = FALSE /\ Len(r.out) = n /\ \A j \in 1..n : r.out[j] = f[j]
    BY <2>1
  <2>4. i = f[n + 1]
    OBVIOUS
  <2> HIDE DEF r, i
  <2>5. D[n + 1] \in SedStates /\ r.out \in Seq(Items)
    BY <2>2, <2>3, SedLineType DEF SedStates
  <2>6. D[n + 1].in = FALSE /\ D[n + 1].out = Append(r.out, i)
    BY <2>2, <2>3 DEF sed_line, SedStates
  <2>7. Len(D[n + 1].out) = n + 1 /\ D[n + 1].out[n + 1] = i /\ \A j \in 1..n : D[n + 1].out[j] = r.out[j]
    BY <2>2, <2>3, <2>5, <2>6
  <2>8. \A j \in 1..(n + 1) : j = n + 1 \/ j \in 1..n
    OBVIOUS
  <2>9. \A j \in 1..(n + 1) : D[n + 1].out[j] = f[j]
    BY <2>3, <2>4, <2>7, <2>8
  <2> QED
    BY <2>5, <2>6, <2>7, <2>9
<1>6. Nat \subseteq S
  <2> HIDE DEF S
  <2> QED
    BY <1>4, <1>5, NatInd
<1>7. Here(Len(f))
  BY <1>1, <1>6
<1> DEFINE g == D[Len(f)].out
<1>8. g \in Seq(Items) /\ Len(g) = Len(f) /\ \A j \in 1..Len(f) : g[j] = f[j]
  BY <1>7 DEF SedStates
<1> HIDE DEF g
<1>9. g = f
  BY <1>8, SeqEqual
<1> QED
  BY <1>9 DEF sed, D, g

\* With or without one: what it leaves is well-formed and holds what the other users had.
LEMMA Rewritten ==
  ASSUME NEW f \in Seq(Items), WellFormed(f), NEW u
  PROVE  /\ WellFormed(sed(f, u)) /\ Header(u) \notin Range(sed(f, u))
         /\ \A v : v # u => (Header(v) \in Range(sed(f, u)) <=> Header(v) \in Range(f))
         /\ \A v, s : v # u => (Section(sed(f, u), v, s) <=> Section(f, v, s))
BY SedWellFormed, SedNone

-----------------------------------------------------------------------------
(* The inductive invariant *)

Processes ==
  [pc : {"idle"} \cup NewPlaces \cup DelPlaces, what : {"new", "del", None}, user : Users \cup {None},
   settings : Settings \cup {None}, copy : Seq(Items)]

\* A process is idle, or at a place of its script; a script at work on the file has found or
\* made one.
ProcessOK(r, ex) ==
  /\ r \in Processes
  /\ r.pc # "idle" =>
       /\ r.user \in Users
       /\ \/ r.what = "new" /\ r.pc \in NewPlaces /\ r.settings \in Settings
          \/ r.what = "del" /\ r.pc \in DelPlaces
       /\ r.pc \in {"grep", "sed", "rename", "append"} => ex

HostTypes ==
  /\ accounts \subseteq Users /\ password \subseteq accounts /\ sshd \subseteq Users
  /\ exists \in BOOLEAN /\ file \in Seq(Items) /\ (file # <<>> => exists)
  /\ runs \in 0..MaxRuns /\ overlap \in BOOLEAN /\ raced \in BOOLEAN /\ unset \subseteq Users
  /\ last \in [Users -> {None, Deleted} \cup Settings]

ProcessTypes == script \in [Scripts -> Processes] /\ \A p \in Scripts : ProcessOK(script[p], exists)

\* What a script that runs alone knows of its user at the place pc.
KnowsFile(pc, u, copy) ==
  /\ pc = "create" => ~exists
  /\ pc = "sed"    => HasHeader(u)
  /\ pc = "rename" => HasHeader(u) /\ copy = sed(file, u)
  /\ pc = "append" => ~HasHeader(u)
KnowsNew(pc, u, s) ==
  /\ pc = "passwd" => u \notin password /\ u \notin unset
  /\ pc # "useradd" => u \in accounts
  /\ pc \in {"dropin", "reload"} => Section(file, u, s)
  /\ pc = "reload" => u \in sshd
KnowsDel(pc, u) ==
  /\ pc # "userdel" => u \notin accounts
  /\ pc \in {"rm", "reload"} => ~HasHeader(u)
  /\ pc = "reload" => u \notin sshd
Knows(p) ==
  /\ last[U(p)] = None
  /\ KnowsFile(script[p].pc, U(p), script[p].copy)
  /\ script[p].what = "new" => KnowsNew(script[p].pc, U(p), script[p].settings)
  /\ script[p].what = "del" => KnowsDel(script[p].pc, U(p))

Passwords ==
  \A u \in Users :
    /\ u \notin accounts => u \notin unset
    /\ u \in accounts /\ (\A p \in Running : U(p) = u => ~At(p, "new", "passwd"))
         => (u \in password <=> u \notin unset)

Finished ==
  \A u \in Users :
    /\ last[u] \in Settings => u \in accounts /\ u \in sshd /\ Section(file, u, last[u])
    /\ last[u] = Deleted => u \notin accounts /\ u \notin sshd /\ ~HasHeader(u)

(***************************************************************************)
(* As long as the scripts have run one after another, whatever commands of *)
(* theirs failed.                                                          *)
(***************************************************************************)
Sound ==
  /\ \A p, q \in Running : p = q
  /\ WellFormed(file)
  /\ \A p \in Running : Knows(p)
  /\ Passwords
  /\ Finished
OneByOne == ~overlap => Sound

-----------------------------------------------------------------------------
(* Types *)

\* A step of p gives its process a new record, and keeps the others.
LEMMA ProcessSet ==
  ASSUME NEW p \in Scripts, NEW r, ProcessTypes, script' = [script EXCEPT ![p] = r],
         exists => exists', ProcessOK(r, exists')
  PROVE  ProcessTypes'
BY DEF ProcessTypes, ProcessOK

\* To another place of the same script.
LEMMA ProcessGoto ==
  ASSUME NEW p \in Scripts, NEW pc, ProcessTypes, p \in Running, Goto(p, pc), exists => exists',
         \/ script[p].what = "new" /\ pc \in NewPlaces
         \/ script[p].what = "del" /\ pc \in DelPlaces,
         pc \in {"grep", "sed", "rename", "append"} => exists'
  PROVE  ProcessTypes'
<1> DEFINE r == [script[p] EXCEPT !.pc = pc]
<1>1. script' = [script EXCEPT ![p] = r]
  BY DEF Goto
<1>2. ProcessOK(script[p], exists) /\ script[p].pc # "idle"
  BY DEF ProcessTypes, Running
<1>3. r \in Processes /\ r.pc = pc /\ r.user = script[p].user /\ r.what = script[p].what
      /\ r.settings = script[p].settings
  BY <1>2 DEF ProcessOK, Processes
<1> HIDE DEF r
<1>4. ProcessOK(r, exists')
  <2>1. NewPlaces \cap DelPlaces = {"grep", "sed", "rename", "reload"}
    BY DEF NewPlaces, DelPlaces
  <2> QED
    BY <1>2, <1>3 DEF ProcessOK
<1> QED
  BY <1>1, <1>4, ProcessSet

LEMMA ProcessIdle ==
  ASSUME NEW p \in Scripts, ProcessTypes, script' = [script EXCEPT ![p] = Idle], exists => exists'
  PROVE  ProcessTypes'
<1>1. Idle \in Processes /\ Idle.pc = "idle"
  <2>1. <<>> \in Seq(Items)
    BY EmptySeq
  <2> QED
    BY <2>1 DEF Idle, Processes
<1>2. ProcessOK(Idle, exists')
  BY <1>1 DEF ProcessOK
<1> QED
  BY <1>2, ProcessSet

LEMMA StepTypes ==
  ASSUME HostTypes, ProcessTypes, NEW p \in Scripts, Step(p)
  PROVE  HostTypes' /\ ProcessTypes'
<1> USE DEF At, U
<1>0. ProcessOK(script[p], exists) /\ (script[p].pc # "idle" => p \in Running)
  BY DEF ProcessTypes, Running
<1>1. CASE create_user(p)
  <2>1. HostTypes'
    BY <1>0, <1>1 DEF HostTypes, create_user, scriptVars, otherVars, ProcessOK
  <2> QED
    BY <1>0, <1>1, <2>1, ProcessGoto DEF create_user, NewPlaces
<1>2. CASE passwd(p)
  <2>1. HostTypes'
    BY <1>2 DEF HostTypes, passwd, scriptVars, otherVars
  <2> QED
    BY <1>0, <1>2, <2>1, ProcessGoto DEF passwd, NewPlaces
<1>3. CASE TestFile(p)
  <2>1. HostTypes'
    BY <1>3 DEF HostTypes, TestFile, scriptVars, otherVars, hostVars
  <2> DEFINE pc == IF exists THEN "grep" ELSE "create"
  <2>2. pc \in NewPlaces /\ (pc \in {"grep", "sed", "rename", "append"} => exists)
    BY DEF NewPlaces
  <2>3. Goto(p, pc) /\ exists' = exists /\ p \in Running /\ script[p].what = "new"
    BY <1>0, <1>3 DEF TestFile, hostVars
  <2> HIDE DEF pc
  <2> QED
    BY <2>1, <2>2, <2>3, ProcessGoto
<1>4. CASE CreateFile(p)
  <2>1. HostTypes'
    <3>1. <<>> \in Seq(Items)
      BY EmptySeq
    <3> QED
      BY <1>4, <3>1 DEF HostTypes, CreateFile, scriptVars, otherVars
  <2> QED
    BY <1>0, <1>4, <2>1, ProcessGoto DEF CreateFile, NewPlaces
<1>5. CASE Grep(p)
  <2>1. HostTypes'
    BY <1>5 DEF HostTypes, Grep, scriptVars, otherVars, hostVars
  <2> DEFINE pc == IF HasHeader(U(p)) THEN "sed" ELSE IF script[p].what = "new" THEN "append" ELSE "rm"
  <2>2. Goto(p, pc) /\ exists' = exists /\ p \in Running /\ exists
    BY <1>0, <1>5 DEF Grep, hostVars, ProcessOK
  <2>3. \/ script[p].what = "new" /\ pc \in NewPlaces
        \/ script[p].what = "del" /\ pc \in DelPlaces
    BY <1>0, <2>2 DEF ProcessOK, NewPlaces, DelPlaces, Running
  <2> HIDE DEF pc
  <2> QED
    BY <2>1, <2>2, <2>3, ProcessGoto
<1>6. CASE SedReads(p)
  <2>1. HostTypes'
    BY <1>6 DEF HostTypes, SedReads, scriptVars, otherVars, hostVars
  <2> DEFINE c == sed(file, U(p))
             r == [script[p] EXCEPT !.copy = c, !.pc = "rename"]
  <2>2. script' = [script EXCEPT ![p] = r] /\ exists' = exists
    BY <1>6 DEF SedReads, hostVars
  <2>3. c \in Seq(Items)
    BY SedType DEF HostTypes
  <2> HIDE DEF c
  <2>4. ProcessOK(r, exists')
    BY <1>0, <1>6, <2>2, <2>3 DEF ProcessOK, Processes, SedReads, NewPlaces, DelPlaces
  <2> QED
    BY <2>1, <2>2, <2>4, ProcessSet
<1>7. CASE SedRenames(p)
  <2>1. HostTypes'
    <3>1. raced' \in BOOLEAN
      BY <1>7 DEF SedRenames, Writes
    <3> QED
      BY <1>0, <1>7, <3>1 DEF HostTypes, SedRenames, otherVars, ProcessOK, Processes
  <2> DEFINE pc == IF script[p].what = "new" THEN "append" ELSE "rm"
             r == [script[p] EXCEPT !.copy = <<>>, !.pc = pc]
  <2>2. script' = [script EXCEPT ![p] = r] /\ exists' = exists
    BY <1>7 DEF SedRenames
  <2>3. \/ script[p].what = "new" /\ pc \in NewPlaces
        \/ script[p].what = "del" /\ pc \in DelPlaces
    BY <1>0, <1>7 DEF ProcessOK, NewPlaces, DelPlaces, SedRenames
  <2>4. <<>> \in Seq(Items) /\ exists
    BY <1>0, <1>7, EmptySeq DEF SedRenames, ProcessOK
  <2> HIDE DEF pc
  <2>5. /\ r \in Processes /\ r.pc = pc /\ r.user = script[p].user /\ r.what = script[p].what
        /\ r.settings = script[p].settings
    BY <1>0, <2>3, <2>4 DEF ProcessOK, Processes
  <2>6. /\ script[p].user \in Users
        /\ script[p].what = "new" => script[p].settings \in Settings
    BY <1>0, <1>7 DEF ProcessOK, SedRenames
  <2> HIDE DEF r
  <2>7. ProcessOK(r, exists')
    BY <2>2, <2>3, <2>4, <2>5, <2>6 DEF ProcessOK
  <2> QED
    BY <2>1, <2>2, <2>7, ProcessSet
<1>8. CASE AppendEntry(p)
  <2> DEFINE e == <<Header(U(p)), Body(script[p].settings)>>
  <2>1. e \in Seq(Items) /\ exists
    <3>1. script[p].user \in Users /\ script[p].settings \in Settings /\ exists
      BY <1>0, <1>8 DEF ProcessOK, AppendEntry, DelPlaces
    <3>2. Header(script[p].user) \in Items /\ Body(script[p].settings) \in Items
      BY <3>1 DEF Items, Header, Body
    <3> QED
      BY <3>1, <3>2
  <2>2. file' = file \o e
    BY <1>8 DEF AppendEntry
  <2> HIDE DEF e
  <2>3. file' \in Seq(Items)
    BY <2>1, <2>2, ConcatProperties DEF HostTypes
  <2>4. HostTypes'
    <3>1. raced' \in BOOLEAN
      BY <1>8 DEF AppendEntry, Writes
    <3> QED
      BY <1>8, <2>1, <2>3, <3>1 DEF HostTypes, AppendEntry, otherVars
  <2> QED
    BY <1>0, <1>8, <2>1, <2>4, ProcessGoto DEF AppendEntry, NewPlaces
<1>9. CASE write_sshd(p)
  <2>1. HostTypes'
    BY <1>0, <1>9 DEF HostTypes, write_sshd, scriptVars, otherVars, ProcessOK
  <2> QED
    BY <1>0, <1>9, <2>1, ProcessGoto DEF write_sshd, NewPlaces
<1>10. CASE Reload(p)
  <2>1. HostTypes'
    BY <1>0, <1>10 DEF HostTypes, Reload, Done, hostVars, ProcessOK
  <2> QED
    BY <1>10, <2>1, ProcessIdle DEF Reload, Done, hostVars
<1>11. CASE remove_user(p)
  <2>1. HostTypes'
    BY <1>11 DEF HostTypes, remove_user
  <2> DEFINE pc == IF exists THEN "grep" ELSE "rm"
  <2>2. pc \in DelPlaces /\ (pc \in {"grep", "sed", "rename", "append"} => exists)
    BY DEF DelPlaces
  <2>3. Goto(p, pc) /\ exists' = exists /\ p \in Running /\ script[p].what = "del"
    BY <1>0, <1>11 DEF remove_user
  <2> HIDE DEF pc
  <2> QED
    BY <2>1, <2>2, <2>3, ProcessGoto
<1>12. CASE remove_sshd(p)
  <2>1. HostTypes'
    BY <1>0, <1>12 DEF HostTypes, remove_sshd, Done, ProcessOK
  <2>2. CASE U(p) \in sshd
    BY <1>0, <1>12, <2>1, <2>2, ProcessGoto DEF remove_sshd, DelPlaces
  <2>3. CASE U(p) \notin sshd
    BY <1>12, <2>1, <2>3, ProcessIdle DEF remove_sshd, Done
  <2> QED
    BY <2>2, <2>3
<1>13. CASE Abort(p)
  <2>1. HostTypes'
    BY <1>0, <1>13 DEF HostTypes, Abort, hostVars, ProcessOK, Running
  <2> QED
    BY <1>13, <2>1, ProcessIdle DEF Abort, hostVars
<1> QED
  BY <1>1, <1>2, <1>3, <1>4, <1>5, <1>6, <1>7, <1>8, <1>9, <1>10, <1>11, <1>12, <1>13 DEF Step

LEMMA BeginTypes ==
  ASSUME HostTypes, ProcessTypes, NEW p \in Scripts, NEW u \in Users, NEW s \in Settings \cup {None},
         NEW what, NEW pc, Begin(p, what, u, s, pc),
         \/ what = "new" /\ s \in Settings /\ pc = "useradd"
         \/ what = "del" /\ pc = "userdel"
  PROVE  HostTypes' /\ ProcessTypes'
<1> DEFINE r == [pc |-> pc, what |-> what, user |-> u, settings |-> s, copy |-> <<>>]
<1>1. HostTypes'
  <2>1. runs' \in 0..MaxRuns
    BY BoundsAssumption DEF Begin, HostTypes
  <2>2. last' \in [Users -> {None, Deleted} \cup Settings]
    BY DEF Begin, HostTypes
  <2> QED
    BY <2>1, <2>2 DEF HostTypes, Begin, hostVars
<1>2. script' = [script EXCEPT ![p] = r] /\ exists' = exists
  BY DEF Begin, hostVars
<1>3. ProcessOK(r, exists')
  <2>1. <<>> \in Seq(Items)
    BY EmptySeq
  <2> QED
    BY <2>1 DEF ProcessOK, Processes, NewPlaces, DelPlaces
<1> HIDE DEF r
<1> QED
  BY <1>1, <1>2, <1>3, ProcessSet

LEMMA TypesNext == HostTypes /\ ProcessTypes /\ [Next]_vars => HostTypes' /\ ProcessTypes'
<1> SUFFICES ASSUME HostTypes, ProcessTypes, [Next]_vars PROVE HostTypes' /\ ProcessTypes'
  OBVIOUS
<1>1. CASE UNCHANGED vars
  BY <1>1 DEF vars, hostVars, HostTypes, ProcessTypes
<1>2. ASSUME NEW p \in Scripts, NEW u \in Users, NEW s \in Settings, newcaal(p, u, s)
      PROVE  HostTypes' /\ ProcessTypes'
  BY <1>2, BeginTypes DEF newcaal
<1>3. ASSUME NEW p \in Scripts, NEW u \in Users, delcaal(p, u) PROVE HostTypes' /\ ProcessTypes'
  BY <1>3, BeginTypes DEF delcaal
<1> QED
  BY <1>1, <1>2, <1>3, StepTypes DEF Next

LEMMA TypesInit == Init => HostTypes /\ ProcessTypes
<1> SUFFICES ASSUME Init PROVE HostTypes /\ ProcessTypes
  OBVIOUS
<1>1. <<>> \in Seq(Items) /\ 0 \in 0..MaxRuns
  BY EmptySeq, BoundsAssumption
<1>2. ProcessOK(Idle, exists)
  BY <1>1 DEF ProcessOK, Processes, Idle
<1>3. ProcessTypes
  BY <1>2 DEF Init, ProcessTypes, ProcessOK
<1>4. HostTypes
  BY <1>1 DEF Init, HostTypes
<1> QED
  BY <1>3, <1>4

\* The types, for any number of users and of scripts at the same time.
THEOREM TypeCorrect == Spec => []TypeOK
<1>1. HostTypes /\ ProcessTypes => TypeOK
  BY DEF HostTypes, ProcessTypes, ProcessOK, Processes, TypeOK, Running
<1> QED
  BY <1>1, TypesInit, TypesNext, PTL DEF Spec

-----------------------------------------------------------------------------
(* One script after another *)

\* What a step of p does to its process.
LEMMA GotoFields ==
  ASSUME ProcessTypes, NEW p \in Scripts, NEW pc, Goto(p, pc)
  PROVE  /\ script'[p].pc = pc /\ script'[p].what = script[p].what /\ script'[p].user = script[p].user
         /\ script'[p].settings = script[p].settings /\ script'[p].copy = script[p].copy
BY DEF ProcessTypes, ProcessOK, Processes, Goto

LEMMA IdleFields ==
  ASSUME ProcessTypes, NEW p \in Scripts, script' = [script EXCEPT ![p] = Idle]
  PROVE  script'[p].pc = "idle" /\ p \notin Running'
BY DEF ProcessTypes, Idle, Running

LEMMA StepRuns ==
  ASSUME HostTypes, ProcessTypes, NEW p \in Scripts, Step(p)
  PROVE  /\ p \in Running /\ U(p) \in Users /\ overlap' = overlap
         /\ \A q \in Scripts : q # p => script'[q] = script[q]
<1> USE DEF ProcessTypes, ProcessOK, Running, At, U, Goto
<1>1. CASE create_user(p)
  BY <1>1 DEF create_user, scriptVars, otherVars
<1>2. CASE passwd(p)
  BY <1>2 DEF passwd, scriptVars, otherVars
<1>3. CASE TestFile(p)
  BY <1>3 DEF TestFile, scriptVars, otherVars
<1>4. CASE CreateFile(p)
  BY <1>4 DEF CreateFile, scriptVars, otherVars
<1>5. CASE Grep(p)
  BY <1>5 DEF Grep, scriptVars, otherVars
<1>6. CASE SedReads(p)
  BY <1>6 DEF SedReads, scriptVars, otherVars
<1>7. CASE SedRenames(p)
  BY <1>7 DEF SedRenames, scriptVars, otherVars
<1>8. CASE AppendEntry(p)
  BY <1>8 DEF AppendEntry, scriptVars, otherVars
<1>9. CASE write_sshd(p)
  BY <1>9 DEF write_sshd, scriptVars, otherVars
<1>10. CASE Reload(p)
  BY <1>10 DEF Reload, Done
<1>11. CASE remove_user(p)
  BY <1>11 DEF remove_user
<1>12. CASE remove_sshd(p)
  BY <1>12 DEF remove_sshd, Done
<1>13. CASE Abort(p)
  BY <1>13 DEF Abort
<1> QED
  BY <1>1, <1>2, <1>3, <1>4, <1>5, <1>6, <1>7, <1>8, <1>9, <1>10, <1>11, <1>12, <1>13 DEF Step

\* Of the users other than u nothing changes.
OthersSame(u) ==
  \A v \in Users : v # u =>
    /\ (v \in accounts' <=> v \in accounts) /\ (v \in password' <=> v \in password)
    /\ (v \in sshd' <=> v \in sshd) /\ (v \in unset' <=> v \in unset) /\ last'[v] = last[v]
    /\ (Header(v) \in Range(file') <=> Header(v) \in Range(file))
    /\ \A s : Section(file', v, s) <=> Section(file, v, s)

\* What has to be shown of a step of the one script that runs.
LEMMA SoundStep ==
  ASSUME HostTypes, ProcessTypes, Sound, NEW p \in Scripts, Step(p), NEW u, u = U(p),
         WellFormed(file'), OthersSame(u),
         p \in Running' => U(p)' = u /\ Knows(p)',
         last'[u] \in Settings => u \in accounts' /\ u \in sshd' /\ Section(file', u, last'[u]),
         last'[u] = Deleted => u \notin accounts' /\ u \notin sshd' /\ Header(u) \notin Range(file'),
         u \notin accounts' => u \notin unset',
         u \in accounts' => (u \in password' <=> u \notin unset') \/ (p \in Running' /\ At(p, "new", "passwd")')
  PROVE  Sound'
<1>1. /\ p \in Running /\ u \in Users /\ \A q \in Running : q = p
      /\ \A q \in Scripts : q # p => script'[q] = script[q]
  BY StepRuns DEF Sound
<1>2. \A q \in Running' : q = p
  BY <1>1 DEF Running
<1>3. Passwords'
  <2> SUFFICES ASSUME NEW v \in Users
               PROVE  /\ v \notin accounts' => v \notin unset'
                      /\ v \in accounts' /\ (\A q \in Running' : U(q)' = v => ~At(q, "new", "passwd")')
                           => (v \in password' <=> v \notin unset')
    BY DEF Passwords
  <2>1. CASE v = u
    BY <1>2, <2>1
  <2>2. CASE v # u
    <3>1. \A q \in Running : U(q) # v
      BY <1>1, <2>2
    <3>2. /\ v \notin accounts => v \notin unset
          /\ v \in accounts => (v \in password <=> v \notin unset)
      BY <3>1 DEF Sound, Passwords
    <3> QED
      BY <2>2, <3>2 DEF OthersSame
  <2> QED
    BY <2>1, <2>2
<1>4. Finished'
  <2> SUFFICES ASSUME NEW v \in Users
               PROVE  /\ last'[v] \in Settings => v \in accounts' /\ v \in sshd' /\ Section(file', v, last'[v])
                      /\ last'[v] = Deleted => v \notin accounts' /\ v \notin sshd' /\ Header(v) \notin Range(file')
    BY DEF Finished, HasHeader
  <2>1. CASE v = u
    BY <2>1
  <2>2. CASE v # u
    BY <2>2 DEF OthersSame, Sound, Finished, HasHeader
  <2> QED
    BY <2>1, <2>2
<1>5. \A q \in Running' : Knows(q)'
  BY <1>2
<1> QED
  BY <1>2, <1>3, <1>4, <1>5 DEF Sound

\* A step that leaves the file, and the other users, alone.
LEMMA SameFile ==
  ASSUME NEW u, UNCHANGED file,
         \A v \in Users : v # u => /\ (v \in accounts' <=> v \in accounts) /\ (v \in password' <=> v \in password)
                                 /\ (v \in sshd' <=> v \in sshd) /\ (v \in unset' <=> v \in unset)
                                 /\ last'[v] = last[v]
  PROVE  OthersSame(u) /\ (WellFormed(file) => WellFormed(file'))
BY DEF OthersSame

LEMMA SoundNext ==
  ASSUME HostTypes, ProcessTypes, Sound, NEW p \in Scripts, Step(p)
  PROVE  Sound'
<1> DEFINE u == U(p)
           r == script[p]
           P == p \in Running' => U(p)' = u /\ Knows(p)'
           F == last'[u] \notin Settings /\ last'[u] # Deleted
           W == /\ u \notin accounts' => u \notin unset'
                /\ u \in accounts' => \/ u \in password' <=> u \notin unset'
                                      \/ p \in Running' /\ At(p, "new", "passwd")'
<1>1. /\ p \in Running /\ u \in Users /\ Knows(p) /\ WellFormed(file) /\ last[u] = None
      /\ last \in [Users -> {None, Deleted} \cup Settings]
  BY StepRuns DEF Sound, Knows, HostTypes
<1>2. \/ r.what = "new" /\ r.pc \in NewPlaces /\ r.settings \in Settings
      \/ r.what = "del" /\ r.pc \in DelPlaces
  BY <1>1 DEF ProcessTypes, ProcessOK, Running
<1>3. /\ u \notin accounts => u \notin unset /\ u \notin password
      /\ u \in accounts /\ ~At(p, "new", "passwd") => (u \in password <=> u \notin unset)
  <2>1. \A q \in Running : q = p
    BY <1>1 DEF Sound
  <2> QED
    BY <1>1, <2>1 DEF Sound, Passwords, HostTypes
<1>4. last'[u] = None => F
  BY SettingsAssumption
<1>5. ASSUME P, F, W, OthersSame(u), WellFormed(file') PROVE Sound'
  BY <1>5, SoundStep
<1> HIDE DEF P, F, W
<1> USE DEF At, U
<1>6. CASE create_user(p)
  <2>1. OthersSame(u) /\ WellFormed(file') /\ F
    BY <1>1, <1>4, <1>6, SameFile DEF create_user, scriptVars, otherVars
  <2>2. CASE u \in accounts
    <3>1. script'[p].pc = "test" /\ script'[p].what = "new" /\ script'[p].user = u
      BY <1>6, <2>2, GotoFields DEF create_user
    <3>2. P
      BY <1>1, <1>6, <2>2, <3>1 DEF P, create_user, scriptVars, otherVars, Knows, KnowsFile, KnowsNew
    <3>3. W
      BY <1>3, <1>6, <2>2 DEF W, create_user, scriptVars, otherVars
    <3> QED
      BY <1>5, <2>1, <3>2, <3>3
  <2>3. CASE u \notin accounts
    <3>1. script'[p].pc = "passwd" /\ script'[p].what = "new" /\ script'[p].user = u
      BY <1>6, <2>3, GotoFields DEF create_user
    <3>2. P
      BY <1>1, <1>3, <1>6, <2>3, <3>1 DEF P, create_user, scriptVars, otherVars, Knows, KnowsFile, KnowsNew
    <3>3. W
      BY <1>3, <1>6, <2>3, <3>1 DEF W, create_user, scriptVars, otherVars, Running
    <3> QED
      BY <1>5, <2>1, <3>2, <3>3
  <2> QED
    BY <2>2, <2>3
<1>7. CASE passwd(p)
  <2>1. OthersSame(u) /\ WellFormed(file') /\ F
    BY <1>1, <1>4, <1>7, SameFile DEF passwd, scriptVars, otherVars
  <2>2. script'[p].pc = "test" /\ script'[p].what = "new" /\ script'[p].user = u
    BY <1>7, GotoFields DEF passwd
  <2>3. P
    BY <1>1, <1>7, <2>2 DEF P, passwd, scriptVars, otherVars, Knows, KnowsFile, KnowsNew
  <2>4. W
    BY <1>1, <1>7 DEF W, passwd, scriptVars, otherVars, Knows, KnowsNew
  <2> QED
    BY <1>5, <2>1, <2>3, <2>4
<1>8. CASE TestFile(p)
  <2>1. OthersSame(u) /\ WellFormed(file') /\ F
    BY <1>1, <1>4, <1>8, SameFile DEF TestFile, scriptVars, otherVars, hostVars
  <2>2. /\ script'[p].pc = (IF exists THEN "grep" ELSE "create")
        /\ script'[p].what = "new" /\ script'[p].user = u
    BY <1>8, GotoFields DEF TestFile
  <2>3. P
    BY <1>1, <1>8, <2>2 DEF P, TestFile, scriptVars, otherVars, hostVars, Knows, KnowsFile, KnowsNew
  <2>4. W
    BY <1>3, <1>8 DEF W, TestFile, scriptVars, otherVars, hostVars
  <2> QED
    BY <1>5, <2>1, <2>3, <2>4
<1>9. CASE CreateFile(p)
  <2>1. UNCHANGED file
    BY <1>1, <1>9 DEF CreateFile, Knows, KnowsFile, HostTypes
  <2>2. OthersSame(u) /\ WellFormed(file') /\ F
    BY <1>1, <1>4, <1>9, <2>1, SameFile DEF CreateFile, scriptVars, otherVars
  <2>3. script'[p].pc = "grep" /\ script'[p].what = "new" /\ script'[p].user = u
    BY <1>9, GotoFields DEF CreateFile
  <2>4. P
    BY <1>1, <1>9, <2>3 DEF P, CreateFile, scriptVars, otherVars, Knows, KnowsFile, KnowsNew
  <2>5. W
    BY <1>3, <1>9 DEF W, CreateFile, scriptVars, otherVars
  <2> QED
    BY <1>5, <2>2, <2>4, <2>5
<1>10. CASE Grep(p)
  <2>1. OthersSame(u) /\ WellFormed(file') /\ F
    BY <1>1, <1>4, <1>10, SameFile DEF Grep, scriptVars, otherVars, hostVars
  <2>2. /\ script'[p].pc = IF HasHeader(u) THEN "sed" ELSE IF r.what = "new" THEN "append" ELSE "rm"
        /\ script'[p].what = r.what /\ script'[p].user = u
    BY <1>10, GotoFields DEF Grep
  <2>3. P
    BY <1>1, <1>2, <1>10, <2>2
       DEF P, Grep, scriptVars, otherVars, hostVars, Knows, KnowsFile, KnowsNew, KnowsDel, HasHeader
  <2>4. W
    BY <1>3, <1>10 DEF W, Grep, scriptVars, otherVars, hostVars
  <2> QED
    BY <1>5, <2>1, <2>3, <2>4
<1>11. CASE SedReads(p)
  <2>1. OthersSame(u) /\ WellFormed(file') /\ F
    BY <1>1, <1>4, <1>11, SameFile DEF SedReads, scriptVars, otherVars, hostVars
  <2>2. /\ script'[p].pc = "rename" /\ script'[p].what = r.what /\ script'[p].user = u
        /\ script'[p].copy = sed(file, u)
    BY <1>11 DEF SedReads, ProcessTypes, ProcessOK, Processes
  <2>3. P
    BY <1>1, <1>2, <1>11, <2>2
       DEF P, SedReads, scriptVars, otherVars, hostVars, Knows, KnowsFile, KnowsNew, KnowsDel, HasHeader
  <2>4. W
    BY <1>3, <1>11 DEF W, SedReads, scriptVars, otherVars, hostVars
  <2> QED
    BY <1>5, <2>1, <2>3, <2>4
<1>12. CASE SedRenames(p)
  <2>1. file' = sed(file, u) /\ Header(u) \in Range(file) /\ file \in Seq(Items)
    BY <1>1, <1>12 DEF SedRenames, Knows, KnowsFile, HasHeader, HostTypes
  <2>2. /\ WellFormed(file') /\ Header(u) \notin Range(file')
        /\ \A v : v # u => (Header(v) \in Range(file') <=> Header(v) \in Range(file))
        /\ \A v, s : v # u => (Section(file', v, s) <=> Section(file, v, s))
    BY <1>1, <2>1, SedWellFormed
  <2>3. OthersSame(u)
    BY <1>12, <2>2 DEF OthersSame, SedRenames, scriptVars, otherVars
  <2>4. F
    BY <1>1, <1>4, <1>12 DEF SedRenames, scriptVars, otherVars
  <2>5. /\ script'[p].pc = (IF r.what = "new" THEN "append" ELSE "rm")
        /\ script'[p].what = r.what /\ script'[p].user = u
    BY <1>12 DEF SedRenames, ProcessTypes, ProcessOK, Processes
  <2>6. P
    BY <1>1, <1>2, <1>12, <2>2, <2>5
       DEF P, SedRenames, scriptVars, otherVars, Knows, KnowsFile, KnowsNew, KnowsDel, HasHeader
  <2>7. W
    BY <1>3, <1>12 DEF W, SedRenames, scriptVars, otherVars
  <2> QED
    BY <1>5, <2>2, <2>3, <2>4, <2>6, <2>7
<1>13. CASE AppendEntry(p)
  <2>1. file' = file \o <<Header(u), Body(r.settings)>> /\ Header(u) \notin Range(file) /\ file \in Seq(Items)
    BY <1>1, <1>13 DEF AppendEntry, Knows, KnowsFile, HasHeader, HostTypes
  <2>2. r.settings \in Settings /\ r.what = "new"
    BY <1>2, <1>13 DEF AppendEntry
  <2>3. /\ WellFormed(file') /\ Section(file', u, r.settings)
        /\ \A v : v # u => (Header(v) \in Range(file') <=> Header(v) \in Range(file))
        /\ \A v, s : v # u => (Section(file', v, s) <=> Section(file, v, s))
    BY <1>1, <2>1, <2>2, AppendWellFormed
  <2>4. OthersSame(u)
    BY <1>13, <2>3 DEF OthersSame, AppendEntry, scriptVars, otherVars
  <2>5. F
    BY <1>1, <1>4, <1>13 DEF AppendEntry, scriptVars, otherVars
  <2>6. script'[p].pc = "dropin" /\ script'[p].what = "new" /\ script'[p].user = u /\ script'[p].settings = r.settings
    BY <1>13, GotoFields DEF AppendEntry
  <2>7. P
    BY <1>1, <1>13, <2>3, <2>6 DEF P, AppendEntry, scriptVars, otherVars, Knows, KnowsFile, KnowsNew
  <2>8. W
    BY <1>3, <1>13 DEF W, AppendEntry, scriptVars, otherVars
  <2> QED
    BY <1>5, <2>3, <2>4, <2>5, <2>7, <2>8
<1>14. CASE write_sshd(p)
  <2>1. OthersSame(u) /\ WellFormed(file') /\ F
    BY <1>1, <1>4, <1>14, SameFile DEF write_sshd, scriptVars, otherVars
  <2>2. script'[p].pc = "reload" /\ script'[p].what = "new" /\ script'[p].user = u /\ script'[p].settings = r.settings
    BY <1>14, GotoFields DEF write_sshd
  <2>3. P
    BY <1>1, <1>14, <2>2 DEF P, write_sshd, scriptVars, otherVars, Knows, KnowsFile, KnowsNew
  <2>4. W
    BY <1>3, <1>14 DEF W, write_sshd, scriptVars, otherVars
  <2> QED
    BY <1>5, <2>1, <2>3, <2>4
<1>15. CASE Reload(p)
  <2>1. OthersSame(u) /\ WellFormed(file')
    BY <1>1, <1>15, SameFile DEF Reload, Done, hostVars
  <2>2. P
    BY <1>15, IdleFields DEF P, Reload, Done
  <2>3. W
    BY <1>3, <1>15 DEF W, Reload, hostVars
  <2>4. last'[u] = IF r.what = "new" THEN r.settings ELSE Deleted
    BY <1>1, <1>15 DEF Reload, Done
  <2>5. /\ last'[u] \in Settings => u \in accounts' /\ u \in sshd' /\ Section(file', u, last'[u])
        /\ last'[u] = Deleted => u \notin accounts' /\ u \notin sshd' /\ Header(u) \notin Range(file')
    BY <1>1, <1>2, <1>15, <2>4, SettingsAssumption DEF Reload, hostVars, Knows, KnowsNew, KnowsDel, HasHeader
  <2> QED
    BY <2>1, <2>2, <2>3, <2>5, SoundStep DEF P, W
<1>16. CASE remove_user(p)
  <2>1. OthersSame(u) /\ WellFormed(file') /\ F
    BY <1>1, <1>4, <1>16, SameFile DEF remove_user
  <2>2. /\ script'[p].pc = (IF exists THEN "grep" ELSE "rm")
        /\ script'[p].what = "del" /\ script'[p].user = u
    BY <1>16, GotoFields DEF remove_user
  <2>3. ~exists => ~HasHeader(u)
    <3>1. Range(<<>>) = {}
      BY DEF Range
    <3> QED
      BY <3>1 DEF HostTypes, HasHeader
  <2>4. P
    BY <1>1, <1>16, <2>2, <2>3 DEF P, remove_user, Knows, KnowsFile, KnowsDel, HasHeader
  <2>5. W
    BY <1>16 DEF W, remove_user
  <2> QED
    BY <1>5, <2>1, <2>4, <2>5
<1>17. CASE remove_sshd(p)
  <2>1. /\ OthersSame(u) /\ WellFormed(file') /\ u \notin accounts' /\ u \notin sshd'
        /\ Header(u) \notin Range(file')
    <3>1. OthersSame(u) /\ WellFormed(file')
      BY <1>1, <1>17, SameFile DEF remove_sshd, Done
    <3> QED
      BY <1>1, <1>17, <3>1 DEF remove_sshd, Knows, KnowsDel, HasHeader
  <2>2. W
    BY <1>3, <1>17, <2>1 DEF W, remove_sshd
  <2>3. CASE u \in sshd
    <3>1. script'[p].pc = "reload" /\ script'[p].what = "del" /\ script'[p].user = u /\ last'[u] = None
      BY <1>1, <1>17, <2>3, GotoFields DEF remove_sshd
    <3>2. P
      BY <2>1, <3>1 DEF P, Knows, KnowsFile, KnowsDel, HasHeader
    <3> QED
      BY <1>4, <1>5, <2>1, <2>2, <3>1, <3>2
  <2>4. CASE u \notin sshd
    <3>1. P
      BY <1>17, <2>4, IdleFields DEF P, remove_sshd, Done
    <3>2. last'[u] = Deleted
      BY <1>1, <1>17, <2>4 DEF remove_sshd, Done
    <3>3. last'[u] \notin Settings
      BY <3>2, SettingsAssumption
    <3> QED
      BY <2>1, <2>2, <3>1, <3>3, SoundStep DEF P, W
  <2> QED
    BY <2>3, <2>4
<1>18. CASE Abort(p)
  <2>1. OthersSame(u) /\ WellFormed(file') /\ F
    BY <1>1, <1>4, <1>18, SameFile DEF Abort, hostVars
  <2>2. P
    BY <1>18, IdleFields DEF P, Abort
  <2>3. W
    BY <1>1, <1>3, <1>18 DEF W, Abort, hostVars, Knows, KnowsNew
  <2> QED
    BY <1>5, <2>1, <2>2, <2>3
<1> QED
  BY <1>6, <1>7, <1>8, <1>9, <1>10, <1>11, <1>12, <1>13, <1>14, <1>15, <1>16, <1>17, <1>18 DEF Step

\* A script that begins while no other runs.
LEMMA SoundBegin ==
  ASSUME HostTypes, ProcessTypes, Sound, NEW p \in Scripts, NEW u \in Users, NEW s, NEW what, NEW pc,
         Begin(p, what, u, s, pc), Running = {},
         <<what, pc>> \in {<<"new", "useradd">>, <<"del", "userdel">>}
  PROVE  Sound'
<1> DEFINE r == [pc |-> pc, what |-> what, user |-> u, settings |-> s, copy |-> <<>>]
<1>1. /\ script' = [script EXCEPT ![p] = r] /\ script \in [Scripts -> Processes]
      /\ last' = [last EXCEPT ![u] = None] /\ last \in [Users -> {None, Deleted} \cup Settings]
      /\ UNCHANGED <<accounts, password, exists, file, sshd, unset>>
  BY DEF Begin, hostVars, ProcessTypes, HostTypes
<1>2. script'[p] = r /\ \A q \in Scripts : q # p => script'[q] = script[q]
  BY <1>1
<1>3. r.pc = pc /\ r.what = what /\ r.user = u /\ r.settings = s /\ r.copy = <<>>
  OBVIOUS
<1> HIDE DEF r
<1>4. \A q \in Running' : q = p
  BY <1>2 DEF Running
<1>5. last'[u] = None /\ \A v \in Users : v # u => last'[v] = last[v]
  BY <1>1
<1>6. Knows(p)'
  BY <1>2, <1>3, <1>5 DEF Knows, KnowsFile, KnowsNew, KnowsDel, U
<1>7. Passwords'
  <2>1. \A v \in Users : /\ v \notin accounts => v \notin unset
                         /\ v \in accounts => (v \in password <=> v \notin unset)
    BY DEF Sound, Passwords
  <2> QED
    BY <1>1, <2>1 DEF Passwords
<1>8. Finished'
  <2>1. None \notin Settings /\ None # Deleted
    BY SettingsAssumption
  <2> QED
    BY <1>1, <1>5, <2>1 DEF Sound, Finished, HasHeader
<1>9. WellFormed(file')
  BY <1>1 DEF Sound
<1> QED
  BY <1>4, <1>6, <1>7, <1>8, <1>9 DEF Sound

LEMMA OneByOneNext == HostTypes /\ ProcessTypes /\ OneByOne /\ [Next]_vars => OneByOne'
<1> SUFFICES ASSUME HostTypes, ProcessTypes, OneByOne, [Next]_vars, ~overlap' PROVE Sound'
  BY DEF OneByOne
<1>1. CASE UNCHANGED vars
  BY <1>1 DEF OneByOne, Sound, vars, hostVars, Running, Knows, KnowsFile, KnowsNew, KnowsDel, Passwords, Finished,
              HasHeader, At, U
<1>2. ASSUME NEW p \in Scripts, Step(p) PROVE Sound'
  <2>1. ~overlap
    BY <1>2, StepRuns
  <2> QED
    BY <1>2, <2>1, SoundNext DEF OneByOne
<1>3. ASSUME NEW p, NEW what, NEW u, NEW s, NEW pc, Begin(p, what, u, s, pc)
      PROVE  ~overlap /\ Running = {}
  BY <1>3 DEF Begin
<1>4. ASSUME NEW p \in Scripts, NEW u \in Users, NEW s \in Settings, newcaal(p, u, s) PROVE Sound'
  BY <1>3, <1>4, SoundBegin DEF newcaal, OneByOne
<1>5. ASSUME NEW p \in Scripts, NEW u \in Users, delcaal(p, u) PROVE Sound'
  BY <1>3, <1>5, SoundBegin DEF delcaal, OneByOne
<1> QED
  BY <1>1, <1>2, <1>4, <1>5 DEF Next

LEMMA OneByOneInit == Init => OneByOne
<1> SUFFICES ASSUME Init PROVE Sound
  BY DEF OneByOne
<1>1. Running = {}
  BY DEF Init, Running, Idle
<1>2. WellFormed(file)
  BY DEF Init, WellFormed
<1>3. Passwords
  BY DEF Init, Passwords
<1>4. Finished
  <2>1. None \notin Settings /\ None # Deleted
    BY SettingsAssumption
  <2> QED
    BY <2>1 DEF Init, Finished
<1> QED
  BY <1>1, <1>2, <1>3, <1>4 DEF Sound

LEMMA SectionHeader ==
  ASSUME NEW f \in Seq(Items), NEW v, NEW s, Section(f, v, s)
  PROVE  Header(v) \in Range(f)
BY DEF Section, Range

(***************************************************************************)
(* "Done. 'u' is ready" is true of every user whose last script was a      *)
(* newcaal that finished, whatever failed before it (ReadyMeansReady;      *)
(* newcaal.sh:152-163, 321).                                               *)
(***************************************************************************)
THEOREM ReadyIsReady == Spec => []ReadyMeansReady
<1>1. HostTypes /\ OneByOne => ReadyMeansReady
  <2> SUFFICES ASSUME HostTypes, OneByOne, ~overlap, NEW u \in Users, last[u] \in Settings
               PROVE  u \in accounts /\ u \in sshd /\ HasHeader(u) /\ (u \in password <=> u \notin unset)
    BY DEF ReadyMeansReady
  <2>1. u \in accounts /\ u \in sshd /\ HasHeader(u)
    BY SectionHeader DEF OneByOne, Sound, Finished, HostTypes, HasHeader
  <2>2. \A p \in Running : U(p) # u
    BY SettingsAssumption DEF OneByOne, Sound, Knows
  <2> QED
    BY <2>1, <2>2 DEF OneByOne, Sound, Passwords
<1> QED
  BY <1>1, TypesInit, TypesNext, OneByOneInit, OneByOneNext, PTL DEF Spec

(***************************************************************************)
(* "Done. 'u' has been removed" is true of every user whose last script    *)
(* was a delcaal that finished (RemovedMeansGone; delcaal.sh:125-167,      *)
(* 223-227).                                                               *)
(***************************************************************************)
THEOREM RemovedIsGone == Spec => []RemovedMeansGone
<1>1. OneByOne => RemovedMeansGone
  BY DEF OneByOne, Sound, Finished, RemovedMeansGone
<1> QED
  BY <1>1, TypesInit, TypesNext, OneByOneInit, OneByOneNext, PTL DEF Spec

-----------------------------------------------------------------------------
(* Scripts at the same time *)

(***************************************************************************)
(* What a script has seen of the file still holds, as long as none has     *)
(* written it under the hands of another.                                  *)
(***************************************************************************)
Sees(p) ==
  /\ script[p].pc = "create" => file = <<>>
  /\ script[p].pc = "rename" => script[p].copy = sed(file, U(p))
  /\ script[p].pc = "append" => ~HasHeader(U(p))
Undisturbed == ~raced => WellFormed(file) /\ \A p \in Running : Sees(p)

\* A step of p leaves the file well-formed, and the sections of the other users alone.
LEMMA SectionsKept ==
  ASSUME HostTypes, ProcessTypes, Undisturbed, ~raced, NEW p \in Scripts, Step(p)
  PROVE  /\ WellFormed(file')
         /\ \A v : v # U(p) => /\ Header(v) \in Range(file') <=> Header(v) \in Range(file)
                               /\ \A s : Section(file', v, s) <=> Section(file, v, s)
<1>1. p \in Running /\ U(p) \in Users /\ Sees(p) /\ WellFormed(file) /\ file \in Seq(Items)
  BY StepRuns DEF Undisturbed, HostTypes
<1>2. CASE UNCHANGED file
  BY <1>1, <1>2
<1>3. CASE CreateFile(p)
  <2>1. file = <<>> /\ file' = <<>>
    BY <1>1, <1>3 DEF CreateFile, At, Sees
  <2> QED
    BY <1>1, <2>1
<1>4. CASE SedRenames(p)
  <2>1. file' = sed(file, U(p))
    BY <1>1, <1>4 DEF SedRenames, Sees
  <2> QED
    BY <1>1, <2>1, Rewritten
<1>5. CASE AppendEntry(p)
  <2> DEFINE u == U(p)
             s == script[p].settings
  <2>1. Header(u) \notin Range(file) /\ file' = file \o <<Header(u), Body(s)>> /\ s \in Settings
    BY <1>1, <1>5 DEF AppendEntry, At, Sees, HasHeader, ProcessTypes, ProcessOK, DelPlaces
  <2>2. u \in Users
    BY <1>1
  <2> HIDE DEF s
  <2>3. /\ WellFormed(file')
        /\ \A v : v # u => (Header(v) \in Range(file') <=> Header(v) \in Range(file))
        /\ \A v, r : v # u => (Section(file', v, r) <=> Section(file, v, r))
    <3> HIDE DEF u
    <3> QED
      BY <1>1, <2>1, <2>2, AppendWellFormed
  <2> QED
    BY <2>3
<1> QED
  BY <1>2, <1>3, <1>4, <1>5
     DEF Step, create_user, passwd, TestFile, Grep, SedReads, write_sshd, Reload, remove_user, remove_sshd, Abort, hostVars

\* What p itself has seen after a step of its own.
LEMMA SeesNext ==
  ASSUME HostTypes, ProcessTypes, Undisturbed, ~raced, NEW p \in Scripts, Step(p)
  PROVE  Sees(p)'
<1> DEFINE Nowhere == script'[p].pc \notin {"create", "rename", "append"}
<1>1. p \in Running /\ Sees(p) /\ WellFormed(file) /\ file \in Seq(Items) /\ (file # <<>> => exists)
  BY StepRuns DEF Undisturbed, HostTypes
<1>2. Nowhere => Sees(p)'
  BY DEF Sees
<1>3. CASE create_user(p) \/ passwd(p)
  <2>1. Goto(p, "test") \/ Goto(p, "passwd")
    BY <1>3 DEF create_user, passwd
  <2> QED
    BY <1>2, <2>1, GotoFields
<1>4. CASE TestFile(p)
  <2>1. UNCHANGED file /\ (Goto(p, "grep") \/ (Goto(p, "create") /\ ~exists))
    BY <1>4 DEF TestFile, hostVars
  <2>2. CASE Goto(p, "grep")
    BY <1>2, <2>2, GotoFields
  <2>3. CASE Goto(p, "create") /\ ~exists
    <3>1. script'[p].pc = "create" /\ file' = <<>>
      BY <1>1, <2>1, <2>3, GotoFields
    <3> QED
      BY <3>1 DEF Sees
  <2> QED
    BY <2>1, <2>2, <2>3
<1>5. CASE CreateFile(p)
  BY <1>2, <1>5, GotoFields DEF CreateFile
<1>6. CASE Grep(p)
  <2>1. UNCHANGED file /\ (Goto(p, "sed") \/ Goto(p, "rm") \/ (Goto(p, "append") /\ ~HasHeader(U(p))))
    BY <1>6 DEF Grep, hostVars
  <2>2. CASE Goto(p, "sed") \/ Goto(p, "rm")
    BY <1>2, <2>2, GotoFields
  <2>3. CASE Goto(p, "append") /\ ~HasHeader(U(p))
    <3>1. script'[p].pc = "append" /\ script'[p].user = script[p].user
      BY <2>3, GotoFields
    <3> QED
      BY <2>1, <2>3, <3>1 DEF Sees, HasHeader, U
  <2> QED
    BY <2>1, <2>2, <2>3
<1>7. CASE SedReads(p)
  <2>1. script'[p].pc = "rename" /\ script'[p].copy = sed(file, U(p)) /\ script'[p].user = script[p].user
    BY <1>7 DEF SedReads, ProcessTypes, Processes
  <2>2. UNCHANGED file
    BY <1>7 DEF SedReads, hostVars
  <2> QED
    BY <2>1, <2>2 DEF Sees, U
<1>8. CASE SedRenames(p)
  <2>1. file' = sed(file, U(p))
    BY <1>1, <1>8 DEF SedRenames, Sees
  <2>2. Header(U(p)) \notin Range(file')
    BY <1>1, <2>1, Rewritten
  <2>3. script'[p].pc \in {"append", "rm"} /\ script'[p].user = script[p].user
    BY <1>8 DEF SedRenames, ProcessTypes, Processes
  <2> QED
    BY <2>2, <2>3 DEF Sees, HasHeader, U
<1>9. CASE AppendEntry(p) \/ write_sshd(p)
  <2>1. Goto(p, "dropin") \/ Goto(p, "reload")
    BY <1>9 DEF AppendEntry, write_sshd
  <2> QED
    BY <1>2, <2>1, GotoFields
<1>10. CASE Reload(p) \/ Abort(p)
  <2>1. script' = [script EXCEPT ![p] = Idle]
    BY <1>10 DEF Reload, Done, Abort
  <2> QED
    BY <1>2, <2>1, IdleFields
<1>11. CASE remove_user(p) \/ remove_sshd(p)
  <2>1. Goto(p, "grep") \/ Goto(p, "rm") \/ Goto(p, "reload") \/ script' = [script EXCEPT ![p] = Idle]
    BY <1>11 DEF remove_user, remove_sshd, Done
  <2> QED
    BY <1>2, <2>1, GotoFields, IdleFields
<1> QED
  BY <1>3, <1>4, <1>5, <1>6, <1>7, <1>8, <1>9, <1>10, <1>11 DEF Step

\* And what the others have.
LEMMA OthersSee ==
  ASSUME HostTypes, ProcessTypes, Undisturbed, ~raced, NEW p \in Scripts, Step(p), ~raced',
         NEW q \in Running, q # p
  PROVE  Sees(q)'
<1>1. q \in Scripts /\ script'[q] = script[q] /\ Sees(q) /\ p \in Running /\ Sees(p)
  BY StepRuns DEF Undisturbed, Running
<1>2. CASE UNCHANGED file
  BY <1>1, <1>2 DEF Sees, HasHeader, U
<1>3. CASE CreateFile(p)
  <2>1. file = <<>> /\ file' = <<>>
    BY <1>1, <1>3 DEF CreateFile, At, Sees
  <2> QED
    BY <1>1, <2>1 DEF Sees, HasHeader, U
<1>4. CASE SedRenames(p) \/ AppendEntry(p)
  <2>1. script[q].pc \notin {"create", "rename"} /\ (script[q].pc = "append" => U(q) # U(p))
    BY <1>4 DEF SedRenames, AppendEntry, Writes
  <2>2. U(q)' = U(q) /\ script'[q].pc = script[q].pc
    BY <1>1 DEF U
  <2>3. script[q].pc = "append" => Header(U(q)) \notin Range(file')
    BY <1>1, <2>1, SectionsKept DEF Sees, HasHeader
  <2> QED
    BY <2>1, <2>2, <2>3 DEF Sees, HasHeader
<1> QED
  BY <1>2, <1>3, <1>4
     DEF Step, create_user, passwd, TestFile, Grep, SedReads, write_sshd, Reload, remove_user, remove_sshd, Abort, hostVars

LEMMA UndisturbedNext == HostTypes /\ ProcessTypes /\ Undisturbed /\ [Next]_vars => Undisturbed'
<1> SUFFICES ASSUME HostTypes, ProcessTypes, Undisturbed, [Next]_vars, ~raced'
             PROVE  WellFormed(file') /\ \A q \in Running' : Sees(q)'
  BY DEF Undisturbed
<1>1. CASE UNCHANGED vars
  BY <1>1 DEF Undisturbed, vars, hostVars, Running, Sees, HasHeader, U
<1>2. ASSUME NEW p \in Scripts, Step(p) PROVE WellFormed(file') /\ \A q \in Running' : Sees(q)'
  <2>1. ~raced
    BY <1>2 DEF Step, create_user, passwd, TestFile, CreateFile, Grep, SedReads, SedRenames, AppendEntry,
                write_sshd, Reload, remove_user, remove_sshd, Abort, scriptVars, otherVars, Writes
  <2>2. \A q \in Running' : q = p \/ q \in Running
    BY <1>2, StepRuns DEF Running
  <2> QED
    BY <1>2, <2>1, <2>2, SectionsKept, SeesNext, OthersSee
<1>3. ASSUME NEW p \in Scripts, NEW what, NEW u, NEW s, NEW pc, pc \in {"useradd", "userdel"},
             Begin(p, what, u, s, pc)
      PROVE  WellFormed(file') /\ \A q \in Running' : Sees(q)'
  <2>1. UNCHANGED <<file, raced>> /\ \A q \in Scripts : q # p => script'[q] = script[q]
    BY <1>3 DEF Begin, hostVars, ProcessTypes
  <2>2. script'[p].pc = pc
    BY <1>3 DEF Begin, ProcessTypes
  <2>3. Sees(p)'
    BY <1>3, <2>2 DEF Sees
  <2>4. ASSUME NEW q \in Running', q # p PROVE Sees(q)'
    <3>1. q \in Running /\ script'[q] = script[q]
      BY <2>1, <2>4 DEF Running
    <3> QED
      BY <2>1, <3>1 DEF Undisturbed, Sees, HasHeader, U
  <2> QED
    BY <2>1, <2>3, <2>4 DEF Undisturbed
<1> QED
  BY <1>1, <1>2, <1>3 DEF Next, newcaal, delcaal

LEMMA UndisturbedInit == Init => Undisturbed
<1> SUFFICES ASSUME Init PROVE WellFormed(file) /\ \A p \in Running : Sees(p)
  BY DEF Undisturbed
<1> QED
  BY DEF Init, Running, Idle, WellFormed

-----------------------------------------------------------------------------
(* The parse of a well-formed file *)

IsParse(d, f, n) ==
  d = [i \in 0..n |-> IF i = 0 THEN Result(NewTable({}), <<>>) ELSE ParseItem(d[i - 1], f[i])]

\* The recursion of Parse has a solution for every number of items.
LEMMA ParseExists ==
  ASSUME NEW f, NEW N \in Nat
  PROVE  \E d : IsParse(d, f, N)
<1> DEFINE S == {n \in Nat : \E d : IsParse(d, f, n)}
           zero == Result(NewTable({}), <<>>)
<1>1. 0 \in S
  <2> DEFINE d0 == [i \in 0..0 |-> zero]
  <2> HIDE DEF zero
  <2>1. IsParse(d0, f, 0)
    BY DEF IsParse, zero
  <2> QED
    BY <2>1
<1>2. ASSUME NEW n \in Nat, n \in S PROVE n + 1 \in S
  <2>1. PICK d : IsParse(d, f, n)
    BY <1>2
  <2> DEFINE h == [i \in 0..(n + 1) |-> IF i = n + 1 THEN ParseItem(d[n], f[n + 1]) ELSE d[i]]
             rhs == [i \in 0..(n + 1) |-> IF i = 0 THEN zero ELSE ParseItem(h[i - 1], f[i])]
  <2>2. ASSUME NEW i \in 0..(n + 1) PROVE h[i] = rhs[i]
    <3> HIDE DEF zero
    <3>1. CASE i = n + 1
      <4>1. h[i] = ParseItem(d[n], f[n + 1])
        BY <3>1
      <4>2. h[n] = d[n] /\ i - 1 = n /\ i # 0
        BY <3>1
      <4>3. rhs[i] = ParseItem(h[n], f[n + 1])
        BY <3>1, <4>2
      <4> QED
        BY <4>1, <4>2, <4>3
    <3>2. CASE i # n + 1
      <4>1. i \in 0..n /\ h[i] = d[i] /\ (i # 0 => i - 1 \in 0..n /\ h[i - 1] = d[i - 1])
        BY <3>2
      <4>2. d[i] = IF i = 0 THEN zero ELSE ParseItem(d[i - 1], f[i])
        BY <2>1, <4>1 DEF IsParse, zero
      <4> QED
        BY <4>1, <4>2
    <3> QED
      BY <3>1, <3>2
  <2>3. IsParse(h, f, n + 1)
    BY <2>2 DEF IsParse
  <2> HIDE DEF h
  <2>4. n + 1 \in Nat /\ \E e : IsParse(e, f, n + 1)
    BY <2>3
  <2> QED
    BY <2>4
<1>3. Nat \subseteq S
  <2> HIDE DEF S
  <2> QED
    BY <1>1, <1>2, NatInd
<1> QED
  BY <1>3

\* So Parse is the function its definition says.
LEMMA ParseDef ==
  ASSUME NEW f, Len(f) \in Nat
  PROVE  /\ Parse(f)[0] = Result(NewTable({}), <<>>)
         /\ \A i \in 1..Len(f) : Parse(f)[i] = ParseItem(Parse(f)[i - 1], f[i])
<1> DEFINE D == Parse(f)
<1>1. D = CHOOSE d : IsParse(d, f, Len(f))
  BY DEF Parse, IsParse
<1>2. IsParse(D, f, Len(f))
  BY <1>1, ParseExists
<1> HIDE DEF D
<1>3. D[0] = Result(NewTable({}), <<>>)
  BY <1>2 DEF IsParse
<1>4. \A i \in 1..Len(f) : i \in 0..Len(f) /\ i # 0
  OBVIOUS
<1>5. \A i \in 1..Len(f) : D[i] = ParseItem(D[i - 1], f[i])
  BY <1>2, <1>4 DEF IsParse
<1> QED
  BY <1>3, <1>5 DEF D

\* A bound on the entries of a table.
LEMMA SizeAtMost ==
  ASSUME NEW K, NEW V, NEW t \in Trees(K, V), NEW p, NEW E, IsFiniteSet(E),
         \A q \in DOMAIN t : Len(q) = Len(p) + 1 /\ IsPrefix(p, q) => \E k \in E : q = Append(p, k)
  PROVE  size(t, p) \in Nat /\ size(t, p) <= Cardinality(E)
<1> DEFINE C == {q \in DOMAIN t : Len(q) = Len(p) + 1 /\ IsPrefix(p, q)}
           A == {Append(p, k) : k \in E}
           add == [k \in E |-> Append(p, k)]
<1>1. add \in Surjection(E, A)
  BY DEF Surjection
<1>2. C \in SUBSET A
  OBVIOUS
<1>3. size(t, p) = Cardinality(C)
  BY DEF size
<1>4. Cardinality(E) \in Nat
  BY FS_CardinalityType
<1> HIDE DEF add, A, C
<1>5. IsFiniteSet(A) /\ Cardinality(A) <= Cardinality(E)
  BY <1>1, FS_Surjection
<1>6. IsFiniteSet(C) /\ Cardinality(C) <= Cardinality(A)
  BY <1>2, <1>5, FS_Subset
<1>7. Cardinality(C) \in Nat /\ Cardinality(A) \in Nat
  BY <1>5, <1>6, FS_CardinalityType
<1> QED
  BY <1>3, <1>4, <1>5, <1>6, <1>7

\* A key of one part leads nowhere.
LEMMA OnePart ==
  ASSUME NEW k
  PROVE  /\ Front(<<k>>) = <<>> /\ Last(<<k>>) = k /\ ~(Len(<<k>>) > 1)
         /\ \A t, from, caller : descend_keypart(t, from, Front(<<k>>), caller) = Result(t, from)
<1>1. Front(<<k>>) = <<>> /\ Last(<<k>>) = k /\ ~(Len(<<k>>) > 1)
  BY DEF Front, Last
<1>2. Len(<<>>) = 0
  OBVIOUS
<1>3. \A t, from, caller : descend_keypart(t, from, <<>>, caller) = Result(t, from)
  BY <1>2, DescentDef DEF descend_keypart
<1> QED
  BY <1>1, <1>3

\* The result of a parse that has not failed.
Is(r, t, p) == r.err = "" /\ r.t = t /\ r.p = p

\* w is t after the line [u].
HeaderMade(t, w, u) ==
  /\ Is(parse_std_table_expr(t, <<u>>), w, <<u>>)
  /\ \A q : q \in DOMAIN w <=> (q \in DOMAIN t \/ q = <<u>>)
  /\ \A q \in DOMAIN t : w[q] = t[q]
  /\ w[<<u>>].type = "table" /\ w[<<u>>].flag = {"STDEXPR", "EXPLICIT"}

\* The header of a user who has none yet.
LEMMA HeaderParsed ==
  ASSUME NEW K, NEW V, 0 \in V, NEW t \in Trees(K, V), NEW u \in K, <<u>> \notin DOMAIN t,
         "INLINED" \notin t[<<>>].flag, size(t, <<>>) \in Nat, size(t, <<>>) < TABLE_MAX
  PROVE  \E w \in Trees(K, V) : HeaderMade(t, w, u)
<1> DEFINE r == parse_std_table_expr(t, <<u>>)
           d == mkdatum("table", {"STDEXPR"}, 0)
           g == Graft(t, <<u>>, Single(d))
<1>1. d \in Data(V) /\ d.type = "table" /\ d.flag = {"STDEXPR"}
  BY DEF mkdatum, Data, Types, Flags
<1>2. <<u>> \in Seq(K) /\ Append(<<>>, u) = <<u>>
  OBVIOUS
<1>3. /\ g \in Trees(K, V) /\ \A q : q \in DOMAIN g <=> (q \in DOMAIN t \/ q = <<u>>)
      /\ g[<<u>>] = d /\ \A q \in DOMAIN t : g[q] = t[q]
  <2> HIDE DEF d
  <2> DEFINE q0 == <<u>>
  <2>1. q0 \in Seq(K) /\ q0 \notin DOMAIN t
    BY <1>2
  <2> HIDE DEF q0
  <2>2. /\ Graft(t, q0, Single(d)) \in Trees(K, V)
        /\ \A x : x \in DOMAIN Graft(t, q0, Single(d)) <=> (x \in DOMAIN t \/ x = q0)
        /\ Graft(t, q0, Single(d))[q0] = d
        /\ \A x \in DOMAIN t : Graft(t, q0, Single(d))[x] = t[x]
    BY <1>1, <2>1, GraftOne
  <2> QED
    BY <2>2 DEF q0
<1>4. tab_add(t, <<>>, u, NewTable({"STDEXPR"})) = Result(g, <<u>>)
  <2>1. ~(size(t, <<>>) >= TABLE_MAX) /\ ~tab_find(t, <<>>, u)
    BY <1>2, TableMaxAssumption DEF tab_find
  <2>2. NewTable({"STDEXPR"}) = Single(d)
    BY DEF NewTable
  <2> QED
    BY <1>2, <2>1, <2>2 DEF tab_add
<1> HIDE DEF g, d
<1>5. r = Result(set_flag(g, <<u>>, "EXPLICIT"), <<u>>)
  <2>1. descend_keypart(t, <<>>, Front(<<u>>), "std") = Result(t, <<>>) /\ Last(<<u>>) = u
    BY OnePart
  <2>2. Result(t, <<>>).err = "" /\ Result(t, <<>>).t = t /\ Result(t, <<>>).p = <<>>
    BY DEF Result
  <2>3. Result(g, <<u>>).err = "" /\ Result(g, <<u>>).t = g
    BY DEF Result
  <2> HIDE DEF r
  <2>4. parse_std_table_expr(t, <<u>>) = Result(set_flag(g, <<u>>, "EXPLICIT"), <<u>>)
    BY <1>2, <1>4, <2>1, <2>2, <2>3 DEF parse_std_table_expr, Has
  <2> QED
    BY <2>4 DEF r
<1> HIDE DEF r
<1> DEFINE h == set_flag(g, <<u>>, "EXPLICIT")
<1>6. Is(r, h, <<u>>)
  BY <1>5 DEF Is, Result
<1>7. h \in Trees(K, V) /\ DOMAIN h = DOMAIN g
  BY <1>3, SetFlagGrows DEF Flags
<1>8. /\ \A q \in DOMAIN g : q # <<u>> => h[q] = g[q]
      /\ h[<<u>>] = [d EXCEPT !.flag = @ \cup {"EXPLICIT"}]
  BY <1>3 DEF set_flag
<1>9. h[<<u>>].type = "table" /\ h[<<u>>].flag = {"STDEXPR", "EXPLICIT"}
  BY <1>1, <1>8 DEF Data
<1> HIDE DEF h
<1>10. \A q : q \in DOMAIN h <=> (q \in DOMAIN t \/ q = <<u>>)
  BY <1>3, <1>7
<1>11. \A q \in DOMAIN t : h[q] = t[q]
  BY <1>3, <1>8
<1> QED
  BY <1>6, <1>7, <1>9, <1>10, <1>11 DEF r, HeaderMade

\* A line below the header.
LEMMA LineParsed ==
  ASSUME NEW t, NEW p, NEW r, Is(r, t, p), NEW k, Append(p, k) \notin DOMAIN t, "INLINED" \notin t[p].flag,
         ~(size(t, p) >= TABLE_MAX), NEW d
  PROVE  Is(ParseLine(r, k, d), Graft(t, Append(p, k), Single(d)), p)
<1> DEFINE w == Result(t, p)
           g == Graft(t, Append(p, k), Single(d))
<1>1. w.err = "" /\ w.t = t /\ w.p = p
  BY DEF Result
<1>2. parse_keyvalue_expr(t, p, <<k>>) = w
  <2>1. descend_keypart(t, p, Front(<<k>>), "keyvalue") = w /\ ~(Len(<<k>>) > 1)
    BY OnePart
  <2> HIDE DEF w
  <2>2. ~Has(w.t, w.p, "INLINED")
    BY <1>1 DEF Has
  <2> QED
    BY <1>1, <2>1, <2>2 DEF parse_keyvalue_expr
<1> HIDE DEF w
<1>3. tab_add(w.t, w.p, k, Single(d)) = Result(g, Append(p, k))
  <2>1. ~tab_find(t, p, k)
    BY DEF tab_find
  <2> QED
    BY <1>1, <2>1 DEF tab_add
<1> HIDE DEF g
<1>4. Result(g, Append(p, k)).err = "" /\ Result(g, Append(p, k)).t = g
  BY DEF Result
<1>5. ParseLine(r, k, d) = Result(g, p)
  BY <1>1, <1>2, <1>3, <1>4 DEF ParseLine, Is
<1>6. Is(Result(g, p), g, p)
  BY DEF Is, Result
<1> QED
  BY <1>5, <1>6 DEF g

\* Paths of one and of two parts.
LEMMA TwoParts ==
  ASSUME NEW K, NEW u \in K, NEW k \in K
  PROVE  /\ <<u>> \in Seq(K) /\ Len(<<u>>) = 1
         /\ <<u, k>> \in Seq(K) /\ Len(<<u, k>>) = 2 /\ <<u, k>>[1] = u /\ <<u, k>>[2] = k
         /\ Append(<<u>>, k) = <<u, k>>
<1> DEFINE a == Append(<<u>>, k)
           b == <<u, k>>
<1>1. a \in Seq(K) /\ Len(a) = 2 /\ a[1] = u /\ a[2] = k
  OBVIOUS
<1>2. b \in Seq(K) /\ Len(b) = 2 /\ b[1] = u /\ b[2] = k
  OBVIOUS
<1> HIDE DEF a, b
<1>3. \A i \in 1..2 : i = 1 \/ i = 2
  OBVIOUS
<1>4. \A i \in 1..Len(a) : a[i] = b[i]
  BY <1>1, <1>2, <1>3
<1>5. a = b
  BY <1>1, <1>2, <1>4, SeqEqual
<1>6. <<u>> \in Seq(K) /\ Len(<<u>>) = 1
  OBVIOUS
<1> QED
  BY <1>2, <1>5, <1>6 DEF a, b

LEMMA FirstPart ==
  ASSUME NEW K, NEW q \in Seq(K), NEW u, Len(q) = 2, IsPrefix(<<u>>, q)
  PROVE  q[1] = u
<1>1. SubSeq(<<u>>, 1, 1) = SubSeq(q, 1, 1)
  BY DEF IsPrefix
<1>2. SubSeq(<<u>>, 1, 1)[1] = u
  OBVIOUS
<1>3. SubSeq(q, 1, 1)[1] = q[1]
  OBVIOUS
<1> QED
  BY <1>1, <1>2, <1>3

LEMMA OneMore ==
  ASSUME NEW E, IsFiniteSet(E), NEW k, k \notin E, NEW n, Cardinality(E) = n
  PROVE  IsFiniteSet(E \cup {k}) /\ Cardinality(E \cup {k}) = n + 1
BY FS_AddElement

-----------------------------------------------------------------------------
(* The tables of a well-formed file *)

Names == {"bundle", "enabled", "disk", "timeout"}

\* The datum of a line.
Entry(s, k) == IF k = "bundle" THEN mkdatum("string", {}, parse_norm(s.bundle))
               ELSE IF k = "enabled" THEN mkdatum("boolean", {}, s.enabled)
               ELSE IF k = "disk" THEN mkdatum("int64", {}, s.disk.n)
               ELSE mkdatum("int64", {}, s.timeout.n)

\* Key parts, values, and trees of the file.
Parts   == Users \cup Names
Values  == {0} \cup BOOLEAN \cup Nat \cup {parse_norm(s.bundle) : s \in Settings}
Tables  == Trees(Parts, Values)

LEMMA EntryData ==
  ASSUME NEW s \in Settings, NEW k
  PROVE  Entry(s, k) \in Data(Values)
<1>1. parse_norm(s.bundle) \in Values /\ s.enabled \in Values /\ s.disk.n \in Values /\ s.timeout.n \in Values
  BY SettingsAssumption DEF Values
<1>2. \A ty \in Types, v \in Values : mkdatum(ty, {}, v) \in Data(Values)
  BY DEF mkdatum, Data
<1>3. {"string", "boolean", "int64"} \subseteq Types
  BY DEF Types
<1> QED
  BY <1>1, <1>2, <1>3 DEF Entry

\* v is t with the lines E of s in the table of u.
Added(t, v, u, E, s) ==
  /\ v \in Tables
  /\ \A q : q \in DOMAIN v <=> (q \in DOMAIN t \/ \E k \in E : q = <<u, k>>)
  /\ \A q \in DOMAIN t : v[q] = t[q]
  /\ \A k \in E : v[<<u, k>>] = Entry(s, k)

\* t has a table for u with nothing in it.
Vacant(t, u) ==
  /\ t \in Tables /\ <<u>> \in DOMAIN t /\ "INLINED" \notin t[<<u>>].flag
  /\ \A q \in DOMAIN t : Len(q) = 2 => q[1] # u

LEMMA LineAdded ==
  ASSUME NEW t, NEW u \in Users, Vacant(t, u), NEW s \in Settings, NEW E \in SUBSET Names, IsFiniteSet(E),
         Cardinality(E) < 4, NEW k \in Names \ E, NEW r, NEW v, Is(r, v, <<u>>), Added(t, v, u, E, s)
  PROVE  \E w : Is(ParseLine(r, k, Entry(s, k)), w, <<u>>) /\ Added(t, w, u, E \cup {k}, s)
<1> DEFINE p == <<u>>
           q0 == <<u, k>>
           d == Entry(s, k)
           g == Graft(v, q0, Single(d))
<1>1. u \in Parts /\ k \in Parts /\ \A i \in E : i \in Parts
  BY DEF Parts
<1>2. /\ p \in Seq(Parts) /\ Append(p, k) = q0 /\ q0 \in Seq(Parts) /\ Len(p) = 1
      /\ Len(q0) = 2 /\ q0[1] = u /\ q0[2] = k
  BY <1>1, TwoParts
<1>3. \A i \in E : Append(p, i) = <<u, i>> /\ <<u, i>>[2] = i
  BY <1>1, TwoParts
<1>4. d \in Data(Values)
  BY EntryData
<1>5. v \in Trees(Parts, Values) /\ DOMAIN v \subseteq Seq(Parts) /\ DOMAIN t \subseteq Seq(Parts)
  BY TreeFacts DEF Added, Tables, Vacant
<1> HIDE DEF p, q0, d
<1>6. q0 \notin DOMAIN v
  <2>1. q0 \notin DOMAIN t
    BY <1>2 DEF Vacant
  <2>2. \A i \in E : q0 # <<u, i>>
    BY <1>2, <1>3
  <2> QED
    BY <2>1, <2>2 DEF Added
<1>7. "INLINED" \notin v[p].flag
  BY DEF Added, Vacant, p
<1>8. ~(size(v, p) >= TABLE_MAX)
  <2>1. ASSUME NEW q \in DOMAIN v, Len(q) = Len(p) + 1, IsPrefix(p, q) PROVE \E i \in E : q = Append(p, i)
    <3>1. q \in Seq(Parts) /\ Len(q) = 2
      BY <1>2, <1>5, <2>1
    <3>2. q[1] = u
      BY <2>1, <3>1, FirstPart DEF p
    <3>3. q \notin DOMAIN t
      BY <3>1, <3>2 DEF Vacant
    <3>4. PICK i \in E : q = <<u, i>>
      BY <3>3 DEF Added
    <3> QED
      BY <1>3, <3>4
  <2>2. size(v, p) \in Nat /\ size(v, p) <= Cardinality(E)
    BY <1>5, <2>1, SizeAtMost
  <2>3. Cardinality(E) \in Nat
    BY FS_CardinalityType
  <2>4. ASSUME NEW m \in Nat, NEW c \in Nat, m <= c, c < 4 PROVE ~(m >= TABLE_MAX)
    BY <2>4, UsersAssumption, TableMaxAssumption
  <2> QED
    BY <2>2, <2>3, <2>4
<1>9. Is(ParseLine(r, k, d), g, p)
  <2>1. Is(r, v, p)
    BY DEF p
  <2> QED
    BY <1>2, <1>6, <1>7, <1>8, <2>1, LineParsed
<1>10. /\ g \in Tables /\ \A q : q \in DOMAIN g <=> (q \in DOMAIN v \/ q = q0)
       /\ g[q0] = d /\ \A q \in DOMAIN v : g[q] = v[q]
  BY <1>2, <1>4, <1>5, <1>6, GraftOne DEF Tables
<1> HIDE DEF g
<1>11. Added(t, g, u, E \cup {k}, s)
  <2>1. \A q : q \in DOMAIN g <=> (q \in DOMAIN t \/ \E i \in E \cup {k} : q = <<u, i>>)
    BY <1>10 DEF Added, q0
  <2>2. \A q \in DOMAIN t : g[q] = t[q]
    BY <1>10 DEF Added
  <2>3. \A i \in E \cup {k} : g[<<u, i>>] = Entry(s, i)
    <3> SUFFICES ASSUME NEW i \in E \cup {k} PROVE g[<<u, i>>] = Entry(s, i)
      OBVIOUS
    <3>1. CASE i = k
      BY <1>10, <3>1 DEF d, q0
    <3>2. CASE i \in E
      BY <1>10, <3>2 DEF Added
    <3> QED
      BY <3>1, <3>2
  <2> QED
    BY <1>10, <2>1, <2>2, <2>3 DEF Added
<1> QED
  BY <1>9, <1>11 DEF d, p

LEMMA LinesAdded ==
  ASSUME NEW t, NEW u \in Users, Vacant(t, u), NEW s \in Settings, NEW r, Is(r, t, <<u>>),
         NEW a, NEW b, NEW c, NEW d, Names = {a, b, c, d},
         a # b, a # c, a # d, b # c, b # d, c # d,
         NEW n, n = ParseLine(ParseLine(ParseLine(ParseLine(r, a, Entry(s, a)), b, Entry(s, b)),
                                        c, Entry(s, c)), d, Entry(s, d))
  PROVE  \E w : Is(n, w, <<u>>) /\ Added(t, w, u, Names, s)
<1> DEFINE Good(x, E) == \E w : Is(x, w, <<u>>) /\ Added(t, w, u, E, s)
           r1 == ParseLine(r,  a, Entry(s, a))
           r2 == ParseLine(r1, b, Entry(s, b))
           r3 == ParseLine(r2, c, Entry(s, c))
           r4 == ParseLine(r3, d, Entry(s, d))
           E1 == {} \cup {a}
           E2 == E1 \cup {b}
           E3 == E2 \cup {c}
           E4 == E3 \cup {d}
<1>1. n = r4
  OBVIOUS
<1>2. ASSUME NEW E \in SUBSET Names, IsFiniteSet(E), Cardinality(E) < 4, NEW k \in Names \ E, NEW x, Good(x, E)
      PROVE  Good(ParseLine(x, k, Entry(s, k)), E \cup {k})
  BY <1>2, LineAdded
<1>3. Good(r, {})
  BY DEF Added, Vacant
<1> HIDE DEF Good
<1>4. IsFiniteSet({}) /\ Cardinality({}) = 0
  BY FS_EmptySet
<1>5. a \in Names \ {} /\ b \in Names \ E1 /\ c \in Names \ E2 /\ d \in Names \ E3 /\ E4 = Names
  OBVIOUS
<1>6. {} \in SUBSET Names /\ E1 \in SUBSET Names /\ E2 \in SUBSET Names /\ E3 \in SUBSET Names
  OBVIOUS
<1> HIDE DEF E1, E2, E3, E4, r1, r2, r3, r4
<1>7. IsFiniteSet(E1) /\ Cardinality(E1) = 1
  BY <1>4, <1>5, OneMore DEF E1
<1>8. IsFiniteSet(E2) /\ Cardinality(E2) = 2
  BY <1>5, <1>7, OneMore DEF E2
<1>9. IsFiniteSet(E3) /\ Cardinality(E3) = 3
  BY <1>5, <1>8, OneMore DEF E3
<1>10. Good(r1, E1)
  BY <1>2, <1>3, <1>4, <1>5, <1>6 DEF r1, E1
<1>11. Good(r2, E2)
  BY <1>2, <1>5, <1>6, <1>7, <1>10 DEF r2, E2
<1>12. Good(r3, E3)
  BY <1>2, <1>5, <1>6, <1>8, <1>11 DEF r3, E3
<1>13. Good(r4, E4)
  BY <1>2, <1>5, <1>6, <1>9, <1>12 DEF r4, E4
<1> QED
  BY <1>1, <1>5, <1>13 DEF Good

\* The four lines of a section (newcaal.sh:194-197).
LEMMA BodyParsed ==
  ASSUME NEW t, NEW r, NEW u \in Users, Is(r, t, <<u>>), Vacant(t, u), NEW s \in Settings, ~BadEntry(s)
  PROVE  \E w : Is(ParseBody(r, s), w, <<u>>) /\ Added(t, w, u, Names, s)
<1>1. ParseBody(r, s) =
        ParseLine(ParseLine(ParseLine(ParseLine(r, "bundle", Entry(s, "bundle")),
                                      "enabled", Entry(s, "enabled")),
                            "disk", Entry(s, "disk")),
                  "timeout", Entry(s, "timeout"))
  BY DEF ParseBody, BadEntry, Entry
<1>2. Names = {"bundle", "enabled", "disk", "timeout"}
  BY DEF Names
<1> QED
  BY <1>1, <1>2, LinesAdded

\* A table that more can be added to.
IsTab(d) == d.type = "table" /\ "INLINED" \notin d.flag

\* q is the place of the i-th item: a table, or one of the lines.
PlaceOf(q, f, i) ==
  \/ f[i].item = "header" /\ q = <<f[i].user>>
  \/ f[i].item = "body" /\ \E k \in Names : q = <<f[i - 1].user, k>>

\* t holds the first n items, and nothing else.
Holds(t, f, n) ==
  /\ t \in Tables /\ <<>> \in DOMAIN t /\ IsTab(t[<<>>])
  /\ \A q \in DOMAIN t : q = <<>> \/ \E i \in 1..n : PlaceOf(q, f, i)
  /\ \A i \in 1..n : f[i].item = "header" => <<f[i].user>> \in DOMAIN t /\ IsTab(t[<<f[i].user>>])
  /\ \A i \in 1..n : f[i].item = "body" =>
       \A k \in Names : <<f[i - 1].user, k>> \in DOMAIN t /\ t[<<f[i - 1].user, k>>] = Entry(f[i].settings, k)

\* The place of a table, and of one of its entries.
AtHeader(q, f, i) == f[i].item = "header" /\ q[1] = f[i].user /\ q = <<f[i].user>> /\ f[i].user \in Users
AtBody(q, f, i) ==
  /\ f[i].item = "body" /\ i - 1 \in 1..Len(f) /\ f[i - 1].item = "header"
  /\ q[1] = f[i - 1].user /\ f[i - 1].user \in Users
  /\ \E k \in Names : q = <<f[i - 1].user, k>>

\* The length and the first part of a place.
LEMMA PlaceFacts ==
  ASSUME NEW f \in Seq(Items), WellFormed(f), NEW i \in 1..Len(f), NEW q, PlaceOf(q, f, i)
  PROVE  /\ Len(q) \in {1, 2}
         /\ Len(q) = 1 => AtHeader(q, f, i)
         /\ Len(q) = 2 => AtBody(q, f, i)
<1>1. CASE f[i].item = "header" /\ q = <<f[i].user>>
  <2>1. f[i].user \in Users
    <3>1. f[i] \in Items
      OBVIOUS
    <3> QED
      BY <1>1, <3>1, ItemFacts
  <2>2. ASSUME NEW v, q = <<v>> PROVE Len(q) = 1 /\ q[1] = v
    BY <2>2
  <2>3. Len(q) = 1 /\ q[1] = f[i].user
    BY <1>1, <2>2
  <2> QED
    BY <1>1, <2>1, <2>3 DEF AtHeader
<1>2. CASE f[i].item = "body" /\ \E k \in Names : q = <<f[i - 1].user, k>>
  <2>1. i - 1 \in 1..Len(f) /\ f[i - 1].item = "header"
    BY <1>2 DEF WellFormed
  <2>2. f[i - 1].user \in Users
    <3>1. f[i - 1] \in Items
      BY <2>1
    <3> QED
      BY <2>1, <3>1, ItemFacts
  <2>3. ASSUME NEW v, NEW k, q = <<v, k>> PROVE Len(q) = 2 /\ q[1] = v
    BY <2>3
  <2>4. Len(q) = 2 /\ q[1] = f[i - 1].user
    BY <1>2, <2>3
  <2> QED
    BY <1>2, <2>1, <2>2, <2>4 DEF AtBody
<1> QED
  BY <1>1, <1>2 DEF PlaceOf

LEMMA LongNotEmpty ==
  ASSUME NEW q, q = <<>>
  PROVE  Len(q) # 1 /\ Len(q) # 2
<1>1. Len(q) = 0
  BY EmptySeq
<1> QED
  BY <1>1

LEMMA HeaderHeld ==
  ASSUME NEW f \in Seq(Items), WellFormed(f), NEW n \in Nat, NEW m \in 1..Len(f), m = n + 1,
         NEW t, Holds(t, f, n), NEW u \in Users, f[m] = Header(u)
  PROVE  \E w : Is(parse_std_table_expr(t, <<u>>), w, <<u>>) /\ Holds(w, f, m)
<1>1. \A i \in 1..n : i \in 1..Len(f) /\ i # m
  OBVIOUS
<1>2. \A i \in 1..m : i = m \/ i \in 1..n
  OBVIOUS
<1>3. f[m].item = "header" /\ f[m].user = u
  BY HeaderFacts
<1>4. \A i \in 1..n : f[i].item = "header" => f[i].user # u
  <2> SUFFICES ASSUME NEW i \in 1..n, f[i].item = "header", f[i].user = u PROVE FALSE
    OBVIOUS
  <2>1. f[i] \in Items /\ i \in 1..Len(f) /\ i # m
    BY <1>1
  <2>2. f[i] = f[m]
    BY <2>1, ItemFacts
  <2> QED
    BY <2>1, <2>2 DEF WellFormed
<1>5. t \in Trees(Parts, Values) /\ DOMAIN t \subseteq Seq(Parts) /\ <<>> \in DOMAIN t /\ "INLINED" \notin t[<<>>].flag
  BY TreeFacts DEF Holds, Tables, IsTab
<1>6. <<u>> \in Seq(Parts) /\ Len(<<u>>) = 1 /\ <<u>> # <<>> /\ u \in Parts
  BY DEF Parts
<1>7. ASSUME NEW q \in DOMAIN t, Len(q) = 1 PROVE \E v \in Users \ {u} : q = <<v>>
  <2>1. q # <<>>
    BY <1>7, LongNotEmpty
  <2>2. PICK i \in 1..n : PlaceOf(q, f, i)
    BY <2>1 DEF Holds
  <2>3. f[i].item = "header" /\ q = <<f[i].user>> /\ f[i].user \in Users
    <3>1. i \in 1..Len(f)
      BY <1>1
    <3>2. Len(q) = 1
      BY <1>7
    <3>3. AtHeader(q, f, i)
      BY <2>2, <3>1, <3>2, PlaceFacts
    <3> QED
      BY <3>3 DEF AtHeader
  <2>4. f[i].user # u
    BY <1>4, <2>3
  <2> QED
    BY <2>3, <2>4
<1>8. <<u>> \notin DOMAIN t
  <2>1. ASSUME NEW v, <<v>> = <<u>> PROVE v = u
    BY <2>1
  <2> QED
    BY <1>6, <1>7, <2>1
<1>9. size(t, <<>>) \in Nat /\ size(t, <<>>) < TABLE_MAX
  <2> DEFINE E == Users \ {u}
  <2>1. IsFiniteSet(E) /\ Cardinality(E) = Cardinality(Users) - 1 /\ Cardinality(Users) \in Nat
    BY UsersAssumption, FS_RemoveElement, FS_CardinalityType
  <2>2. \A v \in E : Append(<<>>, v) = <<v>>
    OBVIOUS
  <2>3. Len(<<>>) + 1 = 1
    OBVIOUS
  <2>4. \A q \in DOMAIN t : Len(q) = Len(<<>>) + 1 /\ IsPrefix(<<>>, q) => \E v \in E : q = Append(<<>>, v)
    BY <1>7, <2>2, <2>3
  <2> HIDE DEF E
  <2>5. size(t, <<>>) \in Nat /\ size(t, <<>>) <= Cardinality(E)
    BY <1>5, <2>1, <2>4, SizeAtMost
  <2>6. ASSUME NEW a \in Nat, NEW c \in Nat, a <= c - 1, c <= TABLE_MAX PROVE a < TABLE_MAX
    BY <2>6, TableMaxAssumption
  <2> QED
    BY <2>1, <2>5, <2>6, UsersAssumption
<1>10. PICK w \in Trees(Parts, Values) :
         /\ Is(parse_std_table_expr(t, <<u>>), w, <<u>>)
         /\ \A q : q \in DOMAIN w <=> (q \in DOMAIN t \/ q = <<u>>)
         /\ \A q \in DOMAIN t : w[q] = t[q]
         /\ w[<<u>>].type = "table" /\ w[<<u>>].flag = {"STDEXPR", "EXPLICIT"}
  <2>1. 0 \in Values
    BY DEF Values
  <2>2. u \in Parts
    BY DEF Parts
  <2>3. <<>> \in DOMAIN t
    BY <1>5
  <2>4. t \in Trees(Parts, Values)
    BY <1>5
  <2>5. "INLINED" \notin t[<<>>].flag
    BY <1>5
  <2>6. \E w \in Trees(Parts, Values) : HeaderMade(t, w, u)
    BY <1>8, <1>9, <2>1, <2>2, <2>4, <2>5, HeaderParsed
  <2> QED
    BY <2>6 DEF HeaderMade
<1>11. IsTab(w[<<u>>]) /\ w \in Tables
  BY <1>10 DEF IsTab, Tables
<1>12. (\A q : q \in DOMAIN w <=> (q \in DOMAIN t \/ q = <<u>>)) /\ (\A q \in DOMAIN t : w[q] = t[q])
  BY <1>10
<1>13. Holds(w, f, m)
  <2>1. <<>> \in DOMAIN w /\ IsTab(w[<<>>])
    BY <1>12 DEF Holds
  <2>2. \A q \in DOMAIN w : q = <<>> \/ \E i \in 1..m : PlaceOf(q, f, i)
    <3>1. PlaceOf(<<u>>, f, m) /\ m \in 1..m
      BY <1>3 DEF PlaceOf
    <3>2. \A i \in 1..n : i \in 1..m
      OBVIOUS
    <3> QED
      BY <1>12, <3>1, <3>2 DEF Holds
  <2>3. \A i \in 1..m : f[i].item = "header" => <<f[i].user>> \in DOMAIN w /\ IsTab(w[<<f[i].user>>])
    BY <1>2, <1>3, <1>11, <1>12 DEF Holds
  <2>4. \A i \in 1..m : f[i].item = "body" =>
          \A k \in Names : <<f[i - 1].user, k>> \in DOMAIN w /\ w[<<f[i - 1].user, k>>] = Entry(f[i].settings, k)
    BY <1>2, <1>3, <1>12 DEF Holds
  <2> QED
    BY <1>11, <2>1, <2>2, <2>3, <2>4 DEF Holds
<1> QED
  BY <1>10, <1>13

LEMMA BodyHeld ==
  ASSUME NEW f \in Seq(Items), WellFormed(f), NEW n \in 1..Len(f), NEW m \in 1..Len(f), m = n + 1,
         NEW t, Holds(t, f, n), NEW u \in Users, f[n] = Header(u), NEW s \in Settings, f[m] = Body(s),
         ~BadEntry(s), NEW r, Is(r, t, <<u>>)
  PROVE  \E w : Is(ParseBody(r, s), w, <<u>>) /\ Holds(w, f, m)
<1>1. /\ \A i \in 1..n : i \in 1..Len(f) /\ i # m /\ i - 1 # n
      /\ m - 1 = n /\ n \in 1..n /\ m \in 1..m
  OBVIOUS
<1>2. \A i \in 1..m : i = m \/ i \in 1..n
  OBVIOUS
<1>3. f[n].item = "header" /\ f[n].user = u /\ f[m].item = "body" /\ f[m].settings = s
  BY HeaderFacts
<1>4. Vacant(t, u)
  <2>1. t \in Tables /\ <<u>> \in DOMAIN t /\ IsTab(t[<<u>>])
    BY <1>1, <1>3 DEF Holds
  <2>2. ASSUME NEW q \in DOMAIN t, Len(q) = 2, q[1] = u PROVE FALSE
    <3>1. q # <<>>
      BY <2>2, LongNotEmpty
    <3>2. PICK i \in 1..n : PlaceOf(q, f, i)
      BY <3>1 DEF Holds
    <3>3. i - 1 \in 1..Len(f) /\ f[i - 1].item = "header" /\ f[i - 1].user = u
      BY <1>1, <2>2, <3>2, PlaceFacts DEF AtHeader, AtBody
    <3>4. f[i - 1] \in Items
      BY <3>3
    <3>5. f[i - 1] = f[n]
      BY <3>3, <3>4, ItemFacts
    <3>6. i - 1 = n
      BY <3>3, <3>5 DEF WellFormed
    <3> QED
      BY <1>1, <3>6
  <2> QED
    BY <2>1, <2>2 DEF Vacant, IsTab
<1>5. PICK w : Is(ParseBody(r, s), w, <<u>>) /\ Added(t, w, u, Names, s)
  BY <1>4, BodyParsed
<1>6. Holds(w, f, m)
  <2>1. <<>> \in DOMAIN w /\ IsTab(w[<<>>]) /\ w \in Tables
    BY <1>5 DEF Holds, Added
  <2>2. \A q \in DOMAIN w : q = <<>> \/ \E i \in 1..m : PlaceOf(q, f, i)
    <3>1. \A k \in Names : PlaceOf(<<u, k>>, f, m)
      BY <1>1, <1>3 DEF PlaceOf
    <3>2. \A i \in 1..n : i \in 1..m
      OBVIOUS
    <3> QED
      BY <1>1, <1>5, <3>1, <3>2 DEF Holds, Added
  <2>3. \A i \in 1..m : f[i].item = "header" => <<f[i].user>> \in DOMAIN w /\ IsTab(w[<<f[i].user>>])
    BY <1>2, <1>3, <1>5 DEF Holds, Added
  <2>4. \A i \in 1..m : f[i].item = "body" =>
          \A k \in Names : <<f[i - 1].user, k>> \in DOMAIN w /\ w[<<f[i - 1].user, k>>] = Entry(f[i].settings, k)
    <3> SUFFICES ASSUME NEW i \in 1..m, f[i].item = "body", NEW k \in Names
                 PROVE  <<f[i - 1].user, k>> \in DOMAIN w /\ w[<<f[i - 1].user, k>>] = Entry(f[i].settings, k)
      OBVIOUS
    <3>1. CASE i = m
      BY <1>1, <1>3, <1>5, <3>1 DEF Added
    <3>2. CASE i \in 1..n
      BY <1>5, <3>2 DEF Holds, Added
    <3> QED
      BY <1>2, <3>1, <3>2
  <2> QED
    BY <2>1, <2>2, <2>3, <2>4 DEF Holds
<1> QED
  BY <1>5, <1>6

\* No number in the file that the parser refuses.
Good(f) == \A i \in Range(f) : i.item = "body" => ~BadEntry(i.settings)

(***************************************************************************)
(* A well-formed file is parsed to the tables of its sections              *)
(* (tomlc17.c:834-879).                                                    *)
(***************************************************************************)
LEMMA FileParsed ==
  ASSUME NEW f \in Seq(Items), WellFormed(f), Good(f)
  PROVE  \E t, p : Is(toml_parse_file(f), t, p) /\ Holds(t, f, Len(f))
<1> DEFINE D == Parse(f)
           Now(n) == \E t, p : /\ Is(D[n], t, p) /\ Holds(t, f, n)
                               /\ (n \in 1..Len(f) /\ f[n].item = "header") => p = <<f[n].user>>
           S == {n \in Nat : n <= Len(f) => Now(n)}
<1>1. Len(f) \in Nat
  OBVIOUS
<1>2. D[0] = Result(NewTable({}), <<>>) /\ \A i \in 1..Len(f) : D[i] = ParseItem(D[i - 1], f[i])
  BY <1>1, ParseDef
<1> HIDE DEF D
<1>3. 0 \in S
  <2> DEFINE t == NewTable({})
  <2>1. Is(D[0], t, <<>>)
    <3>1. \A x, y : Is(Result(x, y), x, y)
      BY DEF Is, Result
    <3> QED
      BY <1>2, <3>1
  <2>2. t \in Tables /\ DOMAIN t = {<<>>}
    <3>1. 0 \in Values /\ {} \in SUBSET Flags
      BY DEF Values
    <3> QED
      BY <3>1, NewTrees DEF Tables
  <2>3. IsTab(t[<<>>])
    BY DEF NewTable, Single, mkdatum, IsTab
  <2> HIDE DEF t
  <2>4. Holds(t, f, 0)
    BY <2>2, <2>3 DEF Holds
  <2>5. 0 \notin 1..Len(f)
    BY <1>1
  <2>6. Now(0)
    BY <2>1, <2>4, <2>5
  <2> HIDE DEF Now
  <2> QED
    BY <2>6
<1>4. ASSUME NEW n \in Nat, n \in S PROVE n + 1 \in S
  <2> SUFFICES ASSUME n + 1 <= Len(f) PROVE Now(n + 1)
    OBVIOUS
  <2>1. PICK m \in 1..Len(f) : m = n + 1
    BY <1>1
  <2>2. m - 1 = n /\ n <= Len(f)
    BY <1>1, <2>1
  <2>3. PICK t, p : Is(D[n], t, p) /\ Holds(t, f, n) /\ (n \in 1..Len(f) /\ f[n].item = "header" => p = <<f[n].user>>)
    BY <1>4, <2>2
  <2>4. D[m] = ParseItem(D[n], f[m]) /\ f[m] \in Items
    BY <1>2, <2>2
  <2>5. ASSUME f[m].item = "header" PROVE Now(m)
    <3>1. f[m] = Header(f[m].user) /\ f[m].user \in Users
      BY <2>4, <2>5, ItemFacts
    <3>2. D[m] = parse_std_table_expr(t, <<f[m].user>>)
      BY <2>3, <2>4, <2>5 DEF ParseItem, Is
    <3>3. \E w : Is(D[m], w, <<f[m].user>>) /\ Holds(w, f, m)
      <4> DEFINE u == f[m].user
      <4>1. u \in Users /\ f[m] = Header(u) /\ D[m] = parse_std_table_expr(t, <<u>>)
        BY <3>1, <3>2
      <4> HIDE DEF u
      <4>2. \E w : Is(D[m], w, <<u>>) /\ Holds(w, f, m)
        BY <2>1, <2>3, <4>1, HeaderHeld
      <4> QED
        BY <4>2 DEF u
    <3> QED
      BY <3>3
  <2>6. ASSUME f[m].item # "header" PROVE Now(m)
    <3>1. f[m].item = "body" /\ f[m].settings \in Settings /\ f[m] = Body(f[m].settings)
      BY <2>4, <2>6, ItemFacts
    <3>2. n \in 1..Len(f) /\ f[n].item = "header"
      BY <2>2, <3>1 DEF WellFormed
    <3>3. f[n] = Header(f[n].user) /\ f[n].user \in Users /\ p = <<f[n].user>>
      <4>1. f[n] \in Items
        BY <3>2
      <4> QED
        BY <2>3, <3>2, <4>1, ItemFacts
    <3>4. ~BadEntry(f[m].settings)
      BY <3>1 DEF Good, Range
    <3>5. D[m] = ParseBody(D[n], f[m].settings)
      BY <2>3, <2>4, <2>6 DEF ParseItem, Is
    <3>6. \E w : Is(D[m], w, p) /\ Holds(w, f, m)
      <4> DEFINE u == f[n].user
                 s == f[m].settings
      <4>1. u \in Users /\ f[n] = Header(u) /\ p = <<u>> /\ s \in Settings /\ f[m] = Body(s) /\ ~BadEntry(s)
        BY <3>1, <3>3, <3>4
      <4>2. D[m] = ParseBody(D[n], s) /\ Is(D[n], t, <<u>>)
        BY <2>3, <3>5, <4>1
      <4> HIDE DEF u, s
      <4> QED
        BY <2>1, <2>3, <3>2, <4>1, <4>2, BodyHeld
    <3> QED
      BY <2>6, <3>6
  <2> QED
    BY <2>1, <2>5, <2>6
<1>5. Nat \subseteq S
  <2> HIDE DEF S
  <2> QED
    BY <1>3, <1>4, NatInd
<1>6. Now(Len(f))
  BY <1>1, <1>5
<1> QED
  BY <1>6 DEF toml_parse_file, D

-----------------------------------------------------------------------------
(* What a login reads *)

\* A search for an entry of a section.
LEMMA SeekTwo ==
  ASSUME NEW K, NEW u \in K, NEW k \in K, NEW t
  PROVE  toml_seek(t, <<u, k>>) =
           IF IsTable(t, <<>>) /\ IsTable(t, <<u>>) /\ <<u, k>> \in DOMAIN t THEN t[<<u, k>>] ELSE DATUM_ZERO
<1> DEFINE q == <<u, k>>
<1>1. q \in Seq(K) /\ Len(q) = 2 /\ q[1] = u /\ q[2] = k /\ <<u>> \in Seq(K) /\ Append(<<u>>, k) = q
  BY TwoParts
<1> HIDE DEF q
<1>2. SubSeq(q, 1, 0) = <<>>
  BY <1>1
<1>3. SubSeq(q, 1, 1) = <<u>>
  <2> DEFINE a == SubSeq(q, 1, 1)
             b == <<u>>
  <2>1. a \in Seq(K) /\ Len(a) = 1 /\ a[1] = u
    BY <1>1
  <2>2. b \in Seq(K) /\ Len(b) = 1 /\ b[1] = u
    BY <1>1
  <2> HIDE DEF a, b
  <2>3. \A i \in 1..Len(a) : a[i] = b[i]
    BY <2>1, <2>2
  <2>4. a = b
    BY <2>1, <2>2, <2>3, SeqEqual
  <2> QED
    BY <2>4 DEF a, b
<1>4. Front(q) = <<u>> /\ Last(q) = k
  <2>1. Len(q) - 1 = 1
    BY <1>1
  <2> QED
    BY <1>1, <1>3, <2>1 DEF Front, Last
<1>5. \A i : i \in 0..(Len(q) - 1) <=> (i = 0 \/ i = 1)
  <2>1. \A i : i \in 0..1 <=> (i = 0 \/ i = 1)
    OBVIOUS
  <2>2. Len(q) - 1 = 1
    BY <1>1
  <2> QED
    BY <2>1, <2>2
<1>6. (\A i \in 0..(Len(q) - 1) : IsTable(t, SubSeq(q, 1, i))) <=> (IsTable(t, <<>>) /\ IsTable(t, <<u>>))
  BY <1>2, <1>3, <1>5
<1>7. toml_get(t, <<u>>, k) = IF IsTable(t, <<u>>) /\ q \in DOMAIN t THEN t[q] ELSE DATUM_ZERO
  BY <1>1 DEF toml_get, tab_find
<1>8. toml_seek(t, q) = IF IsTable(t, <<>>) /\ IsTable(t, <<u>>) /\ q \in DOMAIN t THEN t[q] ELSE DATUM_ZERO
  BY <1>4, <1>6, <1>7 DEF toml_seek
<1> QED
  BY <1>8 DEF q

\* The login of a user whose section holds s.
LoginWith(s) ==
  Admit(Entry(s, "bundle"), Entry(s, "enabled"), IntOr(Entry(s, "timeout"), 0, 0),
        image_bytes(IntOr(Entry(s, "disk"), DefaultDisk, 1)))

LEMMA LoginParsed ==
  ASSUME NEW f, NEW t, NEW p, Is(toml_parse_file(f), t, p), NEW v
  PROVE  login(f, v) = Configured(t, v)
BY DEF login, login_of, Is

(***************************************************************************)
(* A login of a user who has a section is given what it says               *)
(* (caalsh.c:118-170).                                                     *)
(***************************************************************************)
LEMMA LoginSection ==
  ASSUME NEW f \in Seq(Items), WellFormed(f), Good(f), NEW v \in Users, NEW s, Section(f, v, s)
  PROVE  login(f, v) = LoginWith(s)
<1>1. PICK t, p : Is(toml_parse_file(f), t, p) /\ Holds(t, f, Len(f))
  BY FileParsed
<1>2. PICK i \in 1..Len(f) : i + 1 \in 1..Len(f) /\ f[i] = Header(v) /\ f[i + 1] = Body(s)
  BY DEF Section
<1>3. f[i].item = "header" /\ f[i].user = v /\ f[i + 1].item = "body" /\ f[i + 1].settings = s
  BY <1>2, HeaderFacts
<1>4. (i + 1) - 1 = i
  OBVIOUS
<1>5. IsTable(t, <<>>) /\ IsTable(t, <<v>>)
  BY <1>1, <1>3 DEF Holds, IsTable, IsTab
<1>6. ASSUME NEW k \in Names PROVE toml_seek(t, <<v, k>>) = Entry(s, k)
  <2>1. <<v, k>> \in DOMAIN t /\ t[<<v, k>>] = Entry(s, k)
    <3> DEFINE m == i + 1
    <3>1. m \in 1..Len(f) /\ m - 1 = i /\ f[m].item = "body" /\ f[m].settings = s
      BY <1>2, <1>3, <1>4
    <3> HIDE DEF m
    <3>2. <<f[m - 1].user, k>> \in DOMAIN t /\ t[<<f[m - 1].user, k>>] = Entry(f[m].settings, k)
      BY <1>1, <1>6, <3>1 DEF Holds
    <3> QED
      BY <1>3, <3>1, <3>2
  <2>2. v \in Parts /\ k \in Parts
    BY <1>6 DEF Parts
  <2> QED
    BY <1>5, <2>1, <2>2, SeekTwo
<1>7. /\ toml_seek(t, <<v, "bundle">>) = Entry(s, "bundle") /\ toml_seek(t, <<v, "enabled">>) = Entry(s, "enabled")
      /\ toml_seek(t, <<v, "disk">>) = Entry(s, "disk") /\ toml_seek(t, <<v, "timeout">>) = Entry(s, "timeout")
  BY <1>6 DEF Names
<1>8. Configured(t, v) = LoginWith(s)
  BY <1>7 DEF Configured, LoginWith
<1> QED
  BY <1>1, <1>8, LoginParsed

\* And one of a user who has none is refused.
LEMMA LoginAbsent ==
  ASSUME NEW f \in Seq(Items), WellFormed(f), Good(f), NEW v \in Users, Header(v) \notin Range(f)
  PROVE  login(f, v) = Denied("not configured")
<1>1. PICK t, p : Is(toml_parse_file(f), t, p) /\ Holds(t, f, Len(f))
  BY FileParsed
<1>2. <<v>> \notin DOMAIN t
  <2> DEFINE q == <<v>>
  <2>1. Len(q) = 1 /\ q[1] = v
    OBVIOUS
  <2> HIDE DEF q
  <2>2. q # <<>>
    BY <2>1, LongNotEmpty
  <2>3. ASSUME NEW i \in 1..Len(f), PlaceOf(q, f, i) PROVE FALSE
    <3>1. f[i].item = "header" /\ f[i].user = v
      BY <2>1, <2>3, PlaceFacts DEF AtHeader, AtBody
    <3>2. f[i] \in Items
      OBVIOUS
    <3>3. f[i] = Header(v)
      BY <3>1, <3>2, ItemFacts
    <3> QED
      BY <3>3 DEF Range
  <2>4. q \notin DOMAIN t
    BY <1>1, <2>2, <2>3 DEF Holds
  <2> QED
    BY <2>4 DEF q
<1>3. toml_seek(t, <<v, "bundle">>) = DATUM_ZERO
  <2>1. v \in Parts /\ "bundle" \in Parts
    BY DEF Parts, Names
  <2> QED
    BY <1>2, <2>1, SeekTwo DEF IsTable
<1>4. Configured(t, v) = Denied("not configured")
  <2>1. DATUM_ZERO.type # "string"
    BY DEF DATUM_ZERO, mkdatum
  <2>2. \A b, e, x, y : b.type # "string" => Admit(b, e, x, y) = Denied("not configured")
    BY DEF Admit
  <2> QED
    BY <1>3, <2>1, <2>2 DEF Configured
<1> QED
  BY <1>1, <1>4, LoginParsed

(***************************************************************************)
(* The file stays one that caalsh can read, whatever scripts failed, were  *)
(* killed or ran at the same time, unless one wrote it under the hands of  *)
(* another or an entry in it is one that the parser refuses                *)
(* (StaysReadable; newcaal.sh:177-198, 282, 289, 296).                     *)
(***************************************************************************)
THEOREM FileStaysReadable == Spec => []StaysReadable
<1>1. HostTypes /\ Undisturbed => StaysReadable
  <2> SUFFICES ASSUME HostTypes, Undisturbed, ~raced, ~BadFile PROVE toml_parse_file(file).err = ""
    BY DEF StaysReadable
  <2>1. file \in Seq(Items) /\ WellFormed(file) /\ Good(file)
    BY DEF HostTypes, Undisturbed, BadFile, Good
  <2> QED
    BY <2>1, FileParsed DEF Is
<1> QED
  BY <1>1, TypesInit, TypesNext, UndisturbedInit, UndisturbedNext, PTL DEF Spec

LEMMA HeaderSection ==
  ASSUME NEW f \in Seq(Items), WellFormed(f), NEW v, Header(v) \in Range(f)
  PROVE  \E s \in Settings : Section(f, v, s)
<1>1. PICK i \in 1..Len(f) : f[i] = Header(v)
  BY DEF Range
<1>2. i + 1 \in 1..Len(f) /\ f[i + 1].item = "body"
  BY <1>1, HeaderFacts DEF WellFormed
<1>3. f[i + 1] \in Items
  BY <1>2
<1>4. f[i + 1] = Body(f[i + 1].settings) /\ f[i + 1].settings \in Settings
  BY <1>2, <1>3, ItemFacts
<1> QED
  BY <1>1, <1>2, <1>4 DEF Section

\* Two files with the same section of v, or none, are the same to v.
LEMMA SameLogin ==
  ASSUME NEW f \in Seq(Items), NEW g \in Seq(Items), WellFormed(f), WellFormed(g), Good(f), Good(g),
         NEW v \in Users, Header(v) \in Range(g) <=> Header(v) \in Range(f),
         \A s : Section(g, v, s) <=> Section(f, v, s)
  PROVE  login(g, v) = login(f, v)
<1>1. CASE Header(v) \in Range(f)
  <2>1. PICK s : Section(f, v, s)
    BY <1>1, HeaderSection
  <2>2. Section(g, v, s)
    BY <2>1
  <2>3. login(f, v) = LoginWith(s)
    BY <2>1, LoginSection
  <2>4. login(g, v) = LoginWith(s)
    BY <2>2, LoginSection
  <2> QED
    BY <2>3, <2>4
<1>2. CASE Header(v) \notin Range(f)
  <2>1. login(f, v) = Denied("not configured")
    BY <1>2, LoginAbsent
  <2>2. login(g, v) = Denied("not configured")
    BY <1>2, LoginAbsent
  <2> QED
    BY <2>1, <2>2
<1> QED
  BY <1>1, <1>2

(***************************************************************************)
(* A script changes no login but that of its own user, also when others    *)
(* run beside it, unless one has written the file under the hands of       *)
(* another or an entry in it is one that the parser refuses                *)
(* (OthersUnaffected; newcaal.sh:177-198, delcaal.sh:150).                 *)
(***************************************************************************)
THEOREM OthersStay == Spec => OthersUnaffected
<1> DEFINE A == raced \/ BadFile \/ BadFile' \/ UNCHANGED file \/
                  \A v \in Users : \/ login(file', v) = login(file, v)
                                  \/ \E p \in Running : U(p) = v /\ script'[p] # script[p]
<1>1. HostTypes /\ ProcessTypes /\ Undisturbed /\ [Next]_vars => [A]_vars
  <2> SUFFICES ASSUME HostTypes, ProcessTypes, Undisturbed, [Next]_vars, ~raced, ~BadFile, ~BadFile', file' # file,
                      NEW v \in Users, \A p \in Running : U(p) = v => script'[p] = script[p]
               PROVE  login(file', v) = login(file, v)
    OBVIOUS
  <2>1. PICK p \in Scripts : Step(p)
    BY DEF Next, newcaal, delcaal, Begin, vars, hostVars
  <2>2. p \in Running /\ script'[p] # script[p]
    <3>1. CASE CreateFile(p)
      BY <2>1, <3>1, StepRuns, GotoFields DEF CreateFile, At
    <3>2. CASE SedRenames(p)
      <4>1. script[p].pc = "rename" /\ script'[p].pc # "rename"
        BY <3>2 DEF SedRenames, ProcessTypes, Processes
      <4> QED
        BY <2>1, <4>1, StepRuns
    <3>3. CASE AppendEntry(p)
      BY <2>1, <3>3, StepRuns, GotoFields DEF AppendEntry, At
    <3> QED
      BY <2>1, <3>1, <3>2, <3>3
         DEF Step, create_user, passwd, TestFile, Grep, SedReads, write_sshd, Reload, remove_user, remove_sshd, Abort, hostVars
  <2>3. v # U(p)
    BY <2>2
  <2>4. HostTypes'
    BY TypesNext
  <2>5. /\ WellFormed(file')
        /\ Header(v) \in Range(file') <=> Header(v) \in Range(file)
        /\ \A s : Section(file', v, s) <=> Section(file, v, s)
    BY <2>1, <2>3, SectionsKept
  <2>6. /\ file \in Seq(Items) /\ WellFormed(file) /\ Good(file)
        /\ file' \in Seq(Items) /\ Good(file')
    BY <2>4 DEF HostTypes, Undisturbed, BadFile, Good
  <2> QED
    BY <2>5, <2>6, SameLogin
<1> QED
  BY <1>1, TypesInit, TypesNext, UndisturbedInit, UndisturbedNext, PTL DEF Spec, OthersUnaffected

-----------------------------------------------------------------------------
(* What a login is given *)

LEMMA Modulo ==
  ASSUME NEW a \in Nat, NEW b \in Nat \ {0}
  PROVE  a % b \in 0..(b - 1) /\ (a < b => a % b = a)
OBVIOUS

\* The product of fallocate()'s argument is kept if it fits, and is another number if not.
LEMMA Wrapped ==
  ASSUME NEW x \in Nat
  PROVE  Wrap64(x) \in Int /\ (Wrap64(x) = x <=> x <= Int64Max)
<1> DEFINE h == Int64Max + 1
           m == 2 * h
<1>1. Int64Max \in Nat /\ h \in Nat /\ m \in Nat \ {0} /\ x + Int64Max + 1 = x + h /\ x + h \in Nat
  BY WidthsAssumption
<1>2. (x + h) % m \in 0..(m - 1) /\ (x + h < m => (x + h) % m = x + h)
  BY <1>1, Modulo
<1>3. Wrap64(x) = ((x + h) % m) - h
  BY <1>1 DEF Wrap64
<1>4. ASSUME NEW r \in Int, r \in 0..(m - 1), x + h < m => r = x + h
      PROVE  r - h \in Int /\ (r - h = x <=> x <= Int64Max)
  BY <1>1, <1>4
<1> QED
  BY <1>2, <1>3, <1>4

\* The disk, in MB, and its size in bytes.
Disk(s) == IF s.disk.n = 0 THEN DefaultDisk ELSE s.disk.n

LEMMA DiskBytes ==
  ASSUME NEW s \in Settings
  PROVE  /\ Disk(s) * MB \in Nat \ {0}
         /\ Disk(s) * MB <= Int64Max <=> s.disk.n * MB <= Int64Max
         /\ IntOr(Entry(s, "disk"), DefaultDisk, 1) = Disk(s)
<1>1. s.disk.n \in Nat /\ DefaultDisk \in Nat \ {0} /\ MB \in Nat \ {0} /\ Int64Max \in Nat /\ DefaultDisk * MB <= Int64Max
  BY SettingsAssumption, WidthsAssumption
<1>2. Entry(s, "disk").type = "int64" /\ Entry(s, "disk").val = s.disk.n
  BY DEF Entry, mkdatum
<1>3. \A a, b \in Nat \ {0} : a * b \in Nat \ {0}
  OBVIOUS
<1>4. CASE s.disk.n = 0
  <2>1. s.disk.n * MB = 0 /\ Disk(s) = DefaultDisk /\ ~(s.disk.n >= 1)
    BY <1>1, <1>4 DEF Disk
  <2> QED
    BY <1>1, <1>2, <1>3, <2>1 DEF IntOr
<1>5. CASE s.disk.n # 0
  <2>1. Disk(s) = s.disk.n /\ s.disk.n >= 1 /\ s.disk.n \in Nat \ {0}
    BY <1>1, <1>5 DEF Disk
  <2> QED
    BY <1>1, <1>2, <1>3, <2>1 DEF IntOr
<1> QED
  BY <1>4, <1>5

\* A login with a section of s that is enabled is given what was asked for, just if it fits.
LEMMA GivenAsAsked ==
  ASSUME NEW s \in Settings
  PROVE  IF s.enabled THEN LoginWith(s) = Promised(s) <=> Fits(s) ELSE LoginWith(s) = Denied("disabled")
<1> DEFINE n == s.timeout.n
           b == Disk(s) * MB
           w == Wrap64(b)
           z == IF n > 0 THEN sleep_seconds(n) ELSE 0
           c == parse_norm(s.bundle)
           G == [ok |-> TRUE, bundle |-> c, bytes |-> w, watchdog |-> n > 0, seconds |-> z]
           P == [ok |-> TRUE, bundle |-> s.bundle, bytes |-> b, watchdog |-> n > 0, seconds |-> n]
<1>1. /\ Entry(s, "bundle").type = "string" /\ Entry(s, "bundle").val = c
      /\ Entry(s, "enabled").type = "boolean" /\ Entry(s, "enabled").val = s.enabled
      /\ Entry(s, "timeout").type = "int64" /\ Entry(s, "timeout").val = n
  BY DEF Entry, mkdatum
<1>2. n \in Nat /\ s.enabled \in BOOLEAN /\ UIntSize \in Nat \ {0}
  BY SettingsAssumption, WidthsAssumption
<1>3. b \in Nat \ {0} /\ w \in Int /\ (w = b <=> s.disk.n * MB <= Int64Max)
  BY DiskBytes, Wrapped
<1>4. z = n <=> n < UIntSize
  <2>1. n % UIntSize \in 0..(UIntSize - 1) /\ (n < UIntSize => n % UIntSize = n)
    BY <1>2, Modulo
  <2> QED
    BY <1>2, <2>1 DEF sleep_seconds
<1>5. IntOr(Entry(s, "timeout"), 0, 0) = n /\ image_bytes(IntOr(Entry(s, "disk"), DefaultDisk, 1)) = w
  <2>1. n >= 0
    BY <1>2
  <2>2. IntOr(Entry(s, "timeout"), 0, 0) = n
    BY <1>1, <2>1 DEF IntOr
  <2> QED
    BY <2>2, DiskBytes DEF image_bytes
<1>6. Promised(s) = P
  BY DEF Promised, Disk
<1>7. LoginWith(s) = IF ~s.enabled THEN Denied("disabled") ELSE IF w <= 0 THEN Denied("no disk") ELSE G
  BY <1>1, <1>5 DEF LoginWith, Admit
<1>8. Fits(s) <=> (z = n /\ w = b /\ c = s.bundle)
  BY <1>3, <1>4 DEF Fits
<1> HIDE DEF n, b, w, z, c
<1>9. G = P <=> (z = n /\ w = b /\ c = s.bundle)
  <2>1. /\ G.seconds = z /\ G.bytes = w /\ G.bundle = c
        /\ P.seconds = n /\ P.bytes = b /\ P.bundle = s.bundle
    OBVIOUS
  <2> QED
    BY <2>1
<1>10. P # Denied("no disk")
  <2>1. P.ok = TRUE /\ Denied("no disk").ok = FALSE
    BY DEF Denied
  <2> QED
    BY <2>1
<1>11. w = b => ~(w <= 0)
  BY <1>3
<1> QED
  BY <1>2, <1>6, <1>7, <1>8, <1>9, <1>10, <1>11

(***************************************************************************)
(* After a newcaal that has finished, a login is given just what was asked *)
(* for, exactly in the range of settings that survives the conversions     *)
(* (AsAsked; newcaal.sh:191-198, caalsh.c:118-170, 209,                    *)
(* session_disk.c:27).                                                     *)
(***************************************************************************)
THEOREM LoginsAsAsked == Spec => []AsAsked
<1>1. HostTypes /\ OneByOne => AsAsked
  <2> SUFFICES ASSUME HostTypes, OneByOne, ~overlap, ~BadFile, NEW u \in Users, last[u] \in Settings
               PROVE  IF last[u].enabled THEN login(file, u) = Promised(last[u]) <=> Fits(last[u])
                                         ELSE login(file, u) = Denied("disabled")
    BY DEF AsAsked
  <2>1. file \in Seq(Items) /\ WellFormed(file) /\ Good(file) /\ Section(file, u, last[u])
    BY DEF HostTypes, OneByOne, Sound, Finished, BadFile, Good
  <2>2. login(file, u) = LoginWith(last[u])
    BY <2>1, LoginSection
  <2> QED
    BY <2>2, GivenAsAsked
<1> QED
  BY <1>1, TypesInit, TypesNext, OneByOneInit, OneByOneNext, PTL DEF Spec

=============================================================================
