-------------------------- MODULE TomlAccept_proof --------------------------
(***************************************************************************)
(* Proof that the parser refuses as contradictory exactly the documents    *)
(* whose last line contradicts one before it.                              *)
(***************************************************************************)
EXTENDS Toml_proof

-----------------------------------------------------------------------------
(* Prefixes *)

\* The places on the way to p, and p itself.
Upto(p) == Above(p) \cup {p}

LEMMA UptoIs ==
  ASSUME NEW p \in Seq(Parts), NEW q
  PROVE  /\ q \in Upto(p) <=> q \in Seq(Parts) /\ AtOrBelow(q, p)
         /\ q \in Above(p) <=> q \in Seq(Parts) /\ Below(q, p)
<1> DEFINE n == Len(p)
<1>1. n \in Nat /\ SubSeq(p, 1, n) = p
  BY SubSeqFull
<1>2. ASSUME NEW i \in 0..n
      PROVE  /\ SubSeq(p, 1, i) \in Seq(Parts) /\ Len(SubSeq(p, 1, i)) = i
             /\ \A j \in 1..i : SubSeq(p, 1, i)[j] = p[j]
  <2> DEFINE a == SubSeq(p, 1, i)
  <2>0. i \in Int /\ i - 1 + 1 = i
    OBVIOUS
  <2>1. \A j \in 1..i : j \in 1..n /\ 1 + j - 1 = j /\ p[j] \in Parts
    BY <1>1
  <2>2. a \in Seq(Parts) /\ (Len(a) = IF 1 <= i THEN i - 1 + 1 ELSE 0) /\ \A j \in 1..(i - 1 + 1) : a[j] = p[1 + j - 1]
    BY <2>0, <2>1, SubSeqProperties
  <2> HIDE DEF a
  <2>3. Len(a) = i
    BY <2>2
  <2>4. \A j \in 1..i : a[j] = p[j]
    BY <2>0, <2>1, <2>2
  <2> QED
    BY <2>2, <2>3, <2>4 DEF a
<1>3. ASSUME NEW i \in 0..n, q \in Seq(Parts), Len(q) = i, \A j \in 1..i : p[j] = q[j]
      PROVE  q = SubSeq(p, 1, i)
  <2> DEFINE a == SubSeq(p, 1, i)
  <2>1. a \in Seq(Parts) /\ Len(a) = i /\ \A j \in 1..i : a[j] = p[j]
    BY <1>2
  <2> HIDE DEF a
  <2>2. Len(q) = Len(a) /\ \A j \in 1..Len(q) : q[j] = a[j]
    BY <1>3, <2>1
  <2> QED
    BY <1>3, <2>1, <2>2, SeqEqual DEF a
<1>4. q \in Above(p) <=> \E i \in 0..(n - 1) : q = SubSeq(p, 1, i)
  BY DEF Above
<1> HIDE DEF n
<1>5. \A i \in 0..(n - 1) : i \in 0..n /\ i < n
  BY <1>1
<1>6. ASSUME q \in Above(p) PROVE q \in Seq(Parts) /\ Below(q, p)
  <2>1. PICK i \in 0..(n - 1) : q = SubSeq(p, 1, i)
    BY <1>4, <1>6
  <2>2. q \in Seq(Parts) /\ Len(q) = i /\ (\A j \in 1..i : q[j] = p[j]) /\ i < n
    BY <1>2, <1>5, <2>1
  <2> QED
    BY <1>1, <2>2 DEF Below, AtOrBelow, n
<1>7. ASSUME q \in Seq(Parts), Below(q, p) PROVE q \in Above(p)
  <2>1. Len(q) \in Nat /\ Len(q) < n /\ \A j \in 1..Len(q) : p[j] = q[j]
    BY <1>7 DEF Below, AtOrBelow, n
  <2>2. Len(q) \in 0..(n - 1)
    BY <1>1, <2>1
  <2> QED
    BY <1>3, <1>4, <1>5, <1>7, <2>1, <2>2
<1>8. q \in Seq(Parts) /\ AtOrBelow(q, p) => Below(q, p) \/ q = p
  <2> SUFFICES ASSUME q \in Seq(Parts), AtOrBelow(q, p), ~Below(q, p) PROVE q = p
    OBVIOUS
  <2>1. Len(q) = n /\ \A j \in 1..Len(q) : p[j] = q[j]
    BY <1>1 DEF Below, AtOrBelow, n
  <2>2. n \in 0..n
    BY <1>1
  <2> QED
    BY <1>1, <1>3, <2>1, <2>2
<1>9. AtOrBelow(p, p)
  BY BelowTransitive
<1> QED
  BY <1>6, <1>7, <1>8, <1>9 DEF Upto, Below

\* One part more.
LEMMA UptoChild ==
  ASSUME NEW p \in Seq(Parts), NEW k \in Parts
  PROVE  /\ Above(Append(p, k)) = Upto(p)
         /\ Upto(Append(p, k)) = Upto(p) \cup {Append(p, k)}
         /\ Append(p, k) \in Seq(Parts) /\ Append(p, k) # <<>> /\ Append(p, k) \notin Upto(p)
<1>1. Above(Append(p, k)) = Upto(p)
  BY AboveChild DEF Upto
<1>2. Append(p, k) \in Seq(Parts) /\ Len(Append(p, k)) = Len(p) + 1 /\ Len(p) \in Nat
  BY AppendProperties
<1>3. Append(p, k) # <<>>
  BY AppendProperties
<1>4. Append(p, k) \notin Upto(p)
  <2>1. ~AtOrBelow(Append(p, k), p)
    BY <1>2 DEF AtOrBelow
  <2> QED
    BY <2>1, UptoIs
<1> QED
  BY <1>1, <1>2, <1>3, <1>4 DEF Upto

\* Two places on the way to the same one.
LEMMA UptoOrder ==
  ASSUME NEW p \in Seq(Parts)
  PROVE  /\ p \in Upto(p) /\ Above(p) \subseteq Upto(p)
         /\ \A q \in Upto(p) : q \in Seq(Parts) /\ Len(q) \in Nat /\ Upto(q) \subseteq Upto(p) /\ Len(q) <= Len(p)
         /\ \A q \in Above(p) : Len(q) < Len(p)
         /\ \A q \in Upto(p) : \A r \in Upto(p) : Len(q) <= Len(r) => q \in Upto(r)
<1>1. p \in Upto(p) /\ Above(p) \subseteq Upto(p)
  BY DEF Upto
<1>2. ASSUME NEW q \in Upto(p)
      PROVE  q \in Seq(Parts) /\ Len(q) \in Nat /\ Upto(q) \subseteq Upto(p) /\ Len(q) <= Len(p)
  <2>1. q \in Seq(Parts) /\ AtOrBelow(q, p)
    BY <1>2, UptoIs
  <2>2. ASSUME NEW a, a \in Upto(q) PROVE a \in Upto(p)
    <3>1. a \in Seq(Parts) /\ AtOrBelow(a, q)
      BY <2>1, <2>2, UptoIs
    <3>2. AtOrBelow(a, p)
      BY <2>1, <3>1, BelowTransitive
    <3> QED
      BY <3>1, <3>2, UptoIs
  <2> QED
    BY <2>1, <2>2 DEF AtOrBelow
<1>3. \A q \in Above(p) : Len(q) < Len(p)
  BY UptoIs DEF Below
<1>4. ASSUME NEW q \in Upto(p), NEW r \in Upto(p), Len(q) <= Len(r) PROVE q \in Upto(r)
  <2>1. q \in Seq(Parts) /\ AtOrBelow(q, p) /\ r \in Seq(Parts) /\ AtOrBelow(r, p)
    BY <1>4, UptoIs
  <2>2. Len(q) \in Nat /\ Len(r) \in Nat
    BY <2>1
  <2>3. AtOrBelow(q, r)
    BY <1>4, <2>1, <2>2 DEF AtOrBelow
  <2> QED
    BY <2>1, <2>3, UptoIs
<1> QED
  BY <1>1, <1>2, <1>3, <1>4

\* IsPrefix and IsStrictPrefix say the same.
LEMMA PrefixUpto ==
  ASSUME NEW p \in Seq(Parts), NEW q \in Seq(Parts)
  PROVE  /\ IsPrefix(q, p) <=> q \in Upto(p)
         /\ IsStrictPrefix(q, p) <=> q \in Above(p)
<1> DEFINE a == SubSeq(p, 1, Len(q))
<1>0. Len(p) \in Nat /\ Len(q) \in Nat
  OBVIOUS
<1>1. SubSeq(q, 1, Len(q)) = q /\ SubSeq(p, 1, Len(p)) = p
  BY SubSeqFull
<1>2. IsPrefix(q, p) <=> Len(q) <= Len(p) /\ q = a
  BY <1>1 DEF IsPrefix
<1>3. ASSUME Len(q) <= Len(p), q = a PROVE q \in Upto(p)
  <2>1. CASE Len(q) = Len(p)
    BY <1>1, <1>3, <2>1 DEF Upto
  <2>2. CASE Len(q) # Len(p)
    <3>1. Len(q) \in 0..(Len(p) - 1)
      BY <1>0, <1>3, <2>2
    <3> QED
      BY <1>3, <3>1 DEF Upto, Above
  <2> QED
    BY <2>1, <2>2
<1>4. ASSUME q \in Upto(p) PROVE Len(q) <= Len(p) /\ q = a
  <2>1. CASE q = p
    BY <1>0, <1>1, <2>1
  <2>2. CASE q \in Above(p)
    <3>1. PICK i \in 0..(Len(p) - 1) : q = SubSeq(p, 1, i)
      BY <2>2 DEF Above
    <3>2. Len(q) = i
      <4> DEFINE b == SubSeq(p, 1, i)
      <4>1. \A j \in 1..i : j \in 1..Len(p) /\ 1 + j - 1 = j /\ p[j] \in Parts
        BY <1>0
      <4>2. i \in Int /\ i - 1 + 1 = i
        OBVIOUS
      <4>3. Len(b) = IF 1 <= i THEN i - 1 + 1 ELSE 0
        BY <4>1, <4>2, SubSeqProperties
      <4> HIDE DEF b
      <4>4. Len(b) = i
        BY <4>3
      <4> QED
        BY <3>1, <4>4 DEF b
    <3> QED
      BY <1>0, <3>1, <3>2
  <2> QED
    BY <1>4, <2>1, <2>2 DEF Upto
<1>5. IsPrefix(q, p) <=> q \in Upto(p)
  BY <1>2, <1>3, <1>4
<1>6. p \notin Above(p)
  BY <1>0, UptoIs DEF Below
<1> QED
  BY <1>5, <1>6 DEF IsStrictPrefix, Upto

-----------------------------------------------------------------------------
(* What the lines say of a place *)

(***************************************************************************)
(* The places that the lines mention, and among them those of values, of   *)
(* [header]s and of arrays of tables, and those that a header mentions     *)
(* first.                                                                  *)
(***************************************************************************)
Mentioned(s, n) == {<<>>} \cup UNION {Upto(s.lines[i].at) : i \in 1..n}
OfKind(s, kind) == {i \in DOMAIN s.lines : s.lines[i].kind = kind}


Ledger(s) ==
  [all |-> Mentioned(s, Len(s.lines)),
   val |-> {s.lines[i].at : i \in OfKind(s, "keyvalue")},
   std |-> {s.lines[i].at : i \in OfKind(s, "std")},
   arr |-> {Front(s.lines[i].at) : i \in OfKind(s, "array")},
   hdr |-> UNION {Upto(s.lines[i].at) \ Mentioned(s, i - 1) : i \in DOMAIN s.lines \ OfKind(s, "keyvalue")}]

\* A line mentions the places P: the last is that of a value, a [header] or an array.
Noted(g, h, P, kind, at) ==
  /\ h.all = g.all \cup P
  /\ h.val = IF kind = "keyvalue" THEN g.val \cup {at} ELSE g.val
  /\ h.std = IF kind = "std" THEN g.std \cup {at} ELSE g.std
  /\ h.arr = IF kind = "array" THEN g.arr \cup {Front(at)} ELSE g.arr
  /\ h.hdr = IF kind = "keyvalue" THEN g.hdr ELSE g.hdr \cup (P \ g.all)

LEMMA LedgerMore ==
  ASSUME NEW s \in Reading, NEW r \in Reading, NEW l \in Placed, r.lines = Append(s.lines, l)
  PROVE  Noted(Ledger(s), Ledger(r), Upto(l.at), l.kind, l.at)
<1> DEFINE L == s.lines
           M == r.lines
           n == Len(L)
<1>1. L \in Seq(Placed) /\ M = Append(L, l)
  BY DEF Reading
<1>2. n \in Nat /\ DOMAIN L = 1..n /\ Len(M) = n + 1 /\ DOMAIN M = 1..(n + 1) /\ M[n + 1] = l /\ \A i \in 1..n : M[i] = L[i]
  <2> HIDE DEF L, M
  <2> QED
    BY <1>1
<1> HIDE DEF n
<1>3. \A i : i \in 1..(n + 1) <=> (i \in 1..n \/ i = n + 1)
  BY <1>2
<1>4. ASSUME NEW i \in 0..n PROVE Mentioned(r, i) = Mentioned(s, i)
  <2>1. \A j \in 1..i : j \in 1..n
    BY <1>2
  <2> QED
    BY <1>2, <2>1 DEF Mentioned
<1>5. Mentioned(r, n + 1) = Mentioned(s, n) \cup Upto(l.at)
  BY <1>2, <1>3 DEF Mentioned
<1>6. ASSUME NEW kind
      PROVE  OfKind(r, kind) = IF l.kind = kind THEN OfKind(s, kind) \cup {n + 1} ELSE OfKind(s, kind)
  BY <1>2, <1>3 DEF OfKind
<1>7. ASSUME NEW kind PROVE OfKind(s, kind) \subseteq 1..n
  BY <1>2 DEF OfKind
<1> DEFINE g == Ledger(s)
           h == Ledger(r)
<1>8. h.all = g.all \cup Upto(l.at)
  BY <1>2, <1>5 DEF Ledger, n
<1>9. h.val = IF l.kind = "keyvalue" THEN g.val \cup {l.at} ELSE g.val
  BY <1>2, <1>6, <1>7 DEF Ledger
<1>10. h.std = IF l.kind = "std" THEN g.std \cup {l.at} ELSE g.std
  BY <1>2, <1>6, <1>7 DEF Ledger
<1>11. h.arr = IF l.kind = "array" THEN g.arr \cup {Front(l.at)} ELSE g.arr
  BY <1>2, <1>6, <1>7 DEF Ledger
<1>12. h.hdr = IF l.kind = "keyvalue" THEN g.hdr ELSE g.hdr \cup (Upto(l.at) \ g.all)
  <2> DEFINE X(x, i) == Upto(x.lines[i].at) \ Mentioned(x, i - 1)
             I == 1..n \ OfKind(s, "keyvalue")
             J == 1..(n + 1) \ OfKind(r, "keyvalue")
  <2>1. g.hdr = UNION {X(s, i) : i \in I} /\ h.hdr = UNION {X(r, i) : i \in J}
    BY <1>2 DEF Ledger
  <2>2. \A i \in 1..n : X(r, i) = X(s, i)
    <3>1. \A i \in 1..n : i - 1 \in 0..n
      BY <1>2
    <3> QED
      BY <1>2, <1>4, <3>1
  <2>3. X(r, n + 1) = Upto(l.at) \ g.all
    <3>1. n + 1 - 1 = n /\ n \in 0..n
      BY <1>2
    <3>2. Mentioned(r, n) = g.all
      BY <1>4, <3>1 DEF Ledger, n
    <3> QED
      BY <1>2, <3>1, <3>2
  <2>4. J = IF l.kind = "keyvalue" THEN I ELSE I \cup {n + 1}
    <3>1. n + 1 \notin 1..n
      BY <1>2
    <3> QED
      BY <1>3, <1>6, <1>7, <3>1
  <2> HIDE DEF X, I, J
  <2>5. \A i \in I : X(r, i) = X(s, i)
    BY <2>2 DEF I
  <2> HIDE DEF g, h
  <2>6. CASE l.kind = "keyvalue"
    BY <2>1, <2>4, <2>5, <2>6
  <2>7. CASE l.kind # "keyvalue"
    BY <2>1, <2>3, <2>4, <2>5, <2>7
  <2> QED
    BY <2>6, <2>7
<1> QED
  BY <1>8, <1>9, <1>10, <1>11, <1>12 DEF Noted

LEMMA LedgerType ==
  ASSUME NEW s \in Reading
  PROVE  /\ Ledger(s).all \subseteq Seq(Parts) /\ <<>> \in Ledger(s).all
         /\ \A q : q \in Ledger(s).all <=> q = <<>> \/ \E i \in DOMAIN s.lines : q \in Upto(s.lines[i].at)
<1>1. s.lines \in Seq(Placed)
  BY DEF Reading
<1>2. DOMAIN s.lines = 1..Len(s.lines) /\ \A i \in DOMAIN s.lines : s.lines[i] \in Placed
  BY <1>1
<1>3. \A i \in DOMAIN s.lines : s.lines[i].at \in Seq(Parts)
  BY <1>2 DEF Placed
<1>4. \A i \in DOMAIN s.lines : Upto(s.lines[i].at) \subseteq Seq(Parts)
  BY <1>3, UptoOrder
<1>5. <<>> \in Seq(Parts)
  BY EmptySeq
<1> QED
  BY <1>2, <1>4, <1>5 DEF Ledger, Mentioned

\* The least of some numbers.
LEMMA MinIs ==
  ASSUME NEW S \in SUBSET Nat, S # {}
  PROVE  Min(S) \in S /\ \A y \in S : Min(S) <= y
<1> DEFINE R == OpToRel(<, Nat)
<1>1. IsWellFoundedOn(R, Nat)
  BY NatLessThanWellFounded
<1>2. \A a, b \in Nat : <<a, b>> \in R <=> a < b
  BY DEF OpToRel
<1> HIDE DEF R
<1>3. PICK x \in S : \A y \in S : ~(<<y, x>> \in R)
  BY <1>1, WFMin
<1>4. \A y \in S : x <= y
  <2>1. \A y \in S : y \in Nat /\ x \in Nat /\ ~(y < x)
    BY <1>2, <1>3
  <2> QED
    BY <2>1
<1> QED
  BY <1>3, <1>4 DEF Min

\* What Contradicts asks of the lines, asked of the ledger.
Blocked(g, p, base) ==
  LET dotted == {q \in Above(p) : Len(q) > Len(base)} IN
  \/ \E q \in dotted : q \in g.arr
  \/ \E q \in dotted : q \in g.all /\ q \in g.std /\ \A r \in dotted : r \in g.all => Len(r) <= Len(q)
Clash(g, kind, p, base) ==
  \/ \E q \in Above(p) : q \in g.val
  \/ kind = "std" /\ p \in g.all /\ (p \in g.std \/ p \in g.arr \/ p \notin g.hdr)
  \/ kind = "array" /\ p \in g.all /\ p \notin g.arr
  \/ kind = "keyvalue" /\ (p \in g.all \/ Blocked(g, p, base))

\* The lines that mention a place.
Mentioning(s, p) == {i \in 1..Len(s.lines) : p \in Upto(s.lines[i].at)}

\* The first line that mentions a place is the one that counts.
LEMMA FirstMention ==
  ASSUME NEW s \in Reading, NEW p, p # <<>>, Mentioning(s, p) # {}
  PROVE  /\ Min(Mentioning(s, p)) \in 1..Len(s.lines)
         /\ s.lines[Min(Mentioning(s, p))].kind = "keyvalue" <=> p \notin Ledger(s).hdr
<1> DEFINE n == Len(s.lines)
           I == Mentioning(s, p)
           m == Min(I)
<1>0. I = {i \in 1..n : p \in Upto(s.lines[i].at)} /\ I # {}
  BY DEF Mentioning
<1>1. s.lines \in Seq(Placed)
  BY DEF Reading
<1>2. DOMAIN s.lines = 1..n /\ n \in Nat
  BY <1>1
<1> HIDE DEF I, n
<1>3. m \in I /\ \A i \in I : m <= i
  <2>1. I \subseteq Nat
    BY <1>0
  <2> QED
    BY <1>0, <2>1, MinIs
<1> HIDE DEF m
<1>4. \A i \in 1..n : p \in Mentioned(s, i - 1) <=> \E j \in 1..(i - 1) : j \in I
  <2>1. \A i \in 1..n : \A j \in 1..(i - 1) : j \in 1..n
    BY <1>2
  <2> QED
    BY <1>0, <2>1 DEF Mentioned
<1>5. \A i \in I : p \notin Mentioned(s, i - 1) <=> i = m
  <2> SUFFICES ASSUME NEW i \in I PROVE (\A j \in 1..(i - 1) : j \notin I) <=> i = m
    BY <1>0, <1>4
  <2>1. i \in Nat /\ m \in Nat /\ m >= 1 /\ m <= i
    BY <1>0, <1>3
  <2>2. i # m => m \in 1..(i - 1)
    BY <2>1
  <2>3. i = m => \A j \in 1..(i - 1) : j \notin I
    <3>1. \A j \in 1..(m - 1) : ~(m <= j)
      BY <2>1
    <3> QED
      BY <1>3, <3>1
  <2> QED
    BY <1>3, <2>2, <2>3
<1>6. p \in Ledger(s).hdr <=> \E i \in 1..n : s.lines[i].kind # "keyvalue" /\ i \in I /\ p \notin Mentioned(s, i - 1)
  <2>1. \A i \in 1..n : p \in Upto(s.lines[i].at) <=> i \in I
    BY <1>0
  <2>2. p \in Ledger(s).hdr <=>
          \E i \in DOMAIN s.lines \ OfKind(s, "keyvalue") : p \in Upto(s.lines[i].at) \ Mentioned(s, i - 1)
    BY DEF Ledger
  <2> QED
    BY <1>2, <2>1, <2>2 DEF OfKind
<1>7. p \in Ledger(s).hdr <=> s.lines[m].kind # "keyvalue"
  BY <1>0, <1>3, <1>5, <1>6
<1> QED
  BY <1>0, <1>3, <1>7 DEF m, I, n

\* What a line is checked for (tomlc17.c:1299-1560).
LEMMA ContradictsClash ==
  ASSUME NEW d \in Seq(LineSet), NEW s, s = Said(d), SameLines(s, d), NEW kind \in Kinds, NEW key \in Keys,
         NEW at, at = PlaceOfLine(s, Line(kind, key)),
         NEW p \in Seq(Parts), p = IF kind = "array" THEN Front(at) ELSE at, p # <<>>,
         kind = "keyvalue" => s.header \in Upto(at)
  PROVE  Contradicts(Append(d, Line(kind, key)), Len(Append(d, Line(kind, key)))) <=> Clash(Ledger(s), kind, p, s.header)
<1> DEFINE n == Len(d)
           x == Line(kind, key)
           e == Append(d, x)
           j == Len(e)
           g == Ledger(s)
           r == Said(e)
<1>1. n \in Nat /\ s \in Reading /\ Len(s.lines) = n /\ (\A i \in 1..n : s.lines[i].kind = d[i].kind) /\ s.lines \in Seq(Placed)
  BY DEF SameLines, Reading
<1>2. j = n + 1 /\ j - 1 = n /\ (\A i \in 1..n : e[i] = d[i]) /\ e[j] = x
  BY AppendProperties
<1>3. x \in LineSet /\ x.kind = kind
  BY DEF Line, LineSet
<1>4. r = NextLine(s, x) /\ Meaning(e)[n] = s
  BY <1>3, SaidMore
<1>5. r.lines = Append(s.lines, [kind |-> kind, at |-> at])
  BY <1>3, <1>4 DEF NextLine
<1>6. r.lines[n + 1].at = at /\ \A i \in 1..n : r.lines[i] = s.lines[i]
  <2> HIDE DEF r
  <2> QED
    BY <1>1, <1>5, AppendProperties
<1> DEFINE pl == Place(e)
           mentions(q) == {i \in 1..(j - 1) : IsPrefix(q, pl[i])}
           is(q, k) == \E i \in 1..(j - 1) : e[i].kind = k /\ pl[i] = q
           isArray(q) == \E i \in 1..(j - 1) : e[i].kind = "array" /\ Front(pl[i]) = q
           p0 == IF e[j].kind = "array" THEN Front(pl[j]) ELSE pl[j]
           base == Meaning(e)[j - 1].header
           dotted == {q \in Above(p0) : IsStrictPrefix(base, q)}
           known == {q \in dotted : mentions(q) # {}}
<1>7. Contradicts(e, j) <=>
        \/ \E q \in Above(p0) : is(q, "keyvalue")
        \/ /\ e[j].kind = "std" /\ mentions(p0) # {}
           /\ is(p0, "std") \/ isArray(p0) \/ e[Min(mentions(p0))].kind = "keyvalue"
        \/ e[j].kind = "array" /\ mentions(p0) # {} /\ ~isArray(p0)
        \/ /\ e[j].kind = "keyvalue"
           /\ \/ mentions(p0) # {}
              \/ \E q \in dotted : isArray(q)
              \/ \E q \in known : is(q, "std") /\ \A y \in known : Len(y) <= Len(q)
  BY DEF Contradicts
<1>8. pl[j] = at /\ \A i \in 1..n : pl[i] = s.lines[i].at
  <2>1. pl = [i \in 1..j |-> r.lines[i].at]
    BY DEF Place, Said
  <2>2. \A i \in 1..n : i \in 1..j
    BY <1>1, <1>2
  <2>3. j \in 1..j
    BY <1>1, <1>2
  <2> HIDE DEF r, pl, j
  <2> QED
    BY <1>2, <1>6, <2>1, <2>2, <2>3
<1>9. p0 = p /\ e[j].kind = kind /\ base = s.header
  BY <1>2, <1>3, <1>4, <1>8
<1> HIDE DEF pl, j, e, r, g, base, p0
<1>10. \A i \in 1..n : s.lines[i].at \in Seq(Parts)
  <2>1. \A i \in 1..n : s.lines[i] \in Placed
    BY <1>1
  <2> QED
    BY <2>1 DEF Placed
<1>11. ASSUME NEW q \in Seq(Parts)
       PROVE  /\ mentions(q) = {i \in 1..n : q \in Upto(s.lines[i].at)}
              /\ q # <<>> => (mentions(q) # {} <=> q \in g.all)
  <2>1. mentions(q) = {i \in 1..n : q \in Upto(s.lines[i].at)}
    <3>1. mentions(q) = {i \in 1..n : IsPrefix(q, s.lines[i].at)}
      BY <1>2, <1>8
    <3>2. \A i \in 1..n : IsPrefix(q, s.lines[i].at) <=> q \in Upto(s.lines[i].at)
      BY <1>10, PrefixUpto
    <3> HIDE DEF mentions
    <3> QED
      BY <3>1, <3>2
  <2> HIDE DEF mentions
  <2>2. q \in g.all <=> q = <<>> \/ \E i \in 1..n : q \in Upto(s.lines[i].at)
    BY <1>1 DEF g, Ledger, Mentioned
  <2> QED
    BY <2>1, <2>2
<1>12. \A q : /\ is(q, "keyvalue") <=> q \in g.val
              /\ is(q, "std") <=> q \in g.std
              /\ isArray(q) <=> q \in g.arr
  <2>1. \A i \in 1..(j - 1) : e[i].kind = s.lines[i].kind /\ pl[i] = s.lines[i].at
    BY <1>1, <1>2, <1>8
  <2>2. DOMAIN s.lines = 1..(j - 1)
    BY <1>1, <1>2
  <2> QED
    BY <2>1, <2>2 DEF g, Ledger, OfKind
<1>13. mentions(p) # {} => (e[Min(mentions(p))].kind = "keyvalue" <=> p \notin g.hdr)
  <2> SUFFICES ASSUME mentions(p) # {} PROVE e[Min(mentions(p))].kind = "keyvalue" <=> p \notin g.hdr
    OBVIOUS
  <2>1. mentions(p) = Mentioning(s, p)
    BY <1>1, <1>11 DEF Mentioning
  <2> HIDE DEF mentions
  <2>2. Min(Mentioning(s, p)) \in 1..n /\ (s.lines[Min(Mentioning(s, p))].kind = "keyvalue" <=> p \notin Ledger(s).hdr)
    BY <1>1, <2>1, FirstMention
  <2>3. e[Min(mentions(p))].kind = s.lines[Min(mentions(p))].kind
    BY <1>1, <1>2, <2>1, <2>2
  <2> QED
    BY <2>1, <2>2, <2>3 DEF g
<1> DEFINE beyond == {q \in Above(p) : Len(q) > Len(s.header)}
<1>14. ASSUME kind = "keyvalue"
       PROVE  dotted = beyond /\ \A q \in beyond : q \in Seq(Parts) /\ q # <<>>
  <2>1. p = at /\ s.header \in Upto(p) /\ s.header \in Seq(Parts)
    BY <1>1, <1>14 DEF Reading
  <2>2. ASSUME NEW q \in Above(p) PROVE q \in Seq(Parts) /\ (IsStrictPrefix(s.header, q) <=> Len(q) > Len(s.header))
    <3>1. q \in Seq(Parts) /\ q \in Upto(p)
      BY <2>2, UptoOrder
    <3>2. IsStrictPrefix(s.header, q) <=> s.header \in Above(q)
      BY <2>1, <3>1, PrefixUpto
    <3>3. Len(q) \in Nat /\ Len(s.header) \in Nat
      BY <2>1, <3>1
    <3>4. s.header \in Above(q) => Len(q) > Len(s.header)
      BY <3>1, <3>3, UptoOrder
    <3>5. ASSUME Len(q) > Len(s.header) PROVE s.header \in Above(q)
      <4>1. s.header \in Upto(q)
        BY <2>1, <3>1, <3>3, <3>5, UptoOrder
      <4>2. s.header # q
        BY <3>3, <3>5
      <4> QED
        BY <4>1, <4>2 DEF Upto
    <3> QED
      BY <3>1, <3>2, <3>4, <3>5
  <2>3. ASSUME NEW q \in beyond PROVE q # <<>>
    <3>1. Len(<<>>) = 0 /\ Len(s.header) \in Nat
      BY <2>1, EmptySeq
    <3> QED
      BY <2>3, <3>1
  <2> QED
    BY <1>9, <2>2, <2>3
<1>15. kind = "keyvalue" =>
         (\E q \in known : is(q, "std") /\ \A y \in known : Len(y) <= Len(q))
           <=> \E q \in beyond : q \in g.all /\ q \in g.std /\ \A y \in beyond : y \in g.all => Len(y) <= Len(q)
  <2> SUFFICES ASSUME kind = "keyvalue"
               PROVE (\E q \in known : is(q, "std") /\ \A y \in known : Len(y) <= Len(q))
                     <=> \E q \in beyond : q \in g.all /\ q \in g.std /\ \A y \in beyond : y \in g.all => Len(y) <= Len(q)
    OBVIOUS
  <2>1. \A q : q \in known <=> q \in beyond /\ q \in g.all
    <3> HIDE DEF mentions, dotted, beyond
    <3> QED
      BY <1>11, <1>14
  <2> HIDE DEF is, known, beyond
  <2> QED
    BY <1>12, <2>1
<1>16. Blocked(g, p, s.header) <=>
         \/ \E q \in beyond : q \in g.arr
         \/ \E q \in beyond : q \in g.all /\ q \in g.std /\ \A y \in beyond : y \in g.all => Len(y) <= Len(q)
  BY DEF Blocked
<1>17. mentions(p) # {} <=> p \in g.all
  BY <1>11
<1> HIDE DEF mentions, is, isArray, dotted, known, beyond
<1>18. Contradicts(e, j) <=>
         \/ \E q \in Above(p) : is(q, "keyvalue")
         \/ /\ kind = "std" /\ mentions(p) # {}
            /\ is(p, "std") \/ isArray(p) \/ e[Min(mentions(p))].kind = "keyvalue"
         \/ kind = "array" /\ mentions(p) # {} /\ ~isArray(p)
         \/ /\ kind = "keyvalue"
            /\ \/ mentions(p) # {}
               \/ \E q \in dotted : isArray(q)
               \/ \E q \in known : is(q, "std") /\ \A y \in known : Len(y) <= Len(q)
  BY <1>7, <1>9
<1>19. Contradicts(e, j) <=> Clash(g, kind, p, s.header)
  BY <1>12, <1>13, <1>14, <1>15, <1>16, <1>17, <1>18 DEF Clash
<1> QED
  BY <1>19 DEF e, j, g

-----------------------------------------------------------------------------
(* The tree and the ledger *)

(***************************************************************************)
(* The tree t has a datum for each place that is mentioned, of the type    *)
(* and with the flags that the lines say.  What an array's element was     *)
(* made by does not show in it.                                            *)
(***************************************************************************)
DrawnAs(d, q, g) ==
  /\ d.type \in {"table", "array", "int64"} /\ "INLINED" \notin d.flag
  /\ d.type = "int64" <=> q \in g.val
  /\ d.type = "array" <=> q \in g.arr
  /\ "EXPLICIT" \in d.flag <=> q \in g.std
MadeBy(d, q, g) ==
  /\ "STDEXPR" \in d.flag <=> d.type = "table" /\ q \in g.hdr
  /\ q \in g.val => q \notin g.hdr
Drawn(t, g) ==
  /\ DOMAIN t = g.all /\ g.val \subseteq g.all /\ g.std \subseteq g.all /\ g.arr \subseteq g.all /\ g.hdr \subseteq g.all
  /\ \A q \in DOMAIN t : DrawnAs(t[q], q, g)
  /\ \A q \in DOMAIN t \ {<<>>} : t[Front(q)].type = "table" => MadeBy(t[q], q, g)

\* Every array but those of X has an element to enter.
Entered(t, X) == \A q \in DOMAIN t \ X : t[q].type = "array" => IsTable(t, Enter(t, q))

\* h says of q what d is, and the same as g of everything else.
Same(g, h, q) ==
  /\ q \in h.val <=> q \in g.val
  /\ q \in h.std <=> q \in g.std
  /\ q \in h.arr <=> q \in g.arr
  /\ q \in h.hdr <=> q \in g.hdr
Suits(g, h, q, d) ==
  /\ h.all = g.all \cup {q} /\ h.val \subseteq h.all /\ h.std \subseteq h.all /\ h.arr \subseteq h.all /\ h.hdr \subseteq h.all
  /\ \A x \in g.all : Same(g, h, x)
  /\ DrawnAs(d, q, h)

LEMMA SameDrawn ==
  ASSUME NEW g, NEW h, NEW q, Same(g, h, q), NEW d
  PROVE  (DrawnAs(d, q, g) => DrawnAs(d, q, h)) /\ (MadeBy(d, q, g) => MadeBy(d, q, h))
BY DEF Same, DrawnAs, MadeBy

LEMMA ParentIn ==
  ASSUME NEW t \in Tree, Rooted(t), NEW q \in DOMAIN t, q # <<>>
  PROVE  Front(q) \in DOMAIN t /\ q \in Seq(Parts)
<1>1. q \in Seq(Parts)
  BY TreeFacts DEF Tree
<1>2. Front(q) \in Above(q)
  <2>1. Front(q) \in Seq(Parts) /\ Last(q) \in Parts /\ q = Append(Front(q), Last(q))
    BY <1>1, ParentOf
  <2>2. Above(Append(Front(q), Last(q))) = Upto(Front(q))
    BY <2>1, UptoChild
  <2> QED
    BY <2>1, <2>2 DEF Upto
<1> QED
  BY <1>1, <1>2 DEF Rooted

\* One datum more.
LEMMA DrawnMore ==
  ASSUME NEW t \in Tree, Rooted(t), NEW g, Drawn(t, g), NEW p \in DOMAIN t, NEW k \in Parts, Append(p, k) \notin DOMAIN t,
         NEW u, NEW d, OneMore(t, u, p, k, d), NEW h, Suits(g, h, Append(p, k), d),
         t[p].type = "table" => MadeBy(d, Append(p, k), h)
  PROVE  Drawn(u, h)
<1> DEFINE q0 == Append(p, k)
<1>1. p \in Seq(Parts)
  BY TreeFacts DEF Tree
<1>2. Front(q0) = p
  BY <1>1, FrontOfChild
<1> HIDE DEF q0
<1>3. /\ \A q : q \in DOMAIN u <=> (q \in DOMAIN t \/ q = q0)
      /\ u[q0] = d /\ \A q \in DOMAIN t : u[q] = t[q]
  BY DEF OneMore, q0
<1>4. /\ h.all = g.all \cup {q0} /\ h.val \subseteq h.all /\ h.std \subseteq h.all /\ h.arr \subseteq h.all /\ h.hdr \subseteq h.all
      /\ (\A x \in g.all : Same(g, h, x)) /\ DrawnAs(d, q0, h)
  BY DEF Suits, q0
<1>5. /\ DOMAIN t = g.all /\ (\A q \in DOMAIN t : DrawnAs(t[q], q, g))
      /\ \A q \in DOMAIN t \ {<<>>} : t[Front(q)].type = "table" => MadeBy(t[q], q, g)
  BY DEF Drawn
<1>6. DOMAIN u = h.all
  BY <1>3, <1>4, <1>5
<1>7. ASSUME NEW q \in DOMAIN u PROVE DrawnAs(u[q], q, h)
  <2>1. CASE q = q0
    BY <1>3, <1>4, <2>1
  <2>2. CASE q \in DOMAIN t
    <3>1. DrawnAs(t[q], q, g) /\ Same(g, h, q) /\ u[q] = t[q]
      BY <1>3, <1>4, <1>5, <2>2
    <3> QED
      BY <3>1, SameDrawn
  <2> QED
    BY <1>3, <2>1, <2>2
<1>8. ASSUME NEW q \in DOMAIN u \ {<<>>}, u[Front(q)].type = "table" PROVE MadeBy(u[q], q, h)
  <2>1. CASE q = q0
    BY <1>2, <1>3, <1>8, <2>1 DEF q0
  <2>2. CASE q \in DOMAIN t
    <3>1. Front(q) \in DOMAIN t
      BY <1>8, <2>2, ParentIn
    <3>2. MadeBy(t[q], q, g)
      BY <1>3, <1>5, <1>8, <2>2, <3>1
    <3>3. Same(g, h, q) /\ u[q] = t[q]
      BY <1>3, <1>4, <1>5, <2>2
    <3> QED
      BY <3>2, <3>3, SameDrawn
  <2> QED
    BY <1>3, <1>8, <2>1, <2>2
<1> QED
  BY <1>4, <1>6, <1>7, <1>8 DEF Drawn

\* Another ledger that says the same.
LEMMA DrawnAlso ==
  ASSUME NEW t \in Tree, Rooted(t), NEW g, Drawn(t, g), NEW h,
         h.all = g.all, h.val = g.val, h.std = g.std, h.arr = g.arr, h.hdr = g.hdr
  PROVE  Drawn(t, h)
<1>1. \A q : Same(g, h, q)
  BY DEF Same
<1> QED
  BY <1>1, SameDrawn DEF Drawn

\* The flag of a [header].
LEMMA DrawnFlag ==
  ASSUME NEW t \in Tree, Rooted(t), NEW g, Drawn(t, g), NEW p \in DOMAIN t, NEW h,
         h.all = g.all, h.val = g.val, h.std = g.std \cup {p}, h.arr = g.arr, h.hdr = g.hdr
  PROVE  Drawn(set_flag(t, p, "EXPLICIT"), h)
<1> DEFINE u == set_flag(t, p, "EXPLICIT")
           e == [t[p] EXCEPT !.flag = @ \cup {"EXPLICIT"}]
<1>1. DOMAIN u = DOMAIN t
  BY SetFlagGrows DEF Tree, Flags
<1>2. t \in [DOMAIN t -> Data(Nat)]
  BY TreeFacts DEF Tree
<1>3. t[p] \in Data(Nat)
  BY <1>2
<1>4. \A q \in DOMAIN t : u[q] = IF q = p THEN e ELSE t[q]
  BY DEF set_flag
<1>5. e.type = t[p].type /\ e.flag = t[p].flag \cup {"EXPLICIT"}
  BY <1>3 DEF Data
<1> HIDE DEF u, e
<1>6. \A q \in DOMAIN t : /\ u[q].type = t[q].type
                          /\ "STDEXPR" \in u[q].flag <=> "STDEXPR" \in t[q].flag
                          /\ "INLINED" \in u[q].flag <=> "INLINED" \in t[q].flag
                          /\ "EXPLICIT" \in u[q].flag <=> "EXPLICIT" \in t[q].flag \/ q = p
  <2> SUFFICES ASSUME NEW q \in DOMAIN t
               PROVE  /\ u[q].type = t[q].type
                      /\ "STDEXPR" \in u[q].flag <=> "STDEXPR" \in t[q].flag
                      /\ "INLINED" \in u[q].flag <=> "INLINED" \in t[q].flag
                      /\ "EXPLICIT" \in u[q].flag <=> "EXPLICIT" \in t[q].flag \/ q = p
    OBVIOUS
  <2>1. CASE q = p
    BY <1>4, <1>5, <2>1
  <2>2. CASE q # p
    BY <1>4, <2>2
  <2> QED
    BY <2>1, <2>2
<1>7. /\ DOMAIN t = g.all /\ g.val \subseteq g.all /\ g.std \subseteq g.all /\ g.arr \subseteq g.all /\ g.hdr \subseteq g.all
      /\ (\A q \in DOMAIN t : DrawnAs(t[q], q, g))
      /\ \A q \in DOMAIN t \ {<<>>} : t[Front(q)].type = "table" => MadeBy(t[q], q, g)
  BY DEF Drawn
<1>8. \A q \in DOMAIN u : DrawnAs(u[q], q, h)
  <2> SUFFICES ASSUME NEW q \in DOMAIN t PROVE DrawnAs(u[q], q, h)
    BY <1>1
  <2>1. DrawnAs(t[q], q, g)
    BY <1>7
  <2> QED
    BY <1>6, <2>1 DEF DrawnAs
<1>9. ASSUME NEW q \in DOMAIN u \ {<<>>}, u[Front(q)].type = "table" PROVE MadeBy(u[q], q, h)
  <2>1. q \in DOMAIN t /\ Front(q) \in DOMAIN t
    BY <1>1, <1>9, ParentIn
  <2>2. MadeBy(t[q], q, g)
    BY <1>6, <1>7, <1>9, <2>1
  <2> QED
    BY <1>6, <2>1, <2>2 DEF MadeBy
<1>10. Drawn(u, h)
  <2>1. DOMAIN u = h.all /\ h.val \subseteq h.all /\ h.std \subseteq h.all /\ h.arr \subseteq h.all /\ h.hdr \subseteq h.all
    BY <1>1, <1>7
  <2> QED
    BY <1>8, <1>9, <2>1 DEF Drawn
<1> QED
  BY <1>10 DEF u

\* What a pointer enters when the tree has one entry more.
LEMMA EnteredEntry ==
  ASSUME NEW t \in Tree, Rooted(t), NEW p \in DOMAIN t, t[p].type = "table", NEW k \in Parts, Append(p, k) \notin DOMAIN t,
         NEW u, NEW d, OneMore(t, u, p, k, d), Entered(t, {}), NEW X, d.type = "array" => Append(p, k) \in X
  PROVE  Entered(u, X)
<1> DEFINE q0 == Append(p, k)
<1>1. DOMAIN t \subseteq Seq(Parts) /\ p \in Seq(Parts)
  BY TreeFacts DEF Tree
<1>2. /\ u \in Tree /\ (\A q : q \in DOMAIN u <=> (q \in DOMAIN t \/ q = q0))
      /\ u[q0] = d /\ \A q \in DOMAIN t : u[q] = t[q]
  BY DEF OneMore
<1>3. \A y \in Seq(Parts) : y # p => size(u, y) = size(t, y)
  BY <1>1, <1>2, SizeOneMore
<1> HIDE DEF q0
<1> SUFFICES ASSUME NEW q \in DOMAIN u, q \notin X, u[q].type = "array" PROVE IsTable(u, Enter(u, q))
  BY DEF Entered
<1>4. q # q0
  BY <1>2 DEF q0
<1>5. q \in DOMAIN t /\ t[q].type = "array" /\ u[q] = t[q] /\ q \in Seq(Parts) /\ q # p
  BY <1>1, <1>2, <1>4
<1>6. IsTable(t, Enter(t, q))
  BY <1>5 DEF Entered
<1>7. Enter(u, q) = Enter(t, q)
  BY <1>3, <1>5 DEF Enter
<1> QED
  BY <1>2, <1>6, <1>7 DEF IsTable

\* The new element of an array is the one to enter.
LEMMA EnteredElement ==
  ASSUME NEW t \in Tree, NEW p \in DOMAIN t, t[p].type = "array", NEW n, n = size(t, p) + 1, Append(p, n) \notin DOMAIN t,
         NEW u, NEW d, OneMore(t, u, p, n, d), d.type = "table", Entered(t, {p})
  PROVE  Entered(u, {})
<1> DEFINE q0 == Append(p, n)
<1>1. DOMAIN t \subseteq Seq(Parts) /\ p \in Seq(Parts)
  BY TreeFacts DEF Tree
<1>2. /\ u \in Tree /\ (\A q : q \in DOMAIN u <=> (q \in DOMAIN t \/ q = q0))
      /\ u[q0] = d /\ \A q \in DOMAIN t : u[q] = t[q]
  BY DEF OneMore
<1>3. n \in Parts
  BY <1>1, SizeKids, PartsNat
<1>4. size(u, p) = n /\ \A y \in Seq(Parts) : y # p => size(u, y) = size(t, y)
  BY <1>1, <1>2, <1>3, SizeOneMore
<1> HIDE DEF q0
<1> SUFFICES ASSUME NEW q \in DOMAIN u, u[q].type = "array" PROVE IsTable(u, Enter(u, q))
  BY DEF Entered
<1>5. q \in DOMAIN t /\ t[q].type = "array" /\ u[q] = t[q] /\ q \in Seq(Parts)
  BY <1>1, <1>2
<1>6. CASE q = p
  <2>1. Enter(u, q) = q0
    BY <1>4, <1>6 DEF Enter, q0
  <2> QED
    BY <1>2, <2>1 DEF IsTable
<1>7. CASE q # p
  <2>1. IsTable(t, Enter(t, q))
    BY <1>5, <1>7 DEF Entered
  <2>2. Enter(u, q) = Enter(t, q)
    BY <1>4, <1>5, <1>7 DEF Enter
  <2> QED
    BY <1>2, <2>1, <2>2 DEF IsTable
<1> QED
  BY <1>6, <1>7

LEMMA EnteredFlag ==
  ASSUME NEW t \in Tree, NEW p \in DOMAIN t, Entered(t, {})
  PROVE  Entered(set_flag(t, p, "EXPLICIT"), {})
<1> DEFINE u == set_flag(t, p, "EXPLICIT")
           e == [t[p] EXCEPT !.flag = @ \cup {"EXPLICIT"}]
<1>1. DOMAIN u = DOMAIN t
  BY SetFlagGrows DEF Tree, Flags
<1>2. t \in [DOMAIN t -> Data(Nat)]
  BY TreeFacts DEF Tree
<1>3. t[p] \in Data(Nat)
  BY <1>2
<1>4. \A q \in DOMAIN t : u[q] = IF q = p THEN e ELSE t[q]
  BY DEF set_flag
<1>5. e.type = t[p].type
  BY <1>3 DEF Data
<1> HIDE DEF u, e
<1>6. \A q \in DOMAIN t : u[q].type = t[q].type
  BY <1>4, <1>5
<1>7. \A q : size(u, q) = size(t, q)
  BY <1>1 DEF size
<1>8. ASSUME NEW q \in DOMAIN u, u[q].type = "array" PROVE IsTable(u, Enter(u, q))
  <2>1. IsTable(t, Enter(t, q)) /\ Enter(u, q) = Enter(t, q)
    BY <1>1, <1>6, <1>7, <1>8 DEF Entered, Enter
  <2> QED
    BY <1>1, <1>6, <2>1 DEF IsTable
<1>9. Entered(u, {})
  BY <1>8 DEF Entered
<1> QED
  BY <1>9 DEF u

\* Where a part of a key leads to from a table.
LEMMA EntryTypes ==
  ASSUME NEW t \in Tree, Rooted(t), NEW g, Drawn(t, g), Entered(t, {}), NEW q \in DOMAIN t
  PROVE  \/ t[q].type = "int64" /\ q \in g.val /\ ~IsTable(t, Enter(t, q)) /\ Enter(t, q) = q
         \/ t[q].type = "table" /\ IsTable(t, Enter(t, q)) /\ Enter(t, q) = q
         \/ t[q].type = "array" /\ q \in g.arr /\ IsTable(t, Enter(t, q)) /\ Enter(t, q) = Append(q, size(t, q))
<1>1. t[q].type \in {"table", "array", "int64"} /\ (t[q].type = "int64" <=> q \in g.val) /\ (t[q].type = "array" <=> q \in g.arr)
  BY DEF Drawn, DrawnAs
<1>2. t[q].type = "array" => IsTable(t, Enter(t, q))
  BY DEF Entered
<1> QED
  BY <1>1, <1>2 DEF Enter, IsTable

-----------------------------------------------------------------------------
(* The way of a header *)

\* The ledger when the places P have been passed, by a header or a dotted key.
Passed(g, P, header) ==
  [all |-> g.all \cup P, val |-> g.val, std |-> g.std, arr |-> g.arr,
   hdr |-> IF header THEN g.hdr \cup (P \ g.all) ELSE g.hdr]

LEMMA PassedIs ==
  ASSUME NEW g, NEW P, NEW c
  PROVE  /\ Passed(g, P, c).all = g.all \cup P /\ Passed(g, P, c).val = g.val /\ Passed(g, P, c).std = g.std
         /\ Passed(g, P, c).arr = g.arr /\ Passed(g, P, c).hdr = IF c THEN g.hdr \cup (P \ g.all) ELSE g.hdr
BY DEF Passed

\* tab_add refuses an entry that is there as contradictory, and no other.
LEMMA TabRefused ==
  ASSUME NEW t, NEW p, NEW k, NEW sub
  PROVE  tab_add(t, p, k, sub).err = "conflict" <=> Append(p, k) \in DOMAIN t
BY DEF tab_add, tab_find, Refuse, Result

LEMMA RefusedIs == \A e : Refuse(e).err = e /\ (e # "" => ~Fine(Refuse(e)))
BY DEF Refuse, Fine

\* h has the place q more, of a table that is made with the flags F.
WithTable(g, h, q, F) ==
  /\ h.all = g.all \cup {q} /\ h.val = g.val /\ h.std = g.std /\ h.arr = g.arr
  /\ h.hdr = IF "STDEXPR" \in F THEN g.hdr \cup {q} ELSE g.hdr

MakerFlags(F) == F \subseteq {"STDEXPR"}

\* A new table of a table, marked if a header makes it.
LEMMA TableDrawn ==
  ASSUME NEW t \in Tree, Rooted(t), NEW g, Drawn(t, g), Entered(t, {}), NEW p, IsTable(t, p), NEW k \in Parts,
         NEW F, MakerFlags(F), NEW r, r = tab_add(t, p, k, NewTable(F)), Fine(r),
         NEW h, WithTable(g, h, Append(p, k), F)
  PROVE  r.p = Append(p, k) /\ Append(p, k) \notin DOMAIN t /\ Drawn(r.t, h) /\ Entered(r.t, {})
<1> DEFINE d == mkdatum("table", F, 0)
           q == Append(p, k)
<1>1. d \in Data(Nat) /\ d.type = "table" /\ d.flag = F
  BY DEF mkdatum, Data, Types, Flags, MakerFlags
<1>2. NewTable(F) = Single(d)
  BY DEF NewTable
<1> HIDE DEF d
<1>3. p \in Seq(Parts) /\ p \in DOMAIN t /\ t[p].type = "table"
  BY TreeFacts DEF IsTable, Tree
<1>4. r = tab_add(t, p, k, Single(d)) /\ Fine(tab_add(t, p, k, Single(d)))
  BY <1>2
<1>5. q \notin DOMAIN t /\ r.p = q /\ OneMore(t, r.t, p, k, d)
  BY <1>1, <1>3, <1>4, TabAdded
<1> HIDE DEF q
<1>6. /\ DOMAIN t = g.all /\ g.val \subseteq g.all /\ g.std \subseteq g.all /\ g.arr \subseteq g.all
      /\ g.hdr \subseteq g.all
      /\ h.all = g.all \cup {q} /\ h.val = g.val /\ h.std = g.std /\ h.arr = g.arr
      /\ h.hdr = IF "STDEXPR" \in F THEN g.hdr \cup {q} ELSE g.hdr
  BY DEF Drawn, WithTable, q
<1>7. q \notin h.val /\ q \notin h.std /\ q \notin h.arr
  BY <1>5, <1>6
<1>8. "INLINED" \notin F /\ "EXPLICIT" \notin F
  BY DEF MakerFlags
<1>9. DrawnAs(d, q, h)
  BY <1>1, <1>7, <1>8 DEF DrawnAs
<1>10. \A x \in g.all : Same(g, h, x)
  BY <1>5, <1>6 DEF Same, q
<1>11. Suits(g, h, q, d)
  BY <1>6, <1>9, <1>10 DEF Suits, q
<1>12. MadeBy(d, q, h)
  BY <1>1, <1>5, <1>6, <1>7 DEF MadeBy, q
<1>13. Drawn(r.t, h)
  BY <1>3, <1>5, <1>11, <1>12, DrawnMore DEF q
<1>14. Entered(r.t, {})
  BY <1>1, <1>3, <1>5, EnteredEntry DEF q
<1> QED
  BY <1>5, <1>13, <1>14 DEF q

(***************************************************************************)
(* One part of a header's key is refused only at a value, and what it      *)
(* makes is what the header mentions (tomlc17.c:1299-1370).                *)
(***************************************************************************)
LEMMA PartDrawn ==
  ASSUME NEW s \in Reading, NEW b, Shape(b.t, s), IsTable(b.t, b.p), Fine(b), NEW g, NEW h,
         h = Passed(g, Upto(b.p), TRUE), Drawn(b.t, h), Entered(b.t, {}), NEW k \in Parts, NEW from,
         NEW caller \in {"std", "array"}, NEW r, r = descend_part(b, from, k, caller)
  PROVE  /\ r.err = "conflict" => Append(b.p, k) \in g.val
         /\ Fine(r) => Drawn(r.t, Passed(g, Upto(r.p), TRUE)) /\ Entered(r.t, {})
<1> DEFINE q == Append(b.p, k)
           t == b.t
<1>1. t \in Tree /\ Rooted(t) /\ b.p \in Seq(Parts) /\ b.err = ""
  <2>1. t \in Tree /\ Rooted(t)
    BY DEF Shape
  <2>2. b.p \in Seq(Parts)
    BY <2>1, TreeFacts DEF IsTable, Tree
  <2> QED
    BY <2>1, <2>2 DEF Fine
<1>2. q \in Seq(Parts) /\ q \notin Upto(b.p) /\ Upto(q) = Upto(b.p) \cup {q}
  BY <1>1, UptoChild
<1>3. /\ h.all = g.all \cup Upto(b.p) /\ h.val = g.val /\ h.std = g.std /\ h.arr = g.arr
      /\ h.hdr = g.hdr \cup (Upto(b.p) \ g.all)
  BY PassedIs
<1>4. /\ DOMAIN t = h.all /\ DOMAIN t \subseteq Seq(Parts)
  BY <1>1, TreeFacts DEF Drawn, Tree
<1> DEFINE new == {"STDEXPR"}
<1>5. r = IF q \in DOMAIN t
          THEN IF IsTable(t, Enter(t, q)) /\ MayEnter(caller, t, q) THEN Result(t, Enter(t, q)) ELSE Refuse("conflict")
          ELSE IF MayAdd(caller, t, from, b.p) THEN tab_add(t, b.p, k, NewTable(new)) ELSE Refuse("conflict")
  BY <1>1 DEF descend_part, tab_find
<1> HIDE DEF q, t, new
<1>6. CASE q \in DOMAIN t
  <2>1. MayEnter(caller, t, q)
    <3>1. ~Has(t, q, "INLINED")
      BY <1>6 DEF Drawn, DrawnAs, Has, t
    <3> QED
      BY <3>1 DEF MayEnter
  <2>2. \/ q \in h.val /\ ~IsTable(t, Enter(t, q))
        \/ IsTable(t, Enter(t, q)) /\ (Enter(t, q) = q \/ Enter(t, q) = Append(q, size(t, q)))
    BY <1>1, <1>6, EntryTypes DEF t
  <2>3. CASE q \in h.val /\ ~IsTable(t, Enter(t, q))
    <3>1. r = Refuse("conflict")
      BY <1>5, <1>6, <2>3
    <3>2. r.err = "conflict" /\ ~Fine(r)
      BY <3>1, RefusedIs
    <3>3. Append(b.p, k) \in g.val
      BY <1>3, <2>3 DEF q
    <3> QED
      BY <3>2, <3>3
  <2>4. CASE IsTable(t, Enter(t, q)) /\ (Enter(t, q) = q \/ Enter(t, q) = Append(q, size(t, q)))
    <3> DEFINE e == Enter(t, q)
    <3>1. r = Result(t, e)
      BY <1>5, <1>6, <2>1, <2>4
    <3>2. Fine(r) /\ r.t = t /\ r.p = e
      <4> HIDE DEF e
      <4> QED
        BY <3>1, FineResult
    <3>3. e \in DOMAIN t
      BY <2>4 DEF IsTable
    <3>4. Upto(e) = Upto(b.p) \cup {q, e}
      <4>1. size(t, q) \in Parts
        BY <1>1, <1>2, SizeKids, PartsNat DEF t
      <4>2. Upto(Append(q, size(t, q))) = Upto(q) \cup {Append(q, size(t, q))}
        BY <1>2, <4>1, UptoChild
      <4> QED
        BY <1>2, <2>4, <4>2
    <3> HIDE DEF e
    <3> DEFINE h1 == Passed(g, Upto(e), TRUE)
    <3>5. /\ h1.all = g.all \cup Upto(e) /\ h1.val = g.val /\ h1.std = g.std /\ h1.arr = g.arr
          /\ h1.hdr = g.hdr \cup (Upto(e) \ g.all)
      BY PassedIs
    <3> HIDE DEF h1
    <3>6. h1.all = h.all /\ h1.hdr = h.hdr
      <4>1. q \in g.all \cup Upto(b.p) /\ e \in g.all \cup Upto(b.p)
        BY <1>3, <1>4, <1>6, <3>3
      <4>2. g.all \cup Upto(e) = g.all \cup Upto(b.p)
        BY <3>4, <4>1
      <4>3. Upto(e) \ g.all = Upto(b.p) \ g.all
        BY <3>4, <4>1
      <4> QED
        BY <1>3, <3>5, <4>2, <4>3
    <3>7. Drawn(t, h1)
      <4>1. h1.val = h.val /\ h1.std = h.std /\ h1.arr = h.arr
        BY <1>3, <3>5
      <4>2. Drawn(t, h)
        BY DEF t
      <4> QED
        BY <1>1, <3>6, <4>1, <4>2, DrawnAlso
    <3>8. r.err # "conflict"
      BY <3>2 DEF Fine
    <3> QED
      BY <3>2, <3>7, <3>8 DEF h1, t
  <2> QED
    BY <2>2, <2>3, <2>4
<1>7. CASE q \notin DOMAIN t
  <2>1. MayAdd(caller, t, from, b.p)
    BY DEF MayAdd
  <2>2. r = tab_add(t, b.p, k, NewTable(new))
    BY <1>5, <1>7, <2>1
  <2>3. r.err # "conflict"
    BY <1>7, <2>2, TabRefused DEF q
  <2>4. ASSUME Fine(r) PROVE Drawn(r.t, Passed(g, Upto(r.p), TRUE)) /\ Entered(r.t, {})
    <3> DEFINE h1 == Passed(g, Upto(q), TRUE)
    <3>1. /\ h1.all = g.all \cup Upto(q) /\ h1.val = g.val /\ h1.std = g.std /\ h1.arr = g.arr
          /\ h1.hdr = g.hdr \cup (Upto(q) \ g.all)
      BY PassedIs
    <3> HIDE DEF h1
    <3>2. /\ h1.all = h.all \cup {q} /\ h1.val = h.val /\ h1.std = h.std /\ h1.arr = h.arr
          /\ h1.hdr = h.hdr \cup {q}
      BY <1>2, <1>3, <1>4, <1>7, <3>1
    <3>3. MakerFlags(new) /\ "STDEXPR" \in new
      BY DEF new, MakerFlags
    <3>4. r.p = q /\ Drawn(r.t, h1) /\ Entered(r.t, {})
      <4>1. t \in Tree /\ Rooted(t) /\ Drawn(t, h) /\ Entered(t, {}) /\ IsTable(t, b.p)
        BY <1>1 DEF t
      <4>2. WithTable(h, h1, Append(b.p, k), new)
        BY <3>2, <3>3 DEF q, WithTable
      <4>3. b.p \in Seq(Parts) /\ t \in Tree /\ Rooted(t)
        BY <1>1 DEF t
      <4>5. Drawn(t, h) /\ Entered(t, {}) /\ IsTable(t, b.p)
        BY <4>1
      <4> DEFINE p == b.p
      <4>6. IsTable(t, p) /\ r = tab_add(t, p, k, NewTable(new)) /\ WithTable(h, h1, Append(p, k), new)
        BY <4>2, <2>2, <4>5
      <4> HIDE DEF p
      <4>7. MakerFlags(new) /\ Fine(r)
        BY <2>4, <3>3
      <4>8. r.p = Append(p, k) /\ Drawn(r.t, h1) /\ Entered(r.t, {})
        BY ONLY TableDrawn, k \in Parts, <4>3, <4>5, <4>6, <4>7
      <4>4. r.p = Append(b.p, k) /\ Drawn(r.t, h1) /\ Entered(r.t, {})
        BY <4>8 DEF p
      <4> QED
        BY <4>4 DEF q
    <3> QED
      BY <3>4 DEF h1
  <2> QED
    BY <2>3, <2>4
<1> QED
  BY <1>6, <1>7

\* The way of a header's key goes down, each part below the one before.
LEMMA WayDown ==
  ASSUME NEW s \in Reading, NEW key \in Seq(Parts), NEW n \in Nat, n + 1 <= Len(key), Way(s, key)[n] \in Seq(Parts)
  PROVE  /\ Way(s, key)[n + 1] \in Seq(Parts)
         /\ Upto(Way(s, key)[n]) \subseteq Upto(Way(s, key)[n + 1])
         /\ Append(Way(s, key)[n], key[n + 1]) \in Upto(Way(s, key)[n + 1])
<1> DEFINE w == Way(s, key)[n]
           k == key[n + 1]
           q == Append(w, k)
           e == Elements(s, q)
<1>1. n + 1 \in 1..Len(key) /\ n + 1 - 1 = n /\ k \in Parts /\ Len(key) \in Nat
  OBVIOUS
<1>2. Way(s, key)[n + 1] = Through(s, q)
  BY <1>1, WayDef
<1>3. q \in Seq(Parts) /\ Upto(q) = Upto(w) \cup {q}
  BY <1>1, UptoChild
<1> HIDE DEF w, k, q
<1>4. e \in Nat /\ e \in Parts
  BY <1>3, ElementsNat, PartsNat
<1>5. Append(q, e) \in Seq(Parts) /\ Upto(Append(q, e)) = Upto(q) \cup {Append(q, e)}
  BY <1>3, <1>4, UptoChild
<1>6. Through(s, q) = q \/ Through(s, q) = Append(q, e)
  BY DEF Through
<1> HIDE DEF e
<1>7. Through(s, q) \in Seq(Parts) /\ Upto(w) \subseteq Upto(Through(s, q)) /\ q \in Upto(Through(s, q))
  BY <1>3, <1>5, <1>6
<1> QED
  BY <1>2, <1>7 DEF q, k, w

\* What the descent of a header says of the lines, after n parts.
Ways(r, s, g, key, n) ==
  /\ Way(s, key)[n] \in Seq(Parts)
  /\ r.err = "conflict" => \E q \in Upto(Way(s, key)[n]) : q \in g.val
  /\ Fine(r) => /\ r.p = Way(s, key)[n] /\ Shape(r.t, s) /\ IsTable(r.t, r.p)
                /\ Drawn(r.t, Passed(g, Upto(r.p), TRUE)) /\ Entered(r.t, {})

\* One part more.
LEMMA WaysMore ==
  ASSUME NEW s \in Reading, NEW key \in Seq(Parts), NEW n \in Nat, n + 1 <= Len(key), NEW b, NEW g, Ways(b, s, g, key, n),
         NEW from, NEW caller \in {"std", "array"}, NEW r, r = descend_part(b, from, key[n + 1], caller)
  PROVE  Ways(r, s, g, key, n + 1)
<1> DEFINE W == Way(s, key)
           k == key[n + 1]
<1>0. n + 1 \in 1..Len(key) /\ n + 1 - 1 = n /\ k \in Parts /\ Len(key) \in Nat
  OBVIOUS
<1>1. /\ W[n] \in Seq(Parts)
      /\ b.err = "conflict" => \E q \in Upto(W[n]) : q \in g.val
      /\ Fine(b) => /\ b.p = W[n] /\ Shape(b.t, s) /\ IsTable(b.t, b.p)
                    /\ Drawn(b.t, Passed(g, Upto(b.p), TRUE)) /\ Entered(b.t, {})
  BY DEF Ways
<1>2. W[n + 1] \in Seq(Parts) /\ Upto(W[n]) \subseteq Upto(W[n + 1]) /\ Append(W[n], k) \in Upto(W[n + 1])
  BY <1>1, WayDown
<1>3. W[n + 1] = Through(s, Append(W[n], k))
  BY <1>0, WayDef
<1>4. r = descend_part(b, from, k, caller)
  OBVIOUS
<1> HIDE DEF W, k
<1>5. CASE ~Fine(b)
  <2>1. r = b
    BY <1>4, <1>5 DEF descend_part, Fine
  <2>2. r.err = "conflict" => \E q \in Upto(W[n + 1]) : q \in g.val
    BY <1>1, <1>2, <2>1
  <2> QED
    BY <1>2, <1>5, <2>1, <2>2 DEF Ways, W
<1>6. CASE Fine(b)
  <2> DEFINE h == Passed(g, Upto(b.p), TRUE)
  <2>1. b.p = W[n] /\ Shape(b.t, s) /\ IsTable(b.t, b.p) /\ Drawn(b.t, h) /\ Entered(b.t, {})
    BY <1>1, <1>6
  <2>2. h = Passed(g, Upto(b.p), TRUE)
    OBVIOUS
  <2> HIDE DEF h
  <2>3. /\ r.err = "conflict" => Append(b.p, k) \in g.val
        /\ Fine(r) => Drawn(r.t, Passed(g, Upto(r.p), TRUE)) /\ Entered(r.t, {})
    BY ONLY s \in Reading, caller \in {"std", "array"}, <1>0, <1>4, <1>6, <2>1, <2>2, PartDrawn
  <2>4. Fine(r) => Shape(r.t, s) /\ IsTable(r.t, r.p) /\ r.p = Through(s, Append(b.p, k))
    <3>1. caller \in {"std", "array", "keyvalue"} /\ caller # "keyvalue"
      OBVIOUS
    <3>2. ASSUME Fine(r)
          PROVE  /\ Shape(r.t, s) /\ IsTable(r.t, r.p)
                 /\ caller # "keyvalue" => r.p = Through(s, Append(b.p, k))
                 /\ caller = "keyvalue" => r.p = Append(b.p, k)
      BY ONLY s \in Reading, <1>0, <1>4, <1>6, <2>1, <3>1, <3>2, PartShape
    <3> QED
      BY <3>1, <3>2
  <2>5. r.err = "conflict" => \E q \in Upto(W[n + 1]) : q \in g.val
    BY <1>2, <2>1, <2>3
  <2> QED
    BY <1>2, <1>3, <2>1, <2>3, <2>4, <2>5 DEF Ways, W
<1> QED
  BY <1>5, <1>6

\* The descent of a header's key.
LEMMA HeaderWay ==
  ASSUME NEW s \in Reading, NEW t, Shape(t, s), NEW g, Drawn(t, g), Entered(t, {}), NEW key \in Seq(Parts),
         NEW caller \in {"std", "array"}
  PROVE  Ways(descend_keypart(t, <<>>, key, caller), s, g, key, Len(key))
<1> DEFINE D == Descent(t, <<>>, key, caller)
           S == {n \in Nat : n <= Len(key) => Ways(D[n], s, g, key, n)}
<1>1. Len(key) \in Nat
  OBVIOUS
<1>2. /\ D[0] = Result(t, <<>>)
      /\ \A i \in 1..Len(key) : D[i] = descend_part(D[i - 1], <<>>, key[i], caller)
  BY <1>1, DescentDef
<1>3. Way(s, key)[0] = <<>>
  BY <1>1, WayDef
<1> HIDE DEF D
<1>4. 0 \in S
  <2>1. Fine(D[0]) /\ D[0].t = t /\ D[0].p = <<>>
    BY <1>2, FineResult
  <2>2. D[0].err # "conflict"
    BY <2>1 DEF Fine
  <2>3. IsTable(t, <<>>) /\ <<>> \in Seq(Parts) /\ t \in Tree /\ Rooted(t)
    BY EmptySeq DEF Shape, Rooted, IsTable
  <2>4. Upto(<<>>) = {<<>>}
    <3>1. 0..(Len(<<>>) - 1) = {}
      BY EmptySeq
    <3> QED
      BY <3>1 DEF Upto, Above
  <2> DEFINE h == Passed(g, Upto(<<>>), TRUE)
  <2>5. /\ h.all = g.all \cup Upto(<<>>) /\ h.val = g.val /\ h.std = g.std /\ h.arr = g.arr
        /\ h.hdr = g.hdr \cup (Upto(<<>>) \ g.all)
    BY PassedIs
  <2> HIDE DEF h
  <2>6. <<>> \in g.all
    BY <2>3 DEF Drawn, IsTable
  <2>7. h.all = g.all /\ h.hdr = g.hdr
    BY <2>4, <2>5, <2>6
  <2>8. Drawn(t, h)
    BY <2>3, <2>5, <2>7, DrawnAlso
  <2>9. Ways(D[0], s, g, key, 0)
    BY <1>3, <2>1, <2>2, <2>3, <2>8 DEF Ways, h
  <2> QED
    BY <2>9
<1>5. ASSUME NEW n \in Nat, n \in S PROVE n + 1 \in S
  <2> SUFFICES ASSUME n + 1 <= Len(key) PROVE Ways(D[n + 1], s, g, key, n + 1)
    OBVIOUS
  <2>1. Ways(D[n], s, g, key, n)
    BY <1>1, <1>5
  <2>2. n + 1 \in 1..Len(key) /\ n + 1 - 1 = n
    BY <1>1
  <2>3. D[n + 1] = descend_part(D[n], <<>>, key[n + 1], caller)
    BY <1>2, <2>2
  <2> DEFINE b == D[n]
             r == D[n + 1]
  <2>4. Ways(b, s, g, key, n) /\ r = descend_part(b, <<>>, key[n + 1], caller)
    BY <2>1, <2>3
  <2> HIDE DEF b, r
  <2>5. Ways(r, s, g, key, n + 1)
    BY ONLY s \in Reading, key \in Seq(Parts), n \in Nat, n + 1 <= Len(key), caller \in {"std", "array"}, <2>4, WaysMore
  <2> QED
    BY <2>5 DEF r
<1>6. Nat \subseteq S
  <2> HIDE DEF S
  <2> QED
    BY <1>4, <1>5, NatInd
<1> QED
  BY <1>1, <1>6 DEF descend_keypart, D

\* No value is above a table or an array.
LEMMA NoValueAbove ==
  ASSUME NEW t \in Tree, Rooted(t), NEW g, NEW h, Drawn(t, h), h.val = g.val, NEW p, IsTable(t, p)
  PROVE  \A q \in Upto(p) : q \in DOMAIN t /\ t[q].type \in {"table", "array"} /\ q \notin g.val
<1>1. \A q \in Upto(p) : q \in DOMAIN t /\ t[q].type \in {"table", "array"}
  BY DEF IsTable, Rooted, Upto
<1>2. \A q \in DOMAIN t : t[q].type = "int64" <=> q \in h.val
  BY DEF Drawn, DrawnAs
<1> QED
  BY <1>1, <1>2

\* A table that is there has the flags that the lines say.
LEMMA EntryFlags ==
  ASSUME NEW t \in Tree, Rooted(t), NEW g, Drawn(t, g), NEW p \in Seq(Parts), IsTable(t, p), NEW k \in Parts,
         NEW q, q = Append(p, k), q \in DOMAIN t
  PROVE  /\ (Has(t, q, "EXPLICIT") \/ ~Has(t, q, "STDEXPR")) <=> (q \in g.std \/ q \in g.arr \/ q \notin g.hdr)
         /\ t[q].type = "array" <=> q \in g.arr
         /\ ~Has(t, q, "INLINED")
<1>1. DrawnAs(t[q], q, g)
  BY DEF Drawn
<1>2. MadeBy(t[q], q, g)
  <2>1. Front(q) = p /\ q # <<>>
    BY FrontOfChild, UptoChild
  <2> QED
    BY <2>1 DEF Drawn, IsTable
<1>3. /\ t[q].type \in {"table", "array", "int64"} /\ "INLINED" \notin t[q].flag
      /\ t[q].type = "int64" <=> q \in g.val
      /\ t[q].type = "array" <=> q \in g.arr
      /\ "EXPLICIT" \in t[q].flag <=> q \in g.std
  BY <1>1 DEF DrawnAs
<1>4. ("STDEXPR" \in t[q].flag <=> t[q].type = "table" /\ q \in g.hdr) /\ (q \in g.val => q \notin g.hdr)
  BY <1>2 DEF MadeBy
<1> QED
  BY <1>3, <1>4 DEF Has

\* The way of a header's key, and what is on it.
HeaderCase(d, s, g, p, q) ==
  /\ d.err = "conflict" => \E x \in Above(q) : x \in g.val
  /\ Fine(d) => /\ d.p = p /\ Shape(d.t, s) /\ d.t \in Tree /\ Rooted(d.t) /\ IsTable(d.t, p) /\ Entered(d.t, {})
                /\ Drawn(d.t, Passed(g, Upto(p), TRUE))
                /\ \A x \in Above(q) : x \in DOMAIN d.t /\ x \notin g.val
                /\ q \in DOMAIN d.t <=> q \in g.all

LEMMA HeaderCases ==
  ASSUME NEW s \in Reading, NEW t, Shape(t, s), NEW g, Drawn(t, g), Entered(t, {}), NEW key \in Seq(Parts), key # <<>>,
         NEW caller \in {"std", "array"}, NEW p, p = Way(s, Front(key))[Len(key) - 1]
  PROVE  /\ p \in Seq(Parts) /\ Last(key) \in Parts /\ Named(s, key) = Append(p, Last(key))
         /\ HeaderCase(descend_keypart(t, <<>>, Front(key), caller), s, g, p, Append(p, Last(key)))
<1> DEFINE d == descend_keypart(t, <<>>, Front(key), caller)
           k == Last(key)
           q == Append(p, k)
<1>1. Front(key) \in Seq(Parts) /\ k \in Parts /\ Len(Front(key)) = Len(key) - 1
  BY KeyParts
<1>2. Ways(d, s, g, Front(key), Len(Front(key)))
  BY <1>1, HeaderWay
<1> HIDE DEF d, k
<1>3. /\ p \in Seq(Parts)
      /\ d.err = "conflict" => \E x \in Upto(p) : x \in g.val
      /\ Fine(d) => /\ d.p = p /\ Shape(d.t, s) /\ IsTable(d.t, d.p)
                    /\ Drawn(d.t, Passed(g, Upto(d.p), TRUE)) /\ Entered(d.t, {})
  BY <1>1, <1>2 DEF Ways
<1>4. Above(q) = Upto(p) /\ q \notin Upto(p)
  BY <1>1, <1>3, UptoChild
<1> HIDE DEF q
<1>5. ASSUME Fine(d)
      PROVE  /\ d.p = p /\ Shape(d.t, s) /\ d.t \in Tree /\ Rooted(d.t) /\ IsTable(d.t, p) /\ Entered(d.t, {})
             /\ Drawn(d.t, Passed(g, Upto(p), TRUE))
             /\ \A x \in Above(q) : x \in DOMAIN d.t /\ x \notin g.val
             /\ q \in DOMAIN d.t <=> q \in g.all
  <2> DEFINE h == Passed(g, Upto(p), TRUE)
  <2>1. d.p = p /\ Shape(d.t, s) /\ IsTable(d.t, p) /\ Drawn(d.t, h) /\ Entered(d.t, {})
    BY <1>3, <1>5
  <2>2. d.t \in Tree /\ Rooted(d.t)
    BY <2>1 DEF Shape
  <2>3. h.val = g.val /\ h.all = g.all \cup Upto(p)
    BY PassedIs
  <2> HIDE DEF h
  <2>4. \A x \in Upto(p) : x \in DOMAIN d.t /\ x \notin g.val
    BY <2>1, <2>2, <2>3, NoValueAbove
  <2>5. DOMAIN d.t = h.all
    BY <2>1 DEF Drawn
  <2> QED
    BY <1>4, <2>1, <2>2, <2>3, <2>4, <2>5 DEF h
<1>6. HeaderCase(d, s, g, p, q)
  BY <1>3, <1>4, <1>5 DEF HeaderCase
<1> QED
  BY <1>1, <1>3, <1>6 DEF d, k, q, Named

\* [key] is refused as contradictory exactly if it contradicts the lines (tomlc17.c:1372-1430).
LEMMA StdVerdict ==
  ASSUME NEW s \in Reading, NEW t, Shape(t, s), NEW g, Drawn(t, g), Entered(t, {}), NEW key \in Seq(Parts), key # <<>>,
         NEW r, r = parse_std_table_expr(t, key), NEW h, Noted(g, h, Upto(Named(s, key)), "std", Named(s, key)), NEW base
  PROVE  /\ r.err = "conflict" => Clash(g, "std", Named(s, key), base)
         /\ Fine(r) => ~Clash(g, "std", Named(s, key), base) /\ Drawn(r.t, h) /\ Entered(r.t, {})
<1> DEFINE d == descend_keypart(t, <<>>, Front(key), "std")
           k == Last(key)
           a == IF Append(d.p, k) \in DOMAIN d.t THEN Result(d.t, Append(d.p, k))
                ELSE tab_add(d.t, d.p, k, NewTable({"STDEXPR"}))
           bad == \/ Append(d.p, k) \in DOMAIN d.t /\ (Has(d.t, Append(d.p, k), "EXPLICIT") \/ ~Has(d.t, Append(d.p, k), "STDEXPR"))
                  \/ Append(d.p, k) \notin DOMAIN d.t /\ Has(d.t, d.p, "INLINED")
           p == Way(s, Front(key))[Len(key) - 1]
           q == Append(p, k)
           F == {"STDEXPR"}
<1>1. r = IF d.err # "" THEN d ELSE IF bad THEN Refuse("conflict") ELSE IF a.err # "" THEN a
          ELSE Result(set_flag(a.t, Append(d.p, k), "EXPLICIT"), Append(d.p, k))
  BY DEF parse_std_table_expr
<1>2. p \in Seq(Parts) /\ k \in Parts /\ Named(s, key) = q /\ HeaderCase(d, s, g, p, q)
  BY HeaderCases
<1> HIDE DEF d, k, p
<1>3. /\ Clash(g, "std", q, base) <=> \/ \E x \in Above(q) : x \in g.val
                                      \/ q \in g.all /\ (q \in g.std \/ q \in g.arr \/ q \notin g.hdr)
      /\ Upto(q) = Upto(p) \cup {q} /\ q \notin Upto(p)
  <2>1. Upto(q) = Upto(p) \cup {q} /\ q \notin Upto(p)
    BY <1>2, UptoChild
  <2> QED
    BY <2>1 DEF Clash
<1>4. CASE ~Fine(d)
  <2>1. r = d
    BY <1>1, <1>4 DEF Fine
  <2>2. d.err = "conflict" => \E x \in Above(q) : x \in g.val
    BY <1>2 DEF HeaderCase
  <2> QED
    BY <1>2, <1>3, <1>4, <2>1, <2>2
<1>5. CASE Fine(d)
  <2> DEFINE h1 == Passed(g, Upto(p), TRUE)
  <2>1. /\ d.p = p /\ d.t \in Tree /\ Rooted(d.t) /\ IsTable(d.t, p) /\ Entered(d.t, {}) /\ Drawn(d.t, h1)
        /\ (\A x \in Above(q) : x \in DOMAIN d.t /\ x \notin g.val)
        /\ q \in DOMAIN d.t <=> q \in g.all
    BY <1>2, <1>5 DEF HeaderCase
  <2>2. /\ h1.all = g.all \cup Upto(p) /\ h1.val = g.val /\ h1.std = g.std /\ h1.arr = g.arr
        /\ h1.hdr = g.hdr \cup (Upto(p) \ g.all)
    BY PassedIs
  <2>3. Clash(g, "std", q, base) <=> q \in g.all /\ (q \in g.std \/ q \in g.arr \/ q \notin g.hdr)
    BY <1>3, <2>1
  <2> HIDE DEF h1
  <2>4. DOMAIN d.t = h1.all
    BY <2>1 DEF Drawn
  <2>5. q \in h1.hdr <=> q \in g.hdr
    BY <1>3, <2>2
  <2>6. bad <=> Clash(g, "std", q, base)
    <3>1. CASE q \in DOMAIN d.t
      <4>1. (Has(d.t, q, "EXPLICIT") \/ ~Has(d.t, q, "STDEXPR")) <=> (q \in h1.std \/ q \in h1.arr \/ q \notin h1.hdr)
        BY <1>2, <2>1, <3>1, EntryFlags
      <4> QED
        BY <2>1, <2>2, <2>3, <2>5, <3>1, <4>1
    <3>2. CASE q \notin DOMAIN d.t
      <4>1. ~Has(d.t, p, "INLINED")
        BY <2>1 DEF Drawn, DrawnAs, IsTable, Has
      <4> QED
        BY <2>1, <2>3, <3>2, <4>1
    <3> QED
      BY <3>1, <3>2
  <2>7. a = IF q \in DOMAIN d.t THEN Result(d.t, q) ELSE tab_add(d.t, p, k, NewTable(F))
    BY <2>1
  <2>8. Append(d.p, k) = q
    BY <2>1
  <2> HIDE DEF a, bad, q, F
  <2>9. CASE bad
    <3>1. r = Refuse("conflict")
      BY <1>1, <1>5, <2>9 DEF Fine
    <3>2. r.err = "conflict" /\ ~Fine(r)
      BY <3>1, RefusedIs
    <3> QED
      BY <1>2, <2>6, <2>9, <3>2
  <2>10. CASE ~bad
    <3>1. r = IF a.err # "" THEN a ELSE Result(set_flag(a.t, q, "EXPLICIT"), q)
      BY <1>1, <1>5, <2>8, <2>10 DEF Fine
    <3>2. a.err # "conflict"
      <4>1. CASE q \in DOMAIN d.t
        <5>1. a = Result(d.t, q)
          BY <2>7, <4>1
        <5> QED
          BY <5>1, FineResult DEF Fine
      <4>2. CASE q \notin DOMAIN d.t
        <5>1. a = tab_add(d.t, p, k, NewTable(F)) /\ Append(p, k) \notin DOMAIN d.t
          BY <2>7, <4>2 DEF q
        <5> QED
          BY <5>1, TabRefused
      <4> QED
        BY <4>1, <4>2
    <3>3. r.err # "conflict"
      <4>1. Fine(Result(set_flag(a.t, q, "EXPLICIT"), q))
        BY FineResult
      <4> QED
        BY <3>1, <3>2, <4>1 DEF Fine
    <3>4. ASSUME Fine(r) PROVE Drawn(r.t, h) /\ Entered(r.t, {})
      <4>1. Fine(a) /\ r = Result(set_flag(a.t, q, "EXPLICIT"), q)
        BY <3>1, <3>4 DEF Fine
      <4>2. r.t = set_flag(a.t, q, "EXPLICIT")
        BY <4>1, FineResult
      <4> DEFINE h2 == Passed(g, Upto(q), TRUE)
      <4>3. /\ h2.all = g.all \cup Upto(q) /\ h2.val = g.val /\ h2.std = g.std /\ h2.arr = g.arr
            /\ h2.hdr = g.hdr \cup (Upto(q) \ g.all)
        BY PassedIs
      <4> HIDE DEF h2
      <4>4. a.t \in Tree /\ Rooted(a.t) /\ q \in DOMAIN a.t /\ Drawn(a.t, h2) /\ Entered(a.t, {})
        <5>1. CASE q \in DOMAIN d.t
          <6>1. a.t = d.t
            BY <2>7, <5>1, FineResult
          <6>2. q \in g.all
            BY <2>1, <5>1
          <6>3. h2.all = h1.all /\ h2.hdr = h1.hdr
            BY <1>3, <2>2, <4>3, <6>2
          <6>4. Drawn(d.t, h2)
            BY <2>1, <2>2, <4>3, <6>3, DrawnAlso
          <6> QED
            BY <2>1, <5>1, <6>1, <6>4
        <5>2. CASE q \notin DOMAIN d.t
          <6>1. a = tab_add(d.t, p, k, NewTable(F))
            BY <2>7, <5>2
          <6>2. MakerFlags(F) /\ "STDEXPR" \in F
            BY DEF F, MakerFlags
          <6>3. h2.all = h1.all \cup {q} /\ h2.hdr = h1.hdr \cup {q}
            BY <1>3, <2>1, <2>2, <4>3, <5>2
          <6>4. WithTable(h1, h2, Append(p, k), F)
            BY <2>2, <4>3, <6>2, <6>3 DEF WithTable, q
          <6>5. /\ a.p = Append(p, k) /\ Append(p, k) \notin DOMAIN d.t
                /\ Drawn(a.t, h2) /\ Entered(a.t, {})
            BY ONLY <1>2, <2>1, <4>1, <6>1, <6>2, <6>4, TableDrawn
          <6>6. Shape(d.t, s)
            BY <1>2, <1>5 DEF HeaderCase
          <6>7. F \in SUBSET Flags
            BY DEF F, Flags
          <6>8. a.p = Append(p, k) /\ Shape(a.t, s) /\ IsTable(a.t, a.p)
            BY ONLY s \in Reading, <1>2, <2>1, <4>1, <6>1, <6>6, <6>7, TableMade
          <6> QED
            BY <6>5, <6>8 DEF Shape, IsTable, q
        <5> QED
          BY <5>1, <5>2
      <4>5. /\ h.all = h2.all /\ h.val = h2.val /\ h.std = h2.std \cup {q} /\ h.arr = h2.arr /\ h.hdr = h2.hdr
        BY <1>2, <4>3 DEF Noted
      <4>6. Drawn(r.t, h)
        BY ONLY <4>2, <4>4, <4>5, DrawnFlag
      <4>7. Entered(r.t, {})
        BY ONLY <4>2, <4>4, EnteredFlag
      <4> QED
        BY <4>6, <4>7
    <3> QED
      BY <1>2, <2>6, <2>10, <3>3, <3>4
  <2> QED
    BY <2>9, <2>10
<1> QED
  BY <1>4, <1>5

\* h has the place q more, of an array or of an array's element.
WithArray(g, h, q) ==
  /\ h.all = g.all \cup {q} /\ h.val = g.val /\ h.std = g.std /\ h.arr = g.arr \cup {q}
  /\ h.hdr = g.hdr \cup {q}
WithElement(g, h, q) ==
  /\ h.all = g.all \cup {q} /\ h.val = g.val /\ h.std = g.std /\ h.arr = g.arr
  /\ h.hdr = g.hdr \cup {q}

\* A new array as an entry of a table.
LEMMA ArrayDrawn ==
  ASSUME NEW t \in Tree, Rooted(t), NEW g, Drawn(t, g), Entered(t, {}), NEW p, IsTable(t, p), NEW k \in Parts,
         NEW r, r = tab_add(t, p, k, NewArray), Fine(r), NEW q, q = Append(p, k),
         NEW h, WithArray(g, h, q)
  PROVE  q \notin DOMAIN t /\ Drawn(r.t, h) /\ Entered(r.t, {q})
<1> DEFINE d == mkdatum("array", {}, 0)
<1>1. d \in Data(Nat) /\ d.type = "array" /\ d.flag = {}
  BY DEF mkdatum, Data, Types
<1>2. NewArray = Single(d)
  BY DEF NewArray
<1> HIDE DEF d
<1>3. p \in Seq(Parts) /\ p \in DOMAIN t /\ t[p].type = "table"
  BY TreeFacts DEF IsTable, Tree
<1>4. Fine(tab_add(t, p, k, Single(d))) /\ r = tab_add(t, p, k, Single(d))
  BY <1>2
<1>5. q \notin DOMAIN t /\ OneMore(t, r.t, p, k, d)
  BY <1>1, <1>3, <1>4, TabAdded
<1>6. /\ DOMAIN t = g.all /\ g.val \subseteq g.all /\ g.std \subseteq g.all /\ g.arr \subseteq g.all
      /\ g.hdr \subseteq g.all
      /\ h.all = g.all \cup {q} /\ h.val = g.val /\ h.std = g.std /\ h.arr = g.arr \cup {q} /\ h.hdr = g.hdr \cup {q}
  BY DEF Drawn, WithArray
<1>7. q \notin h.val /\ q \notin h.std /\ q \in h.arr
  BY <1>5, <1>6
<1>8. DrawnAs(d, q, h)
  BY <1>1, <1>7 DEF DrawnAs
<1>9. MadeBy(d, q, h)
  BY <1>1, <1>7 DEF MadeBy
<1>10. \A x \in g.all : Same(g, h, x)
  BY <1>5, <1>6 DEF Same
<1>11. Suits(g, h, q, d)
  BY <1>6, <1>8, <1>10 DEF Suits
<1>12. Suits(g, h, Append(p, k), d) /\ MadeBy(d, Append(p, k), h) /\ Append(p, k) \notin DOMAIN t
  BY <1>5, <1>9, <1>11
<1>13. Drawn(r.t, h)
  BY <1>3, <1>5, <1>12, DrawnMore
<1>14. Entered(r.t, {q})
  <2>1. Append(p, k) \in {q}
    OBVIOUS
  <2> DEFINE X == {q}
  <2>2. Append(p, k) \in X
    BY <2>1
  <2> HIDE DEF X
  <2>3. Entered(r.t, X)
    BY <1>3, <1>5, <1>12, <2>2, EnteredEntry
  <2> QED
    BY <2>3 DEF X
<1> QED
  BY <1>5, <1>13, <1>14

\* One more table at the end of an array.
LEMMA ElementDrawn ==
  ASSUME NEW t \in Tree, Rooted(t), NEW g, Drawn(t, g), NEW q \in DOMAIN t, t[q].type = "array", Entered(t, {q}),
         NEW n, n = size(t, q) + 1, Append(q, n) \notin DOMAIN t,
         NEW r, r = arr_emplace(t, q, NewTable({})), Fine(r), NEW at, at = Append(q, n),
         NEW h, WithElement(g, h, at)
  PROVE  Drawn(r.t, h) /\ Entered(r.t, {})
<1> DEFINE d == mkdatum("table", {}, 0)
<1>1. d.type = "table" /\ d.flag = {}
  BY DEF mkdatum
<1>2. q \in Seq(Parts)
  BY TreeFacts DEF Tree
<1>3. n \in Parts
  BY <1>2, SizeKids, PartsNat
<1>4. OneMore(t, r.t, q, n, d)
  BY <1>2, Emplaced
<1> HIDE DEF d
<1>5. /\ DOMAIN t = g.all /\ g.val \subseteq g.all /\ g.std \subseteq g.all /\ g.arr \subseteq g.all
      /\ g.hdr \subseteq g.all
      /\ h.all = g.all \cup {at} /\ h.val = g.val /\ h.std = g.std /\ h.arr = g.arr /\ h.hdr = g.hdr \cup {at}
  BY DEF Drawn, WithElement
<1>6. at \notin h.val /\ at \notin h.std /\ at \notin h.arr
  BY <1>5
<1>7. DrawnAs(d, at, h)
  BY <1>1, <1>6 DEF DrawnAs
<1>8. \A x \in g.all : Same(g, h, x)
  BY <1>5 DEF Same
<1>9. Suits(g, h, at, d)
  BY <1>5, <1>7, <1>8 DEF Suits
<1>10. Suits(g, h, Append(q, n), d)
  BY <1>9
<1>11. t[q].type = "table" => MadeBy(d, Append(q, n), h)
  OBVIOUS
<1>12. Drawn(r.t, h)
  BY <1>3, <1>4, <1>10, <1>11, DrawnMore
<1>13. Entered(r.t, {})
  BY <1>1, <1>4, EnteredElement
<1> QED
  BY <1>12, <1>13

\* [[key]] (tomlc17.c:1432-1500).
LEMMA ArrayVerdict ==
  ASSUME NEW s \in Reading, NEW t, Shape(t, s), NEW g, Drawn(t, g), Entered(t, {}), NEW key \in Seq(Parts), key # <<>>,
         NEW r, r = parse_array_table_expr(t, key),
         NEW at, at = Append(Named(s, key), Elements(s, Named(s, key)) + 1), NEW h, Noted(g, h, Upto(at), "array", at),
         NEW base
  PROVE  /\ r.err = "conflict" => Clash(g, "array", Named(s, key), base)
         /\ Fine(r) => ~Clash(g, "array", Named(s, key), base) /\ Drawn(r.t, h) /\ Entered(r.t, {})
<1> DEFINE d == descend_keypart(t, <<>>, Front(key), "array")
           k == Last(key)
           a == IF Append(d.p, k) \in DOMAIN d.t THEN Result(d.t, Append(d.p, k)) ELSE tab_add(d.t, d.p, k, NewArray)
           bad == a.t[Append(d.p, k)].type # "array" \/ Has(a.t, Append(d.p, k), "INLINED")
           p == Way(s, Front(key))[Len(key) - 1]
           q == Append(p, k)
<1>1. r = IF d.err # "" THEN d ELSE IF a.err # "" THEN a ELSE IF bad THEN Refuse("conflict")
          ELSE arr_emplace(a.t, Append(d.p, k), NewTable({}))
  BY DEF parse_array_table_expr
<1>2. p \in Seq(Parts) /\ k \in Parts /\ Named(s, key) = q /\ HeaderCase(d, s, g, p, q)
  BY HeaderCases
<1> HIDE DEF d, k, p
<1>3. /\ Clash(g, "array", q, base) <=> \/ \E x \in Above(q) : x \in g.val
                                        \/ q \in g.all /\ q \notin g.arr
      /\ Upto(q) = Upto(p) \cup {q} /\ q \notin Upto(p) /\ q \in Seq(Parts)
  <2>1. Upto(q) = Upto(p) \cup {q} /\ q \notin Upto(p) /\ q \in Seq(Parts)
    BY <1>2, UptoChild
  <2> QED
    BY <2>1 DEF Clash
<1>4. CASE ~Fine(d)
  <2>1. r = d
    BY <1>1, <1>4 DEF Fine
  <2>2. d.err = "conflict" => \E x \in Above(q) : x \in g.val
    BY <1>2 DEF HeaderCase
  <2> QED
    BY <1>2, <1>3, <1>4, <2>1, <2>2
<1>5. CASE Fine(d)
  <2> DEFINE h1 == Passed(g, Upto(p), TRUE)
  <2>1. /\ d.p = p /\ Shape(d.t, s) /\ d.t \in Tree /\ Rooted(d.t) /\ IsTable(d.t, p) /\ Entered(d.t, {}) /\ Drawn(d.t, h1)
        /\ (\A x \in Above(q) : x \in DOMAIN d.t /\ x \notin g.val)
        /\ q \in DOMAIN d.t <=> q \in g.all
    BY <1>2, <1>5 DEF HeaderCase
  <2>2. /\ h1.all = g.all \cup Upto(p) /\ h1.val = g.val /\ h1.std = g.std /\ h1.arr = g.arr
        /\ h1.hdr = g.hdr \cup (Upto(p) \ g.all)
    BY PassedIs
  <2>3. Clash(g, "array", q, base) <=> q \in g.all /\ q \notin g.arr
    BY <1>3, <2>1
  <2> HIDE DEF h1
  <2>4. a = IF q \in DOMAIN d.t THEN Result(d.t, q) ELSE tab_add(d.t, p, k, NewArray)
    BY <2>1
  <2>5. bad = (a.t[q].type # "array" \/ Has(a.t, q, "INLINED")) /\ Append(d.p, k) = q
    BY <2>1
  <2>6. a.err # "conflict"
    <3> HIDE DEF a
    <3>1. CASE q \in DOMAIN d.t
      <4> HIDE DEF q
      <4>1. a = Result(d.t, q)
        BY <2>4, <3>1
      <4> QED
        BY <4>1, FineResult DEF Fine
    <3>2. CASE q \notin DOMAIN d.t
      <4>1. a = tab_add(d.t, p, k, NewArray) /\ Append(p, k) \notin DOMAIN d.t
        BY <2>4, <3>2
      <4> QED
        BY <4>1, TabRefused
    <3> QED
      BY <3>1, <3>2
  <2> HIDE DEF a, bad
  <2>7. CASE ~Fine(a)
    <3>1. r = a
      BY <1>1, <1>5, <2>7 DEF Fine
    <3> QED
      BY <2>6, <2>7, <3>1
  <2>8. CASE Fine(a)
    <3> DEFINE h2 == [all |-> g.all \cup Upto(q), val |-> g.val, std |-> g.std, arr |-> g.arr \cup {q},
                      hdr |-> g.hdr \cup (Upto(q) \ g.all)]
    <3>1. r = IF bad THEN Refuse("conflict") ELSE arr_emplace(a.t, q, NewTable({}))
      BY <1>1, <1>5, <2>5, <2>8 DEF Fine
    <3>2. arr_emplace(a.t, q, NewTable({})).err # "conflict"
      BY DEF arr_emplace, Refuse, Result
    <3>3. /\ h2.all = g.all \cup Upto(q) /\ h2.val = g.val /\ h2.std = g.std /\ h2.arr = g.arr \cup {q}
          /\ h2.hdr = g.hdr \cup (Upto(q) \ g.all)
      OBVIOUS
    <3> HIDE DEF h2
    <3>4. ASSUME q \in DOMAIN d.t
          PROVE  /\ (bad <=> Clash(g, "array", q, base))
                 /\ ~bad => /\ Shape(a.t, s) /\ q \in DOMAIN a.t /\ a.t[q].type = "array" /\ Drawn(a.t, h2)
                            /\ Entered(a.t, {q})
      <4>1. a.t = d.t
        <5> HIDE DEF q
        <5> QED
          BY <2>4, <3>4, FineResult
      <4>2. (d.t[q].type = "array" <=> q \in h1.arr) /\ ~Has(d.t, q, "INLINED")
        BY <1>2, <2>1, <3>4, EntryFlags
      <4> HIDE DEF q
      <4>3. bad <=> Clash(g, "array", q, base)
        BY <2>1, <2>2, <2>3, <2>5, <3>4, <4>1, <4>2
      <4>4. ASSUME ~bad
            PROVE  Shape(a.t, s) /\ q \in DOMAIN a.t /\ a.t[q].type = "array" /\ Drawn(a.t, h2) /\ Entered(a.t, {q})
        <5>1. q \in g.all /\ q \in g.arr
          BY <2>1, <2>3, <3>4, <4>3, <4>4
        <5>2. h2.all = h1.all /\ h2.hdr = h1.hdr /\ h2.arr = h1.arr
          BY <1>3, <2>2, <3>3, <5>1
        <5>3. Drawn(d.t, h2)
          BY <2>1, <2>2, <3>3, <5>2, DrawnAlso
        <5>4. Entered(d.t, {q})
          BY <2>1 DEF Entered
        <5> QED
          BY <2>1, <2>2, <3>4, <4>1, <4>2, <5>1, <5>3, <5>4
      <4> QED
        BY <4>3, <4>4
    <3> HIDE DEF q
    <3>5. ASSUME q \notin DOMAIN d.t
          PROVE  /\ (bad <=> Clash(g, "array", q, base))
                 /\ ~bad => /\ Shape(a.t, s) /\ q \in DOMAIN a.t /\ a.t[q].type = "array" /\ Drawn(a.t, h2)
                            /\ Entered(a.t, {q})
      <4>1. a = tab_add(d.t, p, k, NewArray)
        BY <2>4, <3>5
      <4>2. h2.all = h1.all \cup {q} /\ h2.hdr = h1.hdr \cup {q}
        BY <1>3, <2>1, <2>2, <3>3, <3>5
      <4>3. h2.val = h1.val /\ h2.std = h1.std /\ h2.arr = h1.arr \cup {q}
        BY <2>2, <3>3
      <4>4. q = Append(p, k) /\ WithArray(h1, h2, q)
        BY <4>2, <4>3 DEF q, WithArray
      <4>5. Drawn(a.t, h2) /\ Entered(a.t, {q})
        BY ONLY <1>2, <2>1, <2>8, <4>1, <4>4, ArrayDrawn
      <4>6. a.p = Append(p, k) /\ Shape(a.t, s) /\ a.p \in DOMAIN a.t
        BY ONLY s \in Reading, <1>2, <2>1, <2>8, <4>1, ArrayMade
      <4>7. a.t[q].type = "array" /\ ~Has(a.t, q, "INLINED")
        <5>1. DrawnAs(a.t[q], q, h2)
          BY <4>4, <4>5, <4>6 DEF Drawn
        <5> QED
          BY <3>3, <5>1 DEF DrawnAs, Has
      <4>8. ~bad /\ ~Clash(g, "array", q, base)
        BY <2>1, <2>3, <2>5, <3>5, <4>7
      <4> QED
        BY <4>4, <4>5, <4>6, <4>7, <4>8
    <3>6. bad <=> Clash(g, "array", q, base)
      BY <3>4, <3>5
    <3>7. ~bad => /\ Shape(a.t, s) /\ q \in DOMAIN a.t /\ a.t[q].type = "array" /\ Drawn(a.t, h2)
                  /\ Entered(a.t, {q})
      BY <3>4, <3>5
    <3>8. CASE bad
      <4>1. r = Refuse("conflict")
        BY <3>1, <3>8
      <4>2. r.err = "conflict" /\ ~Fine(r)
        BY <4>1, RefusedIs
      <4> QED
        BY <1>2, <3>6, <3>8, <4>2
    <3>9. CASE ~bad
      <4>1. r = arr_emplace(a.t, q, NewTable({}))
        BY <3>1, <3>9
      <4>2. r.err # "conflict" /\ ~Clash(g, "array", Named(s, key), base)
        BY <1>2, <3>2, <3>6, <3>9, <4>1
      <4>3. ASSUME Fine(r) PROVE Drawn(r.t, h) /\ Entered(r.t, {})
        <5>1. /\ a.t \in Tree /\ Rooted(a.t) /\ q \in DOMAIN a.t /\ a.t[q].type = "array"
              /\ Drawn(a.t, h2) /\ Entered(a.t, {q})
          BY <3>7, <3>9 DEF Shape
        <5> DEFINE n == size(a.t, q) + 1
        <5>2. size(a.t, q) = Elements(s, q) /\ size(a.t, q) \in Nat
          BY <1>3, <3>7, <3>9, <5>1, SizeKids DEF Shape, Counted
        <5>3. n \in Parts /\ n \notin 1..size(a.t, q)
          BY <5>2, PartsNat
        <5>4. Append(q, n) \notin DOMAIN a.t
          BY <3>7, <3>9, <5>1, <5>3 DEF Shape, Numbered
        <5>5. at = Append(q, n)
          BY <1>2, <5>2
        <5>6. n = size(a.t, q) + 1
          OBVIOUS
        <5> HIDE DEF n
        <5>7. Upto(at) = Upto(q) \cup {at} /\ at \notin Upto(q) /\ Front(at) = q
          <6>1. Upto(Append(q, n)) = Upto(q) \cup {Append(q, n)} /\ Append(q, n) \notin Upto(q)
            BY <1>3, <5>3, UptoChild
          <6>2. Front(Append(q, n)) = q
            BY <1>3, <5>3, FrontOfChild
          <6> QED
            BY <5>5, <6>1, <6>2
        <5>8. DOMAIN a.t = h2.all
          BY <5>1 DEF Drawn
        <5>9. /\ h.all = g.all \cup Upto(at) /\ h.val = g.val /\ h.std = g.std /\ h.arr = g.arr \cup {Front(at)}
              /\ h.hdr = g.hdr \cup (Upto(at) \ g.all)
          BY DEF Noted
        <5>10. h.all = h2.all \cup {at} /\ h.hdr = h2.hdr \cup {at}
          <6>1. at \notin g.all
            BY <3>3, <5>4, <5>5, <5>8
          <6>2. Upto(at) \ g.all = (Upto(q) \ g.all) \cup {at}
            BY <5>7, <6>1
          <6>3. h.all = h2.all \cup {at}
            BY <3>3, <5>7, <5>9
          <6>4. h.hdr = h2.hdr \cup {at}
            BY <3>3, <5>9, <6>2
          <6> QED
            BY <6>3, <6>4
        <5>11. h.val = h2.val /\ h.std = h2.std /\ h.arr = h2.arr
          BY <3>3, <5>7, <5>9
        <5>12. WithElement(h2, h, at)
          BY <5>10, <5>11 DEF WithElement
        <5> QED
          BY ONLY <5>1, <5>4, <5>5, <5>6, <5>12, <4>1, <4>3, ElementDrawn
      <4> QED
        BY <4>2, <4>3
    <3> QED
      BY <3>8, <3>9
  <2> QED
    BY <2>7, <2>8
<1> QED
  BY <1>4, <1>5

-----------------------------------------------------------------------------
(* The way of a dotted key *)

\* A dotted key from a table to the place P may not pass q, and it passed those on the way to p.
Stops(g, from, P, q) ==
  /\ Len(q) > Len(from)
  /\ \/ q \in g.val \/ q \in g.arr
     \/ q \in g.all /\ q \in g.std /\ \A x \in Upto(P) : Len(x) > Len(from) /\ x \in g.all => Len(x) <= Len(q)
Passes(g, from, p) ==
  \A q \in Upto(p) : Len(q) > Len(from) =>
    q \notin g.arr /\ (q # p /\ q \in g.std => \E x \in Upto(p) : x \in g.all /\ Len(x) > Len(q))

\* One part leads to a table that is there.
LEMMA PassesOn ==
  ASSUME NEW g, NEW from, NEW p \in Seq(Parts), NEW k \in Parts, Passes(g, from, p), NEW q, q = Append(p, k),
         q \notin g.arr, p \in g.std /\ Len(p) > Len(from) => q \in g.all
  PROVE  Passes(g, from, q)
<1>1. Upto(q) = Upto(p) \cup {q} /\ q \in Seq(Parts)
  BY UptoChild
<1>2. Len(q) = Len(p) + 1 /\ Len(p) \in Nat
  BY AppendProperties
<1> SUFFICES ASSUME NEW x \in Upto(q), Len(x) > Len(from)
             PROVE  x \notin g.arr /\ (x # q /\ x \in g.std => \E y \in Upto(q) : y \in g.all /\ Len(y) > Len(x))
  BY DEF Passes
<1>3. CASE x = q
  BY <1>3
<1>4. CASE x \in Upto(p) /\ x # p
  <2>1. x \notin g.arr /\ (x \in g.std => \E y \in Upto(p) : y \in g.all /\ Len(y) > Len(x))
    BY <1>4 DEF Passes
  <2> QED
    BY <1>1, <2>1
<1>5. CASE x = p /\ x \in Upto(p)
  <2>1. x \notin g.arr
    BY <1>5 DEF Passes
  <2>2. x \in g.std => q \in g.all /\ q \in Upto(q) /\ Len(q) > Len(x)
    BY <1>1, <1>2, <1>5
  <2> QED
    BY <2>1, <2>2
<1> QED
  BY <1>1, <1>3, <1>4, <1>5

\* One part of a dotted key (tomlc17.c:1299-1370).
LEMMA KeyPart ==
  ASSUME NEW s \in Reading, NEW b, Shape(b.t, s), IsTable(b.t, b.p), Fine(b), NEW g, g.std \subseteq g.all, NEW h,
         h = Passed(g, Upto(b.p), FALSE), Drawn(b.t, h), Entered(b.t, {}), NEW from, Passes(g, from, b.p),
         Len(from) \in Nat, b.p = from \/ Len(b.p) > Len(from), NEW k \in Parts, NEW P \in Seq(Parts),
         Append(b.p, k) \in Upto(P), b.p \in Upto(P), NEW r, r = descend_part(b, from, k, "keyvalue")
  PROVE  /\ r.err = "conflict" => \E q \in Upto(P) : Stops(g, from, P, q)
         /\ Fine(r) => /\ Drawn(r.t, Passed(g, Upto(r.p), FALSE)) /\ Entered(r.t, {})
                       /\ Passes(g, from, r.p)
<1> DEFINE p == b.p
           q == Append(p, k)
           t == b.t
           h1 == Passed(g, Upto(q), FALSE)
           F == {}
           may == MayAdd("keyvalue", t, from, p)
<1>1. t \in Tree /\ Rooted(t) /\ p \in Seq(Parts) /\ b.err = "" /\ IsTable(t, p) /\ Drawn(t, h) /\ Entered(t, {})
      /\ Passes(g, from, p) /\ q \in Upto(P) /\ p \in Upto(P) /\ (p = from \/ Len(p) > Len(from))
  <2>1. t \in Tree /\ Rooted(t)
    BY DEF Shape
  <2>2. p \in Seq(Parts)
    BY <2>1, TreeFacts DEF IsTable, Tree
  <2> QED
    BY <2>1, <2>2 DEF Fine
<1>2. q \in Seq(Parts) /\ q \notin Upto(p) /\ Upto(q) = Upto(p) \cup {q} /\ Len(q) = Len(p) + 1 /\ Len(p) \in Nat
  <2>1. q = Append(p, k) /\ p \in Seq(Parts)
    BY <1>1
  <2> HIDE DEF p, q
  <2>2. q \in Seq(Parts) /\ q \notin Upto(p) /\ Upto(q) = Upto(p) \cup {q}
    BY <2>1, UptoChild
  <2>3. Len(Append(p, k)) = Len(p) + 1 /\ Len(p) \in Nat
    BY ONLY <2>1, k \in Parts, AppendProperties
  <2> QED
    BY <2>1, <2>2, <2>3
<1>3. h.all = g.all \cup Upto(p) /\ h.val = g.val /\ h.std = g.std /\ h.arr = g.arr /\ h.hdr = g.hdr
  BY DEF Passed
<1>4. h1.all = g.all \cup Upto(q) /\ h1.val = g.val /\ h1.std = g.std /\ h1.arr = g.arr /\ h1.hdr = g.hdr
  BY DEF Passed
<1> HIDE DEF h1
<1>5. /\ DOMAIN t = h.all /\ DOMAIN t \subseteq Seq(Parts) /\ h.arr \subseteq h.all /\ h.std \subseteq h.all
      /\ "EXPLICIT" \in t[p].flag <=> p \in h.std
  BY <1>1, TreeFacts DEF Drawn, DrawnAs, IsTable, Tree
<1>6. r = IF q \in DOMAIN t
          THEN IF IsTable(t, Enter(t, q)) /\ MayEnter("keyvalue", t, q) THEN Result(t, Enter(t, q)) ELSE Refuse("conflict")
          ELSE IF may THEN tab_add(t, p, k, NewTable(F)) ELSE Refuse("conflict")
  BY <1>1 DEF descend_part, tab_find
<1>7. Len(q) > Len(from)
  <2> HIDE DEF p, q
  <2>1. Len(p) \in Nat /\ Len(from) \in Nat /\ Len(q) = Len(p) + 1 /\ (p = from \/ Len(p) > Len(from))
    BY <1>1, <1>2
  <2>2. Len(p) >= Len(from)
    BY <2>1
  <2> QED
    BY <2>1, <2>2
<1>8. MayEnter("keyvalue", t, q) <=> t[q].type # "array"
  BY DEF MayEnter
<1>9. may <=> p = from \/ p \notin g.std
  BY <1>3, <1>5 DEF MayAdd, Has
<1>10. q = Append(p, k)
  OBVIOUS
<1> HIDE DEF p, q, t, F, may
<1>11. CASE q \in DOMAIN t
  <2>1. q \in g.all
    BY <1>2, <1>3, <1>5, <1>11
  <2>2. \/ t[q].type = "int64" /\ q \in h.val /\ ~IsTable(t, Enter(t, q)) /\ Enter(t, q) = q
        \/ t[q].type = "table" /\ IsTable(t, Enter(t, q)) /\ Enter(t, q) = q
        \/ t[q].type = "array" /\ q \in h.arr /\ IsTable(t, Enter(t, q)) /\ Enter(t, q) = Append(q, size(t, q))
    BY <1>1, <1>11, EntryTypes
  <2>3. CASE t[q].type # "table"
    <3>1. r = Refuse("conflict")
      BY <1>6, <1>8, <1>11, <2>2, <2>3
    <3>2. r.err = "conflict" /\ ~Fine(r)
      BY <3>1, RefusedIs
    <3>3. Stops(g, from, P, q)
      BY <1>3, <1>7, <2>2, <2>3 DEF Stops
    <3> QED
      BY <1>1, <3>2, <3>3
  <2>4. CASE t[q].type = "table"
    <3>1. r = Result(t, q)
      BY <1>6, <1>8, <1>11, <2>2, <2>4
    <3>2. Fine(r) /\ r.t = t /\ r.p = q /\ r.err # "conflict"
      <4>1. Fine(r) /\ r.t = t /\ r.p = q
        BY ONLY <3>1, FineResult
      <4> QED
        BY <4>1 DEF Fine
    <3>3. h1.all = h.all
      BY <1>2, <1>3, <1>4, <2>1
    <3>4. Drawn(t, h1)
      BY <1>1, <1>3, <1>4, <3>3, DrawnAlso
    <3>5. q \notin g.arr
      BY <1>1, <1>3, <1>11, <2>4 DEF Drawn, DrawnAs
    <3>6. Passes(g, from, q)
      BY <1>1, <1>10, <2>1, <3>5, PassesOn
    <3> QED
      BY <1>1, <3>2, <3>4, <3>6 DEF h1
  <2> QED
    BY <2>3, <2>4
<1>12. CASE q \notin DOMAIN t
  <2>1. q \notin g.all /\ q \notin g.arr
    BY <1>3, <1>5, <1>12
  <2>4. t \in Tree /\ Rooted(t) /\ IsTable(t, p) /\ Drawn(t, h) /\ Entered(t, {})
    BY <1>1
  <2>2. CASE ~may
    <3>1. r = Refuse("conflict")
      BY <1>6, <1>12, <2>2
    <3>2. r.err = "conflict" /\ ~Fine(r)
      BY <3>1, RefusedIs
    <3>3. p \in g.std /\ Len(p) > Len(from) /\ p \in DOMAIN t
      BY <1>1, <1>9, <2>2 DEF IsTable
    <3>4. ASSUME NEW x \in Upto(P), x \in g.all PROVE Len(x) <= Len(p)
      <4> SUFFICES ASSUME ~(Len(x) <= Len(p)) PROVE FALSE
        OBVIOUS
      <4>1. x \in Seq(Parts) /\ Len(x) \in Nat
        BY UptoOrder
      <4>2. Len(q) <= Len(x)
        BY <1>2, <4>1
      <4>3. q \in Upto(x)
        BY <1>1, <4>2, UptoOrder
      <4>4. x \in DOMAIN t
        BY <1>3, <1>5, <3>4
      <4>5. q \in DOMAIN t
        BY <1>1, <4>3, <4>4 DEF Rooted, Upto
      <4> QED
        BY <1>12, <4>5
    <3>5. p \in g.all
      BY <3>3
    <3>6. Stops(g, from, P, p)
      BY <3>3, <3>4, <3>5 DEF Stops
    <3> QED
      BY <1>1, <3>2, <3>6
  <2>3. CASE may
    <3>1. r = tab_add(t, p, k, NewTable(F))
      BY <1>6, <1>12, <2>3
    <3>2. r.err # "conflict"
      BY <1>10, <1>12, <3>1, TabRefused
    <3>3. ASSUME Fine(r)
          PROVE  Drawn(r.t, Passed(g, Upto(r.p), FALSE)) /\ Entered(r.t, {}) /\ Passes(g, from, r.p)
      <4>1. MakerFlags(F) /\ "STDEXPR" \notin F
        BY DEF F, MakerFlags
      <4>2. WithTable(h, h1, Append(p, k), F)
        BY <1>2, <1>3, <1>4, <1>10, <4>1 DEF WithTable
      <4>3. r.p = Append(p, k) /\ Append(p, k) \notin DOMAIN t /\ Drawn(r.t, h1) /\ Entered(r.t, {})
        BY ONLY <2>4, k \in Parts, <3>1, <3>3, <4>1, <4>2, TableDrawn
      <4>4. p \in g.std /\ Len(p) > Len(from) => q \in g.all
        <5>1. ~(Len(from) > Len(from))
          OBVIOUS
        <5> QED
          BY <1>9, <2>3, <5>1
      <4>5. Passes(g, from, q)
        BY <1>1, <1>10, <2>1, <4>4, PassesOn
      <4> QED
        BY <1>10, <4>3, <4>5 DEF h1
    <3> QED
      BY <3>2, <3>3
  <2> QED
    BY <2>2, <2>3
<1> QED
  BY <1>11, <1>12

\* Where fewer parts of the same key lead.
LEMMA SpelledUpto ==
  ASSUME NEW from \in Seq(Parts), NEW key \in Seq(Parts), NEW n \in Nat, NEW N \in Nat, n <= N, NEW p, NEW P,
         Spelled(p, from, key, n), Spelled(P, from, key, N)
  PROVE  p \in Upto(P) /\ (p = from \/ Len(p) > Len(from))
<1> DEFINE m == Len(from)
<1>1. m \in Nat /\ p \in Seq(Parts) /\ P \in Seq(Parts) /\ Len(p) = m + n /\ Len(P) = m + N
  BY DEF Spelled
<1>2. /\ \A j \in 1..m : p[j] = from[j] /\ P[j] = from[j]
      /\ \A j \in 1..n : p[m + j] = key[j]
      /\ \A j \in 1..N : P[m + j] = key[j]
  BY DEF Spelled
<1> HIDE DEF m
<1>3. \A j \in 1..n : j \in 1..N
  OBVIOUS
<1>4. \A i \in 1..(m + n) : i \in 1..m \/ (i - m \in 1..n /\ m + (i - m) = i)
  BY <1>1
<1>5. \A i \in 1..(m + n) : P[i] = p[i]
  <2> SUFFICES ASSUME NEW i \in 1..(m + n) PROVE P[i] = p[i]
    OBVIOUS
  <2>1. CASE i \in 1..m
    BY <1>2, <2>1
  <2>2. CASE i - m \in 1..n /\ m + (i - m) = i
    <3>1. P[m + (i - m)] = key[i - m] /\ p[m + (i - m)] = key[i - m]
      BY <1>2, <1>3, <2>2
    <3> QED
      BY <2>2, <3>1
  <2> QED
    BY <1>4, <2>1, <2>2
<1>6. AtOrBelow(p, P)
  <2>1. Len(p) <= Len(P)
    BY <1>1
  <2> QED
    BY <1>1, <1>5, <2>1 DEF AtOrBelow
<1>7. p \in Upto(P)
  BY <1>1, <1>6, UptoIs
<1>8. CASE n = 0
  <2>1. Len(p) = Len(from) /\ \A i \in 1..Len(p) : p[i] = from[i]
    BY <1>1, <1>2, <1>8 DEF m
  <2>2. p = from
    BY <1>1, <2>1, SeqEqual
  <2> QED
    BY <1>7, <2>2
<1>9. CASE n # 0
  <2>1. Len(p) > Len(from)
    BY <1>1, <1>9 DEF m
  <2> QED
    BY <1>7, <2>1
<1> QED
  BY <1>8, <1>9

\* What the descent of a dotted key to the place P says of the lines, after n parts.
Goes(r, s, g, from, key, P, n) ==
  /\ r.err = "conflict" => \E q \in Upto(P) : Stops(g, from, P, q)
  /\ Fine(r) => /\ Shape(r.t, s) /\ IsTable(r.t, r.p) /\ Spelled(r.p, from, key, n)
                /\ Drawn(r.t, Passed(g, Upto(r.p), FALSE)) /\ Entered(r.t, {}) /\ Passes(g, from, r.p)

\* One part more.
LEMMA GoesMore ==
  ASSUME NEW s \in Reading, NEW g, g.std \subseteq g.all, NEW from \in Seq(Parts), NEW key \in Seq(Parts),
         NEW P, Spelled(P, from, key, Len(key)), NEW n \in Nat, n + 1 <= Len(key), NEW b, Goes(b, s, g, from, key, P, n),
         NEW r, r = descend_part(b, from, key[n + 1], "keyvalue")
  PROVE  Goes(r, s, g, from, key, P, n + 1)
<1> DEFINE k == key[n + 1]
<1>0. k \in Parts /\ Len(key) \in Nat /\ n + 1 \in Nat /\ n <= Len(key) /\ Len(from) \in Nat
  OBVIOUS
<1>1. /\ b.err = "conflict" => \E q \in Upto(P) : Stops(g, from, P, q)
      /\ Fine(b) => /\ Shape(b.t, s) /\ IsTable(b.t, b.p) /\ Spelled(b.p, from, key, n)
                    /\ Drawn(b.t, Passed(g, Upto(b.p), FALSE)) /\ Entered(b.t, {}) /\ Passes(g, from, b.p)
  BY DEF Goes
<1>2. CASE ~Fine(b)
  <2>1. r = b
    BY <1>2 DEF descend_part, Fine
  <2> QED
    BY <1>1, <1>2, <2>1 DEF Goes
<1>3. CASE Fine(b)
  <2> DEFINE h == Passed(g, Upto(b.p), FALSE)
  <2>1. /\ Shape(b.t, s) /\ IsTable(b.t, b.p) /\ Spelled(b.p, from, key, n)
        /\ Drawn(b.t, h) /\ Entered(b.t, {}) /\ Passes(g, from, b.p) /\ P \in Seq(Parts)
    BY <1>1, <1>3 DEF Spelled
  <2>2. h = Passed(g, Upto(b.p), FALSE)
    OBVIOUS
  <2>3. r = descend_part(b, from, k, "keyvalue")
    OBVIOUS
  <2>4. Spelled(Append(b.p, k), from, key, n + 1)
    BY <2>1, SpelledMore
  <2> HIDE DEF h, k
  <2>5. b.p \in Upto(P) /\ (b.p = from \/ Len(b.p) > Len(from))
    BY <1>0, <2>1, SpelledUpto
  <2>6. Append(b.p, k) \in Upto(P)
    BY <1>0, <2>4, SpelledUpto
  <2>7. /\ r.err = "conflict" => \E q \in Upto(P) : Stops(g, from, P, q)
        /\ Fine(r) => /\ Drawn(r.t, Passed(g, Upto(r.p), FALSE)) /\ Entered(r.t, {})
                      /\ Passes(g, from, r.p)
    BY ONLY s \in Reading, g.std \subseteq g.all, <1>0, <1>3, <2>1, <2>2, <2>3, <2>5, <2>6, KeyPart
  <2>8. Fine(r) => Shape(r.t, s) /\ IsTable(r.t, r.p) /\ r.p = Append(b.p, k)
    <3> DEFINE c == "keyvalue"
    <3>1. c \in {"std", "array", "keyvalue"} /\ c = "keyvalue" /\ r = descend_part(b, from, k, c)
      BY <2>3
    <3> HIDE DEF c
    <3>2. ASSUME Fine(r)
          PROVE  /\ Shape(r.t, s) /\ IsTable(r.t, r.p)
                 /\ c # "keyvalue" => r.p = Through(s, Append(b.p, k))
                 /\ c = "keyvalue" => r.p = Append(b.p, k)
      BY ONLY s \in Reading, <1>0, <1>3, <2>1, <3>1, <3>2, PartShape
    <3> QED
      BY <3>1, <3>2
  <2> QED
    BY <2>4, <2>7, <2>8 DEF Goes
<1> QED
  BY <1>2, <1>3

\* The descent of a dotted key.
LEMMA KeyWay ==
  ASSUME NEW s \in Reading, NEW t, Shape(t, s), NEW g, Drawn(t, g), Entered(t, {}), NEW from, IsTable(t, from),
         NEW key \in Seq(Parts), NEW P, Spelled(P, from, key, Len(key))
  PROVE  Goes(descend_keypart(t, from, key, "keyvalue"), s, g, from, key, P, Len(key))
<1> DEFINE D == Descent(t, from, key, "keyvalue")
           S == {n \in Nat : n <= Len(key) => Goes(D[n], s, g, from, key, P, n)}
<1>1. Len(key) \in Nat
  OBVIOUS
<1>2. /\ D[0] = Result(t, from)
      /\ \A i \in 1..Len(key) : D[i] = descend_part(D[i - 1], from, key[i], "keyvalue")
  BY <1>1, DescentDef
<1>3. from \in Seq(Parts) /\ t \in Tree /\ Rooted(t)
  BY TreeFacts DEF Shape, IsTable, Tree
<1> HIDE DEF D
<1>4. 0 \in S
  <2>1. Fine(D[0]) /\ D[0].t = t /\ D[0].p = from
    BY <1>2, FineResult
  <2>2. D[0].err # "conflict"
    BY <2>1 DEF Fine
  <2>3. Spelled(from, from, key, 0)
    BY <1>3 DEF Spelled
  <2> DEFINE h == Passed(g, Upto(from), FALSE)
  <2>4. h.all = g.all \cup Upto(from) /\ h.val = g.val /\ h.std = g.std /\ h.arr = g.arr /\ h.hdr = g.hdr
    BY DEF Passed
  <2> HIDE DEF h
  <2>5. Upto(from) \subseteq DOMAIN t /\ DOMAIN t = g.all
    BY <1>3 DEF Rooted, Upto, IsTable, Drawn
  <2>6. h.all = g.all
    BY <2>4, <2>5
  <2>7. Drawn(t, h)
    BY <1>3, <2>4, <2>6, DrawnAlso
  <2>8. Passes(g, from, from)
    <3>1. \A q \in Upto(from) : Len(q) \in Nat /\ Len(q) <= Len(from)
      BY <1>3, UptoOrder
    <3>2. \A q \in Upto(from) : ~(Len(q) > Len(from))
      BY <1>3, <3>1
    <3> QED
      BY <3>2 DEF Passes
  <2>9. Goes(D[0], s, g, from, key, P, 0)
    BY <2>1, <2>2, <2>3, <2>7, <2>8 DEF Goes, h
  <2> QED
    BY <2>9
<1>5. ASSUME NEW n \in Nat, n \in S PROVE n + 1 \in S
  <2> SUFFICES ASSUME n + 1 <= Len(key) PROVE Goes(D[n + 1], s, g, from, key, P, n + 1)
    OBVIOUS
  <2>1. Goes(D[n], s, g, from, key, P, n)
    BY <1>1, <1>5
  <2>2. n + 1 \in 1..Len(key) /\ n + 1 - 1 = n
    BY <1>1
  <2>3. D[n + 1] = descend_part(D[n], from, key[n + 1], "keyvalue")
    BY <1>2, <2>2
  <2>4. g.std \subseteq g.all
    BY DEF Drawn
  <2> DEFINE b == D[n]
             r == D[n + 1]
  <2>5. Goes(b, s, g, from, key, P, n) /\ r = descend_part(b, from, key[n + 1], "keyvalue")
    BY <2>1, <2>3
  <2> HIDE DEF b, r
  <2>6. Goes(r, s, g, from, key, P, n + 1)
    BY ONLY s \in Reading, key \in Seq(Parts), n \in Nat, n + 1 <= Len(key), Spelled(P, from, key, Len(key)),
            <1>3, <2>4, <2>5, GoesMore
  <2> QED
    BY <2>6 DEF r
<1>6. Nat \subseteq S
  <2> HIDE DEF S
  <2> QED
    BY <1>4, <1>5, NatInd
<1> QED
  BY <1>1, <1>6 DEF descend_keypart, D

\* The contradictions of a key = value line.
LEMMA StopsClash ==
  ASSUME NEW g, NEW from, NEW P \in Seq(Parts), NEW k \in Parts, NEW at, at = Append(P, k)
  PROVE  Clash(g, "keyvalue", at, from) <=> at \in g.all \/ \E q \in Upto(P) : q \in g.val \/ Stops(g, from, P, q)
<1>1. Above(at) = Upto(P)
  BY UptoChild
<1>2. Clash(g, "keyvalue", at, from) <=> (\E q \in Upto(P) : q \in g.val) \/ at \in g.all \/ Blocked(g, at, from)
  BY <1>1 DEF Clash
<1>3. Blocked(g, at, from) <=>
        \/ \E q \in Upto(P) : Len(q) > Len(from) /\ q \in g.arr
        \/ \E q \in Upto(P) : /\ Len(q) > Len(from) /\ q \in g.all /\ q \in g.std
                              /\ \A x \in Upto(P) : Len(x) > Len(from) /\ x \in g.all => Len(x) <= Len(q)
  <2> DEFINE B == {q \in Above(at) : Len(q) > Len(from)}
  <2>1. Blocked(g, at, from) <=>
          \/ \E q \in B : q \in g.arr
          \/ \E q \in B : q \in g.all /\ q \in g.std /\ \A x \in B : x \in g.all => Len(x) <= Len(q)
    BY DEF Blocked
  <2>2. \A q : q \in B <=> q \in Upto(P) /\ Len(q) > Len(from)
    BY <1>1
  <2> HIDE DEF B
  <2> QED
    BY <2>1, <2>2
<1>4. ASSUME Blocked(g, at, from) PROVE \E q \in Upto(P) : Stops(g, from, P, q)
  BY <1>3, <1>4 DEF Stops
<1>5. ASSUME NEW q \in Upto(P), Stops(g, from, P, q) PROVE q \in g.val \/ Blocked(g, at, from)
  BY <1>3, <1>5 DEF Stops
<1> QED
  BY <1>2, <1>4, <1>5

\* The place of a dotted key, and the way to it.
LEMMA PlaceSpelled ==
  ASSUME NEW from \in Seq(Parts), NEW key \in Seq(Parts), key # <<>>
  PROVE  /\ Spelled(Front(from \o key), from, Front(key), Len(Front(key))) /\ Front(from \o key) \in Seq(Parts)
         /\ Last(key) \in Parts /\ from \o key = Append(Front(from \o key), Last(key))
<1> DEFINE at == from \o key
           m == Len(from)
           n == Len(key)
           b == Front(key)
           P == Front(at)
<1>1. m \in Nat /\ n \in Nat /\ n > 0
  OBVIOUS
<1>2. at \in Seq(Parts) /\ Len(at) = m + n /\ \A i \in 1..(m + n) : at[i] = IF i <= m THEN from[i] ELSE key[i - m]
  BY ConcatProperties
<1>3. b \in Seq(Parts) /\ Last(key) \in Parts /\ Len(b) = n - 1 /\ \A i \in 1..(n - 1) : b[i] = key[i]
  BY KeyParts
<1>4. Last(key) = key[n]
  BY DEF Last
<1> HIDE DEF at, b, m, n
<1>5. at # <<>>
  BY <1>1, <1>2, EmptySeq
<1>6. /\ P \in Seq(Parts) /\ Len(P) = m + n - 1 /\ \A i \in 1..(m + n - 1) : P[i] = at[i]
      /\ Last(at) \in Parts /\ at = Append(P, Last(at))
  <2>1. P \in Seq(Parts) /\ Last(at) \in Parts /\ Len(P) = Len(at) - 1 /\ \A i \in 1..(Len(at) - 1) : P[i] = at[i]
    BY <1>2, <1>5, KeyParts
  <2>2. at = Append(P, Last(at))
    BY <1>2, <1>5, ParentOf
  <2> HIDE DEF P
  <2>3. Len(at) - 1 = m + n - 1
    BY <1>1, <1>2
  <2> QED
    BY <2>1, <2>2, <2>3
<1>7. Last(at) = Last(key)
  <2>1. Last(at) = at[m + n]
    BY <1>2 DEF Last
  <2> DEFINE z == m + n
  <2>3. z \in 1..(m + n) /\ ~(z <= m) /\ z - m = n
    BY <1>1
  <2> HIDE DEF z
  <2>4. at[z] = key[z - m]
    BY <1>2, <2>3
  <2>5. at[z] = key[n]
    BY <2>3, <2>4
  <2> QED
    BY <1>4, <2>1, <2>5 DEF z
<1> HIDE DEF P
<1>8. Len(P) = m + Len(b)
  BY <1>1, <1>3, <1>6
<1>9. \A j \in 1..m : P[j] = from[j]
  <2>1. \A j \in 1..m : j \in 1..(m + n - 1) /\ j \in 1..(m + n) /\ j <= m
    BY <1>1
  <2> QED
    BY <1>2, <1>6, <2>1
<1>10. \A j \in 1..Len(b) : P[m + j] = b[j]
  <2> SUFFICES ASSUME NEW j \in 1..(n - 1) PROVE P[m + j] = b[j]
    BY <1>3
  <2> DEFINE z == m + j
  <2>2. z \in 1..(m + n - 1) /\ z \in 1..(m + n) /\ ~(z <= m) /\ z - m = j
    BY <1>1
  <2> HIDE DEF z
  <2>3. P[z] = at[z] /\ at[z] = key[z - m]
    BY <1>2, <1>6, <2>2
  <2>4. P[z] = key[j]
    BY <2>2, <2>3
  <2> QED
    BY <1>3, <2>4 DEF z
<1>11. Spelled(P, from, b, Len(b))
  BY <1>6, <1>8, <1>9, <1>10 DEF Spelled, m
<1> QED
  BY <1>3, <1>6, <1>7, <1>11 DEF P, at, b

\* key = (tomlc17.c:1502-1560).
LEMMA KeyVerdict ==
  ASSUME NEW s \in Reading, NEW t, Shape(t, s), NEW g, Drawn(t, g), Entered(t, {}), NEW from, IsTable(t, from),
         NEW key \in Seq(Parts), key # <<>>, NEW r, r = parse_keyvalue_expr(t, from, key), NEW at, at = from \o key
  PROVE  /\ r.err = "conflict" => Clash(g, "keyvalue", at, from)
         /\ Fine(r) => /\ Drawn(r.t, Passed(g, Upto(r.p), FALSE)) /\ Entered(r.t, {})
                       /\ Clash(g, "keyvalue", at, from) <=> at \in DOMAIN r.t
<1> DEFINE b == Front(key)
           d == descend_keypart(t, from, b, "keyvalue")
           k == Last(key)
           P == Front(from \o key)
           bad == \/ Has(d.t, d.p, "INLINED")
                  \/ Len(key) > 1 /\ Has(d.t, d.p, "EXPLICIT")
<1>1. r = IF d.err # "" THEN d ELSE IF bad THEN Refuse("conflict") ELSE d
  BY DEF parse_keyvalue_expr
<1>2. from \in Seq(Parts) /\ Len(key) \in Nat
  BY TreeFacts DEF Shape, IsTable, Tree
<1>3. Spelled(P, from, b, Len(b)) /\ P \in Seq(Parts) /\ k \in Parts /\ at = Append(P, k)
  BY <1>2, PlaceSpelled
<1>4. b \in Seq(Parts) /\ Len(b) = Len(key) - 1 /\ Len(b) \in Nat
  <2>1. b \in Seq(Parts) /\ Len(b) = Len(key) - 1
    BY KeyParts
  <2> HIDE DEF b
  <2> QED
    BY <2>1
<1> HIDE DEF P, b, k
<1>5. Goes(d, s, g, from, b, P, Len(b))
  BY <1>3, <1>4, KeyWay
<1> HIDE DEF d
<1>6. /\ d.err = "conflict" => \E q \in Upto(P) : Stops(g, from, P, q)
      /\ Fine(d) => /\ Shape(d.t, s) /\ IsTable(d.t, d.p) /\ Spelled(d.p, from, b, Len(b))
                    /\ Drawn(d.t, Passed(g, Upto(d.p), FALSE)) /\ Entered(d.t, {}) /\ Passes(g, from, d.p)
  BY <1>5 DEF Goes
<1>7. /\ Clash(g, "keyvalue", at, from) <=> at \in g.all \/ \E q \in Upto(P) : q \in g.val \/ Stops(g, from, P, q)
      /\ at \notin Upto(P)
  BY <1>3, StopsClash, UptoChild
<1>8. CASE ~Fine(d)
  <2>1. r = d
    BY <1>1, <1>8 DEF Fine
  <2> QED
    BY <1>6, <1>7, <1>8, <2>1
<1>9. CASE Fine(d)
  <2>1. d.p = P
    <3>1. d.p \in Upto(P)
      BY <1>2, <1>3, <1>4, <1>6, <1>9, SpelledUpto
    <3>2. Len(d.p) = Len(P) /\ Len(P) \in Nat
      BY <1>3, <1>6, <1>9 DEF Spelled
    <3>3. d.p \notin Above(P)
      BY <1>3, <3>2, UptoOrder
    <3> QED
      BY <3>1, <3>3 DEF Upto
  <2> DEFINE h == Passed(g, Upto(P), FALSE)
  <2>2. Shape(d.t, s) /\ IsTable(d.t, P) /\ Drawn(d.t, h) /\ Entered(d.t, {}) /\ Passes(g, from, P)
    BY <1>6, <1>9, <2>1
  <2>3. h.all = g.all \cup Upto(P) /\ h.val = g.val /\ h.std = g.std /\ h.arr = g.arr /\ h.hdr = g.hdr
    BY DEF Passed
  <2> HIDE DEF h
  <2>4. P \in DOMAIN d.t /\ "INLINED" \notin d.t[P].flag /\ ("EXPLICIT" \in d.t[P].flag <=> P \in g.std) /\ DOMAIN d.t = h.all
    BY <2>2, <2>3 DEF IsTable, Drawn, DrawnAs
  <2>5. bad <=> Len(key) > 1 /\ P \in g.std
    BY <2>1, <2>4 DEF Has
  <2>6. Len(P) = Len(from) + (Len(key) - 1) /\ Len(from) \in Nat
    BY <1>2, <1>3, <1>4 DEF Spelled
  <2> HIDE DEF bad
  <2>7. CASE bad
    <3>1. r = Refuse("conflict")
      BY <1>1, <1>9, <2>7 DEF Fine
    <3>2. r.err = "conflict" /\ ~Fine(r)
      BY <3>1, RefusedIs
    <3>3. Len(P) > Len(from)
      BY <1>2, <2>5, <2>6, <2>7
    <3>4. P \in Upto(P) /\ \A x \in Upto(P) : Len(x) <= Len(P)
      BY <1>3, UptoOrder
    <3>5. P \in g.all
      BY <2>5, <2>7 DEF Drawn
    <3>6. Stops(g, from, P, P)
      BY <2>5, <2>7, <3>3, <3>4, <3>5 DEF Stops
    <3> QED
      BY <1>7, <3>2, <3>4, <3>6
  <2>8. CASE ~bad
    <3>1. r = d
      BY <1>1, <1>9, <2>8 DEF Fine
    <3>2. r.err # "conflict"
      BY <1>9, <3>1 DEF Fine
    <3>3. \A q \in Upto(P) : q \notin g.val
      BY <2>2, <2>3, NoValueAbove DEF Shape
    <3>4. ASSUME NEW q \in Upto(P), Stops(g, from, P, q) PROVE FALSE
      <4>1. Len(q) > Len(from) /\ q \notin g.val
        BY <3>3, <3>4 DEF Stops
      <4>2. q \notin g.arr /\ (q # P /\ q \in g.std => \E x \in Upto(P) : x \in g.all /\ Len(x) > Len(q))
        BY <2>2, <4>1 DEF Passes
      <4>3. q \in g.std /\ \A x \in Upto(P) : Len(x) > Len(from) /\ x \in g.all => Len(x) <= Len(q)
        BY <3>4, <4>1, <4>2 DEF Stops
      <4>4. CASE q = P
        <5>1. Len(key) > 1
          BY <1>2, <2>6, <4>1, <4>4
        <5> QED
          BY <2>5, <2>8, <4>3, <4>4, <5>1
      <4>5. CASE q # P
        <5>1. PICK x \in Upto(P) : x \in g.all /\ Len(x) > Len(q)
          BY <4>2, <4>3, <4>5
        <5>2. Len(x) \in Nat /\ Len(q) \in Nat
          BY <1>3, UptoOrder
        <5> QED
          BY <2>6, <4>1, <4>3, <5>1, <5>2
      <4> QED
        BY <4>4, <4>5
    <3>5. Clash(g, "keyvalue", at, from) <=> at \in DOMAIN d.t
      BY <1>7, <2>3, <2>4, <3>3, <3>4
    <3> QED
      BY <2>1, <2>2, <3>1, <3>2, <3>5 DEF h
  <2> QED
    BY <2>7, <2>8
<1> QED
  BY <1>8, <1>9

-----------------------------------------------------------------------------
(* Verdicts *)

(***************************************************************************)
(* The inductive invariant of AcceptsExactly.  When a document without     *)
(* inline values is read up to the end of an expression, the tree is what  *)
(* the lines say, and the last one contradicts none before it.  When the   *)
(* value of its last line is still to come, the tree has the tables on the *)
(* way to it, and the line contradicts others exactly if its place is      *)
(* taken.  When it is refused as contradictory, it is.                     *)
(***************************************************************************)
PlaceOfValue(frame) == Append(frame.tab, frame.key)
Awaits(t, g, h, d, frame) ==
  /\ Drawn(t, Passed(g, Upto(frame.tab), FALSE))
  /\ Noted(g, h, Upto(PlaceOfValue(frame)), "keyvalue", PlaceOfValue(frame))
  /\ Contradicts(d, Len(d)) <=> PlaceOfValue(frame) \in DOMAIN t
Agrees(t, d, stk) ==
  /\ Entered(t, {})
  /\ stk = <<>> => Drawn(t, Ledger(Said(d))) /\ (d # <<>> => ~Contradicts(d, Len(d)))
  /\ stk # <<>> => Awaits(t, Ledger(Said(Front(d))), Ledger(Said(d)), d, stk[1])
Verdict(t, d, stk, res, msg) ==
  /\ res # "error" => Agrees(t, d, stk)
  /\ msg = "conflict" => d # <<>> /\ Contradicts(d, Len(d))
AcceptInv == ~Inline(doc) => Verdict(top, doc, stack, result, errmsg)

LEMMA FrontOfMore ==
  ASSUME NEW S, NEW d \in Seq(S), NEW x \in S
  PROVE  Front(Append(d, x)) = d /\ Append(d, x) # <<>>
<1> DEFINE q == Append(d, x)
           b == Front(q)
<1>1. q \in Seq(S) /\ q # <<>> /\ Len(q) = Len(d) + 1 /\ (\A i \in 1..Len(d) : q[i] = d[i]) /\ q[Len(d) + 1] = x
  BY AppendProperties
<1> HIDE DEF q
<1>2. b \in Seq(S) /\ Len(b) = Len(q) - 1 /\ \A i \in 1..(Len(q) - 1) : b[i] = q[i]
  BY <1>1, KeyParts
<1>3. Len(d) \in Nat
  OBVIOUS
<1> HIDE DEF b
<1>4. Len(b) = Len(d) /\ \A i \in 1..Len(b) : b[i] = d[i]
  BY <1>1, <1>2, <1>3
<1>5. b = d
  BY <1>2, <1>4, SeqEqual
<1> QED
  BY <1>1, <1>5 DEF b, q

\* What parse_key says of a key.
LEMMA KeyErrors ==
  ASSUME NEW key, NEW b, NEW r, r = parse_key(key, b)
  PROVE  /\ r.err = "conflict" => r = b
         /\ Fine(r) => r = b
BY DEF parse_key, Fine, Refuse

\* A line more, and what it notes.
LEMMA LineNotes ==
  ASSUME NEW d \in Seq(LineSet), SameLines(Said(d), d), NEW kind \in Kinds, NEW key \in Keys,
         NEW at \in Seq(Parts), at = PlaceOfLine(Said(d), Line(kind, key))
  PROVE  Noted(Ledger(Said(d)), Ledger(Said(Append(d, Line(kind, key)))), Upto(at), kind, at)
<1> DEFINE s == Said(d)
           m == Said(Append(d, Line(kind, key)))
           l == [kind |-> kind, at |-> at]
<1>1. Line(kind, key) \in LineSet
  BY DEF Line, LineSet
<1>2. m = NextLine(s, Line(kind, key))
  BY <1>1, SaidMore
<1>3. s \in Reading
  BY DEF SameLines
<1>4. at = PlaceOfLine(s, Line(kind, key))
  OBVIOUS
<1> HIDE DEF s, m
<1>5. m \in Reading /\ l \in Placed /\ l.kind = kind /\ l.at = at /\ m.lines = Append(s.lines, l)
  BY <1>2, <1>3, <1>4, NextFields
<1> HIDE DEF l
<1>6. Noted(Ledger(s), Ledger(m), Upto(l.at), l.kind, l.at)
  BY <1>3, <1>5, LedgerMore
<1> QED
  BY <1>5, <1>6 DEF s, m

\* The last line of e, at the place at: what it is checked for, of the place p, and what it notes.
Judged(s, e, kind, p, at) ==
  /\ Contradicts(e, Len(e)) <=> Clash(Ledger(s), kind, p, s.header)
  /\ Noted(Ledger(s), Ledger(Said(e)), Upto(at), kind, at)
HeaderAt(s, kind, p) == IF kind = "std" THEN p ELSE Append(p, Elements(s, p) + 1)

LEMMA HeaderClash ==
  ASSUME NEW d \in Seq(LineSet), NEW s, s = Said(d), SameLines(s, d), NEW kind \in {"std", "array"}, NEW key \in Keys,
         NEW p \in Seq(Parts), p = Named(s, key), p # <<>>
  PROVE  Judged(s, Append(d, Line(kind, key)), kind, p, HeaderAt(s, kind, p))
<1> DEFINE at == HeaderAt(s, kind, p)
<1>1. kind \in Kinds /\ kind # "keyvalue"
  BY DEF Kinds
<1>2. at = PlaceOfLine(s, Line(kind, key))
  BY LinePlaces DEF HeaderAt
<1>3. Elements(s, p) + 1 \in Parts
  <2>1. Elements(s, p) \in Nat
    BY ElementsNat DEF SameLines
  <2>2. Elements(s, p) + 1 \in Nat
    BY <2>1
  <2> QED
    BY <2>2, PartsNat
<1>4. at \in Seq(Parts) /\ p = IF kind = "array" THEN Front(at) ELSE at
  <2> DEFINE k == Elements(s, p) + 1
  <2> HIDE DEF k
  <2>1. k \in Parts
    BY <1>3 DEF k
  <2>2. Append(p, k) \in Seq(Parts) /\ Front(Append(p, k)) = p
    BY <2>1, UptoChild, FrontOfChild
  <2>3. at = IF kind = "std" THEN p ELSE Append(p, k)
    BY DEF k, HeaderAt
  <2> QED
    BY <2>2, <2>3
<1> HIDE DEF at
<1>5. kind = "keyvalue" => s.header \in Upto(at)
  BY <1>1
<1>6. Contradicts(Append(d, Line(kind, key)), Len(Append(d, Line(kind, key)))) <=> Clash(Ledger(s), kind, p, s.header)
  BY <1>1, <1>2, <1>4, <1>5, ContradictsClash
<1>7. Noted(Ledger(Said(d)), Ledger(Said(Append(d, Line(kind, key)))), Upto(at), kind, at)
  BY <1>1, <1>2, <1>4, LineNotes
<1> QED
  BY <1>6, <1>7 DEF Judged, at

\* A header's error.
LEMMA HeaderBails ==
  ASSUME NEW r, SetCurtab(r)
  PROVE  /\ ~Fine(r) => result' = "error" /\ errmsg' = r.err
         /\ Fine(r) => top' = r.t /\ UNCHANGED <<stack, result, errmsg>>
BY DEF SetCurtab, Bail, Fine

\* [key] and [[key]].
LEMMA HeaderAccepts ==
  ASSUME TreeInv, ReadInv, AcceptInv, NEW key \in Keys, StdTable(key) \/ ArrayTable(key), ~Inline(doc')
  PROVE  Verdict(top', doc', stack', result', errmsg')
<1> DEFINE s == Said(doc)
           g == Ledger(s)
           e == doc'
           h == Ledger(Said(e))
           q == Named(s, key)
<1>1. AtLine /\ doc \in Seq(LineSet)
  <2>1. AtLine
    BY DEF StdTable, ArrayTable, MayRead
  <2> QED
    BY <2>1 DEF TreeInv
<1>2. PICK kind \in {"std", "array"} :
        /\ doc' = Append(doc, Line(kind, key))
        /\ SetCurtab(parse_key(key, IF kind = "std" THEN parse_std_table_expr(top, key)
                                                    ELSE parse_array_table_expr(top, key)))
  BY DEF StdTable, ArrayTable
<1> DEFINE b == IF kind = "std" THEN parse_std_table_expr(top, key) ELSE parse_array_table_expr(top, key)
           r == parse_key(key, b)
           at == HeaderAt(s, kind, q)
<1>3. Line(kind, key) \in LineSet
  BY DEF Kinds, Line, LineSet
<1>4. ~Inline(doc) /\ result = "parsing" /\ stack = <<>> /\ errmsg # "conflict"
  <2>1. result = "parsing" /\ stack = <<>>
    BY <1>1 DEF AtLine
  <2>2. errmsg # "conflict"
    BY <2>1 DEF TreeInv
  <2> QED
    BY <1>1, <1>2, <1>3, <2>1, <2>2, InlineMore
<1>5. SameLines(s, doc) /\ Shape(top, s) /\ s \in Reading
  BY <1>4 DEF ReadInv, Mirrors, SameLines
<1>6. Entered(top, {}) /\ Drawn(top, g)
  BY <1>4 DEF AcceptInv, Verdict, Agrees
<1>7. key \in Seq(Parts) /\ key # <<>>
  BY KeyTypes
<1>8. /\ (r.err = "conflict" => r = b) /\ (Fine(r) => r = b)
      /\ ~Fine(r) => result' = "error" /\ errmsg' = r.err
      /\ Fine(r) => top' = r.t /\ UNCHANGED <<stack, result, errmsg>>
  BY <1>2, KeyErrors, HeaderBails
<1> HIDE DEF s, g, h, r
<1>9. q \in Seq(Parts) /\ q # <<>>
  <2> DEFINE p == Way(s, Front(key))[Len(key) - 1]
             c == "std"
  <2>1. c \in {"std", "array"}
    OBVIOUS
  <2> HIDE DEF c
  <2>2. p \in Seq(Parts) /\ Last(key) \in Parts /\ q = Append(p, Last(key))
    BY <1>5, <1>6, <1>7, <2>1, HeaderCases
  <2> HIDE DEF p, q
  <2> QED
    BY <2>2, UptoChild
<1>10. /\ Contradicts(e, Len(e)) <=> Clash(g, kind, q, s.header)
       /\ Noted(g, h, Upto(at), kind, at)
  <2>1. s = Said(doc) /\ SameLines(s, doc) /\ doc \in Seq(LineSet) /\ kind \in {"std", "array"} /\ key \in Keys
    BY <1>1, <1>2, <1>5 DEF s
  <2>2. q = Named(s, key)
    OBVIOUS
  <2> HIDE DEF q
  <2>3. Judged(s, Append(doc, Line(kind, key)), kind, q, HeaderAt(s, kind, q))
    BY ONLY <1>9, <2>1, <2>2, HeaderClash
  <2> QED
    BY <1>2, <2>3 DEF Judged, g, h
<1>11. /\ b.err = "conflict" => Clash(g, kind, q, s.header)
       /\ Fine(b) => ~Clash(g, kind, q, s.header) /\ Drawn(b.t, h) /\ Entered(b.t, {})
  <2>1. CASE kind = "std"
    <3>1. b = parse_std_table_expr(top, key) /\ at = q
      BY <2>1 DEF HeaderAt
    <3> HIDE DEF b, at
    <3>2. Noted(g, h, Upto(Named(s, key)), "std", Named(s, key))
      BY <1>10, <2>1, <3>1
    <3> QED
      BY <1>5, <1>6, <1>7, <2>1, <3>1, <3>2, StdVerdict
  <2>2. CASE kind = "array"
    <3>1. b = parse_array_table_expr(top, key) /\ at = Append(Named(s, key), Elements(s, Named(s, key)) + 1)
      BY <2>2 DEF HeaderAt
    <3> HIDE DEF b, at
    <3>2. Noted(g, h, Upto(at), "array", at)
      BY <1>10, <2>2
    <3> QED
      BY <1>5, <1>6, <1>7, <2>2, <3>1, <3>2, ArrayVerdict
  <2> QED
    BY <2>1, <2>2
<1> HIDE DEF b, q, at, e
<1>12. doc' # <<>>
  BY <1>1, <1>2, <1>3, FrontOfMore
<1>13. CASE ~Fine(r)
  BY <1>8, <1>10, <1>11, <1>12, <1>13 DEF Verdict, e
<1>14. CASE Fine(r)
  <2>1. Drawn(top', h) /\ Entered(top', {}) /\ ~Contradicts(e, Len(e)) /\ stack' = <<>> /\ errmsg' # "conflict"
    BY <1>4, <1>8, <1>10, <1>11, <1>14
  <2>2. Agrees(top', doc', stack')
    BY <2>1 DEF Agrees, h, e
  <2> QED
    BY <2>1, <2>2 DEF Verdict
<1> QED
  BY <1>13, <1>14

\* The same of key =.
LEMMA KeyClash ==
  ASSUME NEW d \in Seq(LineSet), NEW s, s = Said(d), SameLines(s, d), NEW key \in Keys, NEW at, at = s.header \o key
  PROVE  Judged(s, Append(d, Line("keyvalue", key)), "keyvalue", at, at)
<1> DEFINE kind == "keyvalue"
           from == s.header
<1>1. kind \in Kinds /\ kind # "array"
  BY DEF Kinds
<1>2. at = PlaceOfLine(s, Line(kind, key))
  BY LinePlaces
<1>3. key \in Seq(Parts) /\ key # <<>>
  BY KeyTypes
<1>4. from \in Seq(Parts) /\ s \in Reading
  BY DEF SameLines, Reading
<1> HIDE DEF from
<1>5. at = from \o key
  BY DEF from
<1>6. /\ at \in Seq(Parts) /\ Len(at) = Len(from) + Len(key)
      /\ \A i \in 1..(Len(from) + Len(key)) : at[i] = IF i <= Len(from) THEN from[i] ELSE key[i - Len(from)]
  BY <1>3, <1>4, <1>5, ConcatProperties
<1>7. Len(from) \in Nat /\ Len(key) \in Nat /\ Len(key) > 0
  BY <1>3, <1>4
<1>8. at # <<>>
  BY <1>6, <1>7, EmptySeq
<1>9. from \in Upto(at)
  <2>1. \A i \in 1..Len(from) : i \in 1..(Len(from) + Len(key)) /\ i <= Len(from)
    BY <1>7
  <2>2. AtOrBelow(from, at)
    BY <1>6, <1>7, <2>1 DEF AtOrBelow
  <2> QED
    BY <1>4, <1>6, <2>2, UptoIs
<1> HIDE DEF kind
<1>10. at = (IF kind = "array" THEN Front(at) ELSE at) /\ (kind = "keyvalue" => s.header \in Upto(at))
  BY <1>1, <1>9 DEF from
<1>11. Contradicts(Append(d, Line(kind, key)), Len(Append(d, Line(kind, key)))) <=> Clash(Ledger(s), kind, at, s.header)
  BY <1>1, <1>2, <1>6, <1>8, <1>10, ContradictsClash
<1>12. Noted(Ledger(Said(d)), Ledger(Said(Append(d, Line(kind, key)))), Upto(at), kind, at)
  BY <1>1, <1>2, <1>6, LineNotes
<1> QED
  BY <1>11, <1>12 DEF Judged, kind

\* key = , up to its value.
LEMMA KeyValueAccepts ==
  ASSUME TreeInv, ReadInv, AcceptInv, NEW key \in Keys, KeyValue(key), ~Inline(doc')
  PROVE  Verdict(top', doc', stack', result', errmsg')
<1> DEFINE s == Said(doc)
           g == Ledger(s)
           e == doc'
           h == Ledger(Said(e))
           b == parse_keyvalue_expr(top, curtab, key)
           r == parse_key(key, b)
           x == [Frame("doc", Freed, "value") EXCEPT !.tab = r.p, !.key = Last(key)]
           at == curtab \o key
<1>1. AtLine /\ doc \in Seq(LineSet) /\ e = Append(doc, Line("keyvalue", key))
  BY DEF KeyValue, MayRead, TreeInv
<1>2. Line("keyvalue", key) \in LineSet
  BY DEF Kinds, Line, LineSet
<1>3. ~Inline(doc) /\ result = "parsing" /\ stack = <<>> /\ errmsg # "conflict"
  <2>1. result = "parsing" /\ stack = <<>>
    BY <1>1 DEF AtLine
  <2>2. errmsg # "conflict"
    BY <2>1 DEF TreeInv
  <2> QED
    BY <1>1, <1>2, <2>1, <2>2, InlineMore
<1>4. SameLines(s, doc) /\ Shape(top, s) /\ s \in Reading /\ IsTable(top, curtab) /\ curtab = s.header
  BY <1>3 DEF ReadInv, Mirrors, SameLines
<1>5. Entered(top, {}) /\ Drawn(top, g)
  BY <1>3 DEF AcceptInv, Verdict, Agrees
<1>6. key \in Seq(Parts) /\ key # <<>>
  BY KeyTypes
<1>7. /\ (r.err = "conflict" => r = b) /\ (Fine(r) => r = b)
      /\ ~Fine(r) => result' = "error" /\ errmsg' = r.err
      /\ Fine(r) => top' = r.t /\ stack' = <<x>> /\ errmsg' = errmsg
  <2>1. (r.err = "conflict" => r = b) /\ (Fine(r) => r = b)
    BY KeyErrors
  <2>2. IF r.err # "" THEN Bail(r.err)
        ELSE top' = r.t /\ stack' = <<x>> /\ UNCHANGED <<curtab, pinned, result, errmsg>>
    BY DEF KeyValue
  <2> HIDE DEF r, x
  <2> QED
    BY <2>1, <2>2 DEF Bail, Fine
<1>8. x.tab = r.p /\ x.key = Last(key) /\ <<x>> # <<>> /\ <<x>>[1] = x
  <2>1. x.tab = r.p /\ x.key = Last(key)
    BY DEF Frame
  <2> HIDE DEF x
  <2> QED
    BY <2>1
<1> HIDE DEF s, g, h, r, x
<1>9. Judged(s, Append(doc, Line("keyvalue", key)), "keyvalue", at, at)
  <2>1. s = Said(doc) /\ at = s.header \o key
    BY <1>4 DEF s
  <2> HIDE DEF at
  <2> QED
    BY ONLY <1>1, <1>4, <2>1, key \in Keys, KeyClash
<1>10. /\ Contradicts(e, Len(e)) <=> Clash(g, "keyvalue", at, curtab)
       /\ Noted(g, h, Upto(at), "keyvalue", at)
  BY <1>1, <1>4, <1>9 DEF Judged, g, h
<1>11. /\ b.err = "conflict" => Clash(g, "keyvalue", at, curtab)
       /\ Fine(b) => /\ Drawn(b.t, Passed(g, Upto(b.p), FALSE)) /\ Entered(b.t, {})
                     /\ Clash(g, "keyvalue", at, curtab) <=> at \in DOMAIN b.t
  <2>1. b = parse_keyvalue_expr(top, curtab, key) /\ at = curtab \o key
    OBVIOUS
  <2> HIDE DEF b, at
  <2> QED
    BY <1>4, <1>5, <1>6, <2>1, KeyVerdict
<1>12. Fine(b) => Append(b.p, Last(key)) = at
  <2>1. b = parse_keyvalue_expr(top, curtab, key)
    OBVIOUS
  <2> HIDE DEF b
  <2>2. Fine(b) => Aimed(b, s, key, curtab \o key)
    BY <1>4, <1>6, <2>1, KeyShape
  <2> QED
    BY <2>2 DEF Aimed
<1>13. e # <<>> /\ Front(e) = doc
  BY <1>1, <1>2, FrontOfMore
<1> HIDE DEF b, at, e
<1>14. CASE ~Fine(r)
  BY <1>7, <1>10, <1>11, <1>13, <1>14 DEF Verdict, e
<1>15. CASE Fine(r)
  <2>1. r = b /\ PlaceOfValue(x) = at /\ x.tab = b.p
    BY <1>7, <1>8, <1>12, <1>15 DEF PlaceOfValue
  <2>2. Awaits(b.t, g, h, e, x)
    BY <1>7, <1>10, <1>11, <1>15, <2>1 DEF Awaits
  <2>3. g = Ledger(Said(Front(e))) /\ h = Ledger(Said(e))
    BY <1>13 DEF g, s, h
  <2>4. Agrees(b.t, e, <<x>>)
    BY <1>7, <1>8, <1>11, <1>15, <2>1, <2>2, <2>3 DEF Agrees
  <2> QED
    BY <1>3, <1>7, <1>15, <2>1, <2>4 DEF Verdict, e
<1> QED
  BY <1>14, <1>15

\* The value that is written is drawn.
LEMMA ValueDrawn ==
  ASSUME NEW t \in Tree, Rooted(t), NEW x, x.tab \in Seq(Parts), IsTable(t, x.tab), x.key \in Parts,
         PlaceOfValue(x) \notin DOMAIN t, NEW u, NEW d, OneMore(t, u, x.tab, x.key, d), d.type = "int64", d.flag = {},
         NEW g, NEW h, NEW e, Awaits(t, g, h, e, x)
  PROVE  Drawn(u, h)
<1> DEFINE p == x.tab
           k == x.key
           q == Append(p, k)
           g1 == Passed(g, Upto(p), FALSE)
<1>0. /\ Drawn(t, g1) /\ Noted(g, h, Upto(q), "keyvalue", q) /\ q \notin DOMAIN t
      /\ p \in Seq(Parts) /\ k \in Parts /\ IsTable(t, p) /\ OneMore(t, u, p, k, d)
  BY DEF Awaits, PlaceOfValue
<1> HIDE DEF p, k
<1>1. Upto(q) = Upto(p) \cup {q}
  BY <1>0, UptoChild
<1>2. g1.all = g.all \cup Upto(p) /\ g1.val = g.val /\ g1.std = g.std /\ g1.arr = g.arr /\ g1.hdr = g.hdr
  BY DEF Passed
<1>3. Drawn(t, g1)
  BY <1>0
<1> HIDE DEF g1
<1>4. DOMAIN t = g1.all /\ g1.val \subseteq g1.all /\ g1.std \subseteq g1.all /\ g1.arr \subseteq g1.all /\ g1.hdr \subseteq g1.all
  BY <1>3 DEF Drawn
<1>5. h.all = g1.all \cup {q} /\ h.val = g1.val \cup {q} /\ h.std = g1.std /\ h.arr = g1.arr /\ h.hdr = g1.hdr
  <2>1. /\ h.all = g.all \cup Upto(q) /\ h.val = g.val \cup {q} /\ h.std = g.std /\ h.arr = g.arr /\ h.hdr = g.hdr
    BY <1>0 DEF Noted
  <2> QED
    BY <1>1, <1>2, <2>1
<1>6. ASSUME NEW y \in g1.all PROVE Same(g1, h, y)
  <2>1. y # q
    BY <1>0, <1>4, <1>6
  <2> QED
    BY <1>5, <2>1 DEF Same
<1>7. q \in h.val /\ q \notin h.std /\ q \notin h.arr /\ q \notin h.hdr
  BY <1>0, <1>4, <1>5
<1>8. DrawnAs(d, q, h) /\ MadeBy(d, q, h)
  BY <1>7 DEF DrawnAs, MadeBy
<1>9. Suits(g1, h, Append(p, k), d)
  BY <1>4, <1>5, <1>6, <1>8 DEF Suits
<1>10. p \in DOMAIN t /\ Append(p, k) \notin DOMAIN t /\ MadeBy(d, Append(p, k), h)
  BY <1>0, <1>8 DEF IsTable
<1> QED
  BY <1>0, <1>3, <1>9, <1>10, DrawnMore

\* A value on its own.
LEMMA ScalarAccepts ==
  ASSUME TreeInv, ReadInv, AcceptInv, Scalar, ~Inline(doc')
  PROVE  Verdict(top', doc', stack', result', errmsg')
<1> DEFINE g == Ledger(Said(Front(doc)))
           h == Ledger(Said(doc))
           x == stack[1]
           d == mkdatum("int64", {}, Len(doc))
           r == tab_add(top, x.tab, x.key, Single(d))
           q == Append(x.tab, x.key)
<1>1. stack # <<>> /\ doc' = doc /\ FrameRules(stack) /\ doc \in Seq(LineSet) /\ top \in Tree
  BY DEF Scalar, WantsValue, Open, TreeInv
<1>2. result = "parsing" /\ ~Inline(doc) /\ errmsg # "conflict"
  BY <1>1 DEF TreeInv
<1>3. Shape(top, Said(doc)) /\ Pending(top, Said(doc), doc, stack)
  BY <1>1, <1>2 DEF ReadInv, Mirrors
<1>4. Len(stack) = 1 /\ doc # <<>> /\ IsTable(top, x.tab)
  BY <1>3 DEF Pending
<1>5. Entered(top, {}) /\ Awaits(top, g, h, doc, x)
  BY <1>1, <1>2 DEF AcceptInv, Verdict, Agrees
<1>6. Last(stack) = x /\ x \in Frames /\ x.kind = "doc"
  <2>1. Last(stack) = stack[Len(stack)] /\ Last(stack) \in Frames
    BY <1>1, LastRules
  <2>2. stack[1].kind = "doc"
    <3>1. 1 \in 1..Len(stack)
      BY <1>4
    <3> QED
      BY <1>1, <3>1 DEF FrameRules
  <2> QED
    BY <1>4, <2>1, <2>2
<1>7. d \in Data(Nat) /\ d.type = "int64" /\ d.flag = {}
  <2>1. Len(doc) \in Nat
    BY <1>1
  <2> QED
    BY <2>1 DEF mkdatum, Data, Types
<1>8. /\ ~Fine(r) => result' = "error" /\ errmsg' = r.err
      /\ Fine(r) => top' = r.t /\ stack' = <<>> /\ errmsg' = errmsg
  <2>1. Deliver(stack, Single(d))
    BY DEF Scalar
  <2> HIDE DEF d
  <2> QED
    BY <1>6, <2>1 DEF Deliver, Bail, Fine
<1>9. x.tab \in Seq(Parts) /\ x.key \in Parts
  BY <1>6 DEF Frames
<1> HIDE DEF g, h, x, d
<1>10. /\ Drawn(top, Passed(g, Upto(x.tab), FALSE)) /\ Noted(g, h, Upto(q), "keyvalue", q)
       /\ Contradicts(doc, Len(doc)) <=> q \in DOMAIN top
  BY <1>5 DEF Awaits, PlaceOfValue
<1>11. r.err = "conflict" <=> q \in DOMAIN top
  BY TabRefused
<1>12. CASE ~Fine(r)
  BY <1>1, <1>4, <1>8, <1>10, <1>11, <1>12 DEF Verdict
<1>13. CASE Fine(r)
  <2>1. q \notin DOMAIN top /\ OneMore(top, r.t, x.tab, x.key, d)
    BY <1>1, <1>7, <1>9, <1>13, TabAdded
  <2>2. Rooted(top)
    BY <1>3 DEF Shape
  <2> HIDE DEF r
  <2>3. Drawn(r.t, h)
    BY <1>1, <1>4, <1>5, <1>7, <1>9, <2>1, <2>2, ValueDrawn DEF PlaceOfValue
  <2>4. Entered(r.t, {})
    <3>1. x.tab \in DOMAIN top /\ top[x.tab].type = "table" /\ d.type # "array"
      BY <1>4, <1>7 DEF IsTable
    <3> QED
      BY <1>1, <1>5, <1>9, <2>1, <2>2, <3>1, EnteredEntry
  <2>5. Agrees(r.t, doc, <<>>)
    BY <1>10, <2>1, <2>3, <2>4 DEF Agrees, h
  <2> QED
    BY <1>1, <1>2, <1>8, <1>13, <2>5 DEF Verdict
<1> QED
  BY <1>12, <1>13

\* Without an inline value nothing else is read of a value.
LEMMA OthersAccept ==
  ASSUME TreeInv, ReadInv, AcceptInv, ~Inline(doc'),
         \/ \E key \in InlineKeys : InlineKey(key)
         \/ OpenArray \/ OpenTable \/ Comma \/ CloseArray \/ CloseTable \/ Finish \/ Malformed
  PROVE  Verdict(top', doc', stack', result', errmsg')
<1>1. CASE Finish
  <2>1. UNCHANGED <<top, doc, stack, errmsg>> /\ result = "parsing"
    BY <1>1 DEF Finish, AtLine
  <2>2. Verdict(top, doc, stack, result, errmsg)
    BY <2>1 DEF AcceptInv
  <2> QED
    BY <2>1, <2>2 DEF Verdict
<1>2. CASE Malformed
  BY <1>2 DEF Malformed, Bail, Verdict
<1>3. CASE OpenArray \/ OpenTable
  <2>1. stack # <<>> /\ doc \in Seq(LineSet) /\ doc' = [doc EXCEPT ![Len(doc)].inline = TRUE]
    BY <1>3 DEF OpenArray, OpenTable, Descend, WantsValue, Open, TreeInv
  <2>2. result = "parsing"
    BY <2>1 DEF TreeInv
  <2>3. doc' # <<>> /\ Inline(doc')
    BY <2>1, <2>2, MarkedInline DEF ReadInv, Mirrors, Pending
  <2> QED
    BY <2>3
<1>4. CASE (\E key \in InlineKeys : InlineKey(key)) \/ Comma \/ CloseArray \/ CloseTable
  <2>1. stack # <<>> /\ Last(stack).kind # "doc" /\ doc' = doc /\ FrameRules(stack)
    BY <1>4 DEF InlineKey, Comma, CloseArray, CloseTable, InItems, Open, f, TreeInv
  <2>2. result = "parsing"
    BY <2>1 DEF TreeInv
  <2>3. Len(stack) = 1
    BY <2>1, <2>2 DEF ReadInv, Mirrors, Pending
  <2>4. Last(stack) = stack[1]
    BY <2>1, <2>3, LastRules
  <2>5. 1 \in 1..Len(stack)
    BY <2>3
  <2> QED
    BY <2>1, <2>4, <2>5 DEF FrameRules
<1> QED
  BY <1>1, <1>2, <1>3, <1>4

LEMMA AcceptInit == Init => AcceptInv
<1> SUFFICES ASSUME Init PROVE Verdict(top, doc, stack, result, errmsg)
  BY DEF AcceptInv
<1>1. top = NewTable({}) /\ stack = <<>> /\ doc = <<>> /\ errmsg = ""
  BY DEF Init
<1>2. top \in Tree /\ DOMAIN top = {<<>>} /\ top[<<>>] = mkdatum("table", {}, 0)
  <2>1. top \in Tree /\ DOMAIN top = {<<>>}
    BY <1>1, PartsNat, NewTrees DEF Tree
  <2> QED
    BY <1>1, <2>1 DEF NewTable, Single
<1>3. top[<<>>].type = "table" /\ top[<<>>].flag = {}
  BY <1>2 DEF mkdatum
<1> DEFINE g == Ledger(Nothing)
<1>4. g.all = {<<>>} /\ g.val = {} /\ g.std = {} /\ g.arr = {} /\ g.hdr = {}
  <2>1. Nothing.lines = <<>> /\ Len(<<>>) = 0 /\ DOMAIN <<>> = {}
    BY EmptySeq DEF Nothing
  <2>2. \A i \in 1..0 : FALSE
    OBVIOUS
  <2>3. Mentioned(Nothing, 0) = {<<>>}
    BY <2>2 DEF Mentioned
  <2>4. \A kind : OfKind(Nothing, kind) = {}
    BY <2>1 DEF OfKind
  <2> QED
    BY <2>1, <2>3, <2>4 DEF Ledger
<1> HIDE DEF g
<1>5. Drawn(top, g)
  BY <1>2, <1>3, <1>4 DEF Drawn, DrawnAs
<1>6. Entered(top, {})
  BY <1>2, <1>3 DEF Entered
<1>7. Said(doc) = Nothing
  BY <1>1, SaidNothing
<1>8. Agrees(top, doc, stack)
  BY <1>1, <1>5, <1>6, <1>7 DEF Agrees, g
<1> QED
  BY <1>1, <1>8 DEF Verdict

LEMMA AcceptStep == TreeInv /\ ReadInv /\ AcceptInv /\ [Next]_vars => AcceptInv'
<1> SUFFICES ASSUME TreeInv, ReadInv, AcceptInv, [Next]_vars, ~Inline(doc')
             PROVE  Verdict(top', doc', stack', result', errmsg')
  BY DEF AcceptInv
<1>1. CASE UNCHANGED vars
  <2>1. UNCHANGED <<top, doc, stack, result, errmsg>>
    BY <1>1 DEF vars
  <2>2. Verdict(top, doc, stack, result, errmsg)
    BY <2>1 DEF AcceptInv
  <2> QED
    BY <2>1, <2>2
<1>2. ASSUME NEW key \in Keys, StdTable(key) \/ ArrayTable(key)
      PROVE  Verdict(top', doc', stack', result', errmsg')
  BY <1>2, HeaderAccepts
<1>3. ASSUME NEW key \in Keys, KeyValue(key) PROVE Verdict(top', doc', stack', result', errmsg')
  BY <1>3, KeyValueAccepts
<1>4. CASE Scalar
  BY <1>4, ScalarAccepts
<1>5. ASSUME \/ \E key \in InlineKeys : InlineKey(key)
             \/ OpenArray \/ OpenTable \/ Comma \/ CloseArray \/ CloseTable \/ Finish \/ Malformed
      PROVE  Verdict(top', doc', stack', result', errmsg')
  BY <1>5, OthersAccept
<1> QED
  BY <1>1, <1>2, <1>3, <1>4, <1>5 DEF Next

(***************************************************************************)
(* AcceptsExactly, for documents of any length and keys of any number of   *)
(* parts: the flags that parse_std_table_expr, parse_array_table_expr and  *)
(* parse_keyvalue_expr leave on the tables decide exactly what the lines   *)
(* alone decide (tomlc17.c:1299-1560).                                     *)
(***************************************************************************)
THEOREM RefusedIsContradictory == Spec => []AcceptsExactly
<1>1. Init => TreeInv /\ ReadInv /\ AcceptInv
  BY TreeInit, ReadInit, AcceptInit
<1>2. TreeInv /\ ReadInv /\ AcceptInv /\ [Next]_vars => (TreeInv /\ ReadInv /\ AcceptInv)'
  BY TreeInvStep, ReadStep, AcceptStep
<1>3. TreeInv /\ AcceptInv => AcceptsExactly
  <2> SUFFICES ASSUME TreeInv, AcceptInv, ~Inline(doc), stack = <<>>, doc # <<>>, errmsg \in {"", "conflict"}
               PROVE  errmsg = "conflict" <=> Contradicts(doc, Len(doc))
    BY DEF AcceptsExactly
  <2>1. Verdict(top, doc, stack, result, errmsg)
    BY DEF AcceptInv
  <2>2. errmsg = "" => result # "error"
    BY DEF TreeInv
  <2>3. errmsg = "" => ~Contradicts(doc, Len(doc))
    BY <2>1, <2>2 DEF Verdict, Agrees
  <2>4. errmsg = "conflict" => Contradicts(doc, Len(doc))
    BY <2>1 DEF Verdict
  <2> QED
    BY <2>3, <2>4
<1> QED
  BY <1>1, <1>2, <1>3, PTL DEF Spec

=============================================================================
