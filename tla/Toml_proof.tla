----------------------------- MODULE Toml_proof -----------------------------
(***************************************************************************)
(* Proofs about the TOML parser, for documents of any length, keys of any  *)
(* number of parts and inline values of any depth.                         *)
(***************************************************************************)
EXTENDS Toml, TomlTable_proof

\* The parts of paths; <<>> is the key of a frame that has none yet.
Parts == Nat \cup {<<>>} \cup UNION {Range(key) : key \in Keys \cup InlineKeys}
Tree  == Trees(Parts, Nat)

Frames == [kind : {"doc", "table", "array"}, tree : Tree, tab : Seq(Parts), key : Parts,
           comma : BOOLEAN, want : {"value", "item"}]
LineSet == [kind : Kinds, key : Keys, inline : BOOLEAN]

\* Only the first frame is the document's, and the others hold a value.
FrameRules(s) ==
  /\ s \in Seq(Frames)
  /\ \A i \in 1..Len(s) : /\ s[i].kind = "doc" <=> i = 1
                          /\ s[i].kind # "doc" => <<>> \in DOMAIN s[i].tree

(***************************************************************************)
(* The inductive invariant of TypeOK and of what the parser's pointers     *)
(* depend on: curtab is in the tree until an error frees it, and the value *)
(* that is being read goes at or below curtab.                             *)
(***************************************************************************)
TreeInv ==
  /\ top \in Tree /\ doc \in Seq(LineSet) /\ FrameRules(stack)
  /\ result \in {"parsing", "ok", "error"} /\ errmsg \in Errors /\ (result = "error" <=> errmsg # "")
  /\ bracket_level \in Int /\ brace_level \in Int
  /\ result # "error" => <<>> \in DOMAIN top /\ curtab \in DOMAIN top
  /\ stack # <<>> => result = "parsing" /\ AtOrBelow(curtab, stack[1].tab)

LEMMA KeyTypes ==
  ASSUME NEW key \in Keys \cup InlineKeys
  PROVE  key \in Seq(Parts) /\ key # <<>> /\ Front(key) \in Seq(Parts) /\ Last(key) \in Parts
<1>1. key \in Seq(Range(key)) /\ key # <<>>
  BY KeysAssumption
<1>2. Range(key) \subseteq Parts
  BY DEF Parts
<1>3. key \in Seq(Parts)
  BY <1>1, <1>2, SeqMonotonic
<1> QED
  BY <1>1, <1>3, KeyParts

LEMMA PartsNat == Nat \subseteq Parts /\ 0 \in Nat /\ <<>> \in Seq(Parts)
BY DEF Parts

LEMMA FreedTree == Freed \in Tree /\ DOMAIN Freed = {}
<1>1. Freed \in [{} -> Data(Nat)] /\ DOMAIN Freed = {}
  BY DEF Freed
<1>2. IsFiniteSet({})
  BY FS_EmptySet
<1> QED
  BY <1>1, <1>2, TreeFacts DEF Tree

\* The last frame.
LEMMA LastFrame ==
  ASSUME NEW s \in Seq(Frames), s # <<>>
  PROVE  /\ Last(s) \in Frames /\ Last(s) = s[Len(s)] /\ Len(s) \in Nat /\ Len(s) > 0
         /\ Front(s) \in Seq(Frames) /\ Len(Front(s)) = Len(s) - 1
         /\ \A i \in 1..(Len(s) - 1) : Front(s)[i] = s[i]
<1>1. Len(s) \in Nat /\ Len(s) > 0
  OBVIOUS
<1> QED
  BY <1>1, KeyParts DEF Last

\* The last frame replaced by another.
LEMMA NewLast ==
  ASSUME NEW s \in Seq(Frames), s # <<>>, NEW g \in Frames
  PROVE  LET r == Append(Front(s), g) IN
         /\ r \in Seq(Frames) /\ Len(r) = Len(s) /\ r # <<>>
         /\ \A i \in 1..Len(s) : r[i] = IF i = Len(s) THEN g ELSE s[i]
<1> DEFINE b == Front(s)
           r == Append(b, g)
<1>1. /\ Len(s) \in Nat /\ Len(s) > 0
      /\ b \in Seq(Frames) /\ Len(b) = Len(s) - 1 /\ \A i \in 1..(Len(s) - 1) : b[i] = s[i]
  BY LastFrame
<1> HIDE DEF b
<1>2. r \in Seq(Frames) /\ Len(r) = Len(b) + 1 /\ \A i \in 1..Len(r) : r[i] = IF i = Len(b) + 1 THEN g ELSE b[i]
  BY <1>1
<1> HIDE DEF r
<1>3. Len(r) = Len(s)
  BY <1>1, <1>2
<1>4. \A i \in 1..Len(s) : r[i] = IF i = Len(s) THEN g ELSE s[i]
  BY <1>1, <1>2, <1>3
<1>5. r # <<>>
  BY <1>1, <1>3
<1> QED
  BY <1>2, <1>3, <1>4, <1>5 DEF r, b

\* No frame, and one.
LEMMA FramesFew ==
  /\ FrameRules(<<>>)
  /\ \A g \in Frames : g.kind = "doc" => FrameRules(<<g>>) /\ <<g>>[1] = g
<1>1. Len(<<>>) = 0 /\ <<>> \in Seq(Frames)
  BY EmptySeq
<1>2. FrameRules(<<>>)
  BY <1>1 DEF FrameRules
<1>3. ASSUME NEW g \in Frames, g.kind = "doc" PROVE FrameRules(<<g>>) /\ <<g>>[1] = g
  <2>1. <<g>> \in Seq(Frames) /\ Len(<<g>>) = 1 /\ <<g>>[1] = g
    OBVIOUS
  <2>2. \A i \in 1..1 : i = 1
    OBVIOUS
  <2> QED
    BY <1>3, <2>1, <2>2 DEF FrameRules
<1> QED
  BY <1>2, <1>3

\* One frame more, one changed, one less.
LEMMA FramesPush ==
  ASSUME NEW s, FrameRules(s), s # <<>>, NEW g \in Frames, g.kind # "doc", <<>> \in DOMAIN g.tree
  PROVE  FrameRules(Append(s, g)) /\ Append(s, g) # <<>> /\ Append(s, g)[1] = s[1]
<1> DEFINE r == Append(s, g)
<1>1. s \in Seq(Frames)
  BY DEF FrameRules
<1>2. Len(s) \in Nat /\ Len(s) > 0
  BY <1>1
<1>3. r \in Seq(Frames) /\ Len(r) = Len(s) + 1 /\ \A i \in 1..Len(r) : r[i] = IF i = Len(s) + 1 THEN g ELSE s[i]
  BY <1>1
<1> HIDE DEF r
<1>4. r # <<>> /\ r[1] = s[1]
  BY <1>2, <1>3
<1>5. ASSUME NEW i \in 1..Len(r)
      PROVE  (r[i].kind = "doc" <=> i = 1) /\ (r[i].kind # "doc" => <<>> \in DOMAIN r[i].tree)
  <2>1. CASE i = Len(s) + 1
    BY <1>2, <1>3, <2>1
  <2>2. CASE i # Len(s) + 1
    <3>1. i \in 1..Len(s) /\ r[i] = s[i]
      BY <1>2, <1>3, <2>2
    <3> QED
      BY <3>1 DEF FrameRules
  <2> QED
    BY <2>1, <2>2
<1>6. FrameRules(r)
  BY <1>3, <1>5 DEF FrameRules
<1> QED
  BY <1>4, <1>6 DEF r

LEMMA FramesChange ==
  ASSUME NEW s, FrameRules(s), s # <<>>, NEW g \in Frames, g.kind # "doc", <<>> \in DOMAIN g.tree,
         Last(s).kind # "doc"
  PROVE  LET r == Append(Front(s), g) IN
         /\ FrameRules(r) /\ r # <<>> /\ r[1] = s[1] /\ Len(r) = Len(s)
         /\ \A i \in 1..Len(s) : r[i] = IF i = Len(s) THEN g ELSE s[i]
<1> DEFINE r == Append(Front(s), g)
<1>1. s \in Seq(Frames)
  BY DEF FrameRules
<1>2. Len(s) \in Nat /\ Len(s) > 0 /\ Last(s) = s[Len(s)]
  BY <1>1, LastFrame
<1>3. r \in Seq(Frames) /\ Len(r) = Len(s) /\ r # <<>>
      /\ \A i \in 1..Len(s) : r[i] = IF i = Len(s) THEN g ELSE s[i]
  BY <1>1, NewLast
<1> HIDE DEF r
<1>4. Len(s) # 1
  BY <1>2 DEF FrameRules
<1>5. r[1] = s[1]
  BY <1>2, <1>3, <1>4
<1>6. ASSUME NEW i \in 1..Len(r)
      PROVE  (r[i].kind = "doc" <=> i = 1) /\ (r[i].kind # "doc" => <<>> \in DOMAIN r[i].tree)
  <2>1. CASE i = Len(s)
    BY <1>2, <1>3, <1>4, <2>1
  <2>2. CASE i # Len(s)
    <3>1. i \in 1..Len(s) /\ r[i] = s[i]
      BY <1>2, <1>3, <2>2
    <3> QED
      BY <3>1 DEF FrameRules
  <2> QED
    BY <2>1, <2>2
<1>7. FrameRules(r)
  BY <1>3, <1>6 DEF FrameRules
<1> QED
  BY <1>3, <1>5, <1>7 DEF r

LEMMA FramesPop ==
  ASSUME NEW s, FrameRules(s), s # <<>>, Last(s).kind # "doc"
  PROVE  /\ FrameRules(Front(s)) /\ Front(s) # <<>> /\ Front(s)[1] = s[1]
         /\ Len(Front(s)) = Len(s) - 1 /\ \A i \in 1..(Len(s) - 1) : Front(s)[i] = s[i]
<1> DEFINE r == Front(s)
<1>1. s \in Seq(Frames)
  BY DEF FrameRules
<1>2. Len(s) \in Nat /\ Len(s) > 0 /\ Last(s) = s[Len(s)]
  BY <1>1, LastFrame
<1>3. r \in Seq(Frames) /\ Len(r) = Len(s) - 1 /\ \A i \in 1..(Len(s) - 1) : r[i] = s[i]
  BY <1>1, LastFrame
<1> HIDE DEF r
<1>4. Len(s) # 1
  BY <1>2 DEF FrameRules
<1>5. r # <<>> /\ r[1] = s[1]
  BY <1>2, <1>3, <1>4
<1>6. ASSUME NEW i \in 1..Len(r)
      PROVE  (r[i].kind = "doc" <=> i = 1) /\ (r[i].kind # "doc" => <<>> \in DOMAIN r[i].tree)
  <2>1. i \in 1..Len(s) /\ r[i] = s[i]
    BY <1>2, <1>3
  <2> QED
    BY <2>1 DEF FrameRules
<1>7. FrameRules(r)
  BY <1>3, <1>6 DEF FrameRules
<1> QED
  BY <1>3, <1>5, <1>7 DEF r

LEMMA LastRules ==
  ASSUME NEW s, FrameRules(s), s # <<>>
  PROVE  /\ Last(s) \in Frames /\ (Last(s).kind # "doc" => <<>> \in DOMAIN Last(s).tree)
         /\ (Last(s).kind = "doc" => Last(s) = s[1])
         /\ Last(s) = s[Len(s)] /\ Len(s) \in Nat /\ Len(s) > 0 /\ s \in Seq(Frames)
<1>1. s \in Seq(Frames)
  BY DEF FrameRules
<1>2. Last(s) \in Frames /\ Last(s) = s[Len(s)] /\ Len(s) \in Nat /\ Len(s) > 0
  BY <1>1, LastFrame
<1> QED
  BY <1>1, <1>2 DEF FrameRules

-----------------------------------------------------------------------------
(* What a step does to the tree *)

(***************************************************************************)
(* Unless the document is refused, the tree only grows; and the current    *)
(* table is set, or what is new is below it.                               *)
(***************************************************************************)
TreeStep ==
  \/ result' = "error"
  \/ /\ Grows(top, top', <<>>)
     /\ \/ pinned' = Sizes(top', curtab')
        \/ UNCHANGED <<curtab, pinned>> /\ Grows(top, top', curtab)

Counters == bracket_level' \in Int /\ brace_level' \in Int /\ doc' \in Seq(LineSet)

LEMMA BailStep ==
  ASSUME TreeInv, NEW e \in Errors \ {""}, Bail(e), Counters
  PROVE  TreeInv' /\ TreeStep
<1>1. /\ top' = Freed /\ stack' = <<>>
      /\ result' = "error" /\ errmsg' = e
  BY DEF Bail
<1>2. TreeInv'
  BY <1>1, FreedTree, FramesFew DEF TreeInv, Counters
<1> QED
  BY <1>1, <1>2 DEF TreeStep

\* parse_key refuses a key of too many parts and passes on the rest.
LEMMA ParseKey ==
  ASSUME NEW key, NEW r, NEW t, NEW from, Proper(r, t, from, Parts, Nat)
  PROVE  Proper(parse_key(key, r), t, from, Parts, Nat)
<1>1. Proper(Refuse("too many parts"), t, from, Parts, Nat)
  BY RefuseProper DEF Errors
<1> QED
  BY <1>1 DEF parse_key

\* A tree that grows below a place grows below the root.
LEMMA GrowsRoot ==
  ASSUME NEW t \in Tree, NEW u \in Tree, NEW from \in Seq(Parts), Grows(t, u, from)
  PROVE  Grows(t, u, <<>>)
<1>1. <<>> \in Seq(Parts) /\ AtOrBelow(<<>>, from) /\ Grows(t, t, <<>>)
  BY PartsNat DEF AtOrBelow, Grows
<1> QED
  BY <1>1, GrowsTwice DEF Tree

LEMMA SetCurtabStep ==
  ASSUME TreeInv, NEW r, Proper(r, top, <<>>, Parts, Nat), SetCurtab(r), Counters, AtLine
  PROVE  TreeInv' /\ TreeStep
<1>1. CASE r.err # ""
  <2>1. r.err \in Errors \ {""} /\ Bail(r.err)
    BY <1>1 DEF SetCurtab, Proper
  <2> QED
    BY <2>1, BailStep
<1>2. CASE r.err = ""
  <2>1. /\ r.t \in Tree /\ Grows(top, r.t, <<>>) /\ r.p \in DOMAIN r.t
    BY <1>2 DEF Proper, Tree
  <2>2. /\ top' = r.t /\ curtab' = r.p /\ pinned' = Sizes(r.t, r.p)
        /\ stack' = stack /\ result' = result /\ errmsg' = errmsg
    BY <1>2 DEF SetCurtab
  <2>3. stack = <<>> /\ result = "parsing" /\ <<>> \in DOMAIN top
    BY DEF AtLine, TreeInv
  <2>4. <<>> \in DOMAIN top'
    BY <2>1, <2>2, <2>3 DEF Grows
  <2>5. TreeInv'
    BY <2>1, <2>2, <2>3, <2>4 DEF TreeInv, Counters
  <2> QED
    BY <2>1, <2>2, <2>5 DEF TreeStep
<1> QED
  BY <1>1, <1>2

\* The place of the value is fixed before the value is read.
LEMMA KeyValueStep ==
  ASSUME TreeInv, NEW key \in Keys, KeyValue(key), Counters
  PROVE  TreeInv' /\ TreeStep
<1> DEFINE r == parse_key(key, parse_keyvalue_expr(top, curtab, key))
           g == [Frame("doc", Freed, "value") EXCEPT !.tab = r.p, !.key = Last(key)]
<1>1. AtLine
  BY DEF KeyValue, MayRead
<1>2. /\ result = "parsing" /\ stack = <<>> /\ curtab \in DOMAIN top /\ <<>> \in DOMAIN top
      /\ top \in Trees(Parts, Nat)
  BY <1>1 DEF AtLine, TreeInv, Tree
<1>3. Proper(r, top, curtab, Parts, Nat)
  BY <1>2, KeyTypes, PartsNat, KeyValueProper, ParseKey
<1>4. IF r.err # "" THEN Bail(r.err)
      ELSE top' = r.t /\ stack' = <<g>> /\ UNCHANGED <<curtab, pinned, result, errmsg>>
  BY DEF KeyValue
<1>5. CASE r.err # ""
  <2> HIDE DEF r
  <2>1. r.err \in Errors \ {""} /\ Bail(r.err)
    BY <1>3, <1>4, <1>5 DEF Proper
  <2> QED
    BY <2>1, BailStep
<1>6. CASE r.err = ""
  <2> HIDE DEF r
  <2>1. r.t \in Tree /\ Grows(top, r.t, curtab) /\ r.p \in DOMAIN r.t /\ AtOrBelow(curtab, r.p)
    BY <1>3, <1>6 DEF Proper, Tree
  <2>2. top' = r.t /\ stack' = <<g>> /\ UNCHANGED <<curtab, pinned, result, errmsg>>
    BY <1>4, <1>6
  <2>3. r.p \in Seq(Parts) /\ curtab \in Seq(Parts)
    BY <1>2, <2>1, TreeFacts DEF Tree
  <2>4. g \in Frames /\ g.kind = "doc" /\ g.tab = r.p
    BY <2>3, KeyTypes, FreedTree DEF Frame, Frames
  <2>5. FrameRules(stack') /\ stack'[1] = g
    BY <2>2, <2>4, FramesFew
  <2>6. Grows(top, top', <<>>) /\ Grows(top, top', curtab)
    BY <1>2, <2>1, <2>2, <2>3, GrowsRoot DEF Tree
  <2>7. <<>> \in DOMAIN top' /\ curtab' \in DOMAIN top'
    BY <1>2, <2>2, <2>6 DEF Grows
  <2> HIDE DEF g
  <2>8. AtOrBelow(curtab', stack'[1].tab)
    BY <2>1, <2>2, <2>4, <2>5
  <2>9. TreeInv'
    BY <1>2, <2>1, <2>2, <2>5, <2>7, <2>8 DEF TreeInv, Counters
  <2> QED
    BY <2>2, <2>6, <2>9 DEF TreeStep
<1> QED
  BY <1>5, <1>6

\* A value that is complete: it goes to the innermost frame of stk.
LEMMA DeliverStep ==
  ASSUME TreeInv, stack # <<>>, NEW stk, FrameRules(stk), stk # <<>>, stk[1] = stack[1],
         NEW sub \in Tree, <<>> \in DOMAIN sub, Deliver(stk, sub), Counters
  PROVE  TreeInv' /\ TreeStep
<1> DEFINE g == Last(stk)
           r == CASE g.kind = "doc"   -> tab_add(top, g.tab, g.key, sub)
                  [] g.kind = "table" -> tab_add(g.tree, g.tab, g.key, sub)
                  [] g.kind = "array" -> arr_emplace(g.tree, <<>>, sub)
           h == [g EXCEPT !.tree = r.t, !.want = "item", !.comma = TRUE]
<1>1. /\ g \in Frames /\ (g.kind # "doc" => <<>> \in DOMAIN g.tree)
      /\ (g.kind = "doc" => g = stack[1])
  BY LastRules
<1>2. /\ result = "parsing" /\ curtab \in DOMAIN top /\ <<>> \in DOMAIN top /\ top \in Tree
      /\ AtOrBelow(curtab, stack[1].tab)
  BY DEF TreeInv
<1>3. g.kind \in {"doc", "table", "array"} /\ g.tree \in Tree /\ g.tab \in Seq(Parts) /\ g.key \in Parts
  BY <1>1 DEF Frames
<1>4. IF r.err # "" THEN Bail(r.err)
      ELSE /\ top' = IF g.kind = "doc" THEN r.t ELSE top
           /\ stack' = IF g.kind = "doc" THEN <<>> ELSE Append(Front(stk), h)
           /\ UNCHANGED <<curtab, pinned, result, errmsg>>
  BY DEF Deliver
<1>5. g.kind = "doc" => Proper(r, top, g.tab, Parts, Nat)
  BY <1>2, <1>3, TabAddProper DEF Tree
<1>6. g.kind = "table" => Proper(r, g.tree, g.tab, Parts, Nat)
  BY <1>3, TabAddProper DEF Tree
<1>7. g.kind = "array" => Proper(r, g.tree, <<>>, Parts, Nat)
  BY <1>3, PartsNat, ArrEmplaceProper DEF Tree
<1> HIDE DEF r
<1>8. CASE r.err # ""
  <2>1. r.err \in Errors \ {""} /\ Bail(r.err)
    BY <1>3, <1>4, <1>5, <1>6, <1>7, <1>8 DEF Proper
  <2> QED
    BY <2>1, BailStep
<1>9. CASE r.err = "" /\ g.kind = "doc"
  <2>1. top' = r.t /\ stack' = <<>> /\ UNCHANGED <<curtab, pinned, result, errmsg>>
    BY <1>4, <1>9
  <2>2. r.t \in Tree /\ Grows(top, r.t, g.tab)
    BY <1>5, <1>9 DEF Proper, Tree
  <2>3. AtOrBelow(curtab, g.tab) /\ curtab \in Seq(Parts)
    BY <1>1, <1>2, <1>9, TreeFacts DEF Tree
  <2> HIDE DEF g
  <2>4. Grows(top, r.t, curtab)
    BY <1>2, <1>3, <2>2, <2>3, GrowsTwice, GrowsNot DEF Tree
  <2>5. Grows(top, r.t, <<>>)
    BY <1>2, <2>2, <2>3, <2>4, GrowsRoot
  <2>6. <<>> \in DOMAIN top' /\ curtab' \in DOMAIN top'
    BY <1>2, <2>1, <2>5 DEF Grows
  <2>7. TreeInv'
    BY <1>2, <2>1, <2>2, <2>6, FramesFew DEF TreeInv, Counters
  <2> QED
    BY <2>1, <2>4, <2>5, <2>7 DEF TreeStep
<1>10. CASE r.err = "" /\ g.kind # "doc"
  <2>1. top' = top /\ stack' = Append(Front(stk), h) /\ UNCHANGED <<curtab, pinned, result, errmsg>>
    BY <1>4, <1>10
  <2>2. r.t \in Tree /\ <<>> \in DOMAIN r.t
    BY <1>1, <1>3, <1>6, <1>7, <1>10 DEF Proper, Tree, Grows
  <2>3. h \in Frames /\ h.kind = g.kind /\ h.tree = r.t
    BY <1>1, <2>2 DEF Frames
  <2>4. FrameRules(stack') /\ stack' # <<>> /\ stack'[1] = stack[1]
    <3> HIDE DEF h
    <3> QED
      BY <1>10, <2>1, <2>2, <2>3, FramesChange
  <2>5. TreeInv'
    BY <1>2, <2>1, <2>4 DEF TreeInv, Counters
  <2> QED
    BY <2>1, <2>5, GrowsNot DEF TreeStep
<1> QED
  BY <1>8, <1>9, <1>10

\* Steps inside a value change frames only.
LEMMA FramesStep ==
  ASSUME TreeInv, stack # <<>>, FrameRules(stack'), stack' # <<>>, stack'[1] = stack[1],
         UNCHANGED <<top, curtab, pinned, result, errmsg>>, Counters
  PROVE  TreeInv' /\ TreeStep
<1>1. TreeInv'
  BY DEF TreeInv, Counters
<1> QED
  BY <1>1, GrowsNot DEF TreeStep

\* One line more, and the last line marked as inline.
LEMMA DocAppend ==
  ASSUME NEW d \in Seq(LineSet), NEW kind \in Kinds, NEW key \in Keys
  PROVE  /\ Append(d, Line(kind, key)) \in Seq(LineSet) /\ Line(kind, key).kind = kind
         /\ Len(Append(d, Line(kind, key))) = Len(d) + 1
<1>1. Line(kind, key) \in LineSet /\ Line(kind, key).kind = kind
  BY DEF Line, LineSet
<1> HIDE DEF LineSet
<1> QED
  BY <1>1

LEMMA DocMark ==
  ASSUME NEW d \in Seq(LineSet)
  PROVE  LET e == [d EXCEPT ![Len(d)].inline = TRUE] IN
         e \in Seq(LineSet) /\ DOMAIN e = DOMAIN d /\ \A i \in DOMAIN d : e[i].kind = d[i].kind /\ e[i].key = d[i].key
<1> DEFINE n == Len(d)
           l == [d[n] EXCEPT !.inline = TRUE]
           e == [d EXCEPT ![n].inline = TRUE]
<1>1. n \in Nat /\ DOMAIN d = 1..n /\ DOMAIN e = DOMAIN d /\ \A i \in DOMAIN d : e[i] = IF i = n THEN l ELSE d[i]
  OBVIOUS
<1>2. \A i \in 1..n : d[i] \in LineSet
  OBVIOUS
<1>3. \A i \in 1..n : e[i] \in LineSet /\ e[i].kind = d[i].kind /\ e[i].key = d[i].key
  BY <1>1, <1>2 DEF LineSet
<1>4. e = [i \in 1..n |-> e[i]]
  BY <1>1
<1>5. e \in Seq(LineSet)
  <2> HIDE DEF e, n
  <2>1. e \in [1..n -> LineSet] /\ n \in Nat
    BY <1>1, <1>3, <1>4
  <2> QED
    BY <2>1
<1> QED
  BY <1>1, <1>3, <1>5

LEMMA HeaderStep ==
  ASSUME TreeInv, NEW key \in Keys, StdTable(key) \/ ArrayTable(key)
  PROVE  TreeInv' /\ TreeStep
<1>1. AtLine
  BY DEF StdTable, ArrayTable, MayRead
<1>2. top \in Trees(Parts, Nat) /\ <<>> \in DOMAIN top
  BY <1>1 DEF AtLine, TreeInv, Tree
<1>3. doc \in Seq(LineSet) /\ bracket_level \in Int /\ brace_level \in Int
  BY DEF TreeInv
<1>4. CASE StdTable(key)
  <2>1. Counters
    BY <1>3, <1>4, DocAppend DEF StdTable, Counters, Kinds
  <2>2. Proper(parse_key(key, parse_std_table_expr(top, key)), top, <<>>, Parts, Nat)
    BY <1>2, KeyTypes, PartsNat, StdTableProper, ParseKey
  <2>3. SetCurtab(parse_key(key, parse_std_table_expr(top, key)))
    BY <1>4 DEF StdTable
  <2> QED
    BY <1>1, <2>1, <2>2, <2>3, SetCurtabStep
<1>5. CASE ArrayTable(key)
  <2>1. Counters
    BY <1>3, <1>5, DocAppend DEF ArrayTable, Counters, Kinds
  <2>2. Proper(parse_key(key, parse_array_table_expr(top, key)), top, <<>>, Parts, Nat)
    BY <1>2, KeyTypes, PartsNat, ArrayTableProper, ParseKey
  <2>3. SetCurtab(parse_key(key, parse_array_table_expr(top, key)))
    BY <1>5 DEF ArrayTable
  <2> QED
    BY <1>1, <2>1, <2>2, <2>3, SetCurtabStep
<1> QED
  BY <1>4, <1>5

\* A bracket or a brace.
LEMMA DescendStep ==
  ASSUME TreeInv, NEW kind \in {"table", "array"}, NEW level, NEW max, NEW t \in Tree, <<>> \in DOMAIN t,
         Descend(kind, level, max, t), bracket_level' \in Int, brace_level' \in Int
  PROVE  TreeInv' /\ TreeStep
<1>1. stack # <<>> /\ FrameRules(stack) /\ doc \in Seq(LineSet)
  BY DEF Descend, WantsValue, Open, TreeInv
<1>2. Counters
  BY <1>1, DocMark DEF Descend, Counters
<1>3. CASE level + 1 > max
  <2>1. Bail("stack overflow")
    BY <1>3 DEF Descend
  <2> QED
    BY <1>2, <2>1, BailStep DEF Errors
<1>4. CASE ~(level + 1 > max)
  <2> DEFINE g == Frame(kind, t, "item")
  <2>1. stack' = Append(stack, g) /\ UNCHANGED <<top, curtab, pinned, result, errmsg>>
    BY <1>4 DEF Descend
  <2>2. g \in Frames /\ g.kind # "doc" /\ g.tree = t
    BY PartsNat DEF Frame, Frames, Parts
  <2> HIDE DEF g
  <2>3. FrameRules(stack') /\ stack' # <<>> /\ stack'[1] = stack[1]
    BY <1>1, <2>1, <2>2, FramesPush
  <2> QED
    BY <1>1, <1>2, <2>1, <2>3, FramesStep
<1> QED
  BY <1>3, <1>4

LEMMA InlineKeyStep ==
  ASSUME TreeInv, NEW key \in InlineKeys, InlineKey(key)
  PROVE  TreeInv' /\ TreeStep
<1> DEFINE r == parse_key(key, parse_inline_key(f.tree, key))
           g == [f EXCEPT !.tree = r.t, !.tab = r.p, !.key = Last(key), !.want = "value"]
<1>1. stack # <<>> /\ FrameRules(stack) /\ f.kind = "table"
  BY DEF InlineKey, InItems, Open, TreeInv
<1>2. f \in Frames /\ <<>> \in DOMAIN f.tree
  BY <1>1, LastRules DEF f
<1>3. f.tree \in Trees(Parts, Nat)
  BY <1>2 DEF Frames, Tree
<1>4. Proper(r, f.tree, <<>>, Parts, Nat)
  BY <1>2, <1>3, KeyTypes, PartsNat, InlineKeyProper, ParseKey
<1>5. IF r.err # "" THEN Bail(r.err)
      ELSE stack' = Append(Front(stack), g) /\ UNCHANGED <<top, curtab, pinned, result, errmsg>>
  BY DEF InlineKey
<1>6. Counters
  BY DEF InlineKey, TreeInv, Counters
<1> HIDE DEF r
<1>7. CASE r.err # ""
  <2>1. r.err \in Errors \ {""} /\ Bail(r.err)
    BY <1>4, <1>5, <1>7 DEF Proper
  <2> QED
    BY <1>6, <2>1, BailStep
<1>8. CASE r.err = ""
  <2>1. r.t \in Tree /\ r.p \in DOMAIN r.t /\ <<>> \in DOMAIN r.t
    BY <1>2, <1>4, <1>8 DEF Proper, Tree, Grows
  <2>2. r.p \in Seq(Parts)
    BY <2>1, TreeFacts DEF Tree
  <2>3. g \in Frames /\ g.kind = "table" /\ g.tree = r.t
    BY <1>1, <1>2, <2>1, <2>2, KeyTypes DEF Frames
  <2> HIDE DEF g
  <2>4. /\ stack' = Append(Front(stack), g) /\ g.kind # "doc" /\ <<>> \in DOMAIN g.tree
        /\ Last(stack).kind # "doc"
    BY <1>1, <1>5, <1>8, <2>1, <2>3 DEF f
  <2>5. FrameRules(stack') /\ stack' # <<>> /\ stack'[1] = stack[1]
    BY <1>1, <2>3, <2>4, FramesChange
  <2> QED
    BY <1>1, <1>5, <1>6, <1>8, <2>5, FramesStep
<1> QED
  BY <1>7, <1>8

LEMMA CommaStep ==
  ASSUME TreeInv, Comma
  PROVE  TreeInv' /\ TreeStep
<1> DEFINE g == [f EXCEPT !.comma = FALSE]
<1>1. stack # <<>> /\ FrameRules(stack) /\ f.kind # "doc" /\ stack' = Append(Front(stack), g)
  BY DEF Comma, InItems, Open, TreeInv
<1>2. f \in Frames /\ <<>> \in DOMAIN f.tree
  BY <1>1, LastRules DEF f
<1>3. g \in Frames /\ g.kind = f.kind /\ g.tree = f.tree
  BY <1>2 DEF Frames
<1> HIDE DEF g
<1>4. FrameRules(stack') /\ stack' # <<>> /\ stack'[1] = stack[1]
  BY <1>1, <1>2, <1>3, FramesChange DEF f
<1>5. Counters /\ UNCHANGED <<top, curtab, pinned, result, errmsg>>
  BY DEF Comma, Counters, TreeInv
<1> QED
  BY <1>1, <1>4, <1>5, FramesStep

LEMMA ScalarStep ==
  ASSUME TreeInv, Scalar
  PROVE  TreeInv' /\ TreeStep
<1>1. stack # <<>> /\ FrameRules(stack) /\ doc \in Seq(LineSet)
  BY DEF Scalar, WantsValue, Open, TreeInv
<1>2. mkdatum("int64", {}, Len(doc)) \in Data(Nat)
  BY <1>1 DEF mkdatum, Data, Types
<1>3. Single(mkdatum("int64", {}, Len(doc))) \in Tree /\ <<>> \in DOMAIN Single(mkdatum("int64", {}, Len(doc)))
  BY <1>2, SingleTree DEF Tree
<1>4. Deliver(stack, Single(mkdatum("int64", {}, Len(doc)))) /\ Counters
  BY DEF Scalar, Counters, TreeInv
<1> QED
  BY <1>1, <1>3, <1>4, DeliverStep

LEMMA CloseStep ==
  ASSUME TreeInv, CloseArray \/ CloseTable
  PROVE  TreeInv' /\ TreeStep
<1>1. stack # <<>> /\ FrameRules(stack) /\ f.kind # "doc"
  BY DEF CloseArray, CloseTable, InItems, Open, TreeInv
<1>2. f \in Frames /\ <<>> \in DOMAIN f.tree
  BY <1>1, LastRules DEF f
<1>3. set_flag_recursive(f.tree, "INLINED") \in Tree /\ <<>> \in DOMAIN set_flag_recursive(f.tree, "INLINED")
  BY <1>2, SetFlagRecursiveTree DEF Frames, Tree, Flags
<1>4. FrameRules(Front(stack)) /\ Front(stack) # <<>> /\ Front(stack)[1] = stack[1]
  BY <1>1, FramesPop DEF f
<1>5. Deliver(Front(stack), set_flag_recursive(f.tree, "INLINED"))
  BY DEF CloseArray, CloseTable, Close
<1>6. Counters
  <2>1. bracket_level \in Int /\ brace_level \in Int /\ doc \in Seq(LineSet)
    BY DEF TreeInv
  <2> QED
    BY <2>1 DEF CloseArray, CloseTable, Counters
<1> QED
  BY <1>1, <1>3, <1>4, <1>5, <1>6, DeliverStep

\* Every step.
LEMMA TreeNext ==
  ASSUME TreeInv, Next
  PROVE  TreeInv' /\ TreeStep
<1>1. ASSUME NEW key \in Keys, StdTable(key) \/ ArrayTable(key) PROVE TreeInv' /\ TreeStep
  BY <1>1, HeaderStep
<1>2. ASSUME NEW key \in Keys, KeyValue(key) PROVE TreeInv' /\ TreeStep
  <2>1. doc \in Seq(LineSet) /\ bracket_level \in Int /\ brace_level \in Int
    BY DEF TreeInv
  <2>2. Counters
    BY <1>2, <2>1, DocAppend DEF KeyValue, Counters, Kinds
  <2> QED
    BY <1>2, <2>2, KeyValueStep
<1>3. ASSUME NEW key \in InlineKeys, InlineKey(key) PROVE TreeInv' /\ TreeStep
  BY <1>3, InlineKeyStep
<1>4. CASE Scalar
  BY <1>4, ScalarStep
<1>5. CASE OpenArray
  <2>1. NewArray \in Tree /\ <<>> \in DOMAIN NewArray
    BY PartsNat, NewTrees DEF Tree
  <2>2. bracket_level' \in Int /\ brace_level' \in Int
    <3>1. bracket_level \in Int /\ brace_level \in Int
      BY DEF TreeInv
    <3> QED
      BY <1>5, <3>1 DEF OpenArray
  <2> QED
    BY <1>5, <2>1, <2>2, DescendStep DEF OpenArray
<1>6. CASE OpenTable
  <2>1. NewTable({}) \in Tree /\ <<>> \in DOMAIN NewTable({})
    BY PartsNat, NewTrees DEF Tree
  <2>2. bracket_level' \in Int /\ brace_level' \in Int
    <3>1. bracket_level \in Int /\ brace_level \in Int
      BY DEF TreeInv
    <3> QED
      BY <1>6, <3>1 DEF OpenTable
  <2> QED
    BY <1>6, <2>1, <2>2, DescendStep DEF OpenTable
<1>7. CASE Comma
  BY <1>7, CommaStep
<1>8. CASE CloseArray \/ CloseTable
  BY <1>8, CloseStep
<1>9. CASE Finish
  <2>1. TreeInv'
    BY <1>9 DEF Finish, AtLine, TreeInv
  <2> QED
    BY <1>9, <2>1, GrowsNot DEF Finish, TreeStep
<1>10. CASE Malformed
  <2>1. Counters
    BY <1>10 DEF Malformed, Counters, TreeInv
  <2> QED
    BY <1>10, <2>1, BailStep DEF Malformed, Errors
<1> QED
  BY <1>1, <1>2, <1>3, <1>4, <1>5, <1>6, <1>7, <1>8, <1>9, <1>10 DEF Next

LEMMA TreeInit == Init => TreeInv /\ CurtabLive
<1> SUFFICES ASSUME Init PROVE TreeInv /\ CurtabLive
  OBVIOUS
<1>1. top \in Tree /\ DOMAIN top = {<<>>}
  BY PartsNat, NewTrees DEF Init, Tree
<1>2. stack = <<>> /\ FrameRules(stack)
  BY FramesFew DEF Init
<1>3. doc = <<>> /\ doc \in Seq(LineSet)
  BY EmptySeq DEF Init
<1>4. CurtabLive
  BY DEF Init, CurtabLive
<1>5. /\ curtab = <<>> /\ result = "parsing" /\ errmsg = "" /\ bracket_level = 0 /\ brace_level = 0
  BY DEF Init
<1>6. <<>> \in DOMAIN top /\ curtab \in DOMAIN top
  BY <1>1, <1>5
<1>7. bracket_level \in Int /\ brace_level \in Int
  <2>1. 0 \in Int
    OBVIOUS
  <2> QED
    BY <1>5, <2>1
<1>8. errmsg \in Errors /\ (result = "error" <=> errmsg # "") /\ result \in {"parsing", "ok", "error"}
  BY <1>5 DEF Errors
<1>9. TreeInv
  BY <1>1, <1>2, <1>3, <1>5, <1>6, <1>7, <1>8 DEF TreeInv
<1> QED
  BY <1>4, <1>9

LEMMA TreeInvStep == TreeInv /\ [Next]_vars => TreeInv'
<1>1. CASE UNCHANGED vars
  BY <1>1 DEF vars, TreeInv
<1> QED
  BY <1>1, TreeNext

LEMMA TreeInvTypes == TreeInv => TypeOK
<1> SUFFICES ASSUME TreeInv PROVE TypeOK
  OBVIOUS
<1>1. top \in [DOMAIN top -> Data(Nat)]
  BY TreeFacts DEF TreeInv, Tree
<1>2. \A p \in DOMAIN top : top[p].type \in Types /\ top[p].flag \subseteq Flags
  BY <1>1 DEF Data
<1>3. result # "error" => curtab \in DOMAIN top
  BY DEF TreeInv
<1>4. stack \in Seq(Frames) /\ \A i \in 1..Len(stack) : stack[i].kind = "doc" <=> i = 1
  BY DEF TreeInv, FrameRules
<1>5. \A i \in DOMAIN stack : stack[i].kind = "doc" <=> i = 1
  BY <1>4
<1>6. doc \in Seq(LineSet)
  BY DEF TreeInv
<1>7. \A i \in DOMAIN doc : doc[i] \in LineSet
  BY <1>6
<1>8. \A i \in DOMAIN doc : doc[i].kind \in Kinds
  BY <1>7 DEF LineSet
<1> QED
  BY <1>2, <1>3, <1>5, <1>8 DEF TypeOK, TreeInv

(***************************************************************************)
(* For documents, keys and inline values of any size: the tree is well     *)
(* typed, the current table is in it, and an error is reported exactly     *)
(* when the parser has given up (tomlc17.c:404-520, 1299-1560).            *)
(***************************************************************************)
THEOREM TypeCorrect == Spec => []TypeOK
BY TreeInit, TreeInvStep, TreeInvTypes, PTL DEF Spec

(***************************************************************************)
(* Nothing that is in the table is ever replaced or moved, whatever the    *)
(* document (EntriesStay; tomlc17.c:318-325).                              *)
(***************************************************************************)
THEOREM EntriesKept == Spec => EntriesStay
<1>1. TreeInv /\ [Next]_vars =>
        [result' # "error" => \A p \in DOMAIN top : p \in DOMAIN top' /\ top'[p].type = top[p].type
                                                   /\ top'[p].val = top[p].val]_vars
  <2> SUFFICES ASSUME TreeInv, Next, result' # "error"
               PROVE  \A p \in DOMAIN top : p \in DOMAIN top' /\ top'[p].type = top[p].type
                                           /\ top'[p].val = top[p].val
    OBVIOUS
  <2>1. Grows(top, top', <<>>)
    BY TreeNext DEF TreeStep
  <2> QED
    BY <2>1 DEF Grows
<1> QED
  BY <1>1, TreeInit, TreeInvStep, PTL DEF Spec, EntriesStay

-----------------------------------------------------------------------------
(* The current table *)

\* What is added below a place is no child of anything above it.
LEMMA GrowsSizes ==
  ASSUME NEW t \in Tree, NEW u \in Tree, NEW p \in Seq(Parts), Grows(t, u, p)
  PROVE  Sizes(u, p) = Sizes(t, p)
<1>1. DOMAIN t \subseteq Seq(Parts) /\ DOMAIN u \subseteq Seq(Parts)
  BY TreeFacts DEF Tree
<1>2. ASSUME NEW q \in Above(p) PROVE size(u, q) = size(t, q)
  <2>1. PICK i \in 0..(Len(p) - 1) : q = SubSeq(p, 1, i)
    BY <1>2 DEF Above
  <2>2. Len(p) \in Nat /\ i \in Nat /\ i < Len(p)
    OBVIOUS
  <2>3. \A j \in 1..i : p[j] \in Parts
    BY <2>2
  <2>4. Len(q) = IF 1 <= i THEN i - 1 + 1 ELSE 0
    BY <2>1, <2>2, <2>3, SubSeqProperties
  <2>5. Len(q) = i
    BY <2>2, <2>4
  <2> DEFINE C(v) == {r \in DOMAIN v : Len(r) = Len(q) + 1 /\ IsPrefix(q, r)}
  <2>6. ASSUME NEW r \in DOMAIN u, Len(r) = Len(q) + 1 PROVE r \in DOMAIN t
    <3> SUFFICES ASSUME Below(p, r) PROVE FALSE
      BY DEF Grows
    <3>1. Len(p) < Len(r) /\ Len(r) \in Nat
      BY <1>1 DEF Below
    <3> QED
      BY <2>2, <2>5, <2>6, <3>1
  <2>7. DOMAIN t \subseteq DOMAIN u
    BY DEF Grows
  <2>8. C(u) = C(t)
    BY <2>6, <2>7
  <2> QED
    BY <2>8 DEF size
<1> QED
  BY <1>2 DEF Sizes

(***************************************************************************)
(* The pointer that the parser holds into value[] or elem[] stays good,    *)
(* whatever the document: no container above the current table grows while *)
(* it is the current one (CurtabLive; tomlc17.c:275-296, 337-345, 1378,    *)
(* 1484).                                                                  *)
(***************************************************************************)
THEOREM CurtabStaysLive == Spec => []CurtabLive
<1>1. TreeInv /\ CurtabLive /\ [Next]_vars => CurtabLive'
  <2> SUFFICES ASSUME TreeInv, CurtabLive, [Next]_vars, result' = "parsing"
               PROVE  pinned' = Sizes(top', curtab')
    BY DEF CurtabLive
  <2>1. CASE UNCHANGED vars
    BY <2>1 DEF vars, CurtabLive
  <2>2. CASE Next
    <3>1. TreeStep /\ TreeInv'
      BY <2>2, TreeNext
    <3>2. result = "parsing"
      BY <2>2 DEF Next, StdTable, ArrayTable, KeyValue, MayRead, AtLine, Finish, Malformed, TreeInv,
                  InlineKey, InItems, Open, Scalar, WantsValue, OpenArray, OpenTable, Descend, Comma,
                  CloseArray, CloseTable
    <3>3. CASE UNCHANGED <<curtab, pinned>> /\ Grows(top, top', curtab)
      <4>1. top \in Tree /\ top' \in Tree /\ curtab \in DOMAIN top
        BY <3>1, <3>2 DEF TreeInv
      <4>2. curtab \in Seq(Parts)
        BY <4>1, TreeFacts DEF Tree
      <4>3. Sizes(top', curtab) = Sizes(top, curtab)
        BY <3>3, <4>1, <4>2, GrowsSizes
      <4> QED
        BY <3>2, <3>3, <4>3 DEF CurtabLive
    <3> QED
      BY <3>1, <3>3 DEF TreeStep
  <2> QED
    BY <2>1, <2>2
<1> QED
  BY <1>1, TreeInit, TreeInvStep, PTL DEF Spec

-----------------------------------------------------------------------------
(* The depth of the recursion *)

\* Levels and Headers of any sequence.
Count(s, kind) == Cardinality({i \in DOMAIN s : s[i].kind = kind})

LEMMA CountNat ==
  ASSUME NEW S, NEW s \in Seq(S), NEW kind
  PROVE  Count(s, kind) \in Nat /\ IsFiniteSet({i \in DOMAIN s : s[i].kind = kind})
<1> DEFINE C == {i \in DOMAIN s : s[i].kind = kind}
<1>1. Len(s) \in Nat /\ DOMAIN s = 1..Len(s) /\ C \subseteq DOMAIN s
  OBVIOUS
<1>2. IsFiniteSet(1..Len(s))
  BY <1>1, FS_Interval
<1> HIDE DEF C
<1>3. IsFiniteSet(C)
  BY <1>1, <1>2, FS_Subset
<1>4. Cardinality(C) \in Nat
  BY <1>3, FS_CardinalityType
<1> QED
  BY <1>3, <1>4 DEF Count, C

LEMMA CountEmpty == \A kind : Count(<<>>, kind) = 0
<1> SUFFICES ASSUME NEW kind PROVE Count(<<>>, kind) = 0
  OBVIOUS
<1>1. {i \in DOMAIN <<>> : <<>>[i].kind = kind} = {}
  OBVIOUS
<1> QED
  BY <1>1, FS_EmptySet DEF Count

\* One element more.
LEMMA CountAppend ==
  ASSUME NEW S, NEW s \in Seq(S), NEW x \in S, NEW kind
  PROVE  Count(Append(s, x), kind) = Count(s, kind) + (IF x.kind = kind THEN 1 ELSE 0)
<1> DEFINE r == Append(s, x)
           n == Len(s)
           C == {i \in DOMAIN s : s[i].kind = kind}
           D == {i \in DOMAIN r : r[i].kind = kind}
<1>1. n \in Nat /\ DOMAIN s = 1..n /\ DOMAIN r = 1..(n + 1) /\ r[n + 1] = x /\ \A i \in 1..n : r[i] = s[i]
  OBVIOUS
<1>2. Cardinality(C) \in Nat /\ IsFiniteSet(C)
  BY CountNat DEF Count
<1>3. D = IF x.kind = kind THEN C \cup {n + 1} ELSE C
  <2> HIDE DEF r, n
  <2> QED
    BY <1>1
<1>4. n + 1 \notin C
  BY <1>1
<1> HIDE DEF C, D
<1>5. Cardinality(C \cup {n + 1}) = Cardinality(C) + 1
  BY <1>2, <1>4, FS_AddElement
<1>6. Cardinality(D) = Cardinality(C) + (IF x.kind = kind THEN 1 ELSE 0)
  BY <1>2, <1>3, <1>5
<1> QED
  BY <1>6 DEF Count, C, D

\* The same kinds at the same places.
LEMMA CountSame ==
  ASSUME NEW s, NEW r, DOMAIN r = DOMAIN s, \A i \in DOMAIN s : r[i].kind = s[i].kind, NEW kind
  PROVE  Count(r, kind) = Count(s, kind)
<1>1. {i \in DOMAIN r : r[i].kind = kind} = {i \in DOMAIN s : s[i].kind = kind}
  OBVIOUS
<1> QED
  BY <1>1 DEF Count

LEMMA CountFront ==
  ASSUME NEW s \in Seq(Frames), s # <<>>, NEW kind
  PROVE  Count(s, kind) = Count(Front(s), kind) + (IF Last(s).kind = kind THEN 1 ELSE 0)
<1>1. Last(s) \in Frames /\ Last(s) = s[Len(s)] /\ Len(s) \in Nat /\ Len(s) > 0 /\ Front(s) \in Seq(Frames)
  BY LastFrame
<1>2. /\ Append(Front(s), Last(s)) \in Seq(Frames) /\ Len(Append(Front(s), Last(s))) = Len(s)
      /\ \A i \in 1..Len(s) : Append(Front(s), Last(s))[i] = IF i = Len(s) THEN Last(s) ELSE s[i]
  BY <1>1, NewLast
<1>3. \A i \in 1..Len(s) : s[i] = Append(Front(s), Last(s))[i]
  BY <1>1, <1>2
<1>4. s = Append(Front(s), Last(s))
  BY <1>2, <1>3, SeqEqual
<1>5. Count(Append(Front(s), Last(s)), kind) = Count(Front(s), kind) + (IF Last(s).kind = kind THEN 1 ELSE 0)
  BY <1>1, CountAppend
<1> QED
  BY <1>4, <1>5

\* The document's own frame is no level.
LEMMA CountDoc ==
  ASSUME NEW s \in Seq(Frames), s # <<>>, Last(s).kind = "doc", FrameRules(s), NEW kind \in {"table", "array"}
  PROVE  Count(s, kind) = 0
<1>1. Len(s) \in Nat /\ Len(s) > 0 /\ Last(s) = s[Len(s)]
  BY LastFrame
<1>2. Len(s) = 1
  <2>1. Len(s) \in 1..Len(s) /\ s[Len(s)].kind = "doc"
    BY <1>1
  <2> QED
    BY <2>1 DEF FrameRules
<1>3. \A i \in DOMAIN s : s[i].kind = "doc"
  BY <1>2 DEF FrameRules
<1>4. {i \in DOMAIN s : s[i].kind = kind} = {}
  BY <1>3
<1> QED
  BY <1>4, FS_EmptySet DEF Count

\* A frame of the same kind in the place of the last one.
LEMMA CountChange ==
  ASSUME NEW s \in Seq(Frames), s # <<>>, NEW g, g.kind = Last(s).kind, NEW kind
  PROVE  Count(Append(Front(s), g), kind) = Count(s, kind)
<1>1. DOMAIN s = 1..Len(s)
  OBVIOUS
<1>2. /\ Len(s) \in Nat /\ Len(s) > 0 /\ Last(s) = s[Len(s)]
      /\ Front(s) \in Seq(Frames) /\ Len(Front(s)) = Len(s) - 1
      /\ \A i \in 1..(Len(s) - 1) : Front(s)[i] = s[i]
  BY LastFrame, Zenon
<1> DEFINE b == Front(s)
           T == Frames \cup {g}
<1>3. /\ Len(s) \in Nat /\ Len(s) > 0 /\ Last(s) = s[Len(s)] /\ DOMAIN s = 1..Len(s)
      /\ b \in Seq(Frames) /\ Len(b) = Len(s) - 1 /\ \A i \in 1..(Len(s) - 1) : b[i] = s[i]
  BY <1>1, <1>2, Zenon
<1>4. b \in Seq(T) /\ g \in T
  BY <1>3, SeqMonotonic
<1> HIDE DEF b, T
<1>5. /\ DOMAIN Append(b, g) = 1..(Len(b) + 1) /\ Append(b, g)[Len(b) + 1] = g
      /\ \A i \in 1..Len(b) : Append(b, g)[i] = b[i]
  BY <1>4
<1>6. Len(b) + 1 = Len(s) /\ \A i \in 1..Len(s) : i = Len(b) + 1 \/ i \in 1..Len(b)
  <2>1. ASSUME NEW n \in Nat, NEW m, m = n - 1, n > 0
        PROVE  m + 1 = n /\ \A i \in 1..n : i = m + 1 \/ i \in 1..m
    BY <2>1
  <2> QED
    BY <1>3, <2>1
<1>7. \A i \in 1..Len(s) : Append(b, g)[i].kind = s[i].kind
  BY <1>3, <1>5, <1>6
<1>8. Count(Append(b, g), kind) = Count(s, kind)
  BY <1>3, <1>5, <1>6, <1>7, CountSame
<1> QED
  BY <1>8 DEF b

\* A value that is delivered leaves the levels of the frames it is delivered to.
LEMMA CountDeliver ==
  ASSUME NEW stk, FrameRules(stk), stk # <<>>, NEW sub, Deliver(stk, sub), result' # "error",
         NEW kind \in {"table", "array"}
  PROVE  Count(stack', kind) = Count(stk, kind)
<1> DEFINE g == Last(stk)
           r == CASE g.kind = "doc"   -> tab_add(top, g.tab, g.key, sub)
                  [] g.kind = "table" -> tab_add(g.tree, g.tab, g.key, sub)
                  [] g.kind = "array" -> arr_emplace(g.tree, <<>>, sub)
           h == [g EXCEPT !.tree = r.t, !.want = "item", !.comma = TRUE]
<1>1. stack' = IF g.kind = "doc" THEN <<>> ELSE Append(Front(stk), h)
  BY DEF Deliver, Bail
<1>2. stk \in Seq(Frames) /\ g \in Frames /\ h.kind = g.kind
  BY LastRules DEF Frames
<1>3. CASE g.kind = "doc"
  BY <1>1, <1>2, <1>3, CountDoc, CountEmpty
<1>4. CASE g.kind # "doc"
  <2> HIDE DEF h
  <2>1. stack' = Append(Front(stk), h)
    BY <1>1, <1>4
  <2> QED
    BY <1>2, <2>1, CountChange
<1> QED
  BY <1>3, <1>4

\* What the scanner's counts are: exact for braces, short by the headers for brackets.
Depth(s, d, bracket, brace) ==
  /\ Count(s, "table") = brace /\ brace <= BRACE_LEVEL_MAX
  /\ Count(s, "array") = bracket + Count(d, "std") /\ bracket <= BRACKET_LEVEL_MAX

DepthInv == result = "parsing" => Depth(stack, doc, bracket_level, brace_level)

LEMMA DepthStep == TreeInv /\ DepthInv /\ Next => DepthInv'
<1> DEFINE Goal == Depth(stack', doc', bracket_level', brace_level')
           n == Count(doc, "std")
           ct == Count(stack, "table")
           ca == Count(stack, "array")
<1> SUFFICES ASSUME TreeInv, DepthInv, Next, result' = "parsing" PROVE Goal
  BY DEF DepthInv
<1>1. FrameRules(stack) /\ stack \in Seq(Frames) /\ doc \in Seq(LineSet)
  BY DEF TreeInv, FrameRules
<1>2. bracket_level \in Int /\ brace_level \in Int /\ BRACE_LEVEL_MAX \in Nat /\ BRACKET_LEVEL_MAX \in Nat
  BY LimitsAssumption DEF TreeInv
<1>3. n \in Nat /\ ct \in Nat /\ ca \in Nat
  BY <1>1, CountNat
<1>4. stack # <<>> => result = "parsing"
  BY DEF TreeInv
<1>5. result = "parsing" => /\ ct = brace_level /\ brace_level <= BRACE_LEVEL_MAX
                            /\ ca = bracket_level + n /\ bracket_level <= BRACKET_LEVEL_MAX
  BY DEF DepthInv, Depth
<1>6. ASSUME NEW key \in Keys, NEW kind \in Kinds, doc' = Append(doc, Line(kind, key))
      PROVE  Count(doc', "std") = n + (IF kind = "std" THEN 1 ELSE 0)
  <2>1. Line(kind, key) \in LineSet /\ Line(kind, key).kind = kind
    BY DEF Line, LineSet
  <2> HIDE DEF n
  <2>2. Count(doc', "std") = Count(doc, "std") + (IF kind = "std" THEN 1 ELSE 0)
    BY <1>1, <1>6, <2>1, CountAppend
  <2> QED
    BY <2>2 DEF n
<1>7. UNCHANGED doc => Count(doc', "std") = n
  OBVIOUS
<1>8. UNCHANGED stack => Count(stack', "table") = ct /\ Count(stack', "array") = ca
  OBVIOUS
<1>9. ASSUME Count(doc', "std") = n, Count(stack', "table") = ct, Count(stack', "array") = ca,
             result = "parsing", UNCHANGED <<bracket_level, brace_level>>
      PROVE  Goal
  BY <1>5, <1>9 DEF Depth
<1> HIDE DEF n, ct, ca, Goal
<1>10. ASSUME NEW key \in Keys, StdTable(key) PROVE Goal
  <2>1. result = "parsing" /\ UNCHANGED <<stack, brace_level>> /\ bracket_level' = bracket_level - 1
    BY <1>10 DEF StdTable, MayRead, AtLine, SetCurtab, Bail
  <2>2. Count(doc', "std") = n + (IF "std" = "std" THEN 1 ELSE 0)
    BY <1>6, <1>10 DEF StdTable, Kinds
  <2> QED
    BY <1>2, <1>3, <1>5, <1>8, <2>1, <2>2 DEF Depth, Goal
<1>11. ASSUME NEW key \in Keys, ArrayTable(key) PROVE Goal
  <2>1. result = "parsing" /\ UNCHANGED <<stack, brace_level, bracket_level>>
    BY <1>11 DEF ArrayTable, MayRead, AtLine, SetCurtab, Bail
  <2>2. Count(doc', "std") = n + (IF "array" = "std" THEN 1 ELSE 0)
    BY <1>6, <1>11 DEF ArrayTable, Kinds
  <2> QED
    BY <1>3, <1>8, <1>9, <2>1, <2>2
<1>12. ASSUME NEW key \in Keys, KeyValue(key) PROVE Goal
  <2>1. result = "parsing" /\ stack = <<>> /\ UNCHANGED <<brace_level, bracket_level>>
    BY <1>12 DEF KeyValue, MayRead, AtLine
  <2>2. Count(doc', "std") = n + (IF "keyvalue" = "std" THEN 1 ELSE 0)
    BY <1>6, <1>12 DEF KeyValue, Kinds
  <2>3. FrameRules(stack') /\ stack' \in Seq(Frames)
    BY TreeNext DEF TreeInv, FrameRules
  <2>4. stack' # <<>> /\ Len(stack') = 1
    <3>1. PICK g : stack' = <<g>>
      BY <1>12 DEF KeyValue, Bail
    <3> QED
      BY <3>1
  <2>5. Last(stack').kind = "doc"
    BY <2>3, <2>4 DEF FrameRules, Last
  <2>6. Count(stack', "table") = 0 /\ Count(stack', "array") = 0
    BY <2>3, <2>4, <2>5, CountDoc
  <2>7. ct = 0 /\ ca = 0
    BY <2>1, CountEmpty DEF ct, ca
  <2> QED
    BY <1>3, <1>9, <2>1, <2>2, <2>6, <2>7
<1>13. ASSUME NEW key \in InlineKeys, InlineKey(key) PROVE Goal
  <2>1. stack # <<>> /\ UNCHANGED <<brace_level, bracket_level, doc>>
    BY <1>13 DEF InlineKey, InItems, Open
  <2> DEFINE r == parse_key(key, parse_inline_key(f.tree, key))
             g == [f EXCEPT !.tree = r.t, !.tab = r.p, !.key = Last(key), !.want = "value"]
  <2>2. stack' = Append(Front(stack), g)
    BY <1>13 DEF InlineKey, Bail
  <2>3. g.kind = Last(stack).kind
    BY <1>1, <2>1, LastRules DEF f, Frames
  <2> HIDE DEF g
  <2>4. Count(stack', "table") = ct /\ Count(stack', "array") = ca
    BY <1>1, <2>1, <2>2, <2>3, CountChange DEF ct, ca
  <2> QED
    BY <1>4, <1>7, <1>9, <2>1, <2>4
<1>14. CASE Scalar
  <2>1. stack # <<>> /\ UNCHANGED <<brace_level, bracket_level, doc>>
    BY <1>14 DEF Scalar, WantsValue, Open
  <2>2. Deliver(stack, Single(mkdatum("int64", {}, Len(doc))))
    BY <1>14 DEF Scalar
  <2>3. Count(stack', "table") = ct /\ Count(stack', "array") = ca
    BY <1>1, <2>1, <2>2, CountDeliver DEF ct, ca
  <2> QED
    BY <1>4, <1>7, <1>9, <2>1, <2>3
<1>15. ASSUME NEW kind \in {"table", "array"}, NEW level, NEW max, NEW t, Descend(kind, level, max, t)
       PROVE  /\ Count(doc', "std") = n /\ ~(level + 1 > max) /\ stack # <<>>
              /\ Count(stack', "table") = ct + (IF kind = "table" THEN 1 ELSE 0)
              /\ Count(stack', "array") = ca + (IF kind = "array" THEN 1 ELSE 0)
  <2>1. /\ stack # <<>> /\ ~(level + 1 > max) /\ stack' = Append(stack, Frame(kind, t, "item"))
        /\ doc' = [doc EXCEPT ![Len(doc)].inline = TRUE]
    BY <1>15 DEF Descend, Bail, WantsValue, Open
  <2>2. DOMAIN doc' = DOMAIN doc /\ \A i \in DOMAIN doc : doc'[i].kind = doc[i].kind
    BY <1>1, <2>1, DocMark
  <2>3. Count(doc', "std") = n
    BY <2>2, CountSame DEF n
  <2> DEFINE g == Frame(kind, t, "item")
             T == Frames \cup {g}
  <2>4. stack \in Seq(T) /\ g \in T /\ g.kind = kind
    BY <1>1, SeqMonotonic DEF Frame
  <2>5. stack' = Append(stack, g)
    BY <2>1
  <2> HIDE DEF g, T
  <2>6. /\ Count(stack', "table") = Count(stack, "table") + (IF kind = "table" THEN 1 ELSE 0)
        /\ Count(stack', "array") = Count(stack, "array") + (IF kind = "array" THEN 1 ELSE 0)
    BY <2>4, <2>5, CountAppend
  <2> QED
    BY <2>1, <2>3, <2>6 DEF ct, ca
<1>16. CASE OpenArray
  <2>1. /\ Count(doc', "std") = n /\ ~(bracket_level + 1 > BRACKET_LEVEL_MAX) /\ stack # <<>>
        /\ Count(stack', "table") = ct + 0 /\ Count(stack', "array") = ca + 1
    BY <1>15, <1>16 DEF OpenArray
  <2>2. bracket_level' = bracket_level + 1 /\ brace_level' = brace_level
    BY <1>16 DEF OpenArray
  <2> QED
    BY <1>2, <1>3, <1>4, <1>5, <2>1, <2>2 DEF Goal, Depth
<1>17. CASE OpenTable
  <2>1. /\ Count(doc', "std") = n /\ ~(brace_level + 1 > BRACE_LEVEL_MAX) /\ stack # <<>>
        /\ Count(stack', "table") = ct + 1 /\ Count(stack', "array") = ca + 0
    BY <1>15, <1>17 DEF OpenTable
  <2>2. brace_level' = brace_level + 1 /\ bracket_level' = bracket_level
    BY <1>17 DEF OpenTable
  <2> QED
    BY <1>2, <1>3, <1>4, <1>5, <2>1, <2>2 DEF Goal, Depth
<1>18. CASE Comma
  <2> DEFINE g == [f EXCEPT !.comma = FALSE]
  <2>1. stack # <<>> /\ UNCHANGED <<brace_level, bracket_level, doc>> /\ stack' = Append(Front(stack), g)
    BY <1>18 DEF Comma, InItems, Open
  <2>2. g.kind = Last(stack).kind
    BY <1>1, <2>1, LastRules DEF f, Frames
  <2> HIDE DEF g
  <2>3. Count(stack', "table") = ct /\ Count(stack', "array") = ca
    BY <1>1, <2>1, <2>2, CountChange DEF ct, ca
  <2> QED
    BY <1>4, <1>7, <1>9, <2>1, <2>3
<1>19. ASSUME stack # <<>>, Close, f.kind # "doc"
       PROVE  /\ ct = Count(stack', "table") + (IF f.kind = "table" THEN 1 ELSE 0)
              /\ ca = Count(stack', "array") + (IF f.kind = "array" THEN 1 ELSE 0)
              /\ Count(stack', "table") \in Nat /\ Count(stack', "array") \in Nat
  <2>1. FrameRules(Front(stack)) /\ Front(stack) # <<>>
    BY <1>1, <1>19, FramesPop DEF f
  <2>2. /\ Count(stack', "table") = Count(Front(stack), "table")
        /\ Count(stack', "array") = Count(Front(stack), "array")
    BY <1>19, <2>1, CountDeliver DEF Close
  <2>3. Front(stack) \in Seq(Frames)
    BY <2>1 DEF FrameRules
  <2>4. /\ Count(stack, "table") = Count(Front(stack), "table") + (IF f.kind = "table" THEN 1 ELSE 0)
        /\ Count(stack, "array") = Count(Front(stack), "array") + (IF f.kind = "array" THEN 1 ELSE 0)
    BY <1>1, <1>19, CountFront DEF f
  <2>5. Count(Front(stack), "table") \in Nat /\ Count(Front(stack), "array") \in Nat
    BY <2>3, CountNat
  <2> QED
    BY <2>2, <2>4, <2>5 DEF ct, ca
<1>20. CASE CloseArray
  <2>1. stack # <<>> /\ f.kind = "array" /\ Close
    BY <1>20 DEF CloseArray, InItems, Open
  <2>2. /\ ct = Count(stack', "table") + 0 /\ ca = Count(stack', "array") + 1
        /\ Count(stack', "table") \in Nat /\ Count(stack', "array") \in Nat
    BY <1>19, <2>1
  <2>3. bracket_level' = bracket_level - 1 /\ brace_level' = brace_level /\ UNCHANGED doc
    BY <1>20 DEF CloseArray
  <2> QED
    BY <1>2, <1>3, <1>4, <1>5, <1>7, <2>1, <2>2, <2>3 DEF Goal, Depth
<1>21. CASE CloseTable
  <2>1. stack # <<>> /\ f.kind = "table" /\ Close
    BY <1>21 DEF CloseTable, InItems, Open
  <2>2. /\ ct = Count(stack', "table") + 1 /\ ca = Count(stack', "array") + 0
        /\ Count(stack', "table") \in Nat /\ Count(stack', "array") \in Nat
    BY <1>19, <2>1
  <2>3. brace_level' = brace_level - 1 /\ bracket_level' = bracket_level /\ UNCHANGED doc
    BY <1>21 DEF CloseTable
  <2> QED
    BY <1>2, <1>3, <1>4, <1>5, <1>7, <2>1, <2>2, <2>3 DEF Goal, Depth
<1>22. CASE Finish \/ Malformed
  BY <1>22 DEF Finish, Malformed, Bail
<1> QED
  BY <1>10, <1>11, <1>12, <1>13, <1>14, <1>16, <1>17, <1>18, <1>20, <1>21, <1>22 DEF Next

(***************************************************************************)
(* The recursion of parse_val is bounded, whatever the document: braces by *)
(* BRACE_LEVEL_MAX, brackets by BRACKET_LEVEL_MAX and the number of        *)
(* [header] lines (RecursionBounded; tomlc17.c:137-140, 981-990,           *)
(* 2605-2618).                                                             *)
(***************************************************************************)
THEOREM RecursionIsBounded == Spec => []RecursionBounded
<1>1. Init => DepthInv
  <2> SUFFICES ASSUME Init PROVE DepthInv
    OBVIOUS
  <2>1. Count(stack, "table") = 0 /\ Count(stack, "array") = 0 /\ Count(doc, "std") = 0
    BY CountEmpty DEF Init
  <2>2. bracket_level = 0 /\ brace_level = 0
    BY DEF Init
  <2> QED
    BY <2>1, <2>2, LimitsAssumption DEF DepthInv, Depth
<1>2. TreeInv /\ DepthInv /\ [Next]_vars => DepthInv'
  <2>1. CASE UNCHANGED vars
    BY <2>1 DEF vars, DepthInv
  <2> QED
    BY <2>1, DepthStep
<1>3. TreeInv /\ DepthInv => RecursionBounded
  <2> SUFFICES ASSUME TreeInv, DepthInv, result = "parsing"
               PROVE  /\ Levels("table") <= BRACE_LEVEL_MAX
                      /\ Levels("array") <= BRACKET_LEVEL_MAX + Headers
    BY DEF RecursionBounded
  <2>1. Levels("table") = Count(stack, "table") /\ Levels("array") = Count(stack, "array")
    BY DEF Levels, Count
  <2>2. Headers = Count(doc, "std") /\ Headers \in Nat
    <3>1. doc \in Seq(LineSet)
      BY DEF TreeInv
    <3> QED
      BY <3>1, CountNat DEF Headers, Count
  <2>3. bracket_level \in Int /\ BRACKET_LEVEL_MAX \in Nat
    BY LimitsAssumption DEF TreeInv
  <2>4. /\ Levels("table") <= BRACE_LEVEL_MAX
        /\ Levels("array") = bracket_level + Headers /\ bracket_level <= BRACKET_LEVEL_MAX
    BY <2>1, <2>2 DEF DepthInv, Depth
  <2> QED
    BY <2>2, <2>3, <2>4
<1> QED
  BY <1>1, <1>2, <1>3, TreeInit, TreeInvStep, PTL DEF Spec

-----------------------------------------------------------------------------
(* Places *)

\* A place that is not the top one, and its parent.
LEMMA FrontOfChild ==
  ASSUME NEW p \in Seq(Parts), NEW k \in Parts
  PROVE  Front(Append(p, k)) = p /\ Last(Append(p, k)) = k
<1> DEFINE q == Append(p, k)
           b == Front(q)
<1>1. q \in Seq(Parts) /\ q # <<>> /\ Len(q) = Len(p) + 1 /\ (\A i \in 1..Len(p) : q[i] = p[i]) /\ q[Len(p) + 1] = k
  BY AppendProperties
<1> HIDE DEF q
<1>2. b \in Seq(Parts) /\ Len(b) = Len(q) - 1 /\ \A i \in 1..(Len(q) - 1) : b[i] = q[i]
  BY <1>1, KeyParts
<1>3. Len(p) \in Nat
  OBVIOUS
<1> HIDE DEF b
<1>4. Len(b) = Len(p) /\ \A i \in 1..Len(b) : b[i] = p[i]
  BY <1>1, <1>2, <1>3
<1>5. b = p
  BY <1>2, <1>4, SeqEqual
<1>6. Last(q) = k
  BY <1>1 DEF Last
<1> QED
  BY <1>5, <1>6 DEF b, q

LEMMA ParentOf ==
  ASSUME NEW q \in Seq(Parts), q # <<>>
  PROVE  Front(q) \in Seq(Parts) /\ Last(q) \in Parts /\ q = Append(Front(q), Last(q))
<1>1. PICK p \in Seq(Parts), k \in Parts : q = Append(p, k)
  BY SequenceEmptyOrAppend
<1> QED
  BY <1>1, FrontOfChild

\* The children of a place, as size counts them.
LEMMA ChildIs ==
  ASSUME NEW p \in Seq(Parts), NEW q \in Seq(Parts)
  PROVE  (Len(q) = Len(p) + 1 /\ IsPrefix(p, q)) <=> \E k \in Parts : q = Append(p, k)
<1>0. Len(p) \in Nat /\ Len(q) \in Nat
  OBVIOUS
<1>1. ASSUME Len(q) = Len(p) + 1, IsPrefix(p, q) PROVE \E k \in Parts : q = Append(p, k)
  <2>1. q # <<>>
    <3>1. Len(q) # 0
      BY <1>0, <1>1
    <3> QED
      BY <3>1, EmptySeq
  <2>2. PICK b \in Seq(Parts), k \in Parts : q = Append(b, k)
    BY <2>1, SequenceEmptyOrAppend
  <2>3. Len(b) = Len(p)
    <3>1. Len(b) \in Nat /\ Len(q) = Len(b) + 1
      BY <2>2, AppendProperties
    <3> QED
      BY <1>0, <1>1, <3>1
  <2>4. SubSeq(p, 1, Len(p)) = SubSeq(q, 1, Len(p))
    BY <1>1 DEF IsPrefix
  <2>5. SubSeq(p, 1, Len(p)) = p
    BY SubSeqFull
  <2>6. SubSeq(q, 1, Len(p)) = b
    <3>1. SubSeq(q, 1, Len(p)) = Front(q)
      <4>1. Len(p) = Len(q) - 1
        BY <1>0, <1>1
      <4> QED
        BY <4>1 DEF Front
    <3> QED
      BY <2>2, <3>1, FrontOfChild
  <2> QED
    BY <2>2, <2>4, <2>5, <2>6
<1>2. ASSUME NEW k \in Parts, q = Append(p, k) PROVE Len(q) = Len(p) + 1 /\ IsPrefix(p, q)
  <2>1. Len(q) = Len(p) + 1 /\ Len(p) = Len(q) - 1
    BY <1>0, <1>2, AppendProperties
  <2>2. SubSeq(q, 1, Len(p)) = p
    <3>1. SubSeq(q, 1, Len(p)) = Front(q)
      BY <2>1 DEF Front
    <3> QED
      BY <1>2, <3>1, FrontOfChild
  <2>3. SubSeq(p, 1, Len(p)) = p
    BY SubSeqFull
  <2>4. Len(p) <= Len(q)
    BY <1>0, <2>1
  <2> QED
    BY <2>1, <2>2, <2>3, <2>4 DEF IsPrefix
<1> QED
  BY <1>1, <1>2

Kids(t, p) == {q \in DOMAIN t : \E k \in Parts : q = Append(p, k)}

LEMMA SizeKids ==
  ASSUME NEW t \in Tree, NEW p \in Seq(Parts)
  PROVE  size(t, p) = Cardinality(Kids(t, p)) /\ IsFiniteSet(Kids(t, p)) /\ size(t, p) \in Nat
<1>1. DOMAIN t \subseteq Seq(Parts) /\ IsFiniteSet(DOMAIN t)
  BY TreeFacts DEF Tree
<1>2. {q \in DOMAIN t : Len(q) = Len(p) + 1 /\ IsPrefix(p, q)} = Kids(t, p)
  BY <1>1, ChildIs DEF Kids
<1>3. size(t, p) = Cardinality(Kids(t, p))
  BY <1>2 DEF size
<1>4. Kids(t, p) \subseteq DOMAIN t
  BY DEF Kids
<1>5. IsFiniteSet(Kids(t, p))
  BY <1>1, <1>4, FS_Subset
<1>6. Cardinality(Kids(t, p)) \in Nat
  BY <1>5, FS_CardinalityType
<1> QED
  BY <1>3, <1>5, <1>6

\* A container with a child is not empty.
LEMMA SizePositive ==
  ASSUME NEW t \in Tree, NEW p \in Seq(Parts), NEW k \in Parts, Append(p, k) \in DOMAIN t
  PROVE  size(t, p) > 0
<1>1. Append(p, k) \in Kids(t, p)
  BY DEF Kids
<1>2. size(t, p) = Cardinality(Kids(t, p)) /\ IsFiniteSet(Kids(t, p)) /\ size(t, p) \in Nat
  BY SizeKids
<1>3. Cardinality(Kids(t, p)) # 0
  BY <1>1, <1>2, FS_EmptySet
<1> QED
  BY <1>2, <1>3

\* One child more.
LEMMA SizeOneMore ==
  ASSUME NEW t \in Tree, NEW u \in Tree, NEW p \in Seq(Parts), NEW k \in Parts, Append(p, k) \notin DOMAIN t,
         \A q : q \in DOMAIN u <=> (q \in DOMAIN t \/ q = Append(p, k))
  PROVE  /\ size(u, p) = size(t, p) + 1
         /\ \A y \in Seq(Parts) : y # p => size(u, y) = size(t, y)
<1> DEFINE q0 == Append(p, k)
<1>1. Kids(u, p) = Kids(t, p) \cup {q0} /\ q0 \notin Kids(t, p)
  BY DEF Kids
<1>2. size(u, p) = size(t, p) + 1
  <2>1. size(u, p) = Cardinality(Kids(u, p)) /\ size(t, p) = Cardinality(Kids(t, p)) /\ IsFiniteSet(Kids(t, p))
    BY SizeKids
  <2> HIDE DEF q0
  <2>2. Cardinality(Kids(t, p) \cup {q0}) = Cardinality(Kids(t, p)) + 1
    BY <1>1, <2>1, FS_AddElement
  <2> QED
    BY <1>1, <2>1, <2>2
<1>3. ASSUME NEW y \in Seq(Parts), y # p PROVE size(u, y) = size(t, y)
  <2>1. \A i \in Parts : q0 # Append(y, i)
    BY <1>3, AppendInjective
  <2>2. Kids(u, y) = Kids(t, y)
    BY <2>1 DEF Kids
  <2> QED
    BY <2>2, SizeKids
<1> QED
  BY <1>2, <1>3

\* What is above a child.
LEMMA AboveChild ==
  ASSUME NEW p \in Seq(Parts), NEW k \in Parts
  PROVE  \A a : a \in Above(Append(p, k)) <=> (a \in Above(p) \/ a = p)
<1> DEFINE q == Append(p, k)
           n == Len(p)
<1>1. n \in Nat /\ q \in Seq(Parts) /\ Len(q) = n + 1 /\ (\A i \in 1..n : q[i] = p[i])
  BY AppendProperties
<1> HIDE DEF q
<1>2. ASSUME NEW i \in 0..n PROVE SubSeq(q, 1, i) = SubSeq(p, 1, i)
  <2> DEFINE a == SubSeq(q, 1, i)
             b == SubSeq(p, 1, i)
  <2>0. i \in Int /\ i - 1 + 1 = i
    OBVIOUS
  <2>1. \A j \in 1..i : j \in 1..n /\ j \in 1..Len(q) /\ 1 + j - 1 = j /\ q[j] \in Parts /\ p[j] \in Parts
    BY <1>1
  <2>2. a \in Seq(Parts) /\ (Len(a) = IF 1 <= i THEN i - 1 + 1 ELSE 0) /\ \A j \in 1..(i - 1 + 1) : a[j] = q[1 + j - 1]
    BY <2>1, <2>0, SubSeqProperties
  <2>3. b \in Seq(Parts) /\ (Len(b) = IF 1 <= i THEN i - 1 + 1 ELSE 0) /\ \A j \in 1..(i - 1 + 1) : b[j] = p[1 + j - 1]
    BY <2>1, <2>0, SubSeqProperties
  <2> HIDE DEF a, b
  <2>4. Len(a) = i /\ Len(b) = i
    BY <2>2, <2>3
  <2>5. \A j \in 1..Len(a) : a[j] = b[j]
    BY <1>1, <2>0, <2>1, <2>2, <2>3, <2>4
  <2>6. a = b
    BY <2>2, <2>3, <2>4, <2>5, SeqEqual
  <2> QED
    BY <2>6 DEF a, b
<1>3. SubSeq(p, 1, n) = p
  BY SubSeqFull
<1>4. \A i : i \in 0..(Len(q) - 1) <=> (i \in 0..(n - 1) \/ i = n)
  BY <1>1
<1>5. \A i \in 0..(n - 1) : i \in 0..n
  BY <1>1
<1>6. n \in 0..n
  BY <1>1
<1> HIDE DEF n
<1>7. ASSUME NEW a, a \in Above(q) PROVE a \in Above(p) \/ a = p
  <2>1. PICK i \in 0..(Len(q) - 1) : a = SubSeq(q, 1, i)
    BY <1>7 DEF Above
  <2>2. CASE i = n
    BY <1>2, <1>3, <1>6, <2>1, <2>2
  <2>3. CASE i \in 0..(n - 1)
    BY <1>2, <1>5, <2>1, <2>3 DEF Above, n
  <2> QED
    BY <1>4, <2>2, <2>3
<1>8. ASSUME NEW a, a \in Above(p) PROVE a \in Above(q)
  <2>1. PICK i \in 0..(n - 1) : a = SubSeq(p, 1, i)
    BY <1>8 DEF Above, n
  <2> QED
    BY <1>2, <1>4, <1>5, <2>1 DEF Above
<1>9. p \in Above(q)
  BY <1>2, <1>3, <1>4, <1>6 DEF Above
<1> QED
  BY <1>7, <1>8, <1>9 DEF q

-----------------------------------------------------------------------------
(* The tree and the lines *)

Placed  == [kind : Kinds, at : Seq(Parts)]
Reading == [lines : Seq(Placed), header : Seq(Parts)]

Members(s, p) == {h \in DOMAIN s.lines : s.lines[h].kind = "array" /\ Front(s.lines[h].at) = p}

LEMMA ElementsNat ==
  ASSUME NEW s \in Reading, NEW p
  PROVE  Elements(s, p) = Cardinality(Members(s, p)) /\ IsFiniteSet(Members(s, p)) /\ Elements(s, p) \in Nat
<1> DEFINE L == s.lines
<1>1. L \in Seq(Placed)
  BY DEF Reading
<1>2. Elements(s, p) = Cardinality(Members(s, p)) /\ Members(s, p) \subseteq DOMAIN L
  BY DEF Elements, Members
<1> HIDE DEF L
<1>3. Len(L) \in Nat /\ DOMAIN L = 1..Len(L)
  BY <1>1
<1>4. IsFiniteSet(1..Len(L))
  BY <1>3, FS_Interval
<1>5. IsFiniteSet(Members(s, p))
  BY <1>2, <1>3, <1>4, FS_Subset
<1>6. Cardinality(Members(s, p)) \in Nat
  BY <1>5, FS_CardinalityType
<1> QED
  BY <1>2, <1>5, <1>6

\* One line more.
LEMMA ElementsMore ==
  ASSUME NEW s \in Reading, NEW r \in Reading, NEW l \in Placed, r.lines = Append(s.lines, l), NEW p
  PROVE  Elements(r, p) = IF l.kind = "array" /\ Front(l.at) = p THEN Elements(s, p) + 1 ELSE Elements(s, p)
<1> DEFINE L == s.lines
           M == r.lines
           n == Len(L)
           A == l.kind = "array" /\ Front(l.at) = p
<1>1. L \in Seq(Placed)
  BY DEF Reading
<1>2. M = Append(L, l)
  OBVIOUS
<1>3. /\ n \in Nat /\ DOMAIN L = 1..n /\ DOMAIN M = 1..(n + 1) /\ M[n + 1] = l /\ \A i \in 1..n : M[i] = L[i]
  <2> HIDE DEF L, M
  <2> QED
    BY <1>1, <1>2
<1>4. n + 1 \notin Members(s, p)
  <2>1. Members(s, p) \subseteq 1..n
    BY <1>3 DEF Members
  <2>2. n + 1 \notin 1..n
    BY <1>3
  <2> QED
    BY <2>1, <2>2
<1>5. \A i : i \in 1..(n + 1) <=> (i \in 1..n \/ i = n + 1)
  BY <1>3
<1>6. A => Members(r, p) = Members(s, p) \cup {n + 1}
  <2> HIDE DEF n
  <2> QED
    BY <1>3, <1>5 DEF Members
<1>7. ~A => Members(r, p) = Members(s, p)
  <2> HIDE DEF n
  <2> QED
    BY <1>3, <1>5 DEF Members
<1> HIDE DEF n
<1>8. Cardinality(Members(s, p) \cup {n + 1}) = Cardinality(Members(s, p)) + 1
  BY <1>4, ElementsNat, FS_AddElement
<1> QED
  BY <1>6, <1>7, <1>8, ElementsNat

(***************************************************************************)
(* The tree of a document without inline values: it hangs together, its    *)
(* arrays are those of the [[header]] lines, with an element for each, and *)
(* only tables carry the mark of a header.                                 *)
(***************************************************************************)
Rooted(t) ==
  /\ <<>> \in DOMAIN t /\ t[<<>>].type = "table"
  /\ \A q \in DOMAIN t : \A a \in Above(q) : a \in DOMAIN t /\ t[a].type \in {"table", "array"}
Counted(t, s) ==
  /\ \A q \in DOMAIN t : t[q].type = "array" => size(t, q) = Elements(s, q)
  /\ \A q \in Seq(Parts) : Elements(s, q) > 0 => q \in DOMAIN t /\ t[q].type = "array"
Numbered(t) ==
  \A q \in DOMAIN t : \A k \in Parts :
    t[q].type = "array" /\ Append(q, k) \in DOMAIN t => k \in 1..size(t, q)
Marked(t) == \A q \in DOMAIN t : "STDEXPR" \in t[q].flag => t[q].type = "table"

Shape(t, s) == t \in Tree /\ Rooted(t) /\ Counted(t, s) /\ Numbered(t) /\ Marked(t)

\* u is t with one datum more, a child of p.
OneMore(t, u, p, k, d) ==
  /\ u \in Tree
  /\ \A q : q \in DOMAIN u <=> (q \in DOMAIN t \/ q = Append(p, k))
  /\ u[Append(p, k)] = d /\ \A q \in DOMAIN t : u[q] = t[q]

LEMMA RootedMore ==
  ASSUME NEW t \in Tree, Rooted(t), NEW p \in DOMAIN t, t[p].type \in {"table", "array"}, NEW k \in Parts,
         NEW u, NEW d, OneMore(t, u, p, k, d)
  PROVE  Rooted(u)
<1>1. p \in Seq(Parts)
  BY TreeFacts DEF Tree
<1>2. \A a : a \in Above(Append(p, k)) <=> (a \in Above(p) \/ a = p)
  BY <1>1, AboveChild
<1> QED
  BY <1>2 DEF Rooted, OneMore

\* Nothing is below a place that is free.
LEMMA FreePlace ==
  ASSUME NEW t \in Tree, Rooted(t), NEW q \in Seq(Parts), q \notin DOMAIN t, NEW k \in Parts
  PROVE  Append(q, k) \notin DOMAIN t
BY AboveChild DEF Rooted

LEMMA FreeEmpty ==
  ASSUME NEW t \in Tree, Rooted(t), NEW q \in Seq(Parts), q \notin DOMAIN t
  PROVE  size(t, q) = 0
<1>1. Kids(t, q) = {}
  BY FreePlace DEF Kids
<1> QED
  BY <1>1, SizeKids, FS_EmptySet

\* An entry put at a free place of a table.
LEMMA ShapeEntry ==
  ASSUME NEW s \in Reading, NEW t, Shape(t, s), NEW p, IsTable(t, p), NEW k \in Parts, Append(p, k) \notin DOMAIN t,
         NEW u, NEW d, OneMore(t, u, p, k, d), "STDEXPR" \in d.flag => d.type = "table"
  PROVE  Shape(u, s)
<1> DEFINE q0 == Append(p, k)
<1>1. /\ t \in Tree /\ u \in Tree /\ Rooted(t) /\ p \in DOMAIN t /\ t[p].type = "table"
      /\ DOMAIN t \subseteq Seq(Parts)
  BY TreeFacts DEF Shape, IsTable, OneMore, Tree
<1>2. p \in Seq(Parts) /\ q0 \in Seq(Parts) /\ q0 # p
  <2>1. p \in Seq(Parts)
    BY <1>1
  <2> QED
    BY <1>1, <2>1, AppendProperties
<1>3. /\ \A q : q \in DOMAIN u <=> (q \in DOMAIN t \/ q = q0)
      /\ u[q0] = d /\ \A q \in DOMAIN t : u[q] = t[q]
  BY DEF OneMore
<1>4. \A y \in Seq(Parts) : y # p => size(u, y) = size(t, y)
  BY <1>1, <1>2, <1>3, SizeOneMore
<1>5. Rooted(u)
  BY <1>1, RootedMore
<1>6. size(u, q0) = 0 /\ Elements(s, q0) = 0
  <2>1. size(t, q0) = 0
    BY <1>1, <1>2, FreeEmpty
  <2>2. ~(Elements(s, q0) > 0)
    BY <1>2 DEF Shape, Counted
  <2>3. \A n \in Nat : ~(n > 0) => n = 0
    OBVIOUS
  <2>4. Elements(s, q0) \in Nat
    BY ElementsNat
  <2> QED
    BY <1>2, <1>4, <2>1, <2>2, <2>3, <2>4
<1> HIDE DEF q0
<1>7. Counted(u, s)
  <2>1. \A q \in DOMAIN u : u[q].type = "array" => size(u, q) = Elements(s, q)
    <3> SUFFICES ASSUME NEW q \in DOMAIN u, u[q].type = "array" PROVE size(u, q) = Elements(s, q)
      OBVIOUS
    <3>1. CASE q = q0
      BY <1>6, <3>1
    <3>2. CASE q \in DOMAIN t
      <4>1. t[q].type = "array" /\ q # p /\ q \in Seq(Parts)
        BY <1>1, <1>3, <3>2
      <4> QED
        BY <1>4, <3>2, <4>1 DEF Shape, Counted
    <3> QED
      BY <1>3, <3>1, <3>2
  <2>2. \A q \in Seq(Parts) : Elements(s, q) > 0 => q \in DOMAIN u /\ u[q].type = "array"
    BY <1>3 DEF Shape, Counted
  <2> QED
    BY <2>1, <2>2 DEF Counted
<1>8. Numbered(u)
  <2> SUFFICES ASSUME NEW q \in DOMAIN u, NEW i \in Parts, u[q].type = "array", Append(q, i) \in DOMAIN u
               PROVE  i \in 1..size(u, q)
    BY DEF Numbered
  <2>1. q # q0
    <3> SUFFICES ASSUME q = q0 PROVE FALSE
      OBVIOUS
    <3>1. Append(q0, i) \notin DOMAIN t
      BY <1>1, <1>2, FreePlace DEF q0
    <3>2. Append(q0, i) # q0
      BY <1>2, AppendProperties
    <3> QED
      BY <1>3, <3>1, <3>2
  <2>2. q \in DOMAIN t /\ t[q].type = "array" /\ q \in Seq(Parts) /\ q # p
    BY <1>1, <1>3, <2>1
  <2>3. Append(q, i) # q0
    BY <1>2, <2>2, AppendInjective DEF q0
  <2>4. Append(q, i) \in DOMAIN t
    BY <1>3, <2>3
  <2> QED
    BY <1>4, <2>2, <2>4 DEF Shape, Numbered
<1>9. Marked(u)
  BY <1>3 DEF Shape, Marked
<1> QED
  BY <1>1, <1>5, <1>7, <1>8, <1>9 DEF Shape

\* One element more of an array, for one [[header]] more.
LEMMA ShapeElement ==
  ASSUME NEW s \in Reading, NEW t, Shape(t, s), NEW q0 \in DOMAIN t, t[q0].type = "array",
         NEW n, n = size(t, q0) + 1, NEW u, NEW d, OneMore(t, u, q0, n, d), d.type = "table",
         NEW r \in Reading, NEW l \in Placed, r.lines = Append(s.lines, l), l.kind = "array", l.at = Append(q0, n)
  PROVE  Shape(u, r) /\ n \in Parts /\ Append(q0, n) \notin DOMAIN t
<1> DEFINE e == Append(q0, n)
<1>1. /\ t \in Tree /\ u \in Tree /\ Rooted(t) /\ DOMAIN t \subseteq Seq(Parts) /\ q0 \in Seq(Parts)
  BY TreeFacts DEF Shape, OneMore, Tree
<1>2. size(t, q0) \in Nat /\ n \in Nat /\ n \in Parts
  BY <1>1, SizeKids, PartsNat
<1>3. e \in Seq(Parts) /\ e # q0
  <2>1. e \in Seq(Parts) /\ Len(e) = Len(q0) + 1 /\ Len(q0) \in Nat
    BY <1>1, <1>2, AppendProperties
  <2> HIDE DEF e
  <2>2. \A i \in Nat : i # i + 1
    OBVIOUS
  <2> QED
    BY <2>1, <2>2
<1>4. e \notin DOMAIN t
  <2>1. e \in DOMAIN t => n \in 1..size(t, q0)
    BY <1>2 DEF Shape, Numbered
  <2>2. n \notin 1..size(t, q0)
    BY <1>2
  <2> QED
    BY <2>1, <2>2
<1>5. /\ \A q : q \in DOMAIN u <=> (q \in DOMAIN t \/ q = e)
      /\ u[e] = d /\ \A q \in DOMAIN t : u[q] = t[q]
  BY DEF OneMore
<1>6. /\ size(u, q0) = size(t, q0) + 1
      /\ \A y \in Seq(Parts) : y # q0 => size(u, y) = size(t, y)
  BY <1>1, <1>2, <1>4, <1>5, SizeOneMore
<1>7. Front(l.at) = q0
  BY <1>1, <1>2, FrontOfChild
<1>8. Elements(r, q0) = Elements(s, q0) + 1 /\ \A y : y # q0 => Elements(r, y) = Elements(s, y)
  BY <1>7, ElementsMore
<1>9. Rooted(u)
  BY <1>1, <1>2, RootedMore
<1> HIDE DEF e
<1>10. Counted(u, r)
  <2>1. \A q \in DOMAIN u : u[q].type = "array" => size(u, q) = Elements(r, q)
    <3> SUFFICES ASSUME NEW q \in DOMAIN u, u[q].type = "array" PROVE size(u, q) = Elements(r, q)
      OBVIOUS
    <3>1. q \in DOMAIN t /\ t[q].type = "array" /\ q \in Seq(Parts)
      BY <1>1, <1>5
    <3>2. size(t, q) = Elements(s, q)
      BY <3>1 DEF Shape, Counted
    <3> QED
      BY <1>6, <1>8, <3>1, <3>2
  <2>2. \A q \in Seq(Parts) : Elements(r, q) > 0 => q \in DOMAIN u /\ u[q].type = "array"
    <3> SUFFICES ASSUME NEW q \in Seq(Parts), Elements(r, q) > 0 PROVE q \in DOMAIN u /\ u[q].type = "array"
      OBVIOUS
    <3>1. q \in DOMAIN t /\ t[q].type = "array"
      BY <1>8 DEF Shape, Counted
    <3> QED
      BY <1>5, <3>1
  <2> QED
    BY <2>1, <2>2 DEF Counted
<1>11. Numbered(u)
  <2> SUFFICES ASSUME NEW q \in DOMAIN u, NEW i \in Parts, u[q].type = "array", Append(q, i) \in DOMAIN u
               PROVE  i \in 1..size(u, q)
    BY DEF Numbered
  <2>1. q \in DOMAIN t /\ t[q].type = "array" /\ q \in Seq(Parts)
    BY <1>1, <1>5
  <2>2. CASE Append(q, i) = e
    <3>1. q = q0 /\ i = n
      BY <1>1, <1>2, <2>1, <2>2, AppendInjective DEF e
    <3>2. n \in 1..(size(t, q0) + 1)
      BY <1>2
    <3> QED
      BY <1>6, <3>1, <3>2
  <2>3. CASE Append(q, i) \in DOMAIN t
    <3>1. i \in 1..size(t, q)
      BY <2>1, <2>3 DEF Shape, Numbered
    <3>2. CASE q = q0
      <4>1. ASSUME NEW m \in Nat, i \in 1..m PROVE i \in 1..(m + 1)
        BY <4>1
      <4> QED
        BY <1>2, <1>6, <3>1, <3>2, <4>1
    <3>3. CASE q # q0
      BY <1>6, <2>1, <3>1, <3>3
    <3> QED
      BY <3>2, <3>3
  <2> QED
    BY <1>5, <2>2, <2>3
<1>12. Marked(u)
  BY <1>5 DEF Shape, Marked
<1>13. Shape(u, r)
  BY <1>1, <1>9, <1>10, <1>11, <1>12 DEF Shape
<1> QED
  BY <1>2, <1>4, <1>13 DEF e

\* A line that is no [[header]], and the flag of a header.
LEMMA ShapeLine ==
  ASSUME NEW s \in Reading, NEW t, Shape(t, s), NEW r \in Reading, NEW l \in Placed, r.lines = Append(s.lines, l),
         l.kind # "array"
  PROVE  Shape(t, r)
<1>1. \A q : Elements(r, q) = Elements(s, q)
  BY ElementsMore
<1> QED
  BY <1>1 DEF Shape, Counted

LEMMA ShapeFlag ==
  ASSUME NEW s, NEW t, Shape(t, s), NEW p \in DOMAIN t, t[p].type = "table"
  PROVE  /\ Shape(set_flag(t, p, "EXPLICIT"), s) /\ IsTable(set_flag(t, p, "EXPLICIT"), p)
<1> DEFINE u == set_flag(t, p, "EXPLICIT")
<1>1. t \in Tree /\ u \in Tree /\ DOMAIN u = DOMAIN t
  BY SetFlagGrows DEF Shape, Tree, Flags
<1>2. \A q \in DOMAIN t : /\ u[q].type = t[q].type
                          /\ "STDEXPR" \in u[q].flag => "STDEXPR" \in t[q].flag
  <2>1. t \in [DOMAIN t -> Data(Nat)]
    BY <1>1, TreeFacts DEF Tree
  <2>2. t[p] \in Data(Nat)
    BY <2>1
  <2> DEFINE e == [t[p] EXCEPT !.flag = @ \cup {"EXPLICIT"}]
  <2>3. \A q \in DOMAIN t : u[q] = IF q = p THEN e ELSE t[q]
    BY DEF set_flag
  <2>4. e.type = t[p].type /\ e.flag = t[p].flag \cup {"EXPLICIT"}
    BY <2>2 DEF Data
  <2>5. "STDEXPR" \in e.flag => "STDEXPR" \in t[p].flag
    BY <2>4
  <2> HIDE DEF e, u
  <2> QED
    BY <2>3, <2>4, <2>5
<1> HIDE DEF u
<1>3. \A q : size(u, q) = size(t, q)
  BY <1>1 DEF size
<1>4. Rooted(u)
  BY <1>1, <1>2 DEF Shape, Rooted
<1>5. Counted(u, s)
  BY <1>1, <1>2, <1>3 DEF Shape, Counted
<1>6. Numbered(u)
  BY <1>1, <1>2, <1>3 DEF Shape, Numbered
<1>7. Marked(u)
  BY <1>1, <1>2 DEF Shape, Marked
<1>8. Shape(u, s) /\ IsTable(u, p)
  BY <1>1, <1>2, <1>4, <1>5, <1>6, <1>7 DEF Shape, IsTable
<1> QED
  BY <1>8 DEF u

Fine(r) == r.err = ""

\* tab_add of one datum, if it succeeds.
LEMMA TabAdded ==
  ASSUME NEW t \in Tree, NEW p \in Seq(Parts), NEW k \in Parts, NEW d \in Data(Nat),
         Fine(tab_add(t, p, k, Single(d)))
  PROVE  /\ Append(p, k) \notin DOMAIN t /\ tab_add(t, p, k, Single(d)).p = Append(p, k)
         /\ OneMore(t, tab_add(t, p, k, Single(d)).t, p, k, d)
<1> DEFINE q == Append(p, k)
           g == Graft(t, q, Single(d))
<1>1. ~tab_find(t, p, k) /\ tab_add(t, p, k, Single(d)) = Result(g, q)
  BY DEF tab_add, Refuse, Fine
<1>2. q \in Seq(Parts) /\ q \notin DOMAIN t
  BY <1>1, AppendProperties DEF tab_find
<1>3. /\ g \in Tree /\ (\A r : r \in DOMAIN g <=> (r \in DOMAIN t \/ r = q))
      /\ g[q] = d /\ \A r \in DOMAIN t : g[r] = t[r]
  <2>1. t \in Trees(Parts, Nat)
    BY DEF Tree
  <2> HIDE DEF q
  <2>2. /\ Graft(t, q, Single(d)) \in Trees(Parts, Nat)
        /\ \A r : r \in DOMAIN Graft(t, q, Single(d)) <=> (r \in DOMAIN t \/ r = q)
        /\ Graft(t, q, Single(d))[q] = d
        /\ \A r \in DOMAIN t : Graft(t, q, Single(d))[r] = t[r]
    BY <1>2, <2>1, GraftOne
  <2> QED
    BY <2>2 DEF Tree
<1>4. Result(g, q).t = g /\ Result(g, q).p = q
  BY DEF Result
<1> QED
  BY <1>1, <1>2, <1>3, <1>4 DEF OneMore

LEMMA FineResult ==
  ASSUME NEW t, NEW p
  PROVE  Fine(Result(t, p)) /\ Result(t, p).t = t /\ Result(t, p).p = p
BY DEF Fine, Result

\* A new table as an entry of a table.
LEMMA TableMade ==
  ASSUME NEW s \in Reading, NEW t, Shape(t, s), NEW p, IsTable(t, p), NEW k \in Parts, NEW F \in SUBSET Flags,
         NEW r, r = tab_add(t, p, k, NewTable(F)), Fine(r)
  PROVE  /\ Append(p, k) \notin DOMAIN t /\ r.p = Append(p, k) /\ Shape(r.t, s) /\ IsTable(r.t, r.p)
         /\ Elements(s, Append(p, k)) = 0
<1> DEFINE d == mkdatum("table", F, 0)
<1>1. d \in Data(Nat) /\ d.type = "table"
  BY DEF mkdatum, Data, Types
<1>2. NewTable(F) = Single(d)
  BY DEF NewTable
<1> HIDE DEF d
<1>3. t \in Tree /\ p \in Seq(Parts)
  BY TreeFacts DEF Shape, IsTable, Tree
<1>4. r = tab_add(t, p, k, Single(d)) /\ Fine(tab_add(t, p, k, Single(d)))
  BY <1>2
<1>5. Append(p, k) \notin DOMAIN t /\ r.p = Append(p, k) /\ OneMore(t, r.t, p, k, d)
  BY <1>1, <1>3, <1>4, TabAdded
<1>6. Shape(r.t, s)
  BY <1>1, <1>5, ShapeEntry
<1>7. IsTable(r.t, r.p)
  BY <1>1, <1>5 DEF IsTable, OneMore
<1>8. Elements(s, Append(p, k)) = 0
  <2>1. Append(p, k) \in Seq(Parts)
    BY <1>3, AppendProperties
  <2>2. ~(Elements(s, Append(p, k)) > 0)
    BY <1>5, <2>1 DEF Shape, Counted
  <2>3. Elements(s, Append(p, k)) \in Nat
    BY ElementsNat
  <2> QED
    BY <2>2, <2>3
<1> QED
  BY <1>5, <1>6, <1>7, <1>8

(***************************************************************************)
(* One part of a key leads where the lines say: through the last element   *)
(* of an array, and never through an array if it is the key of a value     *)
(* (tomlc17.c:1299-1370).                                                  *)
(***************************************************************************)
LEMMA PartShape ==
  ASSUME NEW s \in Reading, NEW b, Shape(b.t, s), IsTable(b.t, b.p), Fine(b), NEW k \in Parts, NEW from,
         NEW caller \in {"std", "array", "keyvalue"}, NEW r, r = descend_part(b, from, k, caller), Fine(r)
  PROVE  /\ Shape(r.t, s) /\ IsTable(r.t, r.p)
         /\ caller # "keyvalue" => r.p = Through(s, Append(b.p, k))
         /\ caller = "keyvalue" => r.p = Append(b.p, k)
<1> DEFINE q == Append(b.p, k)
           new == IF caller \in {"std", "array"} THEN {"STDEXPR"} ELSE {}
<1>1. /\ b.t \in Tree /\ b.p \in Seq(Parts) /\ q \in Seq(Parts)
  <2>1. b.t \in Tree /\ b.p \in Seq(Parts)
    BY TreeFacts DEF Shape, IsTable, Tree
  <2> QED
    BY <2>1, AppendProperties
<1>2. ~Fine(Refuse("conflict"))
  BY DEF Fine, Refuse
<1>3. CASE tab_find(b.t, b.p, k)
  <2>1. r = IF IsTable(b.t, Enter(b.t, q)) /\ MayEnter(caller, b.t, q)
            THEN Result(b.t, Enter(b.t, q)) ELSE Refuse("conflict")
    BY <1>3 DEF descend_part, Fine
  <2>2. IsTable(b.t, Enter(b.t, q)) /\ MayEnter(caller, b.t, q) /\ r = Result(b.t, Enter(b.t, q))
    BY <1>2, <2>1
  <2>3. r.t = b.t /\ r.p = Enter(b.t, q) /\ q \in DOMAIN b.t
    <3>1. q \in DOMAIN b.t
      BY <1>3 DEF tab_find
    <3> HIDE DEF q
    <3> QED
      BY <2>2, <3>1, FineResult
  <2> HIDE DEF q
  <2>4. CASE b.t[q].type = "array"
    <3>1. caller # "keyvalue" /\ Enter(b.t, q) = Append(q, size(b.t, q))
      BY <2>2, <2>4 DEF MayEnter, Enter
    <3>2. size(b.t, q) = Elements(s, q) /\ size(b.t, q) \in Parts
      BY <1>1, <2>3, <2>4, SizeKids, PartsNat DEF Shape, Counted
    <3>3. Append(q, size(b.t, q)) \in DOMAIN b.t
      BY <2>2, <3>1 DEF IsTable
    <3>4. Elements(s, q) > 0
      BY <1>1, <3>2, <3>3, SizePositive
    <3>5. r.p = Through(s, q)
      BY <2>3, <3>1, <3>2, <3>4 DEF Through
    <3> QED
      BY <2>2, <2>3, <3>1, <3>5 DEF q
  <2>5. CASE b.t[q].type # "array"
    <3>1. Enter(b.t, q) = q
      BY <2>5 DEF Enter
    <3>2. ~(Elements(s, q) > 0)
      BY <1>1, <2>5 DEF Shape, Counted
    <3>3. r.p = Through(s, q)
      BY <2>3, <3>1, <3>2 DEF Through
    <3> QED
      BY <2>2, <2>3, <3>1, <3>3 DEF q
  <2> QED
    BY <2>4, <2>5
<1>4. CASE ~tab_find(b.t, b.p, k)
  <2>1. r = IF MayAdd(caller, b.t, from, b.p) THEN tab_add(b.t, b.p, k, NewTable(new)) ELSE Refuse("conflict")
    BY <1>4 DEF descend_part, Fine
  <2>2. r = tab_add(b.t, b.p, k, NewTable(new))
    BY <1>2, <2>1
  <2>3. new \in SUBSET Flags
    BY DEF Flags
  <2> HIDE DEF new
  <2>4. r.p = q /\ Shape(r.t, s) /\ IsTable(r.t, r.p) /\ Elements(s, q) = 0
    BY <2>2, <2>3, TableMade
  <2>5. Through(s, q) = q
    <3>1. ~(0 > 0)
      OBVIOUS
    <3> QED
      BY <2>4, <3>1 DEF Through
  <2> QED
    BY <2>4, <2>5
<1> QED
  BY <1>3, <1>4

-----------------------------------------------------------------------------
(* The way of a key *)

IsWay(w, s, key, n) == w = [i \in 0..n |-> IF i = 0 THEN <<>> ELSE Through(s, Append(w[i - 1], key[i]))]

\* The recursion of Way has a solution for every number of parts.
LEMMA WayExists ==
  ASSUME NEW s, NEW key, NEW N \in Nat
  PROVE  \E w : IsWay(w, s, key, N)
<1> DEFINE S == {n \in Nat : \E w : IsWay(w, s, key, n)}
<1>1. 0 \in S
  <2> DEFINE w0 == [i \in 0..0 |-> <<>>]
  <2>1. IsWay(w0, s, key, 0)
    BY DEF IsWay
  <2> QED
    BY <2>1
<1>2. ASSUME NEW n \in Nat, n \in S PROVE n + 1 \in S
  <2>1. PICK w : IsWay(w, s, key, n)
    BY <1>2
  <2> DEFINE h == [i \in 0..(n + 1) |-> IF i = n + 1 THEN Through(s, Append(w[n], key[n + 1])) ELSE w[i]]
             rhs == [i \in 0..(n + 1) |-> IF i = 0 THEN <<>> ELSE Through(s, Append(h[i - 1], key[i]))]
  <2>2. ASSUME NEW i \in 0..(n + 1) PROVE h[i] = rhs[i]
    <3>1. CASE i = n + 1
      <4>1. h[i] = Through(s, Append(w[n], key[n + 1]))
        BY <3>1
      <4>2. h[n] = w[n] /\ i - 1 = n /\ i # 0
        BY <3>1
      <4>3. rhs[i] = Through(s, Append(h[n], key[n + 1]))
        BY <3>1, <4>2
      <4> QED
        BY <4>1, <4>2, <4>3
    <3>2. CASE i # n + 1
      <4>1. i \in 0..n /\ h[i] = w[i] /\ (i # 0 => i - 1 \in 0..n /\ h[i - 1] = w[i - 1])
        BY <3>2
      <4>2. w[i] = IF i = 0 THEN <<>> ELSE Through(s, Append(w[i - 1], key[i]))
        BY <2>1, <4>1 DEF IsWay
      <4> QED
        BY <4>1, <4>2
    <3> QED
      BY <3>1, <3>2
  <2>3. IsWay(h, s, key, n + 1)
    BY <2>2 DEF IsWay
  <2> HIDE DEF h
  <2>4. n + 1 \in Nat /\ \E w1 : IsWay(w1, s, key, n + 1)
    BY <2>3
  <2> QED
    BY <2>4
<1>3. Nat \subseteq S
  <2> HIDE DEF S
  <2> QED
    BY <1>1, <1>2, NatInd
<1> QED
  BY <1>3

LEMMA WayDef ==
  ASSUME NEW s, NEW key, Len(key) \in Nat
  PROVE  /\ Way(s, key)[0] = <<>>
         /\ \A i \in 1..Len(key) : Way(s, key)[i] = Through(s, Append(Way(s, key)[i - 1], key[i]))
<1> DEFINE D == Way(s, key)
<1>1. D = CHOOSE w : IsWay(w, s, key, Len(key))
  BY DEF Way, IsWay
<1>2. IsWay(D, s, key, Len(key))
  BY <1>1, WayExists
<1> HIDE DEF D
<1>3. D[0] = <<>>
  BY <1>2 DEF IsWay
<1>4. \A i \in 1..Len(key) : i \in 0..Len(key) /\ i # 0
  OBVIOUS
<1>5. \A i \in 1..Len(key) : D[i] = Through(s, Append(D[i - 1], key[i]))
  BY <1>2, <1>4 DEF IsWay
<1> QED
  BY <1>3, <1>5 DEF D

\* p is from, and then the first n parts of key.
Spelled(p, from, key, n) ==
  /\ p \in Seq(Parts) /\ Len(p) = Len(from) + n
  /\ \A j \in 1..Len(from) : p[j] = from[j]
  /\ \A j \in 1..n : p[Len(from) + j] = key[j]

LEMMA SpelledMore ==
  ASSUME NEW p, NEW from \in Seq(Parts), NEW key \in Seq(Parts), NEW n \in Nat, Spelled(p, from, key, n),
         n + 1 <= Len(key)
  PROVE  Spelled(Append(p, key[n + 1]), from, key, n + 1)
<1> DEFINE q == Append(p, key[n + 1])
           m == Len(from)
<1>1. m \in Nat /\ Len(key) \in Nat
  OBVIOUS
<1>2. key[n + 1] \in Parts
  BY <1>1
<1>3. /\ p \in Seq(Parts) /\ Len(p) = m + n /\ (\A j \in 1..m : p[j] = from[j])
      /\ \A j \in 1..n : p[m + j] = key[j]
  BY DEF Spelled
<1>4. /\ q \in Seq(Parts) /\ Len(q) = Len(p) + 1 /\ (\A j \in 1..Len(p) : q[j] = p[j])
      /\ q[Len(p) + 1] = key[n + 1]
  BY <1>2, <1>3, AppendProperties
<1> HIDE DEF q, m
<1>5. Len(q) = m + (n + 1)
  BY <1>1, <1>3, <1>4
<1>6. \A j \in 1..m : q[j] = from[j]
  BY <1>1, <1>3, <1>4
<1>7. ASSUME NEW j \in 1..(n + 1) PROVE q[m + j] = key[j]
  <2>1. CASE j = n + 1
    <3>1. m + j = Len(p) + 1
      BY <1>1, <1>3, <2>1
    <3> QED
      BY <1>4, <2>1, <3>1
  <2>2. CASE j \in 1..n
    <3>1. m + j \in 1..Len(p)
      BY <1>1, <1>3, <2>2
    <3> QED
      BY <1>3, <1>4, <2>2, <3>1
  <2> QED
    BY <2>1, <2>2
<1> QED
  BY <1>4, <1>5, <1>6, <1>7 DEF Spelled, q, m

\* Where the descent is after n parts.
Reached(r, s, from, key, caller, n) ==
  Fine(r) => /\ Shape(r.t, s) /\ IsTable(r.t, r.p)
             /\ caller # "keyvalue" => r.p = Way(s, key)[n]
             /\ caller = "keyvalue" => Spelled(r.p, from, key, n)

LEMMA DescentShape ==
  ASSUME NEW s \in Reading, NEW t, Shape(t, s), NEW from, IsTable(t, from), NEW key \in Seq(Parts),
         NEW caller \in {"std", "array", "keyvalue"}, caller # "keyvalue" => from = <<>>
  PROVE  Reached(descend_keypart(t, from, key, caller), s, from, key, caller, Len(key))
<1> DEFINE D == Descent(t, from, key, caller)
           W == Way(s, key)
           S == {n \in Nat : n <= Len(key) => Reached(D[n], s, from, key, caller, n)}
<1>1. Len(key) \in Nat
  OBVIOUS
<1>2. /\ D[0] = Result(t, from)
      /\ \A i \in 1..Len(key) : D[i] = descend_part(D[i - 1], from, key[i], caller)
  BY <1>1, DescentDef
<1>3. W[0] = <<>> /\ \A i \in 1..Len(key) : W[i] = Through(s, Append(W[i - 1], key[i]))
  BY <1>1, WayDef
<1>4. from \in Seq(Parts)
  BY TreeFacts DEF Shape, IsTable, Tree
<1> HIDE DEF D
<1>5. 0 \in S
  <2>1. D[0].t = t /\ D[0].p = from
    BY <1>2, FineResult
  <2>2. Spelled(from, from, key, 0)
    BY <1>4 DEF Spelled
  <2>3. Reached(D[0], s, from, key, caller, 0)
    BY <1>3, <2>1, <2>2 DEF Reached
  <2> QED
    BY <2>3
<1>6. ASSUME NEW n \in Nat, n \in S PROVE n + 1 \in S
  <2> SUFFICES ASSUME n + 1 <= Len(key), Fine(D[n + 1])
               PROVE  /\ Shape(D[n + 1].t, s) /\ IsTable(D[n + 1].t, D[n + 1].p)
                      /\ caller # "keyvalue" => D[n + 1].p = W[n + 1]
                      /\ caller = "keyvalue" => Spelled(D[n + 1].p, from, key, n + 1)
    BY DEF Reached
  <2>1. Reached(D[n], s, from, key, caller, n)
    BY <1>1, <1>6
  <2>2. n + 1 \in 1..Len(key) /\ n + 1 - 1 = n /\ key[n + 1] \in Parts
    BY <1>1
  <2>3. D[n + 1] = descend_part(D[n], from, key[n + 1], caller)
    BY <1>2, <2>2
  <2>4. Fine(D[n])
    <3>1. ASSUME ~Fine(D[n]) PROVE D[n + 1] = D[n]
      BY <2>3, <3>1 DEF descend_part, Fine
    <3> QED
      BY <3>1
  <2>5. /\ Shape(D[n].t, s) /\ IsTable(D[n].t, D[n].p)
        /\ caller # "keyvalue" => D[n].p = W[n]
        /\ caller = "keyvalue" => Spelled(D[n].p, from, key, n)
    BY <2>1, <2>4 DEF Reached
  <2> HIDE DEF W
  <2>6. /\ Shape(D[n + 1].t, s) /\ IsTable(D[n + 1].t, D[n + 1].p)
        /\ caller # "keyvalue" => D[n + 1].p = Through(s, Append(D[n].p, key[n + 1]))
        /\ caller = "keyvalue" => D[n + 1].p = Append(D[n].p, key[n + 1])
    <3> DEFINE b == D[n]
               e == D[n + 1]
               k == key[n + 1]
    <3>1. k \in Parts /\ e = descend_part(b, from, k, caller)
      BY <2>2, <2>3
    <3>2. Fine(b) /\ Fine(e) /\ Shape(b.t, s) /\ IsTable(b.t, b.p)
      BY <2>4, <2>5
    <3> HIDE DEF b, e, k
    <3>3. /\ Shape(e.t, s) /\ IsTable(e.t, e.p)
          /\ caller # "keyvalue" => e.p = Through(s, Append(b.p, k))
          /\ caller = "keyvalue" => e.p = Append(b.p, k)
      BY <3>1, <3>2, PartShape
    <3> QED
      BY <3>3 DEF b, e, k
  <2>7. caller # "keyvalue" => D[n + 1].p = W[n + 1]
    BY <1>3, <2>2, <2>5, <2>6
  <2>8. caller = "keyvalue" => Spelled(D[n + 1].p, from, key, n + 1)
    BY <1>4, <2>5, <2>6, SpelledMore
  <2> QED
    BY <2>6, <2>7, <2>8
<1>7. Nat \subseteq S
  <2> HIDE DEF S
  <2> QED
    BY <1>5, <1>6, NatInd
<1> QED
  BY <1>1, <1>7 DEF descend_keypart, D

\* The place that a header names.
Named(s, key) == Append(Way(s, Front(key))[Len(key) - 1], Last(key))

\* [key] (tomlc17.c:1372-1430).
LEMMA StdShape ==
  ASSUME NEW s \in Reading, NEW t, Shape(t, s), NEW key \in Seq(Parts), key # <<>>,
         NEW r, r = parse_std_table_expr(t, key), Fine(r)
  PROVE  Shape(r.t, s) /\ IsTable(r.t, r.p) /\ r.p = Named(s, key)
<1> DEFINE d == descend_keypart(t, <<>>, Front(key), "std")
           k == Last(key)
           q == Append(d.p, k)
           a == IF q \in DOMAIN d.t THEN Result(d.t, q) ELSE tab_add(d.t, d.p, k, NewTable({"STDEXPR"}))
           bad == \/ q \in DOMAIN d.t /\ (Has(d.t, q, "EXPLICIT") \/ ~Has(d.t, q, "STDEXPR"))
                  \/ q \notin DOMAIN d.t /\ Has(d.t, d.p, "INLINED")
<1>1. r = IF d.err # "" THEN d ELSE IF bad THEN Refuse("conflict") ELSE IF a.err # "" THEN a
          ELSE Result(set_flag(a.t, q, "EXPLICIT"), q)
  BY DEF parse_std_table_expr
<1>2. Front(key) \in Seq(Parts) /\ k \in Parts /\ Len(Front(key)) = Len(key) - 1
  BY KeyParts
<1>3. IsTable(t, <<>>)
  BY DEF Shape, Rooted, IsTable
<1>4. Reached(d, s, <<>>, Front(key), "std", Len(key) - 1)
  <2>1. Reached(d, s, <<>>, Front(key), "std", Len(Front(key)))
    BY <1>2, <1>3, DescentShape
  <2> QED
    BY <1>2, <2>1
<1> HIDE DEF d, k
<1>5. ~Fine(Refuse("conflict"))
  BY DEF Fine, Refuse
<1>6. Fine(d) /\ ~bad /\ Fine(a) /\ r = Result(set_flag(a.t, q, "EXPLICIT"), q)
  <2> HIDE DEF a, bad, q
  <2> QED
    BY <1>1, <1>5 DEF Fine
<1>7. Shape(d.t, s) /\ IsTable(d.t, d.p) /\ d.p = Way(s, Front(key))[Len(key) - 1]
  BY <1>4, <1>6 DEF Reached
<1>8. Shape(a.t, s) /\ IsTable(a.t, q)
  <2>1. CASE q \in DOMAIN d.t
    <3>1. a = Result(d.t, q) /\ "STDEXPR" \in d.t[q].flag
      BY <1>6, <2>1 DEF Has
    <3>2. a.t = d.t
      <4> HIDE DEF q, a
      <4> QED
        BY <3>1, FineResult
    <3>3. d.t[q].type = "table"
      <4> HIDE DEF q
      <4> QED
        BY <1>7, <2>1, <3>1 DEF Shape, Marked
    <3> HIDE DEF q, a
    <3> QED
      BY <1>7, <2>1, <3>2, <3>3 DEF IsTable
  <2>2. CASE q \notin DOMAIN d.t
    <3>1. a = tab_add(d.t, d.p, k, NewTable({"STDEXPR"})) /\ {"STDEXPR"} \in SUBSET Flags
      BY <2>2 DEF Flags
    <3> HIDE DEF a
    <3>2. Shape(a.t, s) /\ IsTable(a.t, a.p) /\ a.p = q
      BY <1>2, <1>6, <1>7, <3>1, TableMade
    <3> QED
      BY <3>2
  <2> QED
    BY <2>1, <2>2
<1> HIDE DEF a, q
<1>9. Shape(set_flag(a.t, q, "EXPLICIT"), s) /\ IsTable(set_flag(a.t, q, "EXPLICIT"), q)
  BY <1>8, ShapeFlag DEF IsTable
<1>10. r.t = set_flag(a.t, q, "EXPLICIT") /\ r.p = q
  BY <1>6, FineResult
<1>11. q = Named(s, key)
  BY <1>7 DEF q, k, Named
<1> QED
  BY <1>9, <1>10, <1>11

\* An array that is there, or a new one.
LEMMA ArrayMade ==
  ASSUME NEW s \in Reading, NEW t, Shape(t, s), NEW p, IsTable(t, p), NEW k \in Parts,
         NEW r, r = tab_add(t, p, k, NewArray), Fine(r)
  PROVE  r.p = Append(p, k) /\ Shape(r.t, s) /\ r.p \in DOMAIN r.t
<1> DEFINE d == mkdatum("array", {}, 0)
<1>1. d \in Data(Nat) /\ d.type = "array" /\ "STDEXPR" \notin d.flag
  BY DEF mkdatum, Data, Types
<1>2. NewArray = Single(d)
  BY DEF NewArray
<1> HIDE DEF d
<1>3. t \in Tree /\ p \in Seq(Parts)
  BY TreeFacts DEF Shape, IsTable, Tree
<1>4. r = tab_add(t, p, k, Single(d)) /\ Fine(tab_add(t, p, k, Single(d)))
  BY <1>2
<1>5. Append(p, k) \notin DOMAIN t /\ r.p = Append(p, k) /\ OneMore(t, r.t, p, k, d)
  BY <1>1, <1>3, <1>4, TabAdded
<1>6. Shape(r.t, s)
  BY <1>1, <1>5, ShapeEntry
<1>7. r.p \in DOMAIN r.t
  BY <1>5 DEF OneMore
<1> QED
  BY <1>5, <1>6, <1>7

\* arr_emplace of a new table.
LEMMA Emplaced ==
  ASSUME NEW t \in Tree, NEW p \in Seq(Parts), NEW n, n = size(t, p) + 1, Append(p, n) \notin DOMAIN t,
         NEW r, r = arr_emplace(t, p, NewTable({})), Fine(r)
  PROVE  r.p = Append(p, n) /\ OneMore(t, r.t, p, n, mkdatum("table", {}, 0))
<1> DEFINE d == mkdatum("table", {}, 0)
           q == Append(p, n)
           g == Graft(t, q, Single(d))
<1>1. d \in Data(Nat)
  BY DEF mkdatum, Data, Types
<1>2. NewTable({}) = Single(d)
  BY DEF NewTable
<1>3. n \in Parts
  BY SizeKids, PartsNat
<1>4. q \in Seq(Parts) /\ q \notin DOMAIN t
  BY <1>3, AppendProperties
<1> HIDE DEF d
<1>5. r = Result(g, q)
  BY <1>2 DEF arr_emplace, Refuse, Fine
<1>6. t \in Trees(Parts, Nat)
  BY DEF Tree
<1>7. /\ g \in Trees(Parts, Nat) /\ (\A x : x \in DOMAIN g <=> (x \in DOMAIN t \/ x = q))
      /\ g[q] = d /\ \A x \in DOMAIN t : g[x] = t[x]
  <2> HIDE DEF q
  <2>1. /\ Graft(t, q, Single(d)) \in Trees(Parts, Nat)
        /\ \A x : x \in DOMAIN Graft(t, q, Single(d)) <=> (x \in DOMAIN t \/ x = q)
        /\ Graft(t, q, Single(d))[q] = d
        /\ \A x \in DOMAIN t : Graft(t, q, Single(d))[x] = t[x]
    BY <1>1, <1>4, <1>6, GraftOne
  <2> QED
    BY <2>1
<1> HIDE DEF g
<1>8. r.t = g /\ r.p = q
  <2> HIDE DEF q
  <2> QED
    BY <1>5, FineResult
<1> QED
  BY <1>7, <1>8 DEF OneMore, Tree, d

\* [[key]] (tomlc17.c:1432-1500).
LEMMA ArrayShape ==
  ASSUME NEW s \in Reading, NEW t, Shape(t, s), NEW key \in Seq(Parts), key # <<>>,
         NEW r, r = parse_array_table_expr(t, key), Fine(r)
  PROVE  /\ r.p = Append(Named(s, key), Elements(s, Named(s, key)) + 1) /\ IsTable(r.t, r.p)
         /\ \A m \in Reading, l \in Placed :
              m.lines = Append(s.lines, l) /\ l.kind = "array" /\ l.at = r.p => Shape(r.t, m)
<1> DEFINE d == descend_keypart(t, <<>>, Front(key), "array")
           k == Last(key)
           q == Append(d.p, k)
           a == IF q \in DOMAIN d.t THEN Result(d.t, q) ELSE tab_add(d.t, d.p, k, NewArray)
           bad == a.t[q].type # "array" \/ Has(a.t, q, "INLINED")
<1>1. r = IF d.err # "" THEN d ELSE IF a.err # "" THEN a ELSE IF bad THEN Refuse("conflict")
          ELSE arr_emplace(a.t, q, NewTable({}))
  BY DEF parse_array_table_expr
<1>2. Front(key) \in Seq(Parts) /\ k \in Parts /\ Len(Front(key)) = Len(key) - 1
  BY KeyParts
<1>3. IsTable(t, <<>>)
  BY DEF Shape, Rooted, IsTable
<1>4. Reached(d, s, <<>>, Front(key), "array", Len(key) - 1)
  <2>1. Reached(d, s, <<>>, Front(key), "array", Len(Front(key)))
    BY <1>2, <1>3, DescentShape
  <2> QED
    BY <1>2, <2>1
<1> HIDE DEF d, k
<1>5. ~Fine(Refuse("conflict"))
  BY DEF Fine, Refuse
<1>6. Fine(d) /\ ~bad /\ Fine(a) /\ r = arr_emplace(a.t, q, NewTable({}))
  <2> HIDE DEF a, bad, q
  <2> QED
    BY <1>1, <1>5 DEF Fine
<1>7. Shape(d.t, s) /\ IsTable(d.t, d.p) /\ d.p = Way(s, Front(key))[Len(key) - 1]
  BY <1>4, <1>6 DEF Reached
<1>8. Shape(a.t, s) /\ q \in DOMAIN a.t
  <2>1. CASE q \in DOMAIN d.t
    <3>1. a = Result(d.t, q)
      BY <2>1
    <3> HIDE DEF q, a
    <3>2. a.t = d.t
      BY <3>1, FineResult
    <3> QED
      BY <1>7, <2>1, <3>2
  <2>2. CASE q \notin DOMAIN d.t
    <3>1. a = tab_add(d.t, d.p, k, NewArray)
      BY <2>2
    <3> HIDE DEF a
    <3>2. a.p = q /\ Shape(a.t, s) /\ a.p \in DOMAIN a.t
      BY <1>2, <1>6, <1>7, <3>1, ArrayMade
    <3> QED
      BY <3>2
  <2> QED
    BY <2>1, <2>2
<1>9. a.t[q].type = "array"
  BY <1>6
<1>10. q = Named(s, key)
  BY <1>7 DEF k, Named
<1> HIDE DEF a, q, bad
<1> DEFINE n == size(a.t, q) + 1
           e == mkdatum("table", {}, 0)
<1>11. a.t \in Tree /\ q \in Seq(Parts) /\ size(a.t, q) = Elements(s, q) /\ size(a.t, q) \in Nat /\ n \in Parts
  <2>1. a.t \in Tree /\ q \in Seq(Parts)
    BY <1>8, TreeFacts DEF Shape, Tree
  <2> QED
    BY <1>8, <1>9, <2>1, SizeKids, PartsNat DEF Shape, Counted
<1>12. Append(q, n) \notin DOMAIN a.t
  <2>1. Append(q, n) \in DOMAIN a.t => n \in 1..size(a.t, q)
    BY <1>8, <1>9, <1>11 DEF Shape, Numbered
  <2>2. n \notin 1..size(a.t, q)
    BY <1>11
  <2> QED
    BY <2>1, <2>2
<1>13. n = Elements(s, Named(s, key)) + 1
  BY <1>10, <1>11
<1>14. e.type = "table"
  BY DEF mkdatum
<1>15. r.p = Append(q, n) /\ OneMore(a.t, r.t, q, n, e)
  BY <1>6, <1>11, <1>12, Emplaced
<1>16. IsTable(r.t, r.p)
  BY <1>14, <1>15 DEF IsTable, OneMore
<1>17. ASSUME NEW m \in Reading, NEW l \in Placed, m.lines = Append(s.lines, l), l.kind = "array", l.at = r.p
       PROVE  Shape(r.t, m)
  <2> HIDE DEF e
  <2>1. n = size(a.t, q) + 1
    OBVIOUS
  <2> HIDE DEF n
  <2> QED
    BY <1>8, <1>9, <1>14, <1>15, <1>17, <2>1, ShapeElement
<1> HIDE DEF n
<1> QED
  BY <1>10, <1>13, <1>15, <1>16, <1>17

\* The last part of the key is to be added to the table r.p, at the place at.
Aimed(r, s, key, at) ==
  Shape(r.t, s) /\ IsTable(r.t, r.p) /\ Append(r.p, Last(key)) = at /\ at \in Seq(Parts)

\* key = (tomlc17.c:1502-1560).
LEMMA KeyShape ==
  ASSUME NEW s \in Reading, NEW t, Shape(t, s), NEW from, IsTable(t, from), NEW key \in Seq(Parts), key # <<>>,
         NEW r, r = parse_keyvalue_expr(t, from, key), Fine(r)
  PROVE  Aimed(r, s, key, from \o key)
<1> DEFINE d == descend_keypart(t, from, Front(key), "keyvalue")
           k == Last(key)
           b == Front(key)
<1>1. ~Fine(Refuse("conflict"))
  BY DEF Fine, Refuse
<1>2. r = d
  <2>1. r = d \/ r = Refuse("conflict")
    BY DEF parse_keyvalue_expr
  <2> QED
    BY <1>1, <2>1
<1>3. /\ b \in Seq(Parts) /\ k \in Parts /\ Len(b) = Len(key) - 1
      /\ \A i \in 1..(Len(key) - 1) : b[i] = key[i]
  BY KeyParts
<1>4. Reached(d, s, from, b, "keyvalue", Len(b))
  BY <1>3, DescentShape
<1> HIDE DEF d
<1>5. Shape(r.t, s) /\ IsTable(r.t, r.p) /\ Spelled(r.p, from, b, Len(b))
  BY <1>2, <1>4 DEF Reached
<1>6. from \in Seq(Parts)
  BY TreeFacts DEF Shape, IsTable, Tree
<1>7. Append(r.p, k) = from \o key /\ from \o key \in Seq(Parts)
  <2> DEFINE x == Append(r.p, k)
             y == from \o key
             m == Len(from)
             n == Len(key)
  <2>1. m \in Nat /\ n \in Nat /\ n > 0 /\ k = key[n]
    BY <1>6 DEF Last
  <2>2. y \in Seq(Parts) /\ Len(y) = m + n /\ \A i \in 1..(m + n) : y[i] = IF i <= m THEN from[i] ELSE key[i - m]
    BY <1>6, ConcatProperties
  <2>3. /\ r.p \in Seq(Parts) /\ Len(r.p) = m + (n - 1) /\ (\A j \in 1..m : r.p[j] = from[j])
        /\ \A j \in 1..(n - 1) : r.p[m + j] = b[j]
    BY <1>3, <1>5 DEF Spelled
  <2>4. /\ x \in Seq(Parts) /\ Len(x) = Len(r.p) + 1 /\ (\A j \in 1..Len(r.p) : x[j] = r.p[j])
        /\ x[Len(r.p) + 1] = k
    BY <1>3, <2>3, AppendProperties
  <2>5. \A j \in 1..(n - 1) : b[j] = key[j]
    BY <1>3
  <2> HIDE DEF x, y, m, n, k, b
  <2>6. Len(x) = m + n
    BY <2>1, <2>3, <2>4
  <2>7. ASSUME NEW i \in 1..(m + n) PROVE x[i] = y[i]
    <3>1. CASE i = m + n
      <4>1. x[i] = k
        BY <2>1, <2>3, <2>4, <3>1
      <4>2. ~(i <= m) /\ i - m = n
        BY <2>1, <3>1
      <4> QED
        BY <2>1, <2>2, <4>1, <4>2
    <3>2. CASE i <= m
      <4>1. i \in 1..Len(r.p) /\ i \in 1..m
        BY <2>1, <2>3, <3>2
      <4> QED
        BY <2>2, <2>3, <2>4, <3>2, <4>1
    <3>3. CASE i # m + n /\ ~(i <= m)
      <4> DEFINE j == i - m
      <4>1. j \in 1..(n - 1) /\ m + j = i /\ i \in 1..Len(r.p)
        BY <2>1, <2>3, <3>3
      <4>2. x[i] = key[j]
        <5>1. x[i] = r.p[i] /\ r.p[m + j] = b[j] /\ b[j] = key[j]
          BY <2>3, <2>4, <2>5, <4>1
        <5> QED
          BY <4>1, <5>1
      <4>3. y[i] = key[j]
        BY <2>2, <3>3
      <4> QED
        BY <4>2, <4>3
    <3> QED
      BY <3>1, <3>2, <3>3
  <2>8. Len(x) = Len(y) /\ \A i \in 1..Len(x) : x[i] = y[i]
    BY <2>2, <2>6, <2>7
  <2>9. x = y
    BY <2>2, <2>4, <2>8, SeqEqual
  <2> QED
    BY <2>2, <2>9 DEF x, y
<1> QED
  BY <1>5, <1>7 DEF Aimed

-----------------------------------------------------------------------------
(* The meaning of a document *)

Nothing == [lines |-> <<>>, header |-> <<>>]
IsMeaning(m, d, n) == m = [i \in 0..n |-> IF i = 0 THEN Nothing ELSE NextLine(m[i - 1], d[i])]

\* The recursion of Meaning has a solution for every number of lines.
LEMMA MeaningExists ==
  ASSUME NEW d, NEW N \in Nat
  PROVE  \E m : IsMeaning(m, d, N)
<1> DEFINE S == {n \in Nat : \E m : IsMeaning(m, d, n)}
<1>1. 0 \in S
  <2> DEFINE m0 == [i \in 0..0 |-> Nothing]
  <2>1. IsMeaning(m0, d, 0)
    BY DEF IsMeaning
  <2> QED
    BY <2>1
<1>2. ASSUME NEW n \in Nat, n \in S PROVE n + 1 \in S
  <2>1. PICK m : IsMeaning(m, d, n)
    BY <1>2
  <2> DEFINE h == [i \in 0..(n + 1) |-> IF i = n + 1 THEN NextLine(m[n], d[n + 1]) ELSE m[i]]
             rhs == [i \in 0..(n + 1) |-> IF i = 0 THEN Nothing ELSE NextLine(h[i - 1], d[i])]
  <2>2. ASSUME NEW i \in 0..(n + 1) PROVE h[i] = rhs[i]
    <3>1. CASE i = n + 1
      <4>1. h[i] = NextLine(m[n], d[n + 1])
        BY <3>1
      <4>2. h[n] = m[n] /\ i - 1 = n /\ i # 0
        BY <3>1
      <4>3. rhs[i] = NextLine(h[n], d[n + 1])
        BY <3>1, <4>2
      <4> QED
        BY <4>1, <4>2, <4>3
    <3>2. CASE i # n + 1
      <4>1. i \in 0..n /\ h[i] = m[i] /\ (i # 0 => i - 1 \in 0..n /\ h[i - 1] = m[i - 1])
        BY <3>2
      <4>2. m[i] = IF i = 0 THEN Nothing ELSE NextLine(m[i - 1], d[i])
        BY <2>1, <4>1 DEF IsMeaning
      <4> QED
        BY <4>1, <4>2
    <3> QED
      BY <3>1, <3>2
  <2>3. IsMeaning(h, d, n + 1)
    BY <2>2 DEF IsMeaning
  <2> HIDE DEF h
  <2>4. n + 1 \in Nat /\ \E m1 : IsMeaning(m1, d, n + 1)
    BY <2>3
  <2> QED
    BY <2>4
<1>3. Nat \subseteq S
  <2> HIDE DEF S
  <2> QED
    BY <1>1, <1>2, NatInd
<1> QED
  BY <1>3

LEMMA MeaningDef ==
  ASSUME NEW d, Len(d) \in Nat
  PROVE  /\ Meaning(d)[0] = Nothing
         /\ \A i \in 1..Len(d) : Meaning(d)[i] = NextLine(Meaning(d)[i - 1], d[i])
<1> DEFINE D == Meaning(d)
<1>1. D = CHOOSE m : IsMeaning(m, d, Len(d))
  BY DEF Meaning, IsMeaning, Nothing
<1>2. IsMeaning(D, d, Len(d))
  BY <1>1, MeaningExists
<1> HIDE DEF D
<1>3. D[0] = Nothing
  BY <1>2 DEF IsMeaning
<1>4. \A i \in 1..Len(d) : i \in 0..Len(d) /\ i # 0
  OBVIOUS
<1>5. \A i \in 1..Len(d) : D[i] = NextLine(D[i - 1], d[i])
  BY <1>2, <1>4 DEF IsMeaning
<1> QED
  BY <1>3, <1>5 DEF D

Said(d) == Meaning(d)[Len(d)]

\* A line more says the same of the lines before it.
LEMMA SaidMore ==
  ASSUME NEW S, NEW d \in Seq(S), NEW l \in S
  PROVE  Said(Append(d, l)) = NextLine(Said(d), l) /\ Meaning(Append(d, l))[Len(d)] = Said(d)
<1> DEFINE e == Append(d, l)
           n == Len(d)
           A == Meaning(d)
           B == Meaning(e)
           T == {i \in Nat : i <= n => A[i] = B[i]}
<1>1. n \in Nat /\ Len(e) = n + 1 /\ (\A i \in 1..n : e[i] = d[i]) /\ e[n + 1] = l
  BY AppendProperties
<1> HIDE DEF e
<1>2. Len(e) \in Nat
  BY <1>1
<1>3. A[0] = Nothing /\ \A i \in 1..n : A[i] = NextLine(A[i - 1], d[i])
  BY <1>1, MeaningDef
<1>4. B[0] = Nothing /\ \A i \in 1..Len(e) : B[i] = NextLine(B[i - 1], e[i])
  BY <1>2, MeaningDef
<1> HIDE DEF A, B, n
<1>5. 0 \in T
  BY <1>3, <1>4
<1>6. ASSUME NEW i \in Nat, i \in T PROVE i + 1 \in T
  <2> SUFFICES ASSUME i + 1 <= n PROVE A[i + 1] = B[i + 1]
    OBVIOUS
  <2>1. i + 1 \in 1..n /\ i + 1 \in 1..Len(e) /\ i + 1 - 1 = i /\ i <= n
    BY <1>1
  <2>2. A[i] = B[i] /\ e[i + 1] = d[i + 1]
    BY <1>1, <1>6, <2>1
  <2>3. A[i + 1] = NextLine(A[i], d[i + 1])
    BY <1>3, <2>1
  <2>4. B[i + 1] = NextLine(B[i], e[i + 1])
    BY <1>4, <2>1
  <2> QED
    BY <2>2, <2>3, <2>4
<1>7. Nat \subseteq T
  <2> HIDE DEF T
  <2> QED
    BY <1>5, <1>6, NatInd
<1>8. A[n] = B[n]
  BY <1>1, <1>7
<1>9. n + 1 \in 1..Len(e) /\ n + 1 - 1 = n
  BY <1>1
<1>10. B[n + 1] = NextLine(B[n], l)
  BY <1>1, <1>4, <1>9
<1> QED
  BY <1>1, <1>8, <1>10 DEF Said, A, B, n, e

LEMMA SaidNothing == Said(<<>>) = Nothing
<1>1. Len(<<>>) = 0
  BY EmptySeq
<1> QED
  BY <1>1, MeaningDef DEF Said

\* What a line adds.
LEMMA NextFields ==
  ASSUME NEW s \in Reading, NEW kind \in Kinds, NEW key, NEW p \in Seq(Parts), p = PlaceOfLine(s, Line(kind, key)),
         NEW r, r = NextLine(s, Line(kind, key)), NEW l, l = [kind |-> kind, at |-> p]
  PROVE  /\ r \in Reading /\ l \in Placed /\ l.kind = kind /\ l.at = p
         /\ r.lines = Append(s.lines, l) /\ r.header = IF kind = "keyvalue" THEN s.header ELSE p
<1>1. Line(kind, key).kind = kind
  BY DEF Line
<1>2. l \in Placed /\ l.kind = kind /\ l.at = p
  BY DEF Placed
<1>3. r.lines = Append(s.lines, l) /\ r.header = IF kind = "keyvalue" THEN s.header ELSE p
  BY <1>1 DEF NextLine
<1>4. s.lines \in Seq(Placed) /\ s.header \in Seq(Parts)
  BY DEF Reading
<1>5. Append(s.lines, l) \in Seq(Placed)
  BY <1>2, <1>4, AppendProperties
<1>6. r = [lines |-> Append(s.lines, l), header |-> IF kind = "keyvalue" THEN s.header ELSE p]
  BY <1>1 DEF NextLine
<1>7. r \in Reading
  BY <1>4, <1>5, <1>6 DEF Reading
<1> QED
  BY <1>2, <1>3, <1>7

LEMMA LinePlaces ==
  ASSUME NEW s, NEW key
  PROVE  /\ PlaceOfLine(s, Line("keyvalue", key)) = s.header \o key
         /\ PlaceOfLine(s, Line("std", key)) = Named(s, key)
         /\ PlaceOfLine(s, Line("array", key)) = Append(Named(s, key), Elements(s, Named(s, key)) + 1)
BY DEF PlaceOfLine, Line, Named

-----------------------------------------------------------------------------
(* What is read back *)

\* The values of the first n lines are where they belong.
Value(t, s, i) == /\ s.lines[i].at \in DOMAIN t
                  /\ t[s.lines[i].at].type = "int64" /\ t[s.lines[i].at].val = i
Written(t, s, n) == \A i \in 1..n : s.lines[i].kind = "keyvalue" => Value(t, s, i)

SameLines(s, d) == /\ s \in Reading /\ Len(s.lines) = Len(d)
                   /\ \A i \in 1..Len(d) : s.lines[i].kind = d[i].kind

\* The value of the last line is still to come.
Pending(t, s, d, stk) ==
  /\ Len(stk) = 1 /\ d # <<>> /\ Written(t, s, Len(d) - 1)
  /\ IsTable(t, stk[1].tab) /\ Append(stk[1].tab, stk[1].key) = s.lines[Len(d)].at

(***************************************************************************)
(* The inductive invariant of ReadsBack.                                   *)
(***************************************************************************)
Mirrors(t, cur, s, d, stk) ==
  /\ SameLines(s, d) /\ Shape(t, s)
  /\ IsTable(t, cur) /\ cur = s.header
  /\ stk = <<>> => Written(t, s, Len(d))
  /\ stk # <<>> => Pending(t, s, d, stk)
ReadInv == ~Inline(doc) /\ result # "error" => Mirrors(top, curtab, Said(doc), doc, stack)

\* r and e have the line l more than s and d.
Longer(r, e, s, d, l) ==
  /\ SameLines(r, e) /\ Len(e) = Len(d) + 1
  /\ \A i \in 1..Len(d) : r.lines[i] = s.lines[i]
  /\ r.lines[Len(d) + 1] = l

LEMMA SameLinesMore ==
  ASSUME NEW d \in Seq(LineSet), NEW s, SameLines(s, d), NEW x \in LineSet,
         NEW r \in Reading, NEW l \in Placed, l.kind = x.kind, r.lines = Append(s.lines, l)
  PROVE  Longer(r, Append(d, x), s, d, l)
<1> DEFINE e == Append(d, x)
           n == Len(d)
           L == s.lines
           M == r.lines
<1>2. L \in Seq(Placed) /\ Len(L) = n /\ \A i \in 1..n : L[i].kind = d[i].kind
  BY DEF SameLines, Reading
<1>3. n \in Nat
  OBVIOUS
<1>4. Len(e) = n + 1 /\ (\A i \in 1..n : e[i] = d[i]) /\ e[n + 1] = x
  BY AppendProperties
<1>5. M = Append(L, l)
  OBVIOUS
<1> HIDE DEF L, M
<1>6. Len(M) = n + 1 /\ (\A i \in 1..n : M[i] = L[i]) /\ M[n + 1] = l
  <2>1. Len(M) = Len(L) + 1 /\ (\A i \in 1..Len(L) : M[i] = L[i]) /\ M[Len(L) + 1] = l
    BY <1>2, <1>5, AppendProperties
  <2> QED
    BY <1>2, <2>1
<1> HIDE DEF e, n
<1>7. \A i \in 1..(n + 1) : i \in 1..n \/ i = n + 1
  BY <1>3
<1>8. \A i \in 1..Len(e) : M[i].kind = e[i].kind
  BY <1>2, <1>4, <1>6, <1>7
<1>9. SameLines(r, e)
  BY <1>4, <1>6, <1>8 DEF SameLines, M
<1> QED
  BY <1>4, <1>6, <1>9 DEF Longer, L, M, e, n

\* A value that is in the tree stays.
LEMMA WrittenGrows ==
  ASSUME NEW t, NEW u, NEW from, Grows(t, u, from), NEW s, NEW r, NEW n, Written(t, s, n),
         \A i \in 1..n : r.lines[i] = s.lines[i]
  PROVE  Written(u, r, n)
BY DEF Grows, Written, Value

LEMMA InlineMore ==
  ASSUME NEW S, NEW d \in Seq(S), NEW l \in S, ~Inline(Append(d, l))
  PROVE  ~Inline(d)
<1> DEFINE e == Append(d, l)
<1>1. DOMAIN d = 1..Len(d) /\ Len(d) \in Nat /\ DOMAIN e = 1..(Len(d) + 1) /\ \A i \in 1..Len(d) : e[i] = d[i]
  BY AppendProperties
<1>2. \A i \in 1..Len(d) : i \in 1..(Len(d) + 1)
  OBVIOUS
<1> HIDE DEF e
<1>3. ~Inline(e)
  BY DEF e
<1> QED
  BY <1>1, <1>2, <1>3 DEF Inline

\* parse_key passes on what is fine.
LEMMA FineKey ==
  ASSUME NEW key, NEW r, Fine(parse_key(key, r))
  PROVE  parse_key(key, r) = r
BY DEF parse_key, Fine, Refuse

\* [key] and [[key]].
LEMMA HeaderReads ==
  ASSUME TreeInv, ReadInv, NEW key \in Keys, StdTable(key) \/ ArrayTable(key), ~Inline(doc'), result' # "error"
  PROVE  Mirrors(top', curtab', Said(doc'), doc', stack')
<1> DEFINE s == Said(doc)
           m == Said(doc')
           n == Len(doc)
<1>1. AtLine /\ doc \in Seq(LineSet) /\ n \in Nat
  <2>1. AtLine
    BY DEF StdTable, ArrayTable, MayRead
  <2>2. doc \in Seq(LineSet)
    BY DEF TreeInv
  <2> QED
    BY <2>1, <2>2, LenProperties
<1>2. PICK kind \in {"std", "array"} :
        /\ doc' = Append(doc, Line(kind, key))
        /\ SetCurtab(parse_key(key, IF kind = "std" THEN parse_std_table_expr(top, key)
                                                    ELSE parse_array_table_expr(top, key)))
  BY DEF StdTable, ArrayTable
<1> DEFINE b == IF kind = "std" THEN parse_std_table_expr(top, key) ELSE parse_array_table_expr(top, key)
           r == parse_key(key, b)
<1>3. kind \in Kinds /\ Line(kind, key) \in LineSet
  BY <1>1 DEF Kinds, Line, LineSet
<1>4. m = NextLine(s, Line(kind, key)) /\ ~Inline(doc)
  BY <1>1, <1>2, <1>3, SaidMore, InlineMore
<1>5. result = "parsing" /\ stack = <<>>
  BY <1>1 DEF AtLine
<1>6. SameLines(s, doc) /\ Shape(top, s) /\ Written(top, s, n) /\ s \in Reading
  BY <1>4, <1>5 DEF ReadInv, Mirrors, SameLines
<1>7. key \in Seq(Parts) /\ key # <<>>
  BY KeyTypes
<1>8. Fine(r) /\ top' = r.t /\ curtab' = r.p /\ stack' = stack
  BY <1>2 DEF SetCurtab, Bail, Fine
<1>9. r = b
  BY <1>8, FineKey
<1>10. Grows(top, top', <<>>)
  BY HeaderStep DEF TreeStep
<1> DEFINE p == PlaceOfLine(s, Line(kind, key))
           l == [kind |-> kind, at |-> p]
<1>11. /\ IsTable(r.t, r.p) /\ r.p = p
       /\ kind = "std" => Shape(r.t, s)
       /\ kind = "array" => \A x \in Reading, y \in Placed :
            x.lines = Append(s.lines, y) /\ y.kind = "array" /\ y.at = r.p => Shape(r.t, x)
  <2> HIDE DEF r, s
  <2>1. CASE kind = "std"
    <3>1. r = parse_std_table_expr(top, key)
      BY <1>9, <2>1
    <3>2. Shape(r.t, s) /\ IsTable(r.t, r.p) /\ r.p = Named(s, key)
      BY <1>6, <1>7, <1>8, <3>1, StdShape
    <3> QED
      BY <2>1, <3>2, LinePlaces
  <2>2. CASE kind = "array"
    <3>1. r = parse_array_table_expr(top, key)
      BY <1>9, <2>2
    <3>2. /\ r.p = Append(Named(s, key), Elements(s, Named(s, key)) + 1) /\ IsTable(r.t, r.p)
          /\ \A x \in Reading, y \in Placed :
               x.lines = Append(s.lines, y) /\ y.kind = "array" /\ y.at = r.p => Shape(r.t, x)
      BY <1>6, <1>7, <1>8, <3>1, ArrayShape
    <3> QED
      BY <2>2, <3>2, LinePlaces
  <2> QED
    BY <2>1, <2>2
<1> HIDE DEF r, b, s, m, p
<1>12. p \in Seq(Parts)
  <2>1. top' \in Tree
    BY HeaderStep DEF TreeInv
  <2> QED
    BY <1>8, <1>11, <2>1, TreeFacts DEF IsTable, Tree
<1>13. /\ m \in Reading /\ l \in Placed /\ l.kind = kind /\ l.at = p
       /\ m.lines = Append(s.lines, l) /\ m.header = IF kind = "keyvalue" THEN s.header ELSE p
  BY <1>3, <1>4, <1>6, <1>12, NextFields DEF p
<1>14. m.header = p /\ kind # "keyvalue"
  BY <1>13
<1> HIDE DEF l
<1>15. Shape(top', m)
  <2>1. CASE kind = "std"
    BY <1>6, <1>8, <1>11, <1>13, <2>1, ShapeLine
  <2>2. CASE kind = "array"
    BY <1>8, <1>11, <1>13, <2>2
  <2> QED
    BY <2>1, <2>2
<1>16. /\ SameLines(m, doc') /\ Len(doc') = n + 1
       /\ (\A i \in 1..n : m.lines[i] = s.lines[i]) /\ m.lines[n + 1] = l
  <2>1. doc \in Seq(LineSet) /\ doc' = Append(doc, Line(kind, key))
    BY <1>1, <1>2
  <2>2. SameLines(s, doc) /\ kind \in Kinds
    BY <1>3, <1>6
  <2>3. m \in Reading /\ l \in Placed
    BY <1>13
  <2>4. l.kind = kind /\ m.lines = Append(s.lines, l)
    BY <1>13
  <2>5. l.kind = Line(kind, key).kind /\ Line(kind, key) \in LineSet
    BY <1>3, <2>4 DEF Line
  <2>6. Longer(m, Append(doc, Line(kind, key)), s, doc, l)
    BY <2>1, <2>2, <2>3, <2>4, <2>5, SameLinesMore
  <2> QED
    BY <2>1, <2>6 DEF Longer
<1>17. Written(top', m, n + 1)
  <2>1. Written(top', m, n)
    BY <1>6, <1>10, <1>16, WrittenGrows
  <2>2. \A i \in 1..(n + 1) : i \in 1..n \/ i = n + 1
    BY <1>1
  <2> HIDE DEF n
  <2> QED
    BY <1>13, <1>14, <1>16, <2>1, <2>2 DEF Written
<1> QED
  BY <1>5, <1>8, <1>11, <1>14, <1>15, <1>16, <1>17 DEF Mirrors, m

\* key = , up to its value.
LEMMA KeyValueReads ==
  ASSUME TreeInv, ReadInv, NEW key \in Keys, KeyValue(key), ~Inline(doc'), result' # "error"
  PROVE  Mirrors(top', curtab', Said(doc'), doc', stack')
<1> DEFINE s == Said(doc)
           m == Said(doc')
           n == Len(doc)
           b == parse_keyvalue_expr(top, curtab, key)
           r == parse_key(key, b)
           g == [Frame("doc", Freed, "value") EXCEPT !.tab = r.p, !.key = Last(key)]
<1>1. AtLine /\ doc \in Seq(LineSet) /\ n \in Nat
  <2>1. AtLine
    BY DEF KeyValue, MayRead
  <2>2. doc \in Seq(LineSet)
    BY DEF TreeInv
  <2> QED
    BY <2>1, <2>2, LenProperties
<1>2. doc' = Append(doc, Line("keyvalue", key))
  BY DEF KeyValue
<1>3. "keyvalue" \in Kinds /\ Line("keyvalue", key) \in LineSet /\ Line("keyvalue", key).kind = "keyvalue"
  BY DEF Kinds, Line, LineSet
<1>4. m = NextLine(s, Line("keyvalue", key)) /\ ~Inline(doc)
  BY <1>1, <1>2, <1>3, SaidMore, InlineMore
<1>5. result = "parsing" /\ stack = <<>>
  BY <1>1 DEF AtLine
<1>6. /\ SameLines(s, doc) /\ Shape(top, s) /\ Written(top, s, n) /\ s \in Reading
      /\ IsTable(top, curtab) /\ curtab = s.header
  BY <1>4, <1>5 DEF ReadInv, Mirrors, SameLines
<1>7. key \in Seq(Parts) /\ key # <<>> /\ Last(key) \in Parts
  BY KeyTypes
<1>8. Fine(r) /\ top' = r.t /\ stack' = <<g>> /\ curtab' = curtab
  BY DEF KeyValue, Bail, Fine
<1>9. r = b
  BY <1>8, FineKey
<1>10. Grows(top, top', <<>>)
  <2>1. bracket_level \in Int /\ brace_level \in Int
    BY DEF TreeInv
  <2>2. Append(doc, Line("keyvalue", key)) \in Seq(LineSet)
    BY <1>1, <1>3, AppendProperties
  <2>3. Counters
    BY <1>2, <2>1, <2>2 DEF KeyValue, Counters
  <2> QED
    BY <2>3, KeyValueStep DEF TreeStep
<1> DEFINE p == PlaceOfLine(s, Line("keyvalue", key))
           l == [kind |-> "keyvalue", at |-> p]
<1>11. g.tab = r.p /\ g.key = Last(key) /\ Len(<<g>>) = 1 /\ <<g>>[1] = g /\ <<g>> # <<>>
  <2>1. g.tab = r.p /\ g.key = Last(key)
    BY DEF Frame
  <2> HIDE DEF g
  <2> QED
    BY <2>1
<1> HIDE DEF r, s, g
<1>12. p = curtab \o key
  BY <1>6, LinePlaces
<1>13. Shape(r.t, s) /\ IsTable(r.t, r.p) /\ Append(r.p, Last(key)) = p /\ p \in Seq(Parts)
  <2> HIDE DEF p
  <2>1. s \in Reading /\ Shape(top, s) /\ IsTable(top, curtab)
    BY <1>6
  <2>2. r = parse_keyvalue_expr(top, curtab, key)
    BY <1>9
  <2>3. Fine(r) /\ key \in Seq(Parts) /\ key # <<>>
    BY <1>7, <1>8
  <2>4. Aimed(r, s, key, curtab \o key)
    BY <2>1, <2>2, <2>3, KeyShape
  <2> QED
    BY <1>12, <2>4 DEF Aimed
<1> HIDE DEF b, m, p
<1>14. /\ m \in Reading /\ l \in Placed /\ l.kind = "keyvalue" /\ l.at = p
       /\ m.lines = Append(s.lines, l) /\ m.header = s.header
  BY <1>3, <1>4, <1>6, <1>13, NextFields DEF p
<1> HIDE DEF l
<1>15. Shape(top', m)
  BY <1>6, <1>8, <1>13, <1>14, ShapeLine
<1>16. Longer(m, doc', s, doc, l)
  <2>1. l.kind = Line("keyvalue", key).kind
    BY <1>3, <1>14
  <2>2. m \in Reading /\ l \in Placed /\ m.lines = Append(s.lines, l)
    BY <1>14
  <2>3. SameLines(s, doc) /\ Line("keyvalue", key) \in LineSet /\ doc \in Seq(LineSet)
    BY <1>1, <1>3, <1>6
  <2>4. Longer(m, Append(doc, Line("keyvalue", key)), s, doc, l)
    BY <2>1, <2>2, <2>3, SameLinesMore
  <2> QED
    BY <1>2, <2>4
<1>17. SameLines(m, doc') /\ Len(doc') = n + 1 /\ (\A i \in 1..n : m.lines[i] = s.lines[i]) /\ m.lines[n + 1] = l
  BY <1>16 DEF Longer
<1>18. Written(top', m, n)
  BY <1>6, <1>10, <1>17, WrittenGrows
<1>19. Len(doc') - 1 = n /\ doc' # <<>>
  <2>1. Len(doc') - 1 = n
    BY <1>1, <1>17
  <2>2. doc' # <<>>
    BY <1>1, <1>2, <1>3, AppendProperties
  <2> QED
    BY <2>1, <2>2
<1>20. IsTable(top', curtab')
  BY <1>6, <1>8, <1>10 DEF IsTable, Grows
<1>21. Pending(top', m, doc', <<g>>)
  <2>1. Append(g.tab, g.key) = m.lines[Len(doc')].at
    BY <1>11, <1>13, <1>14, <1>17
  <2> QED
    BY <1>8, <1>11, <1>13, <1>18, <1>19, <2>1 DEF Pending
<1>22. Mirrors(top', curtab', m, doc', <<g>>)
  BY <1>6, <1>8, <1>11, <1>14, <1>15, <1>17, <1>20, <1>21 DEF Mirrors
<1> QED
  BY <1>8, <1>22 DEF m

\* A value on its own.
LEMMA ScalarReads ==
  ASSUME TreeInv, ReadInv, Scalar, ~Inline(doc'), result' # "error"
  PROVE  Mirrors(top', curtab', Said(doc'), doc', stack')
<1> DEFINE s == Said(doc)
           n == Len(doc)
           g == stack[1]
           d == mkdatum("int64", {}, n)
           r == tab_add(top, g.tab, g.key, Single(d))
           q == Append(g.tab, g.key)
<1>1. stack # <<>> /\ doc' = doc /\ FrameRules(stack) /\ doc \in Seq(LineSet) /\ top \in Tree
  BY DEF Scalar, WantsValue, Open, TreeInv
<1>2. result = "parsing" /\ ~Inline(doc)
  BY <1>1 DEF TreeInv
<1>3. Mirrors(top, curtab, s, doc, stack)
  BY <1>2 DEF ReadInv
<1>4. /\ SameLines(s, doc) /\ Shape(top, s) /\ s \in Reading /\ IsTable(top, curtab) /\ curtab = s.header
      /\ Pending(top, s, doc, stack)
  BY <1>1, <1>3 DEF Mirrors, SameLines
<1>5. Len(stack) = 1 /\ doc # <<>> /\ Written(top, s, n - 1) /\ IsTable(top, g.tab) /\ q = s.lines[n].at
  BY <1>4 DEF Pending
<1>6. Last(stack) = g /\ g \in Frames /\ g.kind = "doc"
  <2>1. Last(stack) = stack[Len(stack)] /\ Last(stack) \in Frames
    BY <1>1, LastRules
  <2>2. stack[1].kind = "doc"
    <3>1. 1 \in 1..Len(stack)
      BY <1>5
    <3> QED
      BY <1>1, <3>1 DEF FrameRules
  <2> QED
    BY <1>5, <2>1, <2>2
<1>7. n \in Nat /\ n > 0
  BY <1>1, <1>5
<1>8. d \in Data(Nat) /\ d.type = "int64" /\ d.val = n /\ d.flag = {}
  BY <1>7 DEF mkdatum, Data, Types
<1>9. Fine(r) /\ top' = r.t /\ stack' = <<>> /\ curtab' = curtab
  <2>1. Deliver(stack, Single(d))
    BY DEF Scalar
  <2> HIDE DEF d
  <2> QED
    BY <1>6, <2>1 DEF Deliver, Bail, Fine
<1>10. g.tab \in Seq(Parts) /\ g.key \in Parts
  BY <1>6 DEF Frames
<1> HIDE DEF s, n, g, d
<1>11. q \notin DOMAIN top /\ OneMore(top, r.t, g.tab, g.key, d)
  BY <1>1, <1>8, <1>9, <1>10, TabAdded
<1>12. Shape(top', s)
  <2>1. "STDEXPR" \notin d.flag
    BY <1>8
  <2> QED
    BY <1>4, <1>5, <1>9, <1>10, <1>11, <2>1, ShapeEntry
<1> HIDE DEF r
<1>13. IsTable(top', curtab')
  BY <1>4, <1>9, <1>11 DEF IsTable, OneMore
<1>14. Written(top', s, n)
  <2>1. \A i \in 1..(n - 1) : s.lines[i].kind = "keyvalue" => Value(top', s, i)
    BY <1>5, <1>9, <1>11 DEF Written, Value, OneMore
  <2>2. Value(top', s, n)
    BY <1>5, <1>8, <1>9, <1>11 DEF Value, OneMore
  <2>3. \A i \in 1..n : i \in 1..(n - 1) \/ i = n
    BY <1>7
  <2> QED
    BY <2>1, <2>2, <2>3 DEF Written
<1>15. Mirrors(top', curtab', s, doc, stack')
  BY <1>4, <1>9, <1>12, <1>13, <1>14 DEF Mirrors, n
<1> QED
  BY <1>1, <1>15 DEF s

\* A line that is marked is inline, and the others stay so.
LEMMA MarkedInline ==
  ASSUME NEW d \in Seq(LineSet), ~Inline(d) => d # <<>>, NEW e, e = [d EXCEPT ![Len(d)].inline = TRUE]
  PROVE  Inline(e)
<1>1. DOMAIN e = DOMAIN d /\ Len(d) \in Nat /\ DOMAIN d = 1..Len(d)
  BY DocMark
<1>2. \A i \in DOMAIN d : d[i] \in LineSet /\ e[i] = IF i = Len(d) THEN [d[i] EXCEPT !.inline = TRUE] ELSE d[i]
  <2>1. \A i \in DOMAIN d : d[i] \in LineSet
    <3> HIDE DEF LineSet
    <3> QED
      OBVIOUS
  <2> HIDE DEF LineSet
  <2>2. \A i \in DOMAIN d : e[i] = IF i = Len(d) THEN [d[i] EXCEPT !.inline = TRUE] ELSE d[i]
    OBVIOUS
  <2> QED
    BY <2>1, <2>2
<1>3. \A i \in DOMAIN d : i = Len(d) \/ d[i].inline => e[i].inline
  BY <1>2 DEF LineSet
<1>4. Inline(d) \/ Len(d) \in DOMAIN d
  BY <1>1
<1> QED
  BY <1>1, <1>3, <1>4 DEF Inline

\* The other tokens of a value: an inline value begins, or the document is refused.
LEMMA OthersRead ==
  ASSUME TreeInv, ReadInv, ~Inline(doc'), result' # "error",
         \/ \E key \in InlineKeys : InlineKey(key)
         \/ OpenArray \/ OpenTable \/ Comma \/ CloseArray \/ CloseTable \/ Finish \/ Malformed
  PROVE  Mirrors(top', curtab', Said(doc'), doc', stack')
<1>1. CASE Finish
  <2>1. UNCHANGED <<top, curtab, doc, stack>> /\ result = "parsing"
    BY <1>1 DEF Finish, AtLine
  <2>2. Mirrors(top, curtab, Said(doc), doc, stack)
    BY <2>1 DEF ReadInv
  <2> QED
    BY <2>1, <2>2
<1>2. CASE Malformed
  BY <1>2 DEF Malformed, Bail
<1>3. CASE OpenArray \/ OpenTable
  <2>1. stack # <<>> /\ doc \in Seq(LineSet) /\ doc' = [doc EXCEPT ![Len(doc)].inline = TRUE]
    BY <1>3 DEF OpenArray, OpenTable, Descend, WantsValue, Open, TreeInv
  <2>2. result = "parsing"
    BY <2>1 DEF TreeInv
  <2>3. Inline(doc')
    BY <2>1, <2>2, MarkedInline DEF ReadInv, Mirrors, Pending
  <2> QED
    BY <2>3
<1>4. CASE (\E key \in InlineKeys : InlineKey(key)) \/ Comma \/ CloseArray \/ CloseTable
  <2>1. stack # <<>> /\ Last(stack).kind # "doc" /\ doc' = doc /\ FrameRules(stack)
    BY <1>4 DEF InlineKey, Comma, CloseArray, CloseTable, InItems, Open, f, TreeInv
  <2>2. result = "parsing"
    BY <2>1 DEF TreeInv
  <2>3. Len(stack) = 1
    BY <2>1, <2>2 DEF ReadInv, Mirrors, Pending
  <2>4. Last(stack) = stack[1]
    BY <2>1, <2>3, LastRules
  <2>5. 1 \in 1..Len(stack)
    BY <2>3
  <2> QED
    BY <2>1, <2>4, <2>5 DEF FrameRules
<1> QED
  BY <1>1, <1>2, <1>3, <1>4

LEMMA ReadStep == TreeInv /\ ReadInv /\ [Next]_vars => ReadInv'
<1> SUFFICES ASSUME TreeInv, ReadInv, [Next]_vars, ~Inline(doc'), result' # "error"
             PROVE  Mirrors(top', curtab', Said(doc'), doc', stack')
  BY DEF ReadInv
<1>1. CASE UNCHANGED vars
  <2>1. UNCHANGED <<top, curtab, doc, stack, result>>
    BY <1>1 DEF vars
  <2>2. Mirrors(top, curtab, Said(doc), doc, stack)
    BY <2>1 DEF ReadInv
  <2> QED
    BY <2>1, <2>2
<1>2. ASSUME NEW key \in Keys, StdTable(key) \/ ArrayTable(key)
      PROVE  Mirrors(top', curtab', Said(doc'), doc', stack')
  BY <1>2, HeaderReads
<1>3. ASSUME NEW key \in Keys, KeyValue(key) PROVE Mirrors(top', curtab', Said(doc'), doc', stack')
  BY <1>3, KeyValueReads
<1>4. CASE Scalar
  BY <1>4, ScalarReads
<1>5. ASSUME \/ \E key \in InlineKeys : InlineKey(key)
             \/ OpenArray \/ OpenTable \/ Comma \/ CloseArray \/ CloseTable \/ Finish \/ Malformed
      PROVE  Mirrors(top', curtab', Said(doc'), doc', stack')
  BY <1>5, OthersRead
<1> QED
  BY <1>1, <1>2, <1>3, <1>4, <1>5 DEF Next

LEMMA ReadInit == Init => ReadInv
<1> SUFFICES ASSUME Init PROVE Mirrors(top, curtab, Said(doc), doc, stack)
  BY DEF ReadInv
<1>1. top = NewTable({}) /\ curtab = <<>> /\ stack = <<>> /\ doc = <<>>
  BY DEF Init
<1>2. Said(doc) = Nothing
  BY <1>1, SaidNothing
<1>3. <<>> \in Seq(Parts) /\ <<>> \in Seq(Placed) /\ Len(<<>>) = 0 /\ DOMAIN <<>> = {}
  BY EmptySeq
<1>4. Nothing \in Reading /\ Nothing.lines = <<>> /\ Nothing.header = <<>>
  BY <1>3 DEF Nothing, Reading
<1>5. SameLines(Nothing, doc)
  <2>1. \A i \in 1..0 : FALSE
    OBVIOUS
  <2> QED
    BY <1>1, <1>3, <1>4, <2>1 DEF SameLines
<1>6. top \in Tree /\ DOMAIN top = {<<>>} /\ top[<<>>].type = "table" /\ top[<<>>].flag = {}
  <2>1. top \in Tree /\ DOMAIN top = {<<>>}
    BY <1>1, PartsNat, NewTrees DEF Tree
  <2>2. top[<<>>] = mkdatum("table", {}, 0)
    BY <1>1 DEF NewTable, Single
  <2> QED
    BY <2>1, <2>2 DEF mkdatum
<1>7. Above(<<>>) = {}
  <2>1. 0..(Len(<<>>) - 1) = {}
    BY <1>3
  <2> QED
    BY <2>1 DEF Above
<1>8. Rooted(top)
  BY <1>6, <1>7 DEF Rooted
<1>9. \A q : Elements(Nothing, q) = 0
  <2>1. \A q : Members(Nothing, q) = {}
    BY <1>3, <1>4 DEF Members
  <2> QED
    BY <1>4, <2>1, ElementsNat, FS_EmptySet
<1>10. Counted(top, Nothing) /\ Numbered(top) /\ Marked(top)
  <2>1. \A q \in DOMAIN top : top[q].type = "table"
    BY <1>6
  <2>2. ~(0 > 0)
    OBVIOUS
  <2> QED
    BY <1>9, <2>1, <2>2 DEF Counted, Numbered, Marked
<1>11. IsTable(top, curtab)
  BY <1>1, <1>6 DEF IsTable
<1>12. Written(top, Nothing, Len(doc))
  <2>1. \A i \in 1..0 : FALSE
    OBVIOUS
  <2> QED
    BY <1>1, <1>3, <2>1 DEF Written
<1>13. Mirrors(top, curtab, Nothing, doc, stack)
  BY <1>1, <1>4, <1>5, <1>6, <1>8, <1>10, <1>11, <1>12 DEF Mirrors, Shape
<1> QED
  BY <1>2, <1>13

\* toml_seek from the top of a tree that hangs together.
LEMMA SeekFinds ==
  ASSUME NEW t \in Tree, Rooted(t), NEW p \in DOMAIN t, t[p].type = "int64"
  PROVE  toml_seek(t, p) = IF \E q \in Above(p) : q \in DOMAIN t /\ t[q].type = "array"
                           THEN DATUM_ZERO ELSE t[p]
<1> DEFINE n == Len(p)
           T == \A i \in 0..(n - 1) : IsTable(t, SubSeq(p, 1, i))
<1>1. p \in Seq(Parts) /\ p # <<>>
  <2>1. p \in Seq(Parts)
    BY TreeFacts DEF Tree
  <2> QED
    BY <2>1 DEF Rooted
<1>2. n \in Nat /\ n > 0 /\ Front(p) = SubSeq(p, 1, n - 1)
  BY <1>1 DEF Front
<1>3. \A q \in Above(p) : q \in DOMAIN t /\ t[q].type \in {"table", "array"}
  BY DEF Rooted
<1>4. T <=> ~\E q \in Above(p) : q \in DOMAIN t /\ t[q].type = "array"
  BY <1>3 DEF Above, IsTable
<1>5. p = Append(Front(p), Last(p))
  BY <1>1, ParentOf
<1>6. ASSUME T PROVE toml_get(t, Front(p), Last(p)) = t[p]
  <2>1. n - 1 \in 0..(n - 1)
    BY <1>2
  <2>2. IsTable(t, Front(p))
    BY <1>2, <1>6, <2>1
  <2> QED
    BY <1>5, <2>2 DEF toml_get, tab_find
<1>7. toml_seek(t, p) = IF T THEN toml_get(t, Front(p), Last(p)) ELSE DATUM_ZERO
  BY DEF toml_seek
<1> HIDE DEF T
<1> QED
  BY <1>4, <1>6, <1>7

LEMMA ReadInvBack == TreeInv /\ ReadInv => ReadsBack
<1> SUFFICES ASSUME TreeInv, ReadInv, result # "error", stack = <<>>,
                    NEW i \in DOMAIN doc, doc[i].kind = "keyvalue", ~Inline(doc)
             PROVE  LET p == Place(doc)[i] IN
                    /\ p \in DOMAIN top /\ top[p].type = "int64" /\ top[p].val = i
                    /\ toml_seek(top, p) = IF \E q \in Above(p) : q \in DOMAIN top /\ top[q].type = "array"
                                           THEN DATUM_ZERO ELSE top[p]
  BY DEF ReadsBack
<1> DEFINE s == Said(doc)
           p == Place(doc)[i]
<1>1. SameLines(s, doc) /\ Shape(top, s) /\ Written(top, s, Len(doc))
  BY DEF ReadInv, Mirrors
<1>2. i \in 1..Len(doc)
  <2>1. doc \in Seq(LineSet)
    BY DEF TreeInv
  <2> QED
    BY <2>1
<1>3. p = s.lines[i].at
  BY <1>2 DEF Place, Said
<1> HIDE DEF s, p
<1>4. s.lines[i].kind = "keyvalue"
  BY <1>1, <1>2 DEF SameLines
<1>5. p \in DOMAIN top /\ top[p].type = "int64" /\ top[p].val = i
  BY <1>1, <1>2, <1>3, <1>4 DEF Written, Value
<1>6. top \in Tree /\ Rooted(top)
  BY <1>1 DEF Shape
<1>7. toml_seek(top, p) = IF \E q \in Above(p) : q \in DOMAIN top /\ top[q].type = "array"
                          THEN DATUM_ZERO ELSE top[p]
  BY <1>5, <1>6, SeekFinds
<1> QED
  BY <1>5, <1>7 DEF p

(***************************************************************************)
(* ReadsBack, for documents of any length and keys of any number of parts: *)
(* what toml_seek reads back from a document without inline values is what *)
(* its key = value lines wrote (tomlc17.c:634-690, 1491-1561).             *)
(***************************************************************************)
THEOREM WrittenReadsBack == Spec => []ReadsBack
<1>1. Init => TreeInv /\ ReadInv
  BY TreeInit, ReadInit
<1>2. TreeInv /\ ReadInv /\ [Next]_vars => (TreeInv /\ ReadInv)'
  BY TreeInvStep, ReadStep
<1>3. TreeInv /\ ReadInv => ReadsBack
  BY ReadInvBack
<1> QED
  BY <1>1, <1>2, <1>3, PTL DEF Spec

=============================================================================
