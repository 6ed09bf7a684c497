----------------------------- MODULE TomlTable -----------------------------
(***************************************************************************)
(* The tables that the TOML parser builds and its readers search           *)
(* (src/src/lib/tomlc17.c), and what one expression of a document does to  *)
(* them.  The tree of toml_datum_t is a function from paths to data: the   *)
(* path of a table's entry ends in its key, that of an array's element in  *)
(* its number from 1, and <<>> is the top table.  A pointer to a datum is  *)
(* its path.                                                               *)
(***************************************************************************)
EXTENDS Integers, Sequences, FiniteSets, SequencesExt

CONSTANTS TABLE_MAX, ARRAY_MAX     \* entries of a table, elements of an array

ASSUME TableMaxAssumption == TABLE_MAX \in Nat \ {0} /\ ARRAY_MAX \in Nat \ {0}

Types == {"unknown", "table", "array", "int64", "string", "boolean", "other"}
Flags == {"INLINED", "STDEXPR", "EXPLICIT"}

mkdatum(ty, F, v) == [type |-> ty, flag |-> F, val |-> v]
DATUM_ZERO == mkdatum("unknown", {}, 0)

\* A tree of one datum.
Single(d)   == [p \in {<<>>} |-> d]
NewTable(F) == Single(mkdatum("table", F, 0))
NewArray    == Single(mkdatum("array", {}, 0))
Freed       == [p \in {} |-> DATUM_ZERO]

Has(t, p, f) == f \in t[p].flag

size(t, p) == Cardinality({q \in DOMAIN t : Len(q) = Len(p) + 1 /\ IsPrefix(p, q)})

tab_find(t, p, k) == Append(p, k) \in DOMAIN t

\* t with the tree sub moved to the place q.
Graft(t, q, sub) ==
  [r \in DOMAIN t \cup {q \o s : s \in DOMAIN sub} |->
     IF r \in DOMAIN t THEN t[r] ELSE sub[SubSeq(r, Len(q) + 1, Len(r))]]

(***************************************************************************)
(* What the operations return: an error, or "" with the tree and the place *)
(* reached in it.                                                          *)
(***************************************************************************)
Errors == {"", "conflict", "too large", "too many parts", "stack overflow", "syntax"}

Result(t, p) == [err |-> "", t |-> t, p |-> p]
Refuse(e)    == [err |-> e, t |-> Freed, p |-> <<>>]

\* A key that is there already is given the new value.
tab_add_overwriting(t, p, k, sub) ==
  LET q == Append(p, k) IN
  IF size(t, p) >= TABLE_MAX /\ ~tab_find(t, p, k) THEN Refuse("too large")
  ELSE Result(Graft([r \in {s \in DOMAIN t : ~IsPrefix(q, s)} |-> t[r]], q, sub), q)

tab_add(t, p, k, sub) ==
  IF tab_find(t, p, k) THEN Refuse("conflict")
  ELSE IF size(t, p) >= TABLE_MAX THEN Refuse("too large")
  ELSE Result(Graft(t, Append(p, k), sub), Append(p, k))

arr_emplace(t, p, sub) ==
  IF size(t, p) >= ARRAY_MAX THEN Refuse("too large")
  ELSE LET q == Append(p, size(t, p) + 1) IN Result(Graft(t, q, sub), q)

set_flag(t, p, f) == [t EXCEPT ![p].flag = @ \cup {f}]
set_flag_recursive(t, f) == [p \in DOMAIN t |-> [t[p] EXCEPT !.flag = @ \cup {f}]]

-----------------------------------------------------------------------------
(* Expressions *)

\* The table that a key part leads to: itself, or the last element of an array of tables.
Enter(t, q) == IF t[q].type = "array" THEN Append(q, size(t, q)) ELSE q
IsTable(t, q) == q \in DOMAIN t /\ t[q].type = "table"

\* What the caller asks of a table that is to be given one more, and of an entry that is to
\* be entered; from is where the key starts.
MayAdd(caller, t, from, p) == caller = "keyvalue" /\ p # from => ~Has(t, p, "EXPLICIT")
MayEnter(caller, t, q) ==
  t[q].type = "array" => /\ caller = "array" => ~Has(t, q, "INLINED")
                         /\ caller # "keyvalue"

\* One part of a key: the table it leads to from s.p, which is made if it is missing; those
\* that a header makes are marked so.
descend_part(s, from, k, caller) ==
  LET q   == Append(s.p, k)
      new == IF caller \in {"std", "array"} THEN {"STDEXPR"} ELSE {}
  IN IF s.err # "" THEN s
     ELSE IF tab_find(s.t, s.p, k)
     THEN IF IsTable(s.t, Enter(s.t, q)) /\ MayEnter(caller, s.t, q)
          THEN Result(s.t, Enter(s.t, q)) ELSE Refuse("conflict")
     ELSE IF MayAdd(caller, s.t, from, s.p)
          THEN tab_add(s.t, s.p, k, NewTable(new)) ELSE Refuse("conflict")

\* Follow the parts of a key down from a table: where the first i of them lead.
Descent(t, from, key, caller) ==
  LET d[i \in 0..Len(key)] ==
        IF i = 0 THEN Result(t, from) ELSE descend_part(d[i - 1], from, key[i], caller)
  IN d

descend_keypart(t, from, key, caller) == Descent(t, from, key, caller)[Len(key)]

\* [key]: the table is new, or it was made on the way to another header.
parse_std_table_expr_again(t, key) ==
  LET d == descend_keypart(t, <<>>, Front(key), "std")
      q == Append(d.p, Last(key))
      a == IF q \in DOMAIN d.t THEN Result(d.t, q) ELSE tab_add(d.t, d.p, Last(key), NewTable({"STDEXPR"}))
  IN IF d.err # "" THEN d
     ELSE IF \/ q \in DOMAIN d.t /\ ~Has(d.t, q, "STDEXPR")
             \/ q \notin DOMAIN d.t /\ Has(d.t, d.p, "INLINED") THEN Refuse("conflict")
     ELSE IF a.err # "" THEN a
     ELSE Result(set_flag(a.t, q, "EXPLICIT"), q)

parse_std_table_expr(t, key) ==
  LET d == descend_keypart(t, <<>>, Front(key), "std")
      q == Append(d.p, Last(key))
      a == IF q \in DOMAIN d.t THEN Result(d.t, q) ELSE tab_add(d.t, d.p, Last(key), NewTable({"STDEXPR"}))
  IN IF d.err # "" THEN d
     ELSE IF \/ q \in DOMAIN d.t /\ (Has(d.t, q, "EXPLICIT") \/ ~Has(d.t, q, "STDEXPR"))
             \/ q \notin DOMAIN d.t /\ Has(d.t, d.p, "INLINED") THEN Refuse("conflict")
     ELSE IF a.err # "" THEN a
     ELSE Result(set_flag(a.t, q, "EXPLICIT"), q)

\* [[key]]: one more table at the end of the array, which is made if it is missing.
parse_array_table_expr(t, key) ==
  LET d == descend_keypart(t, <<>>, Front(key), "array")
      q == Append(d.p, Last(key))
      a == IF q \in DOMAIN d.t THEN Result(d.t, q) ELSE tab_add(d.t, d.p, Last(key), NewArray)
  IN IF d.err # "" THEN d
     ELSE IF a.err # "" THEN a
     ELSE IF a.t[q].type # "array" \/ Has(a.t, q, "INLINED") THEN Refuse("conflict")
     ELSE arr_emplace(a.t, q, NewTable({}))

\* key = , up to its value: the table that the last part is to be added to.
parse_keyvalue_expr(t, curtab, key) ==
  LET d == descend_keypart(t, curtab, Front(key), "keyvalue")
  IN IF d.err # "" THEN d
     ELSE IF \/ Has(d.t, d.p, "INLINED")
             \/ Len(key) > 1 /\ Has(d.t, d.p, "EXPLICIT") THEN Refuse("conflict")
     ELSE d

\* The same inside the braces of an inline table, which is a tree of its own until it ends.
parse_inline_key(t, key) ==
  LET d == descend_keypart(t, <<>>, Front(key), "inline")
  IN IF d.err # "" THEN d
     ELSE IF Has(d.t, d.p, "INLINED") THEN Refuse("conflict")
     ELSE Result(set_flag(d.t, d.p, "EXPLICIT"), d.p)

-----------------------------------------------------------------------------
(* Lookup *)

toml_get(t, p, k) == IF IsTable(t, p) /\ tab_find(t, p, k) THEN t[Append(p, k)] ELSE DATUM_ZERO

\* Part by part through tables; an array on the way ends the search.
toml_seek(t, key) ==
  IF \A i \in 0..(Len(key) - 1) : IsTable(t, SubSeq(key, 1, i))
  THEN toml_get(t, Front(key), Last(key)) ELSE DATUM_ZERO

=============================================================================
