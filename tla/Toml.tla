-------------------------------- MODULE Toml --------------------------------
(***************************************************************************)
(* The TOML parser (toml_parse in src/src/lib/tomlc17.c), one action per   *)
(* expression of a document and per token of an inline value.  The         *)
(* recursion of parse_val is the variable stack.  The document is whatever *)
(* the file holds: each action picks what comes next.  Blank lines and     *)
(* comments, and line breaks inside brackets and braces, change nothing.   *)
(***************************************************************************)
EXTENDS TomlTable, FiniteSetsExt

CONSTANTS
  Keys, InlineKeys,           \* keys, as sequences of parts, of expressions and in braces
  KEYPARTMAX,                 \* parts of a key: 10
  BRACKET_LEVEL_MAX,          \* 30
  BRACE_LEVEL_MAX,            \* 30
  MaxLines,                   \* bound: expressions in a document
  InlineLines,                \* bound: inline values in this many lines, and one line after them
  InlineSize                  \* bound: entries of an inline value

ASSUME LimitsAssumption == {KEYPARTMAX, BRACKET_LEVEL_MAX, BRACE_LEVEL_MAX} \subseteq Nat \ {0}
ASSUME KeysAssumption == \A key \in Keys \cup InlineKeys : key \in Seq(Range(key)) /\ key # <<>>

VARIABLES
  top,                        \* toptab and all below it
  curtab,                     \* the table that key = value lines go to
  pinned,                     \* how large the containers above it were when it was set
  stack,                      \* the value being read: where it goes, then its open brackets
  bracket_level, brace_level, \* the scanner's own count of them
  result,                     \* what toml_parse returns
  errmsg,                     \* the kind of error, if any
  doc                         \* history: the expressions so far, the last one included

vars == <<top, curtab, pinned, stack, bracket_level, brace_level, result, errmsg, doc>>

(***************************************************************************)
(* doc is the place of a key = value line in top; table and array are an   *)
(* inline container, whose tree is not yet part of top.  want: a value, or *)
(* an item (a key, a value of an array, a comma or the closing bracket).   *)
(***************************************************************************)
Frame(kind, t, want) == [kind |-> kind, tree |-> t, tab |-> <<>>, key |-> <<>>, comma |-> FALSE, want |-> want]

Kinds == {"std", "array", "keyvalue"}
Line(kind, key) == [kind |-> kind, key |-> key, inline |-> FALSE]

\* The value[] or elem[] that holds a datum moves when it grows: what a pointer depends on.
Above(p)      == {SubSeq(p, 1, i) : i \in 0..(Len(p) - 1)}
Sizes(t, p)   == [q \in Above(p) |-> size(t, q)]

TypeOK ==
  /\ \A p \in DOMAIN top : top[p].type \in Types /\ top[p].flag \subseteq Flags
  /\ result # "error" => curtab \in DOMAIN top
  /\ \A i \in DOMAIN stack : stack[i].kind = "doc" <=> i = 1
  /\ {bracket_level, brace_level} \subseteq Int
  /\ result \in {"parsing", "ok", "error"}
  /\ errmsg \in Errors
  /\ result = "error" <=> errmsg # ""
  /\ \A i \in DOMAIN doc : doc[i].kind \in Kinds

Init ==
  /\ top = NewTable({})
  /\ curtab = <<>> /\ pinned = Sizes(top, <<>>)
  /\ stack = <<>>
  /\ bracket_level = 0 /\ brace_level = 0
  /\ result = "parsing" /\ errmsg = ""
  /\ doc = <<>>

\* The error path: everything built is freed, and the pointer into it stays as it was.
Bail(e) ==
  /\ top' = Freed
  /\ UNCHANGED <<curtab, pinned>>
  /\ stack' = <<>>
  /\ result' = "error" /\ errmsg' = e

-----------------------------------------------------------------------------
(* Expressions *)

AtLine  == result = "parsing" /\ stack = <<>>
Inline(d) == \E i \in DOMAIN d : d[i].inline
Lines == IF Inline(doc) THEN InlineLines + 1 ELSE MaxLines

MayRead(key) == AtLine /\ Len(doc) < Lines /\ key \in Keys

\* What parse_key makes of a key before its caller sees it.
parse_key(key, r) == IF Len(key) > KEYPARTMAX THEN Refuse("too many parts") ELSE r

\* The pointer is taken before the array grows.
SetCurtab_early(r) ==
  IF r.err # "" THEN Bail(r.err)
  ELSE /\ top' = r.t
       /\ curtab' = r.p
       /\ pinned' = Sizes(top, r.p)
       /\ UNCHANGED <<stack, result, errmsg>>

\* A header: its table is the current one, or the document is refused.
SetCurtab(r) ==
  IF r.err # "" THEN Bail(r.err)
  ELSE /\ top' = r.t
       /\ curtab' = r.p
       /\ pinned' = Sizes(r.t, r.p)
       /\ UNCHANGED <<stack, result, errmsg>>

\* The ] after the key is scanned twice: parse_key looks at it and puts back the place in the
\* text, not the bracket count.
StdTable(key) ==
  /\ MayRead(key)
  /\ SetCurtab(parse_key(key, parse_std_table_expr(top, key)))
  /\ doc' = Append(doc, Line("std", key))
  /\ bracket_level' = bracket_level - 1
  /\ UNCHANGED brace_level

\* The pointer is taken one element too far.
ArrayTable_past_end(key) ==
  LET r == parse_key(key, parse_array_table_expr(top, key)) IN
  /\ MayRead(key)
  /\ SetCurtab(IF r.err # "" THEN r ELSE [r EXCEPT !.p = Append(Front(@), Last(@) + 1)])
  /\ doc' = Append(doc, Line("array", key))
  /\ UNCHANGED <<bracket_level, brace_level>>

ArrayTable(key) ==
  /\ MayRead(key)
  /\ SetCurtab(parse_key(key, parse_array_table_expr(top, key)))
  /\ doc' = Append(doc, Line("array", key))
  /\ UNCHANGED <<bracket_level, brace_level>>

\* The tables on the way to the key are made before its value is looked at.
KeyValue(key) ==
  LET r == parse_key(key, parse_keyvalue_expr(top, curtab, key)) IN
  /\ MayRead(key)
  /\ IF r.err # "" THEN Bail(r.err)
     ELSE /\ top' = r.t
          /\ stack' = << [Frame("doc", Freed, "value") EXCEPT !.tab = r.p, !.key = Last(key)] >>
          /\ UNCHANGED <<curtab, pinned, result, errmsg>>
  /\ doc' = Append(doc, Line("keyvalue", key))
  /\ UNCHANGED <<bracket_level, brace_level>>

\* TOK_FIN.
Finish ==
  /\ AtLine
  /\ result' = "ok"
  /\ UNCHANGED <<top, curtab, pinned, stack, bracket_level, brace_level, errmsg, doc>>

-----------------------------------------------------------------------------
(* Values *)

Open == stack # <<>>
f    == Last(stack)

Small == FoldLeft(LAMBDA n, g : n + Cardinality(DOMAIN g.tree), 0, stack) < InlineSize

\* A value may come: after =, or in an array at the start or after a comma.
WantsValue ==
  /\ Open
  /\ \/ f.want = "value"
     \/ f.kind = "array" /\ ~f.comma /\ Small

\* The value sub is complete and goes where the innermost frame of stk says.
Deliver(stk, sub) ==
  LET g == Last(stk)
      r == CASE g.kind = "doc"   -> tab_add(top, g.tab, g.key, sub)
             [] g.kind = "table" -> tab_add(g.tree, g.tab, g.key, sub)
             [] g.kind = "array" -> arr_emplace(g.tree, <<>>, sub)
  IN IF r.err # "" THEN Bail(r.err)
     ELSE /\ top' = IF g.kind = "doc" THEN r.t ELSE top
          /\ stack' = IF g.kind = "doc" THEN <<>>
                      ELSE Append(Front(stk), [g EXCEPT !.tree = r.t, !.want = "item", !.comma = TRUE])
          /\ UNCHANGED <<curtab, pinned, result, errmsg>>

\* A string, number, boolean or time; here the number of its line.
Scalar ==
  /\ WantsValue
  /\ Deliver(stack, Single(mkdatum("int64", {}, Len(doc))))
  /\ UNCHANGED <<bracket_level, brace_level, doc>>

\* The level is compared before it is counted.
Descend_late(kind, level, max, t) ==
  /\ WantsValue
  /\ Len(doc) <= InlineLines
  /\ IF level > max THEN Bail("stack overflow")
     ELSE /\ stack' = Append(stack, Frame(kind, t, "item"))
          /\ UNCHANGED <<top, curtab, pinned, result, errmsg>>
  /\ doc' = [doc EXCEPT ![Len(doc)].inline = TRUE]

\* A bracket or a brace: one level deeper, unless the scanner says it is too deep.
Descend(kind, level, max, t) ==
  /\ WantsValue
  /\ Len(doc) <= InlineLines
  /\ IF level + 1 > max THEN Bail("stack overflow")
     ELSE /\ stack' = Append(stack, Frame(kind, t, "item"))
          /\ UNCHANGED <<top, curtab, pinned, result, errmsg>>
  /\ doc' = [doc EXCEPT ![Len(doc)].inline = TRUE]

OpenArray ==
  /\ Descend("array", bracket_level, BRACKET_LEVEL_MAX, NewArray)
  /\ bracket_level' = bracket_level + 1
  /\ UNCHANGED brace_level

OpenTable ==
  /\ Descend("table", brace_level, BRACE_LEVEL_MAX, NewTable({}))
  /\ brace_level' = brace_level + 1
  /\ UNCHANGED bracket_level

InItems(kind) == Open /\ f.kind = kind /\ f.want = "item"

\* The key of an inline table's entry.
InlineKey(key) ==
  LET r == parse_key(key, parse_inline_key(f.tree, key)) IN
  /\ InItems("table") /\ ~f.comma /\ Small
  /\ IF r.err # "" THEN Bail(r.err)
     ELSE /\ stack' = Append(Front(stack),
                       [f EXCEPT !.tree = r.t, !.tab = r.p, !.key = Last(key), !.want = "value"])
          /\ UNCHANGED <<top, curtab, pinned, result, errmsg>>
  /\ UNCHANGED <<bracket_level, brace_level, doc>>

Comma ==
  /\ InItems("array") \/ InItems("table")
  /\ f.comma
  /\ stack' = Append(Front(stack), [f EXCEPT !.comma = FALSE])
  /\ UNCHANGED <<top, curtab, pinned, bracket_level, brace_level, result, errmsg, doc>>

\* The container ends, with or without a last comma, and can no longer be extended.
Close_unflagged == Deliver(Front(stack), f.tree)
Close == Deliver(Front(stack), set_flag_recursive(f.tree, "INLINED"))

CloseArray ==
  /\ InItems("array")
  /\ Close
  /\ bracket_level' = bracket_level - 1
  /\ UNCHANGED <<brace_level, doc>>

CloseTable ==
  /\ InItems("table")
  /\ Close
  /\ brace_level' = brace_level - 1
  /\ UNCHANGED <<bracket_level, doc>>

\* Any other token than the ones above: a comma too many or too few, a value or a bracket
\* that is missing, a bad literal, something after the expression.
Malformed ==
  /\ result = "parsing"
  /\ Bail("syntax")
  /\ UNCHANGED <<bracket_level, brace_level, doc>>

-----------------------------------------------------------------------------

Next ==
  \/ \E key \in Keys : StdTable(key) \/ ArrayTable(key) \/ KeyValue(key)
  \/ \E key \in InlineKeys : InlineKey(key)
  \/ Scalar \/ OpenArray \/ OpenTable \/ Comma \/ CloseArray \/ CloseTable
  \/ Finish \/ Malformed

Spec == Init /\ [][Next]_vars

-----------------------------------------------------------------------------
(* Properties *)

(***************************************************************************)
(* What a document means, from its lines alone and without tables or       *)
(* flags: the place that each line defines (the entry of a key = value,    *)
(* the table of a header, the new element of an array of tables), and that *)
(* of the last header.  A header goes through the last element of each     *)
(* array on its way; a key = value line goes below the header before it.   *)
(***************************************************************************)
Elements(s, p) == Cardinality({h \in DOMAIN s.lines : s.lines[h].kind = "array" /\ Front(s.lines[h].at) = p})
Through(s, q)  == IF Elements(s, q) > 0 THEN Append(q, Elements(s, q)) ELSE q

\* Where the first n parts of a key lead.
Way(s, key) ==
  LET w[n \in 0..Len(key)] == IF n = 0 THEN <<>> ELSE Through(s, Append(w[n - 1], key[n]))
  IN w

PlaceOfLine(s, line) ==
  LET path == Append(Way(s, Front(line.key))[Len(line.key) - 1], Last(line.key))
  IN IF line.kind = "keyvalue" THEN s.header \o line.key
     ELSE IF line.kind = "std" THEN path
     ELSE Append(path, Elements(s, path) + 1)

NextLine(s, line) ==
  LET p == PlaceOfLine(s, line) IN
  [lines  |-> Append(s.lines, [kind |-> line.kind, at |-> p]),
   header |-> IF line.kind = "keyvalue" THEN s.header ELSE p]

\* The first n lines of d.
Meaning(d) ==
  LET m[n \in 0..Len(d)] == IF n = 0 THEN [lines |-> <<>>, header |-> <<>>] ELSE NextLine(m[n - 1], d[n])
  IN m

Place(d) == LET m == Meaning(d)[Len(d)] IN [i \in 1..Len(d) |-> m.lines[i].at]

(***************************************************************************)
(* Line j of d contradicts the lines before it.  mentioned: some earlier   *)
(* line's place is there or below.  A header may name a table again only   *)
(* if it was so far mentioned on the way to other headers; a dotted key    *)
(* may not add to a table that has a header.                               *)
(***************************************************************************)
Contradicts(d, j) ==
  LET pl            == Place(d)
      mentions(p)   == {i \in 1..(j - 1) : IsPrefix(p, pl[i])}
      is(p, kind)   == \E i \in 1..(j - 1) : d[i].kind = kind /\ pl[i] = p
      isArray(p)    == \E i \in 1..(j - 1) : d[i].kind = "array" /\ Front(pl[i]) = p
      p             == IF d[j].kind = "array" THEN Front(pl[j]) ELSE pl[j]
      underLeaf     == \E q \in Above(p) : is(q, "keyvalue")
      base          == Meaning(d)[j - 1].header
      dotted        == {q \in Above(p) : IsStrictPrefix(base, q)}
      known         == {q \in dotted : mentions(q) # {}}
  IN \/ underLeaf
     \/ /\ d[j].kind = "std" /\ mentions(p) # {}
        /\ is(p, "std") \/ isArray(p) \/ d[Min(mentions(p))].kind = "keyvalue"
     \/ d[j].kind = "array" /\ mentions(p) # {} /\ ~isArray(p)
     \/ /\ d[j].kind = "keyvalue"
        /\ \/ mentions(p) # {}
           \/ \E q \in dotted : isArray(q)
           \/ \E q \in known : is(q, "std") /\ \A r \in known : Len(r) <= Len(q)

(***************************************************************************)
(* A document without inline values is refused as contradictory exactly    *)
(* when its last line contradicts one before it: the flags that            *)
(* parse_std_table_expr, parse_array_table_expr and parse_keyvalue_expr    *)
(* leave on tables decide what the lines alone decide                      *)
(* (tomlc17.c:1299-1560).                                                  *)
(***************************************************************************)
AcceptsExactly ==
  ~Inline(doc) /\ stack = <<>> /\ doc # <<>> /\ errmsg \in {"", "conflict"}
    => (errmsg = "conflict" <=> Contradicts(doc, Len(doc)))

(***************************************************************************)
(* What is read back is what was written: the value of every key = value   *)
(* line is at the place the line says, and toml_seek finds it there unless *)
(* it is in an array of tables (tomlc17.c:634-690).                        *)
(***************************************************************************)
ReadsBack ==
  result # "error" /\ stack = <<>> =>
    \A i \in DOMAIN doc : doc[i].kind = "keyvalue" /\ ~Inline(doc) =>
      LET p == Place(doc)[i] IN
      /\ p \in DOMAIN top /\ top[p].type = "int64" /\ top[p].val = i
      /\ toml_seek(top, p) = IF \E q \in Above(p) : q \in DOMAIN top /\ top[q].type = "array"
                             THEN DATUM_ZERO ELSE top[p]

(***************************************************************************)
(* curtab points into the value[] or elem[] of the table or array above    *)
(* it, which tab_emplace and arr_emplace reallocate: while the parser      *)
(* holds the pointer none of the containers above it grows                 *)
(* (tomlc17.c:275-296, 337-345, 1378, 1484).                               *)
(***************************************************************************)
CurtabLive == result = "parsing" => pinned = Sizes(top, curtab)

(***************************************************************************)
(* Nothing that is in the table is ever replaced or moved                  *)
(* (tomlc17.c:318-325).                                                    *)
(***************************************************************************)
EntriesStay ==
  [][result' # "error" =>
       \A p \in DOMAIN top : p \in DOMAIN top' /\ top'[p].type = top[p].type /\ top'[p].val = top[p].val]_vars

(***************************************************************************)
(* The values directly in an inline table or array are the ones its own    *)
(* line wrote there: later lines can give it tables, but no value          *)
(* (tomlc17.c:1161, 1226, 1262, 1335, 1537).                               *)
(***************************************************************************)
InlineValuesFixed ==
  stack = <<>> =>
    \A i \in DOMAIN doc : doc[i].inline =>
      \A k \in {key[1] : key \in Keys} :
        LET q == Append(Place(doc)[i], k) IN q \in DOMAIN top /\ top[q].type = "int64" => top[q].val = i

Levels(kind) == Cardinality({i \in DOMAIN stack : stack[i].kind = kind})
Headers      == Cardinality({i \in DOMAIN doc : doc[i].kind = "std"})

(***************************************************************************)
(* The recursion of parse_val is bounded for every document: no more than  *)
(* BRACE_LEVEL_MAX braces are ever open, and no more brackets than         *)
(* BRACKET_LEVEL_MAX and one for each [header] before                      *)
(* (tomlc17.c:137-140, 981-990, 2605-2618, 2698-2722).                     *)
(***************************************************************************)
RecursionBounded ==
  result = "parsing" => /\ Levels("table") <= BRACE_LEVEL_MAX
                        /\ Levels("array") <= BRACKET_LEVEL_MAX + Headers

=============================================================================
