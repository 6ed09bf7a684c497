----------------------------- MODULE CaalConfig -----------------------------
(***************************************************************************)
(* What caalsh reads from caal.toml at a login (src/src/caalsh.c), on the  *)
(* tables of TomlTable.  The file is a sequence of items: the header of a  *)
(* user's section, or the four lines that newcaal writes below one, which  *)
(* always come and go together.  Integers have the widths of C: int64 in   *)
(* the file, unsigned int at sleep().                                      *)
(***************************************************************************)
EXTENDS TomlTable

CONSTANTS
  Int64Max,        \* 2^63 - 1
  UIntSize,        \* 2^32
  MB,              \* 1024 * 1024
  DefaultDisk      \* 1024, in MB

ASSUME WidthsAssumption ==
  /\ {Int64Max, UIntSize, MB, DefaultDisk} \subseteq Nat \ {0}
  /\ UIntSize <= Int64Max
  /\ DefaultDisk * MB <= Int64Max

(***************************************************************************)
(* What a text means between the double quotes that newcaal writes around  *)
(* it.  A text is a sequence of the characters that matter, each of them a *)
(* name, with whatever stands between two of them as one.                  *)
(***************************************************************************)
Quote     == "quote"
Backslash == "backslash"
Hash      == "hash"
Blank     == "blank"
Control   == "control"

\* What may follow a backslash, and what it stands for there; "t" is for every letter with a meaning.
Unescape == [c \in {Quote, Backslash, "t"} |-> IF c = "t" THEN "tab" ELSE c]

\* The characters of a line that follow a backslash which is not itself escaped.
Escaped(line) ==
  LET e[i \in 1..Len(line)] == IF i = 1 THEN FALSE ELSE line[i - 1] = Backslash /\ ~e[i - 1]
  IN {i \in 1..Len(line) : e[i]}

\* The text as it stands in the file, up to the end of the line; where its string may end.
Line(text) == Append(text, Quote)
Ends(line) == {i \in 1..Len(line) \ Escaped(line) : line[i] = Quote}

\* The string never ends, or holds an escape that is none, or has more than a comment behind it;
\* and control characters are allowed in neither.
scan_string_bad(text) ==
  LET line == Line(text)
      stop == Min(Ends(line))
      rest == SelectSeq(SubSeq(line, stop + 1, Len(line)), LAMBDA c : c # Blank)
  IN \/ Ends(line) = {}
     \/ \E i \in Escaped(line) : i < stop /\ line[i] \notin DOMAIN Unescape
     \/ rest # <<>> /\ Head(rest) # Hash
     \/ Control \in Range(text)

\* Otherwise it is read up to its first end, without the escapes.
parse_norm(text) ==
  LET line == Line(text)
      esc  == Escaped(line)
      kept == SelectSeq([i \in 1..(Min(Ends(line)) - 1) |-> i],
                        LAMBDA i : line[i] = Backslash => i \in esc)
  IN [j \in 1..Len(kept) |-> IF kept[j] \in esc THEN Unescape[line[kept[j]]] ELSE line[kept[j]]]

Header(u) == [item |-> "header", user |-> u]
Body(s)   == [item |-> "body", settings |-> s]

\* A number as it is written: its value, and whether zeros stand before its first digit.
Number(n, zeros) == [n |-> n, zeros |-> zeros]

\* strtoll and the rule on leading zeros.
scan_number_bad(num) == num.zeros \/ num.n > Int64Max

-----------------------------------------------------------------------------
(* The file as toml_parse sees it *)

\* r is the result so far; its place is the current table.
ParseLine(r, key, d) ==
  LET k == parse_keyvalue_expr(r.t, r.p, << key >>)
      v == tab_add(k.t, k.p, key, Single(d))
  IN IF r.err # "" THEN r
     ELSE IF k.err # "" THEN k
     ELSE IF v.err # "" THEN v
     ELSE Result(v.t, r.p)

\* Four lines that the parser does not get through, whatever is above them.
BadEntry(s) == scan_string_bad(s.bundle) \/ scan_number_bad(s.disk) \/ scan_number_bad(s.timeout)

\* The lines below a header, in the order they are written.
ParseBody(r, s) ==
  IF BadEntry(s) THEN Refuse("syntax")
  ELSE ParseLine(ParseLine(ParseLine(ParseLine(r,
         "bundle",  mkdatum("string",  {}, parse_norm(s.bundle))),
         "enabled", mkdatum("boolean", {}, s.enabled)),
         "disk",    mkdatum("int64",   {}, s.disk.n)),
         "timeout", mkdatum("int64",   {}, s.timeout.n))

ParseItem(r, i) ==
  IF r.err # "" THEN r
  ELSE IF i.item = "header" THEN parse_std_table_expr(r.t, << i.user >>)
  ELSE ParseBody(r, i.settings)

\* The first n items of the file.
Parse(file) ==
  LET r[n \in 0..Len(file)] ==
        IF n = 0 THEN Result(NewTable({}), <<>>) ELSE ParseItem(r[n - 1], file[n])
  IN r

toml_parse_file(file) == Parse(file)[Len(file)]

-----------------------------------------------------------------------------
(* The readers *)

\* The value that fallocate() is given: the product wraps around.
Wrap64(n)      == ((n + Int64Max + 1) % (2 * (Int64Max + 1))) - (Int64Max + 1)
image_bytes_narrow(n) == (n * MB) % UIntSize
image_bytes(n) == Wrap64(n * MB)

\* The sleep of the watchdog: the low half of the timeout.
sleep_seconds(n) == n % UIntSize

Denied(why) == [ok |-> FALSE, why |-> why]

\* timeout and disk, with their defaults; a timeout below zero is none, like one of zero.
IntOr(d, default, least) == IF d.type = "int64" /\ d.val >= least THEN d.val ELSE default

\* A login with these entries: refused, or let in with its bundle, disk and, if there is one,
\* watchdog.  A disk that cannot be allocated refuses it too.
Admit(bundle, enabled, timeout, bytes) ==
  IF bundle.type # "string" THEN Denied("not configured")
  ELSE IF enabled.type = "boolean" /\ ~enabled.val THEN Denied("disabled")
  ELSE IF bytes <= 0 THEN Denied("no disk")
  ELSE [ok |-> TRUE, bundle |-> bundle.val, bytes |-> bytes,
        watchdog |-> timeout > 0, seconds |-> IF timeout > 0 THEN sleep_seconds(timeout) ELSE 0]

Configured(t, u) ==
  Admit(toml_seek(t, <<u, "bundle">>), toml_seek(t, <<u, "enabled">>),
        IntOr(toml_seek(t, <<u, "timeout">>), 0, 0),
        image_bytes(IntOr(toml_seek(t, <<u, "disk">>), DefaultDisk, 1)))

login_of(config, u) == IF config.err # "" THEN Denied("could not parse config") ELSE Configured(config.t, u)

login(file, u) == login_of(toml_parse_file(file), u)

=============================================================================
