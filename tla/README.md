# CaaL in TLA+

A TLA+ development for CaaL ("Container as a Login"): the session daemon `caald`, the login
shell `caalsh` with the container library and the terminal bridge under it, the protocol
between them, the TOML parser that both read their settings with, and the scripts that write
those settings. TLC checks small instances; TLAPS proves nearly all of the safety
properties for every value of the constants.

## The system

A user logs in by ssh and gets `caalsh` as shell. It reads `/etc/caal/caal.toml`, asks the
daemon how many sessions there are, gives the session a disk and an overlay on the rootfs of
the user's bundle, runs `crun` on it, registers with the daemon, and carries bytes between
the terminal and the container until one of them ends; then it unregisters and tears down.
`caalctl` lists and kills sessions through the daemon.

| component | state it keeps | operations | talks to |
|---|---|---|---|
| `caald` (`src/src/caald.c`) | table of sessions, high-water mark, capacity, reload flag, one connection | register, unregister, count, list, kill, kill user, reload, accept loop | clients by Unix socket, sessions by SIGTERM, the config |
| protocol and client library (`src/src/lib/caald_proto.h`, `caald_client.c`) | one connection per request | connect, send, receive | `caald` |
| `caalsh` (`src/src/caalsh.c`) | place in `main()`, watchdog | limit check, start, register, bridge, unregister, stop | all others |
| container library (`container.c`, `session_disk.c`) | directory, image, loop mount, socket; the overlay stack of a **shared** rootfs | `container_start`, `container_stop`, error paths | kernel, `crun` |
| terminal bridge (`pty_bridge.c`) | master fd, termination flag, one buffer, three signal handlers | init, recv, run | `crun`, the user's terminal |
| `caalctl` (`src/src/caalctl.c`) | none | list, count, kill, killuser | `caald` |
| config and TOML parser (`tomlc17.c`, vendored) | the file; the tree of tables, the current table, the bracket counts | parse, get, seek | read by `caald` and `caalsh` |
| `newcaal`, `delcaal` (`src/scripts`) | account, password, config section, sshd drop-in | create, remove | the config, by `grep`, `sed -i` and `cat >>` |
| installation (`setup.sh`, `Makefile`, unit file) | none at run time | | |

What is hard here: any number of `caalsh` processes share one mount point per bundle and a
session count that is read long before it is changed; signals (SIGTERM from the watchdog or
`caald`, SIGHUP from sshd, SIGWINCH, SIGPIPE) land anywhere, before the handlers are armed or
in the middle of `accept`, `read` and `waitpid`; the daemon may restart, drop a client, or be
reloaded at any time; every helper command may fail; the scripts may stop after any command
and run at the same time; the parser decides from three flags per table, whatever the order
in which a file names its tables. `PROJECT.json` lists these hazards line
by line, with the properties aimed at each.

What makes each part correct:

- **daemon**: the table loses no session and no capacity through any sequence of requests and
  reloads; its counts are exact; everybody is served; a reload that is asked for happens.
- **container library**: no container on the bare base image; the host is clean after the
  last session; a failed start cleans up; each session has its own clean rootfs.
- **login shell**: the limit holds; what is registered is unregistered; a signal or a timeout
  gets through; every login starts and stops its container properly.
- **terminal bridge**: bytes arrive once and in order; neither direction stops the other; the
  loop ends on a signal and with the container, and not before its output has been read.
- **parser**: a file is refused exactly when it contradicts itself; what is read is what was
  written; the pointer to the current table stays valid; the recursion is bounded.
- **account scripts**: a script that reports success has done all of it, also after earlier
  ones that stopped half way; no script spoils another user's section or the file.

## Modules

| module | models |
|---|---|
| `CaaldProto` | the request and response structs |
| `SessionTable` | the table and its lookups and updates, as operators |
| `SessionRegistry` | abstract: what the daemon promises, a set of places and no table |
| `Caald` | the daemon, its socket, its clients, SIGHUP, the config file, restarts |
| `Container` | host resources of any number of sessions, one process each |
| `Caalsh` | logins: `main()` of `caalsh` over an instance of `Container`, with the watchdog, the daemon's table, `caalctl` and sshd |
| `PtyBridge` | `pty_bridge_run`: the select loop, its buffer and descriptors, its handlers, the two terminals |
| `TomlTable` | the parser's tables and what one expression does to them, and the lookups, as operators |
| `Toml` | the parser: one action per line of a document and per token of an inline value |
| `CaalConfig` | what a login reads from the file `newcaal` writes, with the quotes around the bundle and the widths of the integers; on `TomlTable` |
| `Accounts` | `newcaal` and `delcaal`, command by command, on the file of `CaalConfig` |
| `Caald_proof`, `Container_proof`, `Caalsh_proof`, `PtyBridge_proof`, `Toml_proof`, `TomlAccept_proof`, `Accounts_proof` | theorems |
| `TomlTable_proof` | lemmas about the operators of `TomlTable`, for the last three |
| `MCCaald`, `MCContainer`, `MCCaalsh`, `MCToml`, `MCAccounts` | instances for TLC (`MCPtyBridge.cfg` is on `PtyBridge` itself) |

Definitions whose name is that of another with a suffix (`table_full_at_mark`,
`StopUnmount_none`, ...) are deliberately wrong variants; no specification uses them. With
one put in place of the original, TLC finds the property violated that `PROJECT.json` names
under `mutants`.

### Caald

The daemon is one thread, and `phase` says where it is. A step is what it does between two
points at which others can act: load the config, test the flag, accept, read and handle one
request, reply and close. A handler changes the table in a single step, as in the code, where
nothing else touches it. `sessions`, `session_count`, `max_sessions` and `g_reload_config`
are the C globals; C's `sessions[i]` is `sessions[i + 1]`. `new_max` applies the `(int)` cast
to the 64-bit value modulo 2(`IntMax` + 1), so limits that wrap to zero or below are covered. `realloc` may fail.
A client is `idle`, `open`, `sent`, or gone at either point (`left`, `gone`). SIGHUP sets the
flag anywhere after `sigaction`, kills before it, and interrupts a blocked `accept` or `read`.

`IgnoreSIGPIPE` is a property of the environment: systemd starts services with SIGPIPE
ignored, a shell does not. The `clients` run has the first, the `table` run the second, where
a reply to a client that has gone ends the daemon.

Left out: syslog, `start_time`, error texts, the limit of 128 on the accept queue, the time
limit as a duration (it is a step that may happen whenever a client has not written).

### Container

Each process walks through `container_start`, `up`, `container_stop` or an error path. `made`
holds what exists of its directory, image, loop mount and socket. `overlays[b]` is the stack
of overlays on the rootfs of bundle `b`: `mount` pushes, with whatever is visible at the
rootfs as lower layer, and `umount2` pops the top, **whoever** mounted it. `view[p]` is the
list of layers the container of `p` was started on. Every system call and helper may fail;
`helperFailed` remembers failed cleanup commands, so that properties of the cleanup can be
stated for runs in which they work. `Killed` ends a process at any point of its life.

`crun` and the kernel are outside the repository. `crun` connects to the console socket, sets
the container up and hands over the terminal from inside it; without the socket it gives up,
so a container starts only while its `caalsh` is between `container_start` and
`container_stop`. The kernel refuses an overlay above `MaxStackDepth` others (2 in Linux).
One combination is not covered: when `accept()` itself fails for lack of descriptors or
memory, a watchdog that was forked before still has the listening socket open.

### Caalsh

`at` is the place in `main()`; the host part of a step is an action of an instance of
`Container`, by definition, so that the logins run on that model of the host. The daemon is here the set of sessions on its
table, served one request at a time, which `Caald_proof` justifies; a request may be
dropped by a SIGHUP and the daemon may restart with an empty table. `pending` are signals
sent and not delivered. Until `pty_bridge_run` arms its handlers they kill; in the bridge they
end it; in `waitpid` they cut it short or come just before it and do nothing. The count is the
daemon's or, if that fails, the number of session directories. Two histories serve
`OnlyBlindExceed`: `unlisted` are the logins that the daemon refused, or that were taken off its
table before they ended (`caalctl kill`, a restart), and `blind` are those that were let in while
some other login was past its own check and not yet counted, or unlisted. A request to a daemon
that has closed the connection may kill by SIGPIPE (`DieOfSigpipe`). All reasons to deny a login
that depend on the config are one nondeterministic choice.

Left out: reuse of process numbers and durations; the bytes of the proxy loop are `PtyBridge`'s,
the settings `CaalConfig`'s.

### PtyBridge

`pc` is the place in the loop; each system call is a step, and a `write` one step per byte, so
that a signal can cut it short. `rfds` is what `select` found and may be out of date when it
is used. `on_term` is three steps, the flag and the test, `close`, the assignment, and `handlers`
is the stack of its calls: SIGTERM can come while the one for SIGHUP runs and the other way round,
not twice the same one, and while one runs the loop stands still. `closes` counts the calls of
`close` on the master's number. The loop's local copy of the descriptor is not a variable: it stays, whatever the
handlers do to `g_master_fd` and to the descriptor itself. Handlers are installed
without `SA_RESTART`, so a signal fails `select` and `waitpid`, or lands just before them and
fails nothing. Bytes are numbered by their sender; the histories `shown` and `got` say what
arrived. The kernel's terminal is external: it holds `InCap` and `OutCap` bytes, blocks
beyond, gives its last output before its end, and fails a write once either end is closed.
The user's terminal may stall, so that a write to it blocks, take output again, or be gone: then
reads end, and a write fails without the loop noticing, or kills by SIGPIPE. Window sizes are left out.

### TomlTable and Toml

The tree of `toml_datum_t` is a function from paths to data, and a pointer is a path. Moving
memory is then invisible, so `pinned` remembers how large the containers above the current
table were when its pointer was taken: as long as that is so, no `realloc` has moved it.
`descend_keypart` is one operator with the differences of its four callers in `MayAdd` and `MayEnter`
(`parse_array_table_expr` and `parse_keyvalue_expr` have loops of their own in C). Its loop is the
recursive function `Descent` over the parts of the key, one `descend_part` each.
In `Toml` the document is open: each step picks the next line or token, so TLC enumerates all
documents within the bounds. The recursion of `parse_val` is the variable `stack`. The
scanner's characters are left out; its bracket counts are in, with the way `parse_key` looks
ahead at the `]` of a header, puts back its place and not the count. A document that is refused
is freed, and `curtab` is left as it is, as in C; nothing is read through it after that.

The reference for `AcceptsExactly` and `ReadsBack` is `Contradicts` and `Place`: what a
document means from its lines alone, with neither tables nor flags. `Meaning` reads the lines
one by one: the place each defines, and the last header, below which key = value lines go.

### CaalConfig and Accounts

The file is a sequence of headers and of the four lines below one, which always come and go
together. `Parse` takes its items one by one, as the loop of `toml_parse` does, and `login` then
follows `main()` of `caalsh`: lookups, type
tests, defaults, the 64-bit product at `fallocate`, the 32-bit argument of `sleep`. A number
is its value and whether it is written with leading zeros, which the prompts of `newcaal` let
through and the parser does not. A bundle is a sequence of the characters that mean something
between double quotes or behind them, with everything else between two of those as one:
`newcaal` writes it as it is, and `scan_string_bad` and `parse_norm` say whether the line is read
and as what. `\b`, `\n`, `\x41` and the like are one letter with a meaning, `t`.

In `Accounts` each command is a step and `Abort` may follow any (`set -e`, ^C). `sed -i` is two
steps, reading into a copy and renaming it. `sed` follows the two addresses of the command,
including the case of two adjacent sections of one user: `Sed` is the state it is in after each line. `cat >` and `cat >>` of a few lines
are one write. `overlap` remembers that two scripts have run at the same time, and `raced` the far
rarer case that one has written the file while another was between what it had seen of it and
what it did next: a test for the file and the `cat >`, the read and the rename of `sed -i`, a
`grep` for the same user and the `cat >>`. Left out: user names that are not a bare key (a dot makes a nested table), the
`Include` line of the main sshd configuration, and the prompts.

## Runs

| run | result | bounds |
|---|---|---|
| `caald_table` | pass | 1 client, 2 sessions, limits 2 (default), 3, one that casts to 0, no file; IntMax 7 |
| `caald_clients` | pass | 2 clients, 1 session, limits 2 and one that casts below 0 |
| `caald_sighup` | violation | 1 client |
| `container_host` | pass | 3 processes on one bundle, symmetric; depth 2 |
| `container_rootfs` | violation | 2 processes |
| `caalsh_logins` | pass | 2 logins, symmetric, limit 1, 1 slot |
| `caalsh_signals` | pass | 1 login with a timeout |
| `caalsh_limit` | violation | as `caalsh_logins` |
| `pty_bridge` | pass | 2 bytes typed and 1 written, a buffer of 2, a terminal that holds 1 each way; any number of signals and stalls |
| `toml_documents` | pass | documents of 4 lines without inline values, of 3 with; 8 keys of up to 4 parts over 3 names; KEYPARTMAX 3, 2 entries per container, 1 level of brackets and of braces |
| `accounts` | pass | 2 users and 2 processes, symmetric, 3 scripts; 7 settings, at the edges of the integer ranges and with bundles that the quotes change or break |
| `accounts_overlap` | violation | the same with one setting |

Why they are enough: a table of two or three slots can be full, have a free slot below the
mark, and grow; the daemon serves one client at a time, so one client makes every sequence of
requests, and a second one is needed only for waiting behind another. Two sessions on a
bundle can end in either order; a third does so while two others are stacked, and meets the
kernel's depth limit. Two logins race for one free session, and one slot makes the daemon
reject. A signal concerns one login only. Two bytes typed go through the buffer at once or one by
one, fill the container's terminal and hold up the loop in the write of the second, with one written
waiting behind it; that longer streams stay in order is proved (`CarriesInOrder`). The rules of the parser relate two lines that name one table, a line that
made a table on its way, and the header that is current: four lines. The limits of the parser
are reached with the small ones of the run. Three scripts are one that fails, another user's,
and one that is run again. Deadlock is not checked for `Container`,
`Caalsh`, `PtyBridge`, `Toml` and `Accounts`: logins, bytes, lines and scripts are finitely
many and the system may stop when all have ended.

What the passing runs show:

- `TableInv`, `RejectOnlyWhenFull`, `CountIsExact`, `ReloadKeepsSessions`: the table.
- `ImplementsRegistry`: the daemon implements `SessionRegistry`. Exactly the sessions a
  request names leave, exactly their processes are signalled, and every answer agrees with
  the places taken.
- `ServingInv`, `ClientsAreServed`, `ReloadAtNextClient`: the accept loop.
- `OverlayPerHolder`, `BaseUntouched`, `StopLeavesNothing`: although `umount2` removes the wrong
  overlay when sessions end out of order, the number is right, so no container ever runs on the
  base image and nothing is left at the end (`QuiescentHostClean`, which is proved).
- `StaleEntriesExplained`: an entry on the daemon's table whose process is gone comes from a
  death by signal before the unregistration, a failed `pty_bridge_recv` or a lost request, and
  from nothing else: once a request to unregister was served the entry is gone for good.
- `OnlyBlindExceed`: what the check of `max_sessions` does promise, whichever count was taken,
  and whatever dies, is refused, killed or forgotten in a restart: a login can be in session
  beyond the limit only if it was let in past one that the table did not show.
- `WatchdogGone`, `SignalsGetThrough`: watchdog and signals.
- `TimeoutEndsContainer`: an expired timeout takes the container down through the bridge, the
  daemon and `container_stop`, also while the daemon is down. It is a SIGTERM to `caalsh`, though,
  not the SIGKILL of the README: a `caalsh` that dies of it leaves the container, and one that
  is in `waitpid` with a container that does not end goes on waiting.
- `FailedStartLeaves`: a failed `container_start` leaves what a broken off `session_disk_setup`
  had made, or a socket file, and nothing else. The header promises that nothing is left.
- `CarriedInOrder`, `OutputMoves`: the bytes. Nothing is doubled or out of order, also when a
  signal cuts a write short; what is lost is lost by such a cut alone. Output may wait for ever
  only behind a blocked write of input, or a user's terminal that takes none.
- `MasterClosedOnce`, `TermEndsLoop`, `EndsWithContainer`, `LastWordsRead`: the end of the
  bridge. The master's number is closed at most twice, the second time only while two handlers
  overlap. A signal just before `select` works since the handler closes the descriptor;
  the end of the user's input ends the loop with the container running.
- `AcceptsExactly`, `ReadsBack`, `EntriesStay`: the parser's flags decide what the lines alone
  decide, and nothing is overwritten.
- `CurtabLive`: no `realloc` under the current table's pointer.
- `InlineValuesFixed`: an inline table gets no further value. It can be given tables by
  `[a.b.c]`, `[[a.b]]` or `a.b.c = 1` after `a = {}`.
- `RecursionBounded`: braces are bounded as stated, brackets by 30 and one more per `[header]`
  before them.
- `StaysReadable`, `OthersUnaffected`: scripts, also at the same time, never spoil the file or
  another's login, with two exceptions: one has written the file under the hands of another
  (`raced`), or an entry holds a bundle or number that the prompts let through and the parser
  does not (`BadFile`).
- `ReadyMeansReady`, `RemovedMeansGone`: a script that finishes has done everything, whatever
  stopped before it, except for a password whose `passwd` was cut off.
- `AsAsked`: the exact range of settings that survive the conversions on the way to a login.

What the violations show (the findings in `PROJECT.json` quote the documents):

- `ReloadOnSighup`: a SIGHUP between the test of the flag and `accept` waits for a client.
- `OwnCleanRootfs`: concurrent sessions of one bundle are stacked on each other's files.
- `SessionLimit`: two logins pass the check before either is registered.
- `DoneMeansConfigured`: a `newcaal` that has reported success loses its section to another
  script that ran at the same time.

Other findings are about a passing run: there the property is stated with the exception the
code has (`FailedStartLeaves`, `StaleEntriesExplained`, `TimeoutEndsContainer`, `OutputMoves`, `LastWordsRead`,
`RecursionBounded`, `InlineValuesFixed`, `StaysReadable`, `ReadyMeansReady`, `AsAsked`), and TLC
finds it violated without.

### Fairness

`Caald!FairSpec` has weak fairness of the daemon's own thread: it is scheduled, and
`SO_RCVTIMEO` ends a read. `Caalsh!FairSpec` has weak fairness of each login's own steps, of
the delivery of its signals, and of the end of its watchdog's sleep; the steps and the signals
separately, since `main()` goes on when a handler returns. `PtyBridge!FairSpec` has
weak fairness of the handlers, since the kernel runs a started one, and strong fairness of the
loop and of the outermost handler, which signals may interrupt again and again: each time the
kernel goes back to them. That the user's terminal takes output is not assumed: `TermEndsLoop`,
`OutputMoves` and `EndsWithContainer` have it as a premise (`<>[]~OutBlocked`), because a loop
that writes to a stalled terminal stays there. Nothing is assumed of clients, users, `crun`, containers, the administrator or restarts;
in particular a blocked `accept` or `waitpid` need never return.

## Proofs

All assumptions are the named `ASSUME`s of the modules: finitely many processes, sessions that
are records, a positive default limit, positive buffer sizes, keys with at least one part, and
types. One is a limit of the code: no more users than the parser's tables hold entries
(`UsersAssumption`; `TABLE_MAX` is 1 << 14 in tomlc17.c:141). Beyond it `caalsh` could not read the
file at all.

- **`Caald_proof`.** `TypeOK`, `TableInv` and `ServingInv` are inductive only together: a
  handler writes to `register_slot`, which is inside the table because `session_count` is at
  most `max_sessions`; that a reload keeps this needs the table to be a function on exactly
  `1..max_sessions`; that a handler's request is a request needs the connection's state.
  From this follow `TypeCorrect`, `TableSafe`, `NoCapacityLost` (all slots up to the mark are
  active and the mark is at the end), `CountExact` (nothing is active above the mark),
  `ServesOne` and the action property `ReloadSafe`. `Implementation`: every step of the daemon is
  a step of `SessionRegistry` or leaves it alone, with the active slots as its places. One lemma
  per handler.
- **`Container_proof`.** The invariant is `TypeOK`, `OverlayPerHolder` and `BaseUntouched`.
  The count is the point: a container that starts has a `caalsh` that holds an overlay, so the
  stack is not empty, whichever overlays it consists of. A mount adds one to both sides
  (`MountCounts`), an unmount takes one from both (`UmountCounts`).
  `OneOverlayPerHolder`, `BaseNeverTouched`, `HostLeftClean`. What a session leaves on disk
  needs a second invariant, `MadeInv`: at each place of `container_start` and `container_stop`,
  what of the directory, image, mount and socket can exist. `NothingLeftByStop`,
  `LeftByFailedStart`.
- **`Caalsh_proof`.** Logins are built from actions of `Container`, so the theorems of
  `Container_proof` are true of them; the lemma `LoginsOnHost` says so, and `TypeCorrect`
  and `LoginsKeepBase` take two of them over through an instance of that module.
  `LimitKeptBySighted` is an argument about numbers: a login that is let in sighted, with nobody
  unseen, is counted by a table that shows all that are in session, or by the directories, of
  which each of them has one; and until the next admission no step adds to those in session
  that are not blind.
  `EntriesExplained` and `NoLateWatchdog` rest on an invariant that says, for each place in
  `main()`, where the host process is and whether the watchdog can still be armed.
- **`PtyBridge_proof`.** `TypeCorrect` (what is read fits the buffer). `MasterInv` says for each stack of handlers, at
  each of their statements, what the global names and how often it has been closed; so
  `ClosesOnce`. `ReadyInv`: what `select` found is still so when it is used, since only the loop
  reads; so it takes an empty terminal for its end only when it is, `ReadsToTheEnd`.
  `CarriesInOrder`: the bytes are numbered by their sender, so the invariant has to say how many
  of them are under way in each direction, in the terminals, the buffer and the histories. A cut
  write throws bytes away, and the rest is still in order (`ThinnedAscending`).
- **`Toml_proof`.** Documents of any length, keys of any number of parts, values nested to any
  depth. `TreeInv` is the type invariant with what the pointers need: `curtab` is in the tree and
  the value being read goes at or below it. Every operation of the parser lets the tree only grow
  (`Grows`, proved operator by operator in `TomlTable_proof`): `EntriesKept`. What a line adds is
  at or below the current table, so no container above it grows: `CurtabStaysLive`.
  `RecursionIsBounded` counts the frames of each kind against the scanner's counters.
  `WrittenReadsBack` is the long one. `Shape` ties the tree to the lines of a document without
  inline values: it hangs together, its arrays are those of the `[[header]]` lines with an
  element for each, and the elements are numbered in order. So one part of a key leads where the lines say
  (`PartShape`), then all parts of it (`DescentShape`), then each kind of line (`StdShape`, `ArrayShape`,
  `KeyShape`); `ReadInv` adds that `curtab` is the place of the last header and that the values
  of the lines so far are where they belong, with the last one still to come while it is read.
- **`TomlAccept_proof`.** `RefusedIsContradictory`: the parser refuses exactly the documents whose
  last line contradicts an earlier one. The two sides speak of different things, three flags on
  each table and the order of all lines before, and meet in a third: the `Ledger` of a document,
  five sets of places (mentioned by some line; of values, of `[header]`s, of arrays of tables;
  first mentioned by a header). `ContradictsClash` says what `Contradicts` asks of the lines in
  terms of the ledger; `Drawn` says that the tree has the ledger's places with the types and flags
  that follow from it. The flags do not determine the ledger in one case: the element of an array
  of tables has no flags whatever made it, so `MadeBy` exempts the children of arrays, which no
  header is ever tested against. Then the way of a header (`HeaderWay`) and of a dotted key
  (`KeyWay`) is followed part by part, with what stops it, up to the verdicts `StdVerdict`,
  `ArrayVerdict` and `KeyVerdict`. `AcceptInv` carries this through a document: a key = value line
  makes its tables first and is refused only when its value arrives, so between the two the
  invariant is about the lines before it and the verdict that is to come.
- **`Accounts_proof`.** Any number of users, scripts, runs and failures. `ReadyIsReady` and
  `RemovedIsGone` rest on `Sound`: at each place of a script that runs alone, what of the account, drop-in
  and section exists, and that the file has at most one section per user. `FileStaysReadable`
  and `OthersStay` are about scripts at the same time and rest on `Undisturbed`: as long as none
  has written under the hands of another, what each has seen of the file still holds
  (`Sees`), so the file has one section per user. They and `LoginsAsAsked`, which rests on `Sound`,
  use what `sed` and `toml_parse` do to a file of any length:
  `sed` cuts out the lines of one section and keeps the rest in order (`SedCut`,
  `SedWellFormed`; without one it leaves the file as it is, `SedNone`), and a file with one section per user is parsed into one table per user that
  holds its four settings and nothing else (`FileParsed`). From there the arithmetic of the disk and of the
  timeout, and the bundle as the quotes leave it, give the exact range of settings in `AsAsked`. The
  exceptions are part of the theorems: `raced` and `BadFile` in the first two, `overlap` and
  `BadFile` in the third.

The recursive functions in these modules run over positions, not over data: `Descent` over the
parts of a key, `Meaning`, `Parse` and `Sed` over lines. Each has an existence lemma and a lemma with
its defining equations, proved with `NatInd` of `TomlTable_proof`: induction on the naturals for a set of
numbers, which follows from `WFMin` and, unlike the library's theorem, can be cited.

Only model-checked: the liveness properties and everything that needs fairness or ENABLED; and
`InlineValuesFixed`, since `Place` is not the exact place of a line once a header
goes through an array that was written inline, and the invariant has to speak of both.

## Not modelled

- The scanner of `tomlc17` character by character (times, floats, UTF-8; of its strings only
  those between one pair of double quotes are modelled, in `CaalConfig`), its string pool and file reading: pure conversions without state that the configuration of
  this program hardly uses. `toml_merge`, `toml_equiv` and `datum_copy`: not called here.
- Reuse of process numbers: a `kill` to the number of a process that has gone. The entries that
  outlive their process are known by `StaleEntriesExplained`.
- The byte loops of `write_all` and `read_all` and the cap of 1024 sessions in `caalctl list`:
  a request and its answer are one message each. The printing of `caalctl`.
- The watchdog on the error path of `caalsh` after a failed `pty_bridge_recv`, where it stays armed
  through `container_stop`, is modelled, but `WatchdogGone` is about the regular path only; that its
  SIGTERM can cut that teardown short is one of the deaths that `OverlayPerHolder` allows.
- Installation: package installation and copying of files, no state of the running system.

## Plan

1. A byte channel for the protocol, with partial transfers, time limits and the LIST stream.
2. The settings of `CaalConfig` in the place of the choice in `Caalsh!Deny`, and logins while
   the scripts of `Accounts` run.
3. The proof of `InlineValuesFixed`.
