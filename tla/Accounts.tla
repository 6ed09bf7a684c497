------------------------------ MODULE Accounts ------------------------------
(***************************************************************************)
(* newcaal and delcaal (src/scripts): several of them may run at the same  *)
(* time, each may fail or be killed after any of its commands, and under   *)
(* set -e a failed command ends it.  One action is one command that        *)
(* changes the host or that another script can get in front of.            *)
(***************************************************************************)
EXTENDS CaalConfig

CONSTANTS
  Users,
  Scripts,      \* processes; each runs one script after another
  Settings,     \* what newcaal's checks let through: bundle, enabled, disk, timeout
  None, Deleted,
  MaxRuns       \* bound: scripts started

ASSUME SettingsAssumption ==
  /\ {None, Deleted} \cap Settings = {} /\ None # Deleted
  /\ \A s \in Settings : s.enabled \in BOOLEAN /\ s.disk.n \in Nat /\ s.timeout.n \in Nat

ASSUME BoundsAssumption == MaxRuns \in Nat

\* There are no more users than a table may have entries, and a section fits one.
ASSUME UsersAssumption == IsFiniteSet(Users) /\ Cardinality(Users) <= TABLE_MAX /\ 4 <= TABLE_MAX

VARIABLES
  accounts, password,  \* users that exist, that have a password
  exists, file,        \* caal.toml
  sshd,                \* users with a drop-in
  script,              \* what each process runs and where it is
  runs,                \* how many were started
  overlap,             \* history: two scripts have run at the same time
  raced,               \* history: one has written the file under the hands of another
  unset,               \* history: accounts whose passwd failed or was cut off
  last                 \* history: what the last script of a user that finished was asked for

hostVars == <<accounts, password, exists, file, sshd>>
vars     == <<hostVars, script, runs, overlap, raced, unset, last>>

Idle == [pc |-> "idle", what |-> None, user |-> None, settings |-> None, copy |-> <<>>]

NewPlaces == {"useradd", "passwd", "test", "create", "grep", "sed", "rename", "append", "dropin", "reload"}
DelPlaces == {"userdel", "grep", "sed", "rename", "rm", "reload"}

Running == {p \in Scripts : script[p].pc # "idle"}

Items == [item : {"header"}, user : Users] \cup [item : {"body"}, settings : Settings]

TypeOK ==
  /\ accounts \subseteq Users /\ password \subseteq accounts /\ sshd \subseteq Users
  /\ file \in Seq(Items) /\ (file # <<>> => exists)
  /\ \A p \in Running :
       /\ script[p].user \in Users
       /\ \/ script[p].what = "new" /\ script[p].pc \in NewPlaces /\ script[p].settings \in Settings
          \/ script[p].what = "del" /\ script[p].pc \in DelPlaces
       /\ script[p].copy \in Seq(Items)
  /\ runs \in 0..MaxRuns /\ overlap \in BOOLEAN /\ raced \in BOOLEAN /\ unset \subseteq Users
  /\ \A u \in Users : last[u] \in {None, Deleted} \cup Settings

Init ==
  /\ accounts = {} /\ password = {}
  /\ exists \in BOOLEAN /\ file = <<>>
  /\ sshd = {}
  /\ script = [p \in Scripts |-> Idle]
  /\ runs = 0 /\ overlap = FALSE /\ raced = FALSE /\ unset = {}
  /\ last = [u \in Users |-> None]

\* A script begins; nothing is known of its user until it finishes.
Begin(p, what, u, s, pc) ==
  /\ script[p] = Idle /\ runs < MaxRuns
  /\ script' = [script EXCEPT ![p] = [pc |-> pc, what |-> what, user |-> u, settings |-> s, copy |-> <<>>]]
  /\ runs' = runs + 1
  /\ overlap' = (overlap \/ Running # {})
  /\ last' = [last EXCEPT ![u] = None]
  /\ UNCHANGED <<hostVars, raced, unset>>

\* The prompts have been answered and their answers have passed the checks.
newcaal(p, u, s) == Begin(p, "new", u, s, "useradd")
delcaal(p, u)    == Begin(p, "del", u, None, "userdel")

At(p, what, pc) == script[p].what = what /\ script[p].pc = pc
Goto(p, pc)     == script' = [script EXCEPT ![p].pc = pc]
U(p)            == script[p].user

\* The script is over: a failed command, a signal, or its last line.
Abort(p) ==
  /\ p \in Running
  /\ script' = [script EXCEPT ![p] = Idle]
  /\ unset' = IF At(p, "new", "passwd") THEN unset \cup {U(p)} ELSE unset
  /\ last' = [last EXCEPT ![U(p)] = None]
  /\ UNCHANGED <<hostVars, runs, overlap, raced>>

Done(p) ==
  /\ script' = [script EXCEPT ![p] = Idle]
  /\ last' = [last EXCEPT ![U(p)] = IF script[p].what = "new" THEN script[p].settings ELSE Deleted]

otherVars  == <<runs, overlap, unset, last>>
scriptVars == <<otherVars, raced>>

(***************************************************************************)
(* p writes the file while another script is between what it has seen of   *)
(* it and what it does about that: it has found no file, or holds its copy *)
(* of it, or has found no section of the user that p writes for.           *)
(***************************************************************************)
Writes(p) ==
  raced' = (raced \/ \E q \in Running \ {p} :
              script[q].pc \in {"create", "rename"} \/ (script[q].pc = "append" /\ U(q) = U(p)))

-----------------------------------------------------------------------------
(* newcaal *)

create_user(p) ==
  /\ At(p, "new", "useradd")
  /\ IF U(p) \in accounts THEN Goto(p, "test") /\ UNCHANGED accounts
     ELSE Goto(p, "passwd") /\ accounts' = accounts \cup {U(p)}
  /\ UNCHANGED <<password, exists, file, sshd, scriptVars>>

passwd(p) ==
  /\ At(p, "new", "passwd") /\ U(p) \in accounts
  /\ password' = password \cup {U(p)}
  /\ Goto(p, "test")
  /\ UNCHANGED <<accounts, exists, file, sshd, scriptVars>>

TestFile(p) ==
  /\ At(p, "new", "test")
  /\ Goto(p, IF exists THEN "grep" ELSE "create")
  /\ UNCHANGED <<hostVars, scriptVars>>

\* cat > empties a file that has appeared since the test.
CreateFile(p) ==
  /\ At(p, "new", "create")
  /\ exists' = TRUE /\ file' = <<>>
  /\ Goto(p, "grep")
  /\ UNCHANGED <<accounts, password, sshd, scriptVars>>

HasHeader(u) == Header(u) \in Range(file)

(***************************************************************************)
(* sed "/^\[u\]/,/^\[/{//!d}; /^\[u\]/d".  The range from a header of u    *)
(* ends at the next header, whosever it is: if that is one of u too, it    *)
(* goes, and what is below it stays.                                       *)
(***************************************************************************)
sed_line_to_end(r, i, u) ==
  IF i = Header(u) THEN [r EXCEPT !.in = TRUE]
  ELSE IF r.in THEN r
  ELSE [r EXCEPT !.out = Append(@, i)]

sed_line(r, i, u) ==
  IF i = Header(u) THEN [r EXCEPT !.in = ~@]
  ELSE IF i.item = "header" THEN [in |-> FALSE, out |-> Append(r.out, i)]
  ELSE IF r.in THEN r
  ELSE [r EXCEPT !.out = Append(@, i)]

\* The first n lines of the file.
Sed(f, u) ==
  LET s[n \in 0..Len(f)] ==
        IF n = 0 THEN [in |-> FALSE, out |-> <<>>] ELSE sed_line(s[n - 1], f[n], u)
  IN s

sed(f, u) == Sed(f, u)[Len(f)].out

\* The section of an existing user is not replaced.
Grep_never(p) ==
  /\ script[p].pc = "grep"
  /\ Goto(p, IF script[p].what = "new" THEN "append" ELSE IF HasHeader(U(p)) THEN "sed" ELSE "rm")
  /\ UNCHANGED <<hostVars, scriptVars>>

\* Both scripts look for the section of the user, and rewrite the file without it.
Grep(p) ==
  /\ script[p].pc = "grep"
  /\ Goto(p, IF HasHeader(U(p)) THEN "sed"
             ELSE IF script[p].what = "new" THEN "append" ELSE "rm")
  /\ UNCHANGED <<hostVars, scriptVars>>

\* sed -i reads the file into a new one,
SedReads(p) ==
  /\ script[p].pc = "sed"
  /\ script' = [script EXCEPT ![p].copy = sed(file, U(p)), ![p].pc = "rename"]
  /\ UNCHANGED <<hostVars, scriptVars>>

\* which takes its place.
SedRenames(p) ==
  /\ script[p].pc = "rename"
  /\ file' = script[p].copy
  /\ script' = [script EXCEPT ![p].copy = <<>>,
                              ![p].pc = IF script[p].what = "new" THEN "append" ELSE "rm"]
  /\ Writes(p)
  /\ UNCHANGED <<accounts, password, exists, sshd, otherVars>>

\* No drop-in is written.
AppendEntry_last(p) ==
  /\ At(p, "new", "append")
  /\ file' = file \o << Header(U(p)), Body(script[p].settings) >>
  /\ Goto(p, "reload") /\ Writes(p)
  /\ UNCHANGED <<accounts, password, exists, sshd, otherVars>>

\* cat >>, one write.
AppendEntry(p) ==
  /\ At(p, "new", "append")
  /\ file' = file \o << Header(U(p)), Body(script[p].settings) >>
  /\ Goto(p, "dropin") /\ Writes(p)
  /\ UNCHANGED <<accounts, password, exists, sshd, otherVars>>

write_sshd(p) ==
  /\ At(p, "new", "dropin")
  /\ sshd' = sshd \cup {U(p)}
  /\ Goto(p, "reload")
  /\ UNCHANGED <<accounts, password, exists, file, scriptVars>>

\* systemctl reload sshd, the last command of both.
Reload(p) ==
  /\ script[p].pc = "reload"
  /\ Done(p)
  /\ UNCHANGED <<hostVars, runs, overlap, raced, unset>>

-----------------------------------------------------------------------------
(* delcaal *)

\* A user that does not exist ends the script.
remove_user_or_end(p) ==
  /\ At(p, "del", "userdel")
  /\ accounts' = accounts \ {U(p)} /\ password' = password \ {U(p)}
  /\ unset' = unset \ {U(p)}
  /\ IF U(p) \in accounts THEN Goto(p, IF exists THEN "grep" ELSE "rm") /\ UNCHANGED last ELSE Done(p)
  /\ UNCHANGED <<exists, file, sshd, runs, overlap, raced>>

\* The password outlives the account.
remove_user_partly(p) ==
  /\ At(p, "del", "userdel")
  /\ accounts' = accounts \ {U(p)} /\ unset' = unset \ {U(p)}
  /\ Goto(p, IF exists THEN "grep" ELSE "rm")
  /\ UNCHANGED <<password, exists, file, sshd, runs, overlap, raced, last>>

\* userdel, unless there is no such user; then the test for the config file.
remove_user(p) ==
  /\ At(p, "del", "userdel")
  /\ accounts' = accounts \ {U(p)} /\ password' = password \ {U(p)}
  /\ unset' = unset \ {U(p)}
  /\ Goto(p, IF exists THEN "grep" ELSE "rm")
  /\ UNCHANGED <<exists, file, sshd, runs, overlap, raced, last>>

remove_sshd(p) ==
  /\ At(p, "del", "rm")
  /\ sshd' = sshd \ {U(p)}
  /\ IF U(p) \in sshd THEN Goto(p, "reload") /\ UNCHANGED last ELSE Done(p)
  /\ UNCHANGED <<accounts, password, exists, file, runs, overlap, raced, unset>>

-----------------------------------------------------------------------------

Step(p) ==
  \/ create_user(p) \/ passwd(p)
  \/ TestFile(p) \/ CreateFile(p) \/ Grep(p) \/ SedReads(p) \/ SedRenames(p) \/ AppendEntry(p)
  \/ write_sshd(p) \/ Reload(p)
  \/ remove_user(p) \/ remove_sshd(p)
  \/ Abort(p)

Next ==
  \E p \in Scripts :
    \/ \E u \in Users, s \in Settings : newcaal(p, u, s)
    \/ \E u \in Users : delcaal(p, u)
    \/ Step(p)

Spec == Init /\ [][Next]_vars

-----------------------------------------------------------------------------
(* Properties *)

BadFile == \E i \in Range(file) : i.item = "body" /\ BadEntry(i.settings)

(***************************************************************************)
(* The file stays one that caalsh can read, whatever scripts failed, were  *)
(* killed and run again, or ran at the same time.  Two things can spoil    *)
(* it: a script that writes between what another has seen of the file and  *)
(* what that one does about it, and a bundle or number that newcaal lets   *)
(* through and the parser does not (newcaal.sh:177-198, 282, 289, 296).    *)
(***************************************************************************)
StaysReadable == toml_parse_file(file).err # "" => raced \/ BadFile

\* What newcaal's prompts and README.md:195-205 say of the settings.
Promised(s) ==
  [ok |-> TRUE, bundle |-> s.bundle, bytes |-> (IF s.disk.n = 0 THEN DefaultDisk ELSE s.disk.n) * MB,
   watchdog |-> s.timeout.n > 0, seconds |-> s.timeout.n]

\* The timeout fits the argument of sleep(), the disk, in bytes, the one of fallocate(), and the
\* bundle is one that quotes leave as it is.
Fits(s) == s.timeout.n < UIntSize /\ s.disk.n * MB <= Int64Max /\ parse_norm(s.bundle) = s.bundle

(***************************************************************************)
(* After a newcaal that has finished, a login is given just what was asked *)
(* for, exactly in the range of settings that survives the conversions on  *)
(* the way: the width of the numbers, and the quotes around the bundle     *)
(* (newcaal.sh:191-198, caalsh.c:118-170, 209, session_disk.c:27).         *)
(***************************************************************************)
AsAsked ==
  ~overlap /\ ~BadFile =>
    \A u \in Users : last[u] \in Settings =>
      IF last[u].enabled THEN login(file, u) = Promised(last[u]) <=> Fits(last[u])
                         ELSE login(file, u) = Denied("disabled")

(***************************************************************************)
(* "Done. 'u' is ready": the account, its drop-in and its section are all  *)
(* there, also when earlier scripts of the user stopped half way.  The one *)
(* thing that running newcaal again does not make up for is the password   *)
(* (newcaal.sh:152-163, 321).                                              *)
(***************************************************************************)
ReadyMeansReady ==
  ~overlap =>
    \A u \in Users : last[u] \in Settings =>
      u \in accounts /\ u \in sshd /\ HasHeader(u) /\ (u \in password <=> u \notin unset)

(***************************************************************************)
(* "Done. 'u' has been removed": nothing of the user is left, also when    *)
(* an earlier newcaal or delcaal of the user stopped half way              *)
(* (delcaal.sh:125-167, 223-227).                                          *)
(***************************************************************************)
RemovedMeansGone ==
  ~overlap => \A u \in Users : last[u] = Deleted => u \notin accounts \cup sshd /\ ~HasHeader(u)

(***************************************************************************)
(* A script changes no login but that of its own user, also when others    *)
(* run beside it, unless it writes an entry that locks everyone out or one *)
(* has written the file under the hands of another                         *)
(* (newcaal.sh:177-198, delcaal.sh:150).                                   *)
(***************************************************************************)
OthersUnaffected ==
  [][raced \/ BadFile \/ BadFile' \/ UNCHANGED file \/
       \A v \in Users : \/ login(file', v) = login(file, v)
                       \/ \E p \in Running : U(p) = v /\ script'[p] # script[p]]_vars

(***************************************************************************)
(* "Done. 'u' is ready" (newcaal.sh:321), "Once created, the user can log  *)
(* in immediately" (README.md:156): there is a section of u once newcaal   *)
(* has said so, until another script is run for u.                         *)
(***************************************************************************)
DoneMeansConfigured ==
  \A u \in Users : last[u] \in Settings /\ (\A p \in Running : U(p) # u) => HasHeader(u)

=============================================================================
