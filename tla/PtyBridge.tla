----------------------------- MODULE PtyBridge -----------------------------
(***************************************************************************)
(* pty_bridge_run (src/src/lib/pty_bridge.c): the loop that carries bytes  *)
(* between the user's terminal and the container's, its signal handlers,   *)
(* and the waitpid after it.  The environment is the user's terminal,      *)
(* which may stop taking output for a while or be hung up, the container   *)
(* with its terminal of limited buffers, and the signals.                  *)
(***************************************************************************)
EXTENDS Naturals, SequencesExt

CONSTANTS
  BufSize,      \* bytes of buf[]: 4096
  InCap,        \* bytes the container's terminal takes before a write to it blocks
  OutCap,       \* bytes of output it holds before the container blocks
  MaxTyped,     \* bound: bytes the user types
  MaxWritten    \* bound: bytes the container writes

ASSUME SizesAssumption == {BufSize, InCap, OutCap, MaxTyped, MaxWritten} \subseteq Nat \ {0}

VARIABLES
  pc,           \* where pty_bridge_run is
  rfds,         \* what select() found readable and the loop has not yet looked at
  buf,          \* read and not yet written
  g_master_fd,  \* whether the global still names the master
  g_terminate,
  handlers,     \* the calls of on_term, each at its next statement; only the last one runs
  closes,       \* history: how often the master's number was given to close()
  raw,          \* the user's terminal is in raw mode
  stdin, eof,   \* typed and not yet read; no more will be typed
  inq, outq,    \* the buffers of the container's terminal
  typed, wrote, \* history: how many bytes the user, the container sent
  got, shown,   \* history: what the container, the user received
  cut,          \* history: a write was interrupted or failed, or a hang-up took typed input
  terminal,     \* the user's: taking output, stalled, or gone
  child         \* the container

loopVars   == <<rfds, buf>>
masterVars == <<g_master_fd, g_terminate, handlers, closes>>
streamVars == <<stdin, eof, inq, outq, typed, wrote, got, shown>>
vars == <<pc, loopVars, masterVars, raw, streamVars, cut, terminal, child>>

(***************************************************************************)
(* enter: handlers not armed.  master, out: reading from the container and *)
(* writing to stdout; in, fwd: the other direction.  restore: out of the   *)
(* loop.  wait: before or in waitpid.  return: after it.  done: returned.  *)
(* killed: by SIGPIPE.                                                     *)
(***************************************************************************)
Loop   == {"select", "master", "out", "in", "fwd"}
Over   == {"wait", "return", "done", "killed"}
Places == Loop \cup Over \cup {"enter", "restore"}

\* on_term's: the flag and the test, close(), the global.
Statements == {"flag", "close", "forget"}

\* The loop's own copy of the number stays when the descriptor is closed.
MasterOpen == closes = 0

\* A byte is its place in the stream.
Bytes == Nat \ {0}

TypeOK ==
  /\ pc \in Places
  /\ rfds \in SUBSET {"stdin", "master"}
  /\ buf \in Seq(Bytes) /\ stdin \in Seq(Bytes) /\ inq \in Seq(Bytes) /\ outq \in Seq(Bytes)
  /\ got \in Seq(Bytes) /\ shown \in Seq(Bytes)
  /\ Len(buf) <= BufSize /\ (buf # <<>> => pc \in {"out", "fwd"})
  /\ g_master_fd \in BOOLEAN /\ g_terminate \in BOOLEAN
  /\ raw \in BOOLEAN /\ eof \in BOOLEAN /\ cut \in BOOLEAN
  /\ handlers \in Seq(Statements) /\ Len(handlers) <= 2 /\ closes \in Nat
  /\ terminal \in {"taking", "stalled", "gone"}
  /\ typed \in 0..MaxTyped /\ wrote \in 0..MaxWritten
  /\ child \in {"running", "exited"}
  /\ raw => pc \in Loop \cup {"restore"}
  /\ handlers # <<>> => pc \notin {"enter", "done", "killed"}

Init ==
  /\ pc = "enter"
  /\ rfds = {} /\ buf = <<>>
  /\ g_master_fd = FALSE /\ g_terminate = FALSE /\ handlers = <<>> /\ closes = 0
  /\ raw = FALSE
  /\ stdin = <<>> /\ eof = FALSE /\ inq = <<>> /\ outq = <<>>
  /\ typed = 0 /\ wrote = 0 /\ got = <<>> /\ shown = <<>>
  /\ cut = FALSE
  /\ terminal = "taking" /\ child = "running"

-----------------------------------------------------------------------------
(* The loop *)

\* g_master_fd, the handlers and, on a terminal, raw mode.
Enter ==
  /\ pc = "enter" /\ pc' = "select"
  /\ g_master_fd' = TRUE
  /\ raw' \in BOOLEAN
  /\ UNCHANGED <<loopVars, g_terminate, handlers, closes, streamVars, cut, terminal, child>>

\* The master is not among the descriptors that are waited for.
Readable_stdin_only == IF stdin # <<>> \/ eof THEN {"stdin"} ELSE {}

\* A terminal is readable at its end too.
Readable ==
  (IF stdin # <<>> \/ eof THEN {"stdin"} ELSE {})
    \cup (IF outq # <<>> \/ child = "exited" THEN {"master"} ELSE {})

Select ==
  /\ pc = "select" /\ MasterOpen /\ Readable # {}
  /\ rfds' = Readable
  /\ pc' = "master"
  /\ UNCHANGED <<buf, masterVars, raw, streamVars, cut, terminal, child>>

\* Every error is taken for an interrupted call.
SelectFails_again ==
  /\ pc = "select" /\ ~MasterOpen
  /\ UNCHANGED vars

\* EBADF: the handler has closed the master just before the call.
SelectFails ==
  /\ pc = "select" /\ ~MasterOpen
  /\ pc' = "restore"
  /\ UNCHANGED <<loopVars, masterVars, raw, streamVars, cut, terminal, child>>

Chunk(s)  == SubSeq(s, 1, IF Len(s) < BufSize THEN Len(s) ELSE BufSize)
Beyond(s) == SubSeq(s, Len(Chunk(s)) + 1, Len(s))

\* The end of the container's output is taken for no output.
ReadMaster_spinning ==
  /\ pc = "master" /\ rfds' = rfds \ {"master"}
  /\ IF "master" \notin rfds \/ (MasterOpen /\ outq = <<>>) THEN pc' = "in" /\ UNCHANGED <<buf, outq>>
     ELSE IF ~MasterOpen THEN pc' = "restore" /\ UNCHANGED <<buf, outq>>
     ELSE pc' = "out" /\ buf' = Chunk(outq) /\ outq' = Beyond(outq)
  /\ UNCHANGED <<masterVars, raw, stdin, eof, inq, typed, wrote, got, shown, cut, terminal, child>>

\* The loop ends with the container and not with its output.
ReadMaster_until_exit ==
  /\ pc = "master" /\ rfds' = rfds \ {"master"}
  /\ IF "master" \notin rfds THEN pc' = "in" /\ UNCHANGED <<buf, outq>>
     ELSE IF ~MasterOpen \/ outq = <<>> \/ child = "exited" THEN pc' = "restore" /\ UNCHANGED <<buf, outq>>
     ELSE pc' = "out" /\ buf' = Chunk(outq) /\ outq' = Beyond(outq)
  /\ UNCHANGED <<masterVars, raw, stdin, eof, inq, typed, wrote, got, shown, cut, terminal, child>>

\* read() from one side when it is ready; at its end, or when it is closed, the loop ends.
ReadMaster ==
  /\ pc = "master" /\ rfds' = rfds \ {"master"}
  /\ IF "master" \notin rfds THEN pc' = "in" /\ UNCHANGED <<buf, outq>>
     ELSE IF ~MasterOpen \/ outq = <<>> THEN pc' = "restore" /\ UNCHANGED <<buf, outq>>
     ELSE pc' = "out" /\ buf' = Chunk(outq) /\ outq' = Beyond(outq)
  /\ UNCHANGED <<masterVars, raw, stdin, eof, inq, typed, wrote, got, shown, cut, terminal, child>>

ReadStdin ==
  /\ pc = "in" /\ rfds' = {}
  /\ IF "stdin" \notin rfds THEN pc' = "select" /\ UNCHANGED <<buf, stdin>>
     ELSE IF stdin = <<>> THEN pc' = "restore" /\ UNCHANGED <<buf, stdin>>
     ELSE pc' = "fwd" /\ buf' = Chunk(stdin) /\ stdin' = Beyond(stdin)
  /\ UNCHANGED <<masterVars, raw, eof, inq, outq, typed, wrote, got, shown, cut, terminal, child>>

\* The write goes on and the byte is not counted as written.
WriteOut_twice ==
  /\ pc = "out"
  /\ \/ buf = <<>> /\ pc' = "in" /\ UNCHANGED <<buf, shown, cut>>
     \/ /\ buf # <<>> /\ terminal = "taking"
        /\ shown' = Append(shown, Head(buf))
        /\ buf' = Tail(buf) \/ (Len(shown) < MaxWritten /\ buf' = buf)
        /\ UNCHANGED <<pc, cut>>
     \/ /\ buf # <<>> /\ terminal = "gone"
        /\ pc' = "in" \/ (~raw /\ pc' = "killed")
        /\ buf' = <<>> /\ cut' = TRUE /\ UNCHANGED shown
  /\ UNCHANGED <<rfds, masterVars, raw, stdin, eof, inq, outq, typed, wrote, got, terminal, child>>

\* write(), byte by byte as the terminal takes them; it returns when all are taken, and waits
\* while none is.  Its failure is not looked at; with a pipe for a terminal it is SIGPIPE.
WriteOut ==
  /\ pc = "out"
  /\ \/ buf = <<>> /\ pc' = "in" /\ UNCHANGED <<buf, shown, cut>>
     \/ /\ buf # <<>> /\ terminal = "taking"
        /\ shown' = Append(shown, Head(buf)) /\ buf' = Tail(buf)
        /\ UNCHANGED <<pc, cut>>
     \/ /\ buf # <<>> /\ terminal = "gone"
        /\ pc' = "in" \/ (~raw /\ pc' = "killed")
        /\ buf' = <<>> /\ cut' = TRUE /\ UNCHANGED shown
  /\ UNCHANGED <<rfds, masterVars, raw, stdin, eof, inq, outq, typed, wrote, got, terminal, child>>

\* A terminal that is closed at either end takes nothing, and ends a write that waits.
WriteFails == ~MasterOpen \/ child = "exited"

WriteMaster ==
  /\ pc = "fwd"
  /\ \/ buf = <<>> /\ pc' = "select" /\ UNCHANGED <<buf, inq, cut>>
     \/ /\ buf # <<>> /\ ~WriteFails /\ Len(inq) < InCap
        /\ inq' = Append(inq, Head(buf)) /\ buf' = Tail(buf)
        /\ UNCHANGED <<pc, cut>>
     \/ /\ buf # <<>> /\ WriteFails
        /\ pc' = "select" /\ buf' = <<>> /\ cut' = TRUE
        /\ UNCHANGED inq
  /\ UNCHANGED <<rfds, masterVars, raw, stdin, eof, outq, typed, wrote, got, shown, terminal, child>>

\* The terminal is left raw.
Restore_forgotten ==
  /\ pc = "restore" /\ pc' = "wait"
  /\ UNCHANGED <<raw, loopVars, masterVars, streamVars, cut, terminal, child>>

Restore ==
  /\ pc = "restore" /\ pc' = "wait"
  /\ raw' = FALSE
  /\ UNCHANGED <<loopVars, masterVars, streamVars, cut, terminal, child>>

Reaped ==
  /\ pc = "wait" /\ child = "exited"
  /\ pc' = "return"
  /\ UNCHANGED <<loopVars, masterVars, raw, streamVars, cut, terminal, child>>

\* Back to caalsh; the master, if still open, stays open and nobody knows its number.
Return ==
  /\ pc = "return" /\ pc' = "done"
  /\ g_master_fd' = FALSE
  /\ UNCHANGED <<loopVars, g_terminate, handlers, closes, raw, streamVars, cut, terminal, child>>

-----------------------------------------------------------------------------
(* Signals, once the handlers are armed *)

Armed == pc # "enter"

\* The call the signal has interrupted, if it has: select() and waitpid() fail with EINTR,
\* a write() stops where it is.  Without SA_RESTART none of them is taken up again.
Interrupted(terminating) ==
  \/ /\ pc = "select"
     /\ pc' = IF terminating THEN "restore" ELSE "select"
     /\ UNCHANGED <<buf, cut>>
  \/ /\ pc \in {"out", "fwd"}
     /\ pc' = IF pc = "out" THEN "in" ELSE "select"
     /\ buf' = <<>> /\ cut' = (cut \/ buf # <<>>)
  \/ pc = "wait" /\ pc' = "return" /\ UNCHANGED <<buf, cut>>
  \/ UNCHANGED <<pc, buf, cut>>

\* SIGTERM or SIGHUP: the loop stops where it is until the handler has returned.  The mask
\* holds back the signal that is being handled and not the other one, which nests.
on_term ==
  /\ Armed /\ Len(handlers) < 2
  /\ handlers' = Append(handlers, "flag")
  /\ IF handlers = <<>> THEN Interrupted(TRUE) ELSE UNCHANGED <<pc, buf, cut>>
  /\ UNCHANGED <<rfds, g_master_fd, g_terminate, closes, raw, streamVars, terminal, child>>

Running(statement) == handlers # <<>> /\ Last(handlers) = statement
GoesOn(statement)  == handlers' = Append(Front(handlers), statement)
Returns            == handlers' = Front(handlers)

SetTerminate ==
  /\ Running("flag")
  /\ g_terminate' = TRUE
  /\ IF g_master_fd THEN GoesOn("close") ELSE Returns
  /\ UNCHANGED <<pc, loopVars, g_master_fd, closes, raw, streamVars, cut, terminal, child>>

\* The number may have been read before the other handler forgot it: the global is not volatile.
CloseMaster ==
  /\ Running("close") /\ GoesOn("forget")
  /\ closes' = closes + 1 \/ (~g_master_fd /\ UNCHANGED closes)
  /\ UNCHANGED <<pc, loopVars, g_master_fd, g_terminate, raw, streamVars, cut, terminal, child>>

\* The number is not forgotten.
ForgetMaster_not ==
  /\ Running("forget") /\ Returns
  /\ UNCHANGED <<pc, loopVars, g_master_fd, g_terminate, closes, raw, streamVars, cut, terminal, child>>

ForgetMaster ==
  /\ Running("forget") /\ Returns
  /\ g_master_fd' = FALSE
  /\ UNCHANGED <<pc, loopVars, g_terminate, closes, raw, streamVars, cut, terminal, child>>

\* SIGWINCH: the new size is passed on.  Inside on_term it interrupts nothing.
on_winch ==
  /\ Armed /\ handlers = <<>>
  /\ Interrupted(g_terminate)
  /\ UNCHANGED <<masterVars, rfds, raw, streamVars, terminal, child>>

-----------------------------------------------------------------------------
(* The user and the container *)

Type ==
  /\ ~eof /\ typed < MaxTyped
  /\ typed' = typed + 1
  /\ stdin' = Append(stdin, typed + 1)
  /\ UNCHANGED <<pc, loopVars, masterVars, raw, eof, inq, outq, wrote, got, shown, cut, terminal, child>>

EndOfInput ==
  /\ ~eof /\ eof' = TRUE
  /\ UNCHANGED <<pc, loopVars, masterVars, raw, stdin, inq, outq, typed, wrote, got, shown, cut, terminal, child>>

ContainerReads ==
  /\ child = "running" /\ inq # <<>>
  /\ got' = Append(got, Head(inq)) /\ inq' = Tail(inq)
  /\ UNCHANGED <<pc, loopVars, masterVars, raw, stdin, eof, outq, typed, wrote, shown, cut, terminal, child>>

\* The container blocks while its terminal is full; a closed one takes nothing.
ContainerWrites ==
  /\ child = "running" /\ MasterOpen
  /\ wrote < MaxWritten /\ Len(outq) < OutCap
  /\ wrote' = wrote + 1
  /\ outq' = Append(outq, wrote + 1)
  /\ UNCHANGED <<pc, loopVars, masterVars, raw, stdin, eof, inq, typed, got, shown, cut, terminal, child>>

ContainerExits ==
  /\ child = "running" /\ child' = "exited"
  /\ UNCHANGED <<pc, loopVars, masterVars, raw, streamVars, cut, terminal>>

\* ^S and ^Q, or the ssh connection's window.
Stall ==
  /\ terminal = "taking" /\ terminal' = "stalled"
  /\ UNCHANGED <<pc, loopVars, masterVars, raw, streamVars, cut, child>>

Resume ==
  /\ terminal = "stalled" /\ terminal' = "taking"
  /\ UNCHANGED <<pc, loopVars, masterVars, raw, streamVars, cut, child>>

\* The connection is lost: input ends, what is typed may be thrown away, nothing is taken.
HangUp ==
  /\ terminal # "gone" /\ terminal' = "gone"
  /\ eof' = TRUE
  /\ stdin' \in {stdin, <<>>} /\ cut' = (cut \/ stdin' # stdin)
  /\ UNCHANGED <<pc, loopVars, masterVars, raw, inq, outq, typed, wrote, got, shown, child>>

-----------------------------------------------------------------------------

Bridge ==
  /\ handlers = <<>>
  /\ \/ Enter \/ Select \/ SelectFails \/ ReadMaster \/ WriteOut \/ ReadStdin \/ WriteMaster
     \/ Restore \/ Reaped \/ Return

Handler == SetTerminate \/ CloseMaster \/ ForgetMaster

\* Up to the return: what the container and the user do later is Container's and Caalsh's.
Environment ==
  /\ pc \notin {"done", "killed"}
  /\ \/ on_term \/ on_winch
     \/ Type \/ EndOfInput \/ ContainerReads \/ ContainerWrites \/ ContainerExits
     \/ Stall \/ Resume \/ HangUp

Next == Bridge \/ Handler \/ Environment

Spec == Init /\ [][Next]_vars

(***************************************************************************)
(* caalsh is scheduled, and signals may come for ever but leave a handler, *)
(* and the loop, the time for a statement now and then.  Nothing is        *)
(* assumed of the user, the terminal and the container.                    *)
(***************************************************************************)
FairSpec == Spec /\ WF_vars(Handler) /\ SF_vars(Handler /\ Len(handlers) = 1) /\ SF_vars(Bridge)

-----------------------------------------------------------------------------
(* Properties *)

\* What has gone one way and what is still on it: received, held by the loop, waiting.
OutStream == shown \o (IF pc = "out" THEN buf ELSE <<>>) \o outq
InStream  == got \o inq \o (IF pc = "fwd" THEN buf ELSE <<>>) \o stdin

Numbered(s)  == \A i \in DOMAIN s : s[i] = i
Ascending(s) == \A i, j \in DOMAIN s : i < j => s[i] < s[j]

(***************************************************************************)
(* One buffer serves both directions, and nothing is carried twice or out  *)
(* of order, also when a signal cuts a write short; as long as none is     *)
(* cut, and no hang-up throws input away, nothing is lost either           *)
(* (pty_bridge.c:139-172).                                                 *)
(***************************************************************************)
CarriedInOrder ==
  /\ Ascending(OutStream) /\ Ascending(InStream)
  /\ ~cut => Numbered(OutStream) /\ Numbered(InStream)

(***************************************************************************)
(* However many SIGTERM and SIGHUP come, the master's number is given to   *)
(* close() twice at most, the second time only while the two handlers      *)
(* overlap, before the loop runs again and could open anything: when no    *)
(* handler runs, what the global names is open, and after a signal it is   *)
(* closed (pty_bridge.c:35-42, 124-125, 178-180).                          *)
(***************************************************************************)
MasterClosedOnce ==
  /\ closes <= 2
  /\ handlers = <<>> => /\ g_master_fd => closes = 0
                        /\ g_terminate => closes > 0

\* The user's terminal does not take what the loop writes to it.
OutBlocked == pc = "out" /\ buf # <<>> /\ terminal = "stalled"

(***************************************************************************)
(* SIGTERM and SIGHUP end the loop wherever they land, also just before    *)
(* select(), when the flag alone would not be looked at until something    *)
(* arrives, unless the user's terminal never takes output again            *)
(* (pty_bridge.c:35-42, 148-162).                                          *)
(***************************************************************************)
TermEndsLoop == <>[]~OutBlocked => (g_terminate ~> pc \in Over)

\* A write of input is blocked, since the container does not read.
HeldUp == pc = "fwd" /\ Len(inq) = InCap /\ ~WriteFails

(***************************************************************************)
(* Output does not wait in the container's terminal for ever while the     *)
(* user's takes any, unless the loop is over or is held up in a write of   *)
(* input that the container does not read (pty_bridge.c:136-138, "select() *)
(* so neither side blocks the other").                                     *)
(***************************************************************************)
OutputMoves ==
  <>[]~OutBlocked => (outq # <<>> ~> outq = <<>> \/ HeldUp \/ pc \in Over \cup {"restore"})

(***************************************************************************)
(* When the container ends so does pty_bridge_run, also when it is waiting *)
(* in a write, in select() or in waitpid, and however many signals come,   *)
(* unless the user's terminal never takes output again                     *)
(* (pty_bridge.c:148-178).                                                 *)
(***************************************************************************)
EndsWithContainer == <>[]~OutBlocked => (child = "exited" ~> pc \in {"done", "killed"})

(***************************************************************************)
(* "proxy bytes between stdin/stdout and master_fd until child exits"      *)
(* (pty_bridge.h:21): unless SIGTERM, SIGHUP or the end of the user's      *)
(* input came first, the loop is over only when the container is, and all  *)
(* it wrote has been read (pty_bridge.c:148-171).                          *)
(***************************************************************************)
LastWordsRead ==
  handlers = <<>> /\ pc \in {"restore", "wait", "return", "done"} /\ ~g_terminate /\ ~eof => child = "exited" /\ outq = <<>>

=============================================================================
