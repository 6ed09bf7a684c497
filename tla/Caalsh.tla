------------------------------- MODULE Caalsh -------------------------------
(***************************************************************************)
(* Logins: main() of the login shell (src/src/caalsh.c) with the terminal  *)
(* bridge (src/src/lib/pty_bridge.c), for any number of users logging in   *)
(* at once, over the host resources of Container and a session daemon that *)
(* serves one request at a time, as Caald is shown to do.  Around them are *)
(* caalctl, the watchdogs, sshd that hangs up, and the containers.         *)
(***************************************************************************)
EXTENDS Integers, FiniteSets

CONSTANTS
  Procs, Bundles, BundleOf, MaxStackDepth,  \* as in Container
  MaxSessions,      \* max_sessions in the config, not positive when there is no limit
  Capacity,         \* slots in the daemon's table
  Timed             \* the logins whose user has a timeout

ASSUME HostAssumption     == /\ IsFiniteSet(Procs) /\ BundleOf \in [Procs -> Bundles]
                             /\ MaxStackDepth \in Nat
ASSUME LimitAssumption    == MaxSessions \in Int
ASSUME CapacityAssumption == Capacity \in Nat \ {0}
ASSUME TimedAssumption    == Timed \in SUBSET Procs

VARIABLES
  pc, made, overlays, lower, child, view, helperFailed, dead,   \* as in Container
  at,               \* where each process is in main()
  timer,            \* its watchdog
  pending,          \* processes with a SIGTERM or SIGHUP to be delivered
  daemon,           \* whether the daemon is running
  registered,       \* the sessions in its table
  unlisted,         \* history: those refused there, or taken off before they ended
  blind             \* history: the logins admitted while the table may have missed one

Host == INSTANCE Container

hostVars == <<pc, made, overlays, lower, child, view, helperFailed, dead>>
history == <<unlisted, blind>>
vars == <<hostVars, at, timer, pending, daemon, registered, history>>

(***************************************************************************)
(* login: before the limit is checked.  admitted: before container_start.  *)
(* start: in it.  register, recv, bridge, wait, unregister: before or in   *)
(* that call, wait being the waitpid that ends pty_bridge_run.  stop: in   *)
(* container_stop; unheard: the same, but the daemon has not had the       *)
(* request to unregister; abort: the same, called because pty_bridge_recv  *)
(* has failed.  denied: main() has returned without a session.             *)
(***************************************************************************)
Places == {"login", "admitted", "start", "register", "recv", "bridge", "wait", "unregister",
           "stop", "unheard", "abort", "denied"}

Stopping == {"stop", "unheard", "abort"}

TypeOK ==
  /\ Host!TypeOK
  /\ at \in [Procs -> Places]
  /\ timer \in [Procs -> {"none", "armed", "fired", "killed"}]
  /\ pending \in SUBSET Procs
  /\ daemon \in {"up", "down"}
  /\ registered \in SUBSET Procs
  /\ unlisted \in SUBSET Procs
  /\ blind \in SUBSET Procs

Init ==
  /\ Host!Init
  /\ at = [p \in Procs |-> "login"]
  /\ timer = [p \in Procs |-> "none"]
  /\ pending = {}
  /\ daemon = "up"
  /\ registered = {}
  /\ unlisted = {}
  /\ blind = {}

\* The process is there to be signalled: it has not died and main() has not returned.
Alive(p) == p \notin dead /\ pc[p] \notin {"failed", "exited"} /\ at[p] # "denied"

Go(p, from, to) == p \notin dead /\ at[p] = from /\ at' = [at EXCEPT ![p] = to]

-----------------------------------------------------------------------------
(* Before the container *)

\* The daemon's count, or the session directories when it is not there or drops the query.
Counts == {Cardinality({q \in Procs : "dir" \in made[q]})}
            \cup (IF daemon = "up" THEN {Cardinality(registered)} ELSE {})

\* Logins that have been let in and are not in the table: on their way to it, or in a
\* session that it has refused or lost.
Unseen(p) ==
  /\ Alive(p)
  /\ \/ at[p] \in {"admitted", "start", "register"}
     \/ p \in unlisted /\ at[p] \in {"recv", "bridge", "wait", "unregister"}

Admit(p) ==
  /\ Go(p, "login", "admitted")
  /\ blind' = IF \E q \in Procs : Unseen(q) THEN blind \cup {p} ELSE blind
  /\ UNCHANGED unlisted

\* One more session than the limit is let in.
CheckLimit_one_more(p) ==
  /\ \/ /\ \E n \in Counts : MaxSessions > 0 /\ n > MaxSessions
        /\ Go(p, "login", "denied") /\ UNCHANGED history
     \/ (\E n \in Counts : ~(MaxSessions > 0 /\ n > MaxSessions)) /\ Admit(p)
  /\ UNCHANGED <<hostVars, timer, pending, daemon, registered>>

CheckLimit(p) ==
  /\ \/ /\ \E n \in Counts : MaxSessions > 0 /\ n >= MaxSessions
        /\ Go(p, "login", "denied") /\ UNCHANGED history
     \/ (\E n \in Counts : ~(MaxSessions > 0 /\ n >= MaxSessions)) /\ Admit(p)
  /\ UNCHANGED <<hostVars, timer, pending, daemon, registered>>

\* The config cannot be read, or the user is not in it, or is disabled, or has a bad bundle.
Deny(p) ==
  /\ Go(p, "login", "denied") \/ Go(p, "admitted", "denied")
  /\ UNCHANGED <<hostVars, timer, pending, daemon, registered, history>>

StartContainer(p) ==
  /\ Go(p, "admitted", "start")
  /\ Host!container_start(p)
  /\ UNCHANGED <<timer, pending, daemon, registered, history>>

\* container_start and, on failure, its error paths.
RunStart(p) ==
  /\ at[p] = "start"
  /\ Host!StartStep(p) \/ Host!session_disk_cleanup(p)
  /\ UNCHANGED <<at, timer, pending, daemon, registered, history>>

-----------------------------------------------------------------------------
(* The session *)

\* The -1 of a fork that failed is taken for a watchdog.
ForkWatchdog_minus_one(p) ==
  /\ pc[p] = "up"
  /\ Go(p, "start", "register")
  /\ timer' = [timer EXCEPT ![p] = IF p \in Timed THEN "minus_one" ELSE "none"]
  /\ UNCHANGED <<hostVars, pending, daemon, registered, history>>

\* The watchdog, which may also fail to fork.
ForkWatchdog(p) ==
  /\ pc[p] = "up"
  /\ Go(p, "start", "register")
  /\ \/ p \in Timed /\ timer' = [timer EXCEPT ![p] = "armed"]
     \/ UNCHANGED timer
  /\ UNCHANGED <<hostVars, pending, daemon, registered, history>>

\* caald_session_register.  The session goes on whether it is accepted, rejected because the
\* table is full, dropped, or cannot be asked for.
Register(p) ==
  /\ Go(p, "register", "recv")
  /\ \/ /\ daemon = "up" /\ Cardinality(registered) < Capacity
        /\ registered' = registered \cup {p} /\ UNCHANGED unlisted
     \/ unlisted' = unlisted \cup {p} /\ UNCHANGED registered
  /\ UNCHANGED <<hostVars, timer, pending, daemon, blind>>

\* pty_bridge_recv waits for crun, which connects from inside the container.
Connected(p) == child[p] \in {"running", "exited"}

pty_bridge_recv(p) ==
  /\ Go(p, "recv", "bridge")
  /\ Connected(p)
  /\ UNCHANGED <<hostVars, timer, pending, daemon, registered, history>>

\* accept() fails, or crun has closed the connection without passing a terminal: straight
\* to container_stop.  When crun never connects, accept() just waits.
RecvFails(p) ==
  /\ Go(p, "recv", "abort")
  /\ Host!container_stop(p)
  /\ UNCHANGED <<timer, pending, daemon, registered, history>>

\* The proxy loop ends when the container closes its terminal or the user's input ends.
BridgeEnds(p) ==
  /\ Go(p, "bridge", "wait")
  /\ UNCHANGED <<hostVars, timer, pending, daemon, registered, history>>

\* The watchdog is left running.
Reaped_keeping_timer(p) ==
  /\ Go(p, "wait", "unregister")
  /\ child[p] = "exited"
  /\ UNCHANGED <<hostVars, timer, pending, daemon, registered, history>>

\* waitpid returns and the watchdog is killed.
KillTimer(p) == timer' = [timer EXCEPT ![p] = IF @ = "armed" THEN "killed" ELSE @]

Reaped(p) ==
  /\ Go(p, "wait", "unregister")
  /\ child[p] = "exited"
  /\ KillTimer(p)
  /\ UNCHANGED <<hostVars, pending, daemon, registered, history>>

\* caald_session_unregister, whose result nobody looks at; then container_stop.  The request
\* is not served when a SIGHUP interrupts the daemon before it has read it.
Unregister_forgotten(p) ==
  /\ Go(p, "unregister", "stop")
  /\ Host!container_stop(p)
  /\ UNCHANGED <<timer, pending, daemon, registered, history>>

\* A daemon that is not there is waited for.
Unregister_waiting(p) ==
  /\ daemon = "up"
  /\ \/ Go(p, "unregister", "stop") /\ registered' = registered \ {p}
     \/ Go(p, "unregister", "unheard") /\ UNCHANGED registered
  /\ Host!container_stop(p)
  /\ UNCHANGED <<timer, pending, daemon, history>>

Unregister(p) ==
  /\ \/ Go(p, "unregister", "stop") /\ registered' = registered \ {p}
     \/ Go(p, "unregister", "unheard") /\ daemon = "up" /\ UNCHANGED registered
  /\ Host!container_stop(p)
  /\ UNCHANGED <<timer, pending, daemon, history>>

RunStop(p) ==
  /\ at[p] \in Stopping
  /\ Host!StopStep(p)
  /\ UNCHANGED <<at, timer, pending, daemon, registered, history>>

-----------------------------------------------------------------------------
(* Signals *)

\* SIGTERM and SIGHUP end the process until pty_bridge_run has armed its handlers.
DieOfSignal(p) ==
  /\ p \in pending
  /\ at[p] \in {"start", "register", "recv", "abort"}
  /\ Host!Killed(p)
  /\ pending' = pending \ {p}
  /\ UNCHANGED <<at, timer, daemon, registered, history>>

\* The flag is set and nobody looks at it.
on_term_unheeded(p) ==
  /\ p \in pending /\ p \notin dead
  /\ at[p] \in {"bridge", "wait", "unregister", "stop", "unheard"}
  /\ pending' = pending \ {p}
  /\ UNCHANGED <<hostVars, at, timer, daemon, registered, history>>

\* on_term: the proxy loop ends, waitpid returns early; elsewhere the flag is not looked at,
\* nor when the signal comes just before waitpid.
on_term(p) ==
  /\ p \in pending
  /\ \/ Go(p, "bridge", "wait")   /\ UNCHANGED timer
     \/ Go(p, "wait", "unregister") /\ KillTimer(p)
     \/ /\ p \notin dead /\ at[p] \in {"wait", "unregister", "stop", "unheard"}
        /\ UNCHANGED <<at, timer>>
  /\ pending' = pending \ {p}
  /\ UNCHANGED <<hostVars, daemon, registered, history>>

\* The window is resized: nothing, except to a waitpid.
on_winch(p) ==
  /\ Go(p, "wait", "unregister")
  /\ KillTimer(p)
  /\ UNCHANGED <<hostVars, pending, daemon, registered, history>>

\* A write to the daemon after it has closed the connection, or to the user who has gone,
\* also just before container_stop: nothing handles SIGPIPE.
DieOfSigpipe(p) ==
  /\ \/ at[p] \in {"register", "recv", "bridge", "unregister"}
     \/ at[p] \in {"stop", "unheard"} /\ pc[p] = "stop"
  /\ Host!Killed(p)
  /\ UNCHANGED <<at, timer, pending, daemon, registered, history>>

\* kill() of one that is no longer there does nothing.
Signal(S) == pending' = pending \cup {p \in S : Alive(p)}

Fires(p) ==
  /\ timer[p] = "armed"
  /\ timer' = [timer EXCEPT ![p] = "fired"]
  /\ Signal({p})
  /\ UNCHANGED <<hostVars, at, daemon, registered, history>>

\* sshd hangs up.
HangUp(p) ==
  /\ Alive(p) /\ pc[p] # "idle"
  /\ Signal({p})
  /\ UNCHANGED <<hostVars, at, timer, daemon, registered, history>>

-----------------------------------------------------------------------------
(* caalctl, the daemon's life, and the containers *)

\* caalctl kill and killuser: the sessions are signalled and taken off the table at once.
Kill(S) ==
  /\ daemon = "up" /\ S # {} /\ S \subseteq registered
  /\ registered' = registered \ S
  /\ unlisted' = unlisted \cup S
  /\ Signal(S)
  /\ UNCHANGED <<hostVars, at, timer, daemon, blind>>

DaemonStops ==
  /\ daemon = "up" /\ daemon' = "down"
  /\ registered' = {}
  /\ unlisted' = unlisted \cup registered
  /\ UNCHANGED <<hostVars, at, timer, pending, blind>>

DaemonStarts ==
  /\ daemon = "down" /\ daemon' = "up"
  /\ UNCHANGED <<hostVars, at, timer, pending, registered, history>>

Crun(p) == Host!Crun(p) /\ UNCHANGED <<at, timer, pending, daemon, registered, history>>

-----------------------------------------------------------------------------

\* What the code of one caalsh does when it is given the processor.
Step(p) ==
  \/ RunStart(p) \/ ForkWatchdog(p) \/ Register(p) \/ pty_bridge_recv(p) \/ Reaped(p)
  \/ Unregister(p) \/ RunStop(p)

\* A signal is delivered.
Heed(p) == DieOfSignal(p) \/ on_term(p)

Outside(p) ==
  \/ CheckLimit(p) \/ Deny(p) \/ StartContainer(p) \/ RecvFails(p) \/ BridgeEnds(p)
  \/ on_winch(p) \/ DieOfSigpipe(p) \/ Fires(p) \/ HangUp(p) \/ Crun(p)

Next ==
  \/ \E p \in Procs : Step(p) \/ Heed(p) \/ Outside(p)
  \/ \E S \in SUBSET Procs : Kill(S)
  \/ DaemonStops \/ DaemonStarts

Spec == Init /\ [][Next]_vars

\* Each caalsh is scheduled, also between its signals, and gets those, and a watchdog's sleep
\* ends; nothing is assumed of users, of the daemon or of what runs in the containers.
FairSpec ==
  /\ Spec
  /\ \A p \in Procs : WF_vars(Step(p)) /\ WF_vars(Heed(p)) /\ WF_vars(Fires(p))

-----------------------------------------------------------------------------
(* Properties *)

(***************************************************************************)
(* A session whose request to unregister was served is off the daemon's    *)
(* table for good, however it ends after that: the entries of processes    *)
(* that are gone are only those of logins that died of a signal before     *)
(* they unregistered, failed in pty_bridge_recv or were not heard          *)
(* (caalsh.c:216-246).                                                     *)
(***************************************************************************)
StaleEntriesExplained ==
  \A p \in registered : at[p] \in {"recv", "bridge", "wait", "unregister", "abort", "unheard"}

(***************************************************************************)
(* A session that ends by itself or by a signal to its bridge has done     *)
(* away with its watchdog before it unregisters and tears the container    *)
(* down, so that no late SIGTERM cuts that short or goes to another        *)
(* process of the same number (caalsh.c:235-246).                          *)
(***************************************************************************)
WatchdogGone ==
  \A p \in Procs : at[p] \in {"unregister", "stop", "unheard"} => timer[p] # "armed"

(***************************************************************************)
(* A signalled session leaves its terminal bridge, or dies: caalctl kill,  *)
(* an expired timeout and a hang-up always get through to the process      *)
(* (pty_bridge.c:35-42, 123-125, 148-155).                                 *)
(***************************************************************************)
SignalsGetThrough ==
  \A p \in Procs : p \in pending ~>
    ~Alive(p) \/ at[p] \in Stopping \cup {"wait", "unregister"}

(***************************************************************************)
(* "max simultaneous sessions across all users" (README.md:191), "so       *)
(* max_sessions is enforced reliably" (README.md:92).                      *)
(***************************************************************************)
InSession(p) ==
  Alive(p) /\ at[p] \in {"register", "recv", "bridge", "wait", "unregister"}

SessionLimit == MaxSessions > 0 => Cardinality({p \in Procs : InSession(p)}) <= MaxSessions

(***************************************************************************)
(* What the check of max_sessions does promise: only logins that were let  *)
(* in while another was between its own check and its registration, or in  *)
(* a session that the daemon had refused, lost or been told to kill, can   *)
(* be in session beyond the limit, whichever count was taken, and however  *)
(* sessions die, end and are replaced (caalsh.c:35-72, 112-116, 216-221).  *)
(***************************************************************************)
OnlyBlindExceed ==
  MaxSessions > 0 => Cardinality({p \in Procs : InSession(p) /\ p \notin blind}) <= MaxSessions

(***************************************************************************)
(* An expired timeout takes the container down: from the SIGTERM through   *)
(* the bridge, the requests to the daemon and container_stop, whatever     *)
(* becomes of the daemon meanwhile.  Not so when caalsh has died, waits    *)
(* for the container's process once its bridge has ended, or could not     *)
(* run crun, whereas "timeout is enforced via SIGKILL - the container is   *)
(* forcibly terminated when it expires" (README.md:203; caalsh.c:205-246). *)
(***************************************************************************)
TimeoutEndsContainer ==
  \A p \in Procs : timer[p] = "fired" ~>
    child[p] # "running" \/ p \in dead \/ at[p] = "wait" \/ p \in helperFailed

=============================================================================
