----------------------------- MODULE Caalsh_proof -----------------------------
(***************************************************************************)
(* Proofs about logins: what becomes of the daemon's table, of the         *)
(* watchdogs and of the limit, and that what Container_proof proves of the *)
(* host is true of every run of caalsh.                                    *)
(***************************************************************************)
EXTENDS Caalsh, FiniteSetTheorems, TLAPS

\* Each step of main() is a step of container_start or container_stop, or does not touch
\* the host (caalsh.c:198-246).
LEMMA StepOnHost ==
  ASSUME NEW p \in Procs, Step(p) \/ Heed(p)
  PROVE  Host!Next \/ UNCHANGED hostVars
<1>1. CASE RunStart(p)
  BY <1>1 DEF RunStart, Host!Next, Host!StopStep
<1>2. CASE ForkWatchdog(p) \/ Register(p) \/ pty_bridge_recv(p) \/ Reaped(p) \/ on_term(p)
  BY <1>2 DEF ForkWatchdog, Register, pty_bridge_recv, Reaped, on_term
<1>3. CASE Unregister(p)
  BY <1>3 DEF Unregister, Host!Next
<1>4. CASE RunStop(p)
  BY <1>4 DEF RunStop, Host!Next
<1>5. CASE DieOfSignal(p)
  BY <1>5 DEF DieOfSignal, Host!Next
<1> QED
  BY <1>1, <1>2, <1>3, <1>4, <1>5 DEF Step, Heed

\* Nor does what happens around it do anything else to the host.
LEMMA OutsideOnHost ==
  ASSUME NEW p \in Procs, Outside(p)
  PROVE  Host!Next \/ UNCHANGED hostVars
<1>1. CASE CheckLimit(p) \/ Deny(p) \/ BridgeEnds(p) \/ on_winch(p) \/ Fires(p) \/ HangUp(p)
  BY <1>1 DEF CheckLimit, Admit, Deny, BridgeEnds, on_winch, Fires, HangUp
<1>2. CASE StartContainer(p) \/ RecvFails(p)
  BY <1>2 DEF StartContainer, RecvFails, Host!Next
<1>3. CASE DieOfSigpipe(p) \/ Crun(p)
  BY <1>3 DEF DieOfSigpipe, Crun, Host!Next
<1> QED
  BY <1>1, <1>2, <1>3 DEF Outside

\* So every run of logins is, on the host, a run of Container.
LEMMA LoginsOnHost == Spec => Host!Spec
<1>1. Init => Host!Init
  BY DEF Init
<1>2. [Next]_vars => [Host!Next]_hostVars
  <2> SUFFICES ASSUME [Next]_vars PROVE Host!Next \/ UNCHANGED hostVars
    OBVIOUS
  <2>1. CASE \E S \in SUBSET Procs : Kill(S)
    BY <2>1 DEF Kill
  <2>2. CASE DaemonStops \/ DaemonStarts
    BY <2>2 DEF DaemonStops, DaemonStarts
  <2>3. CASE UNCHANGED vars
    BY <2>3 DEF vars
  <2> QED
    BY <2>1, <2>2, <2>3, StepOnHost, OutsideOnHost DEF Next
<1>3. [Host!Next]_hostVars <=> [Host!Next]_(Host!hostVars)
  BY DEF hostVars, Host!hostVars
<1> QED
  BY <1>1, <1>2, <1>3, PTL DEF Spec, Host!Spec

-----------------------------------------------------------------------------
(* Types, the daemon's table and the watchdogs *)

MainTypeOK ==
  /\ at \in [Procs -> Places]
  /\ timer \in [Procs -> {"none", "armed", "fired", "killed"}]
  /\ pending \in SUBSET Procs
  /\ daemon \in {"up", "down"}
  /\ registered \in SUBSET Procs
  /\ unlisted \in SUBSET Procs
  /\ blind \in SUBSET Procs
  /\ pc \in [Procs -> Host!Pcs]
  /\ dead \in SUBSET Procs

(***************************************************************************)
(* Of one process: main() and the host go together (it is at "up" between  *)
(* the two calls, and past container_stop only where main() has called     *)
(* that), its entry is explained and its watchdog is gone.                 *)
(***************************************************************************)
ProcInv(p) ==
  /\ at[p] \in {"login", "admitted", "denied"} => pc[p] = "idle" /\ p \notin dead
  /\ at[p] \in {"register", "recv", "bridge", "wait", "unregister"} => pc[p] = "up"
  /\ at[p] \in Stopping => pc[p] \in {"stop", "stop_disk", "stop_crun", "exited"}
  /\ p \in registered =>
       at[p] \in {"recv", "bridge", "wait", "unregister", "abort", "unheard"}
  /\ at[p] \in {"unregister", "stop", "unheard"} => timer[p] # "armed"

\* The inductive invariant.
MainInv == MainTypeOK /\ \A p \in Procs : ProcInv(p)

\* Nobody has logged in.
LEMMA InitMain == Init => MainInv
BY DEF Init, Host!Init, Host!Pcs, MainInv, MainTypeOK, ProcInv, Places, Stopping

\* What the steps of the host do to a process: they move it within container_start or
\* container_stop, or into one of them.
LEMMA HostMoves ==
  ASSUME NEW p \in Procs
  PROVE  /\ Host!container_start(p) => /\ pc[p] = "idle" /\ p \notin dead /\ dead' = dead
                                       /\ pc' = [pc EXCEPT ![p] = "mkdir"]
         /\ Host!container_stop(p) => /\ pc[p] = "up" /\ p \notin dead /\ dead' = dead
                                      /\ pc' = [pc EXCEPT ![p] = "stop"]
         /\ Host!Killed(p) => pc' = pc /\ pc[p] \in Host!LivePcs /\ dead' = dead \cup {p}
         /\ Host!Crun(p) => pc' = pc /\ dead' = dead
BY DEF Host!container_start, Host!container_stop, Host!Killed, Host!Crun, Host!CrunStart,
       Host!CrunEnds, Host!Go

\* A process that nothing happens to keeps its invariant; its entry may go.
LEMMA OthersKept ==
  ASSUME NEW q \in Procs, ProcInv(q), pc'[q] = pc[q], at'[q] = at[q],
         timer'[q] = timer[q] \/ timer'[q] # "armed",
         q \in registered' => q \in registered, q \in dead' <=> q \in dead
  PROVE  ProcInv(q)'
BY DEF ProcInv, Stopping

\* The steps of main() up to the bridge (caalsh.c:106-231).
LEMMA EarlyStep ==
  ASSUME MainInv, NEW p \in Procs,
         CheckLimit(p) \/ Deny(p) \/ StartContainer(p) \/ ForkWatchdog(p) \/ Register(p)
           \/ pty_bridge_recv(p) \/ RecvFails(p)
  PROVE  MainInv'
<1> USE DEF MainInv, MainTypeOK, Go, hostVars, history
<1>1. "mkdir" \in Host!Pcs /\ "stop" \in Host!Pcs
  BY DEF Host!Pcs, Host!LivePcs, Host!StartPcs, Host!StopPcs
<1>2. ProcInv(p)
  OBVIOUS
<1>3. CASE CheckLimit(p) \/ Deny(p)
  <2>1. MainTypeOK' /\ UNCHANGED <<pc, dead, timer, registered>> /\ p \notin dead
        /\ at[p] \in {"login", "admitted"} /\ at'[p] \in {"admitted", "denied"}
        /\ \A q \in Procs \ {p} : at'[q] = at[q]
    BY <1>3 DEF CheckLimit, Admit, Deny, Places
  <2>2. ProcInv(p)'
    BY <1>2, <2>1 DEF ProcInv, Stopping
  <2> QED
    BY <2>1, <2>2, OthersKept
<1>4. CASE StartContainer(p)
  <2>1. MainTypeOK' /\ UNCHANGED <<dead, timer, registered>> /\ p \notin dead
        /\ at[p] = "admitted" /\ at'[p] = "start"
        /\ \A q \in Procs \ {p} : at'[q] = at[q] /\ pc'[q] = pc[q]
    BY <1>1, <1>4, HostMoves DEF StartContainer, Places
  <2>2. ProcInv(p)'
    BY <1>2, <2>1 DEF ProcInv, Stopping
  <2> QED
    BY <2>1, <2>2, OthersKept
<1>5. CASE ForkWatchdog(p)
  <2>1. MainTypeOK' /\ UNCHANGED <<pc, dead, registered>> /\ p \notin dead /\ pc[p] = "up"
        /\ at[p] = "start" /\ at'[p] = "register"
        /\ \A q \in Procs \ {p} : at'[q] = at[q] /\ timer'[q] = timer[q]
    BY <1>5 DEF ForkWatchdog, Places
  <2>2. ProcInv(p)'
    BY <1>2, <2>1 DEF ProcInv, Stopping
  <2> QED
    BY <2>1, <2>2, OthersKept
<1>6. CASE Register(p) \/ pty_bridge_recv(p)
  <2>1. MainTypeOK' /\ UNCHANGED <<pc, dead, timer>> /\ p \notin dead
        /\ at[p] \in {"register", "recv"} /\ at'[p] \in {"recv", "bridge"}
        /\ \A q \in Procs \ {p} : at'[q] = at[q] /\ (q \in registered' <=> q \in registered)
    BY <1>6 DEF Register, pty_bridge_recv, Places
  <2>2. ProcInv(p)'
    BY <1>2, <2>1 DEF ProcInv, Stopping
  <2> QED
    BY <2>1, <2>2, OthersKept
<1>7. CASE RecvFails(p)
  <2>1. MainTypeOK' /\ UNCHANGED <<dead, timer, registered>> /\ p \notin dead
        /\ at[p] = "recv" /\ at'[p] = "abort" /\ pc'[p] = "stop"
        /\ \A q \in Procs \ {p} : at'[q] = at[q] /\ pc'[q] = pc[q]
    BY <1>1, <1>7, HostMoves DEF RecvFails, Places
  <2>2. ProcInv(p)'
    BY <1>2, <2>1 DEF ProcInv, Stopping
  <2> QED
    BY <2>1, <2>2, OthersKept
<1> QED
  BY <1>3, <1>4, <1>5, <1>6, <1>7

\* The steps of main() from the bridge on, and the handlers (caalsh.c:233-246,
\* pty_bridge.c:25-42, 141-179).
LEMMA LateStep ==
  ASSUME MainInv, NEW p \in Procs,
         BridgeEnds(p) \/ Reaped(p) \/ Unregister(p) \/ on_term(p) \/ on_winch(p)
  PROVE  MainInv'
<1> USE DEF MainInv, MainTypeOK, Go, hostVars, history
<1>1. ProcInv(p)
  OBVIOUS
<1>2. CASE Unregister(p)
  <2>1. MainTypeOK' /\ UNCHANGED <<dead, timer>> /\ p \notin dead
        /\ at[p] = "unregister" /\ pc'[p] = "stop"
        /\ \A q \in Procs \ {p} : at'[q] = at[q] /\ pc'[q] = pc[q] /\ (q \in registered' <=> q \in registered)
    <3>1. "stop" \in Host!Pcs
      BY DEF Host!Pcs, Host!LivePcs, Host!StopPcs
    <3> QED
      BY <1>2, <3>1, HostMoves DEF Unregister, Places
  <2>2. \/ at'[p] = "stop" /\ p \notin registered'
        \/ at'[p] = "unheard"
    BY <1>2 DEF Unregister
  <2>3. ProcInv(p)'
    BY <1>1, <2>1, <2>2 DEF ProcInv, Stopping
  <2> QED
    BY <2>1, <2>3, OthersKept
<1>3. CASE BridgeEnds(p) \/ Reaped(p) \/ on_term(p) \/ on_winch(p)
  <2>1. /\ MainTypeOK' /\ UNCHANGED <<pc, dead, registered>>
        /\ \A q \in Procs \ {p} : at'[q] = at[q] /\ timer'[q] = timer[q]
    BY <1>3 DEF BridgeEnds, Reaped, on_term, on_winch, KillTimer, Places
  <2>2. \/ at'[p] = at[p] /\ timer'[p] = timer[p]
        \/ at[p] = "bridge" /\ at'[p] = "wait"
        \/ at[p] = "wait" /\ at'[p] = "unregister" /\ timer'[p] # "armed"
    BY <1>3 DEF BridgeEnds, Reaped, on_term, on_winch, KillTimer
  <2>3. ProcInv(p)'
    BY <1>1, <2>1, <2>2 DEF ProcInv, Stopping
  <2> QED
    BY <2>1, <2>3, OthersKept
<1> QED
  BY <1>2, <1>3

\* The steps inside container_start and container_stop (container.c:55-129).
LEMMA HostStep ==
  ASSUME MainInv, NEW p \in Procs, RunStart(p) \/ RunStop(p)
  PROVE  MainInv'
<1> USE DEF MainInv, MainTypeOK, history
<1>1. ProcInv(p)
  OBVIOUS
<1>2. PICK to \in Host!Pcs : pc' = [pc EXCEPT ![p] = to] /\ dead' = dead
  BY DEF RunStart, RunStop, Host!StartStep, Host!StopStep, Host!session_disk_setup, Host!MountOverlay,
     Host!pty_bridge_init, Host!ForkCrun, Host!err_sock, Host!err_mounted, Host!StopUnmount,
     Host!session_disk_cleanup, Host!crun_delete, Host!Go, Host!Pcs, Host!LivePcs, Host!StartPcs,
     Host!ErrPcs, Host!StopPcs
<1>3. MainTypeOK' /\ UNCHANGED <<at, timer, registered>>
  BY <1>2 DEF RunStart, RunStop
<1>4. \/ at[p] = "start"
      \/ at[p] \in Stopping /\ pc'[p] \in {"stop_disk", "stop_crun", "exited"}
  <2>1. CASE RunStop(p)
    BY <1>1, <2>1 DEF RunStop, ProcInv, Host!StopStep, Host!StopUnmount, Host!session_disk_cleanup,
       Host!crun_delete, Host!Go
  <2> QED
    BY <2>1 DEF RunStart
<1>5. ProcInv(p)'
  BY <1>1, <1>2, <1>3, <1>4 DEF ProcInv, Stopping
<1> QED
  BY <1>2, <1>3, <1>5, OthersKept

\* Deaths, signals and containers (caalsh.c:208-213, caald.c:288).
LEMMA SignalStep ==
  ASSUME MainInv, NEW p \in Procs,
         DieOfSignal(p) \/ DieOfSigpipe(p) \/ Fires(p) \/ HangUp(p) \/ Crun(p)
  PROVE  MainInv'
<1> USE DEF MainInv, MainTypeOK, history
<1>1. ProcInv(p)
  OBVIOUS
<1>2. CASE DieOfSignal(p) \/ DieOfSigpipe(p)
  <2>1. pc' = pc /\ dead' = dead \cup {p} /\ at[p] \notin {"login", "admitted", "denied"}
    BY <1>2, HostMoves DEF DieOfSignal, DieOfSigpipe
  <2>2. MainTypeOK' /\ UNCHANGED <<at, timer, registered>>
    BY <1>2, <2>1 DEF DieOfSignal, DieOfSigpipe
  <2>3. ProcInv(p)'
    BY <1>1, <2>1, <2>2 DEF ProcInv, Stopping
  <2> QED
    BY <2>1, <2>2, <2>3, OthersKept
<1>3. CASE Fires(p) \/ HangUp(p) \/ Crun(p)
  <2>1. MainTypeOK' /\ UNCHANGED <<pc, dead, at, registered>>
    BY <1>3, HostMoves DEF Fires, HangUp, Crun, Signal, hostVars
  <2>2. \A q \in Procs : timer'[q] = timer[q] \/ timer'[q] # "armed"
    BY <1>3 DEF Fires, HangUp, Crun
  <2> QED
    BY <2>1, <2>2, OthersKept
<1> QED
  BY <1>2, <1>3

\* caalctl and the daemon only take entries away (caald.c:288-320).
LEMMA DaemonStep ==
  ASSUME MainInv, (\E S \in SUBSET Procs : Kill(S)) \/ DaemonStops \/ DaemonStarts \/ UNCHANGED vars
  PROVE  MainInv'
<1> USE DEF MainInv, MainTypeOK, hostVars, history
<1>1. MainTypeOK' /\ UNCHANGED <<pc, dead, at, timer>> /\ registered' \subseteq registered
  BY DEF Kill, DaemonStops, DaemonStarts, vars, Signal
<1> QED
  BY <1>1, OthersKept

\* Every state that logins, signals, the daemon and caalctl reach satisfies the invariant.
LEMMA MainInvariant == Spec => []MainInv
<1>1. MainInv /\ [Next]_vars => MainInv'
  BY EarlyStep, LateStep, HostStep, SignalStep, DaemonStep DEF Next, Step, Heed, Outside
<1> QED
  BY <1>1, InitMain, PTL DEF Spec

\* Entries of the daemon's table that outlive their login are those of logins that died of a
\* signal before they unregistered, failed in pty_bridge_recv or were not heard (caalsh.c:216-246).
THEOREM EntriesExplained == Spec => []StaleEntriesExplained
<1>1. MainInv => StaleEntriesExplained
  BY DEF MainInv, MainTypeOK, ProcInv, StaleEntriesExplained
<1> QED
  BY <1>1, MainInvariant, PTL

\* No watchdog fires into the teardown of its session (caalsh.c:235-246).
THEOREM NoLateWatchdog == Spec => []WatchdogGone
<1>1. MainInv => WatchdogGone
  BY DEF MainInv, ProcInv, WatchdogGone
<1> QED
  BY <1>1, MainInvariant, PTL

-----------------------------------------------------------------------------
(* What Container_proof says of the host, said of logins *)

HostProof == INSTANCE Container_proof

\* The constants are as Container wants them.
LEMMA HostConstants ==
  HostProof!ProcsAssumption /\ HostProof!BundleAssumption /\ HostProof!DepthAssumption
BY HostAssumption
   DEF HostProof!ProcsAssumption, HostProof!BundleAssumption, HostProof!DepthAssumption,
       IsFiniteSet, HostProof!IsFiniteSet

\* The two instances of Container take the same steps.
LEMMA SameNext == Host!Next <=> HostProof!Next
<1> USE DEF Host!Go, HostProof!Go, Host!Make, HostProof!Make, Host!Unmake, HostProof!Unmake,
         Host!overlayVars, HostProof!overlayVars, Host!crunVars, HostProof!crunVars
<1>1. ASSUME NEW p \in Procs
      PROVE  /\ Host!container_start(p) <=> HostProof!container_start(p)
             /\ Host!container_stop(p) <=> HostProof!container_stop(p)
             /\ Host!Crun(p) <=> HostProof!Crun(p)
             /\ Host!Killed(p) <=> HostProof!Killed(p)
  BY DEF Host!container_start, HostProof!container_start, Host!container_stop,
         HostProof!container_stop, Host!Crun, HostProof!Crun, Host!CrunStart,
         HostProof!CrunStart, Host!CrunEnds, HostProof!CrunEnds, Host!Killed, HostProof!Killed,
         Host!Visible, HostProof!Visible, Host!Last, HostProof!Last, Host!PartialDisks,
         HostProof!PartialDisks, Host!LivePcs, HostProof!LivePcs, Host!StartPcs,
         HostProof!StartPcs, Host!ErrPcs, HostProof!ErrPcs, Host!StopPcs, HostProof!StopPcs
<1>2. ASSUME NEW p \in Procs PROVE Host!MountOverlay(p) <=> HostProof!MountOverlay(p)
  BY DEF Host!MountOverlay, HostProof!MountOverlay, Host!Visible, HostProof!Visible, Host!Last,
         HostProof!Last
<1>3. ASSUME NEW p \in Procs
      PROVE  /\ Host!session_disk_setup(p) <=> HostProof!session_disk_setup(p)
             /\ Host!pty_bridge_init(p) <=> HostProof!pty_bridge_init(p)
             /\ Host!ForkCrun(p) <=> HostProof!ForkCrun(p)
             /\ Host!err_sock(p) <=> HostProof!err_sock(p)
             /\ Host!err_mounted(p) <=> HostProof!err_mounted(p)
  BY DEF Host!session_disk_setup, HostProof!session_disk_setup, Host!pty_bridge_init,
         HostProof!pty_bridge_init, Host!ForkCrun, HostProof!ForkCrun, Host!err_sock,
         HostProof!err_sock, Host!err_mounted, HostProof!err_mounted, Host!Umount,
         HostProof!Umount, Host!Front, HostProof!Front, Host!PartialDisks, HostProof!PartialDisks
<1>4. ASSUME NEW p \in Procs PROVE Host!StopStep(p) <=> HostProof!StopStep(p)
  BY DEF Host!StopStep, HostProof!StopStep, Host!StopUnmount, HostProof!StopUnmount,
         Host!session_disk_cleanup, HostProof!session_disk_cleanup, Host!crun_delete,
         HostProof!crun_delete, Host!Umount, HostProof!Umount, Host!Front, HostProof!Front
<1>5. ASSUME NEW p \in Procs PROVE Host!StartStep(p) <=> HostProof!StartStep(p)
  BY <1>2, <1>3 DEF Host!StartStep, HostProof!StartStep
<1> QED
  BY <1>1, <1>4, <1>5 DEF Host!Next, HostProof!Next

\* Logins are behaviours of the Container that Container_proof is about.
LEMMA LoginsAreHostRuns == Spec => HostProof!Spec
<1>1. Host!Init <=> HostProof!Init
  BY DEF Host!Init, HostProof!Init
<1>2. [Host!Next]_(Host!hostVars) <=> [HostProof!Next]_(HostProof!hostVars)
  BY SameNext DEF Host!hostVars, HostProof!hostVars
<1> QED
  BY <1>1, <1>2, LoginsOnHost, PTL DEF Host!Spec, HostProof!Spec

\* Every variable of the logins keeps its type, the host's included.
THEOREM TypeCorrect == Spec => []TypeOK
<1>1. HostProof!TypeOK <=> Host!TypeOK
  BY DEF Host!TypeOK, HostProof!TypeOK, Host!Pcs, HostProof!Pcs, Host!LivePcs, HostProof!LivePcs,
         Host!StartPcs, HostProof!StartPcs, Host!ErrPcs, HostProof!ErrPcs, Host!StopPcs,
         HostProof!StopPcs, Host!Resources, HostProof!Resources, Host!ChildStates,
         HostProof!ChildStates
<1>2. HostProof!Spec => []HostProof!TypeOK
  BY HostConstants, HostProof!TypeCorrect
<1>3. Host!TypeOK /\ MainInv => TypeOK
  BY DEF MainInv, MainTypeOK, TypeOK
<1> QED
  BY <1>1, <1>2, <1>3, LoginsAreHostRuns, MainInvariant, PTL

\* However many users log in, are signalled, time out or hang up, no container runs on the
\* bare rootfs of its bundle (README.md:27, caalsh.c:190-247).
THEOREM LoginsKeepBase == Spec => []Host!BaseUntouched
<1>1. HostProof!BaseUntouched <=> Host!BaseUntouched
  BY DEF HostProof!BaseUntouched, Host!BaseUntouched
<1>2. HostProof!Spec => []HostProof!BaseUntouched
  BY HostConstants, HostProof!BaseNeverTouched
<1> QED
  BY <1>1, <1>2, LoginsAreHostRuns, PTL

-----------------------------------------------------------------------------
(* The limit *)

Seated == {"recv", "bridge", "wait", "unregister"}

\* A login that has been let in and has not ended.
Inside(p) == Alive(p) /\ at[p] \in {"admitted", "start", "register"} \cup Seated

\* One that has tried to register is in the table, or was refused or taken off there.
Listed(p) == Inside(p) /\ at[p] \in Seated => p \in registered \cup unlisted

Sighted == {p \in Procs : Inside(p) /\ p \notin blind}

(***************************************************************************)
(* The inductive invariant of the limit: what the table lacks is known,    *)
(* and the logins that knew of all the others are within the limit from    *)
(* the moment they are let in.                                             *)
(***************************************************************************)
LimitInv ==
  /\ \A p \in Procs : Listed(p)
  /\ MaxSessions > 0 => Cardinality(Sighted) <= MaxSessions

\* Sets of logins can be counted.
LEMMA LoginsFinite ==
  ASSUME NEW S \in SUBSET Procs
  PROVE  IsFiniteSet(S) /\ Cardinality(S) \in Nat
BY HostAssumption, FS_Subset, FS_CardinalityType

\* Fewer logins, or better-informed ones only, are within the limit too.
LEMMA FewerSighted ==
  ASSUME LimitInv, \A q \in Procs : (Inside(q)' => Inside(q)) /\ Listed(q)', blind' = blind
  PROVE  LimitInv'
<1>1. Sighted' \subseteq Sighted
  BY DEF Sighted
<1>2. Sighted \in SUBSET Procs /\ Sighted' \in SUBSET Procs
  BY DEF Sighted
<1>3. Cardinality(Sighted') <= Cardinality(Sighted)
  BY <1>1, <1>2, LoginsFinite, FS_Subset
<1>4. Cardinality(Sighted') \in Nat /\ Cardinality(Sighted) \in Nat
  BY <1>2, LoginsFinite
<1> QED
  BY <1>3, <1>4, LimitAssumption DEF LimitInv

\* A process that stays where it is, dies or ends does not upset it.
LEMMA StaysInside ==
  ASSUME NEW q \in Procs, Listed(q), at'[q] = at[q],
         pc'[q] = pc[q] \/ pc[q] \notin {"failed", "exited"}, q \in dead => q \in dead',
         q \in registered \cup unlisted => q \in registered' \cup unlisted'
  PROVE  (Inside(q)' => Inside(q)) /\ Listed(q)'
BY DEF Listed, Inside, Alive, Seated

\* The check: a login that is let in with all the others in the table has counted them
\* (caalsh.c:35-72, 112).
LEMMA CheckKeepsLimit ==
  ASSUME MainInv, LimitInv, \A q \in Procs : pc[q] = "up" => "dir" \in made[q],
         NEW p \in Procs, CheckLimit(p)
  PROVE  LimitInv'
<1> USE DEF MainInv, MainTypeOK, hostVars
<1>1. /\ UNCHANGED <<pc, dead, registered, unlisted>> /\ at[p] = "login" /\ p \notin dead
      /\ at' \in [Procs -> Places] /\ at'[p] \in {"denied", "admitted"}
      /\ \A q \in Procs \ {p} : at'[q] = at[q]
  BY DEF CheckLimit, Admit, Go, Places, history
<1>2. \A q \in Procs : Listed(q)'
  BY <1>1 DEF LimitInv, Listed, Inside, Alive, Seated
<1>3. \A q \in Procs \ {p} : Inside(q)' <=> Inside(q)
  BY <1>1 DEF Inside, Alive
<1>4. Sighted \in SUBSET Procs /\ Sighted' \in SUBSET Procs
  BY DEF Sighted
<1>5. ASSUME Sighted' \subseteq Sighted PROVE LimitInv'
  <2>1. Cardinality(Sighted') <= Cardinality(Sighted)
    BY <1>4, <1>5, LoginsFinite, FS_Subset
  <2>2. Cardinality(Sighted') \in Nat /\ Cardinality(Sighted) \in Nat
    BY <1>4, LoginsFinite
  <2> QED
    BY <1>2, <2>1, <2>2, LimitAssumption DEF LimitInv
<1>6. CASE at'[p] = "denied"
  <2>1. blind' = blind /\ ~Inside(p)'
    BY <1>6 DEF CheckLimit, Admit, Go, history, Inside, Alive
  <2>2. Sighted' \subseteq Sighted
    BY <1>3, <2>1 DEF Sighted
  <2> QED
    BY <1>5, <2>2
<1>7. CASE Admit(p) /\ \E q \in Procs : Unseen(q)
  <2>1. blind' = blind \cup {p}
    BY <1>7 DEF Admit
  <2>2. Sighted' \subseteq Sighted
    BY <1>3, <2>1 DEF Sighted
  <2> QED
    BY <1>5, <2>2
<1>8. CASE /\ Admit(p) /\ ~\E q \in Procs : Unseen(q)
           /\ \E n \in Counts : ~(MaxSessions > 0 /\ n >= MaxSessions)
  <2>1. blind' = blind
    BY <1>8 DEF Admit
  <2>2. \A q \in Procs : Inside(q) => q \in registered /\ "dir" \in made[q]
    <3> SUFFICES ASSUME NEW q \in Procs, Inside(q) PROVE q \in registered /\ "dir" \in made[q]
      OBVIOUS
    <3>1. ~Unseen(q) /\ Listed(q) /\ ProcInv(q)
      BY <1>8 DEF LimitInv
    <3>2. at[q] \in Seated /\ q \in registered
      BY <3>1 DEF Unseen, Inside, Listed, Seated
    <3> QED
      BY <3>1, <3>2 DEF ProcInv, Seated
  <2>3. PICK n \in Counts : ~(MaxSessions > 0 /\ n >= MaxSessions)
    BY <1>8
  <2>4. PICK C \in SUBSET Procs : n = Cardinality(C) /\ Sighted \subseteq C
    BY <2>2, <2>3 DEF Counts, Sighted
  <2>5. Cardinality(Sighted) <= n /\ Cardinality(Sighted) \in Nat /\ n \in Nat
    BY <1>4, <2>4, LoginsFinite, FS_Subset
  <2>6. p \notin Sighted /\ Sighted' \subseteq Sighted \cup {p}
    BY <1>1, <1>3, <2>1 DEF Sighted, Inside, Seated
  <2>7. Cardinality(Sighted \cup {p}) = Cardinality(Sighted) + 1
    BY <1>4, <2>6, LoginsFinite, FS_AddElement
  <2>8. Cardinality(Sighted') <= Cardinality(Sighted \cup {p})
    BY <1>4, <2>6, LoginsFinite, FS_Subset
  <2>9. Cardinality(Sighted') \in Nat
    BY <1>4, LoginsFinite
  <2>10. MaxSessions > 0 => Cardinality(Sighted') <= MaxSessions
    BY <2>3, <2>5, <2>7, <2>8, <2>9, LimitAssumption
  <2> QED
    BY <1>2, <2>10 DEF LimitInv
<1>9. \/ at'[p] = "denied"
      \/ Admit(p) /\ \E n \in Counts : ~(MaxSessions > 0 /\ n >= MaxSessions)
  BY DEF CheckLimit, Go
<1> QED
  BY <1>6, <1>7, <1>8, <1>9

\* Of every other step: it lets nobody in, and takes nobody off the table unawares.
LEMMA OthersKeepLimit ==
  ASSUME MainInv, LimitInv, [Next]_vars, ~\E p \in Procs : CheckLimit(p)
  PROVE  LimitInv'
<1> USE DEF MainInv, MainTypeOK, hostVars, history
<1>1. \A q \in Procs : Listed(q) /\ ProcInv(q)
  BY DEF LimitInv
<1>2. ASSUME NEW p \in Procs, StartContainer(p) \/ ForkWatchdog(p) \/ Register(p)
               \/ pty_bridge_recv(p) \/ BridgeEnds(p) \/ Reaped(p) \/ on_winch(p) \/ on_term(p)
      PROVE  LimitInv'
  <2>1. /\ dead' = dead /\ blind' = blind
        /\ \A q \in Procs \ {p} :
             at'[q] = at[q] /\ pc'[q] = pc[q]
               /\ (q \in registered \cup unlisted => q \in registered' \cup unlisted')
    BY <1>2, HostMoves DEF StartContainer, ForkWatchdog, Register, pty_bridge_recv, BridgeEnds,
       Reaped, on_winch, on_term, Go
  <2>2. /\ Inside(p) \/ (at'[p] = at[p] /\ pc' = pc)
        /\ p \in registered \cup unlisted => p \in registered' \cup unlisted'
        /\ \/ at'[p] \notin Seated
           \/ at[p] \in Seated
           \/ p \in registered' \cup unlisted'
    <3>1. CASE StartContainer(p)
      BY <1>1, <3>1, HostMoves DEF StartContainer, Go, ProcInv, Inside, Alive, Seated
    <3>2. CASE ForkWatchdog(p)
      BY <3>2 DEF ForkWatchdog, Go, Inside, Alive, Seated
    <3>3. CASE Register(p)
      BY <1>1, <3>3 DEF Register, Go, ProcInv, Inside, Alive, Seated
    <3>4. CASE pty_bridge_recv(p) \/ BridgeEnds(p) \/ Reaped(p) \/ on_winch(p)
      BY <1>1, <3>4 DEF pty_bridge_recv, BridgeEnds, Reaped, on_winch, Go, ProcInv, Inside, Alive, Seated
    <3>5. CASE on_term(p)
      BY <1>1, <3>5 DEF on_term, Go, ProcInv, Inside, Alive, Seated
    <3> QED
      BY <1>2, <3>1, <3>2, <3>3, <3>4, <3>5
  <2>3. (Inside(p)' => Inside(p)) /\ Listed(p)'
    BY <1>1, <2>1, <2>2 DEF Listed, Inside, Alive, Seated
  <2>4. \A q \in Procs : (Inside(q)' => Inside(q)) /\ Listed(q)'
    BY <1>1, <2>1, <2>3, StaysInside
  <2> QED
    BY <2>1, <2>4, FewerSighted
<1>3. ASSUME NEW p \in Procs, Deny(p) \/ RecvFails(p) \/ Unregister(p)
      PROVE  LimitInv'
  <2>1. /\ dead' = dead /\ blind' = blind
        /\ \A q \in Procs \ {p} :
             at'[q] = at[q] /\ pc'[q] = pc[q]
               /\ (q \in registered \cup unlisted => q \in registered' \cup unlisted')
    BY <1>3, HostMoves DEF Deny, RecvFails, Unregister, Go
  <2>2. at'[p] \in {"denied", "abort", "stop", "unheard"}
    BY <1>3 DEF Deny, RecvFails, Unregister, Go
  <2>3. ~Inside(p)'
    BY <2>2 DEF Inside, Seated
  <2>4. \A q \in Procs : (Inside(q)' => Inside(q)) /\ Listed(q)'
    BY <1>1, <2>1, <2>3, StaysInside DEF Listed
  <2> QED
    BY <2>1, <2>4, FewerSighted
<1>4. ASSUME NEW p \in Procs, RunStart(p) \/ RunStop(p)
      PROVE  LimitInv'
  <2>1. PICK from \in Host!LivePcs, to \in Host!Pcs :
          pc[p] = from /\ pc' = [pc EXCEPT ![p] = to] /\ dead' = dead
    BY <1>4 DEF RunStart, RunStop, Host!StartStep, Host!StopStep, Host!session_disk_setup,
       Host!MountOverlay, Host!pty_bridge_init, Host!ForkCrun, Host!err_sock, Host!err_mounted,
       Host!StopUnmount, Host!session_disk_cleanup, Host!crun_delete, Host!Go, Host!Pcs,
       Host!LivePcs, Host!StartPcs, Host!ErrPcs, Host!StopPcs
  <2>2. UNCHANGED <<at, registered, unlisted, blind>>
    BY <1>4 DEF RunStart, RunStop
  <2>3. pc[p] \notin {"failed", "exited"}
    BY <2>1 DEF Host!LivePcs, Host!StartPcs, Host!ErrPcs, Host!StopPcs
  <2>4. \A q \in Procs : (Inside(q)' => Inside(q)) /\ Listed(q)'
    BY <1>1, <2>1, <2>2, <2>3, StaysInside
  <2> QED
    BY <2>2, <2>4, FewerSighted
<1>5. ASSUME NEW p \in Procs, DieOfSignal(p) \/ DieOfSigpipe(p) \/ Fires(p) \/ HangUp(p) \/ Crun(p)
      PROVE  LimitInv'
  <2>1. UNCHANGED <<at, pc, registered, unlisted, blind>> /\ dead \subseteq dead'
    BY <1>5, HostMoves DEF DieOfSignal, DieOfSigpipe, Fires, HangUp, Crun
  <2>2. \A q \in Procs : (Inside(q)' => Inside(q)) /\ Listed(q)'
    BY <1>1, <2>1, StaysInside
  <2> QED
    BY <2>1, <2>2, FewerSighted
<1>6. CASE (\E S \in SUBSET Procs : Kill(S)) \/ DaemonStops \/ DaemonStarts \/ UNCHANGED vars
  <2>1. /\ UNCHANGED <<at, pc, dead, blind>>
        /\ registered \cup unlisted \subseteq registered' \cup unlisted'
    BY <1>6 DEF Kill, DaemonStops, DaemonStarts, vars
  <2>2. \A q \in Procs : (Inside(q)' => Inside(q)) /\ Listed(q)'
    BY <1>1, <2>1, StaysInside
  <2> QED
    BY <2>1, <2>2, FewerSighted
<1> QED
  BY <1>2, <1>3, <1>4, <1>5, <1>6 DEF Next, Step, Heed, Outside

\* Only logins that were let in past one that the table lacked exceed the limit, for any
\* number of logins and any limit (caalsh.c:112, 216-221).
THEOREM LimitKeptBySighted == Spec => []OnlyBlindExceed
<1> DEFINE DirWhenUp == \A q \in Procs : pc[q] = "up" => "dir" \in made[q]
<1>1. HostProof!Spec => []DirWhenUp
  <2>1. HostProof!MadeInv => DirWhenUp
    BY DEF HostProof!MadeInv, HostProof!MadeAt, HostProof!Resources
  <2>2. HostProof!Spec => []HostProof!MadeInv
    BY HostConstants, HostProof!MadeInvariant
  <2> QED
    BY <2>1, <2>2, PTL
<1>2. Init => LimitInv
  <2>1. ASSUME Init PROVE LimitInv
    <3>1. Sighted = {} /\ \A p \in Procs : Listed(p)
      BY <2>1 DEF Init, Sighted, Listed, Inside, Seated
    <3> QED
      BY <3>1, FS_EmptySet, LimitAssumption DEF LimitInv
  <2> QED
    BY <2>1
<1>3. MainInv /\ DirWhenUp /\ LimitInv /\ [Next]_vars => LimitInv'
  BY CheckKeepsLimit, OthersKeepLimit
<1>4. LimitInv => OnlyBlindExceed
  <2> SUFFICES ASSUME LimitInv, MaxSessions > 0
               PROVE  Cardinality({p \in Procs : InSession(p) /\ p \notin blind}) <= MaxSessions
    BY DEF OnlyBlindExceed
  <2> DEFINE S == {p \in Procs : InSession(p) /\ p \notin blind}
  <2>1. S \subseteq Sighted /\ S \in SUBSET Procs /\ Sighted \in SUBSET Procs
    BY DEF Sighted, InSession, Inside, Seated
  <2> HIDE DEF S
  <2>2. Cardinality(S) <= Cardinality(Sighted) /\ Cardinality(S) \in Nat /\ Cardinality(Sighted) \in Nat
    BY <2>1, LoginsFinite, FS_Subset
  <2>3. Cardinality(Sighted) <= MaxSessions
    BY DEF LimitInv
  <2>4. Cardinality(S) <= MaxSessions
    BY <2>2, <2>3, LimitAssumption
  <2> QED
    BY <2>4 DEF S
<1> QED
  BY <1>1, <1>2, <1>3, <1>4, LoginsAreHostRuns, MainInvariant, PTL DEF Spec

=============================================================================
