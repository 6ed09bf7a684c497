--------------------------- MODULE Container_proof ---------------------------
(***************************************************************************)
(* Proofs about the host resources of sessions, for any finite number of   *)
(* caalsh processes, any bundles and any kernel limit on stacked overlays. *)
(***************************************************************************)
EXTENDS Container, FiniteSetTheorems, SequenceTheorems, TLAPS

\* Holders is a finite set, so that it can be counted.
LEMMA HoldersFinite == ASSUME NEW b PROVE IsFiniteSet(Holders(b))
<1>1. Holders(b) \in SUBSET Procs
  BY DEF Holders
<1> QED
  BY <1>1, ProcsAssumption, FS_Subset

\* The layers seen at a rootfs are sessions' overlays, and there are none only when none
\* is mounted (container.c:63-67).
LEMMA VisibleFacts ==
  ASSUME TypeOK, NEW b \in Bundles
  PROVE  /\ Visible(b) \in Seq(Procs)
         /\ overlays[b] # <<>> => Visible(b) # <<>>
<1>1. overlays[b] \in Seq(Procs)
  BY DEF TypeOK
<1>2. CASE overlays[b] = <<>>
  BY <1>2 DEF Visible
<1>3. CASE overlays[b] # <<>>
  <2>1. Last(overlays[b]) \in Procs
    BY <1>1, <1>3 DEF Last
  <2>2. lower[Last(overlays[b])] \in Seq(Procs)
    BY <2>1 DEF TypeOK
  <2> QED
    BY <1>3, <2>1, <2>2 DEF Visible
<1> QED
  BY <1>2, <1>3

\* A stack without its top is a stack, one shorter (container.c:107, 119).
LEMMA FrontFacts ==
  ASSUME NEW s \in Seq(Procs), s # <<>>
  PROVE  Front(s) \in Seq(Procs) /\ Len(Front(s)) = Len(s) - 1
<1> DEFINE n == Len(s) - 1
<1>1. n \in Nat /\ n \in Int /\ 1 \in Int /\ \A i \in 1..n : s[i] \in Procs
  OBVIOUS
<1> HIDE DEF n
<1>2. SubSeq(s, 1, n) \in Seq(Procs) /\ Len(SubSeq(s, 1, n)) = IF 1 <= n THEN n - 1 + 1 ELSE 0
  BY <1>1, SubSeqProperties
<1>3. Front(s) = SubSeq(s, 1, n)
  BY DEF Front, n
<1>4. Front(s) \in Seq(Procs) /\ Len(Front(s)) = n
  BY <1>1, <1>2, <1>3
<1> QED
  BY <1>4 DEF n

\* The inductive invariant: a crun that enters its container has a caalsh that holds an
\* overlay, so the count of the overlays is what keeps the rootfs from being bare.
IInv == TypeOK /\ OverlayPerHolder /\ BaseUntouched

\* Types are kept by every step.
LEMMA TypeStep == TypeOK /\ [Next]_hostVars => TypeOK'
<1> SUFFICES ASSUME TypeOK, [Next]_hostVars PROVE TypeOK'
  OBVIOUS
<1> USE DEF overlayVars, crunVars
<1>1. ASSUME NEW p \in Procs, container_start(p) \/ StartStep(p) \/ container_stop(p) \/ StopStep(p)
      PROVE  pc' \in [Procs -> Pcs] /\ dead' \in SUBSET Procs /\ helperFailed' \in SUBSET Procs
  <2>1. PICK to \in Pcs : pc' = [pc EXCEPT ![p] = to]
    BY <1>1 DEF container_start, StartStep, session_disk_setup, MountOverlay, pty_bridge_init,
       ForkCrun, err_sock, err_mounted, container_stop, StopStep, StopUnmount,
       session_disk_cleanup, crun_delete, Go, Pcs, LivePcs, StartPcs, ErrPcs, StopPcs
  <2>2. dead' = dead /\ helperFailed' \in {helperFailed, helperFailed \cup {p}}
    BY <1>1 DEF container_start, StartStep, session_disk_setup, MountOverlay, pty_bridge_init,
       ForkCrun, err_sock, err_mounted, container_stop, StopStep, StopUnmount,
       session_disk_cleanup, crun_delete, Go
  <2> QED
    BY <2>1, <2>2 DEF TypeOK
<1>2. ASSUME NEW p \in Procs, container_start(p) \/ StartStep(p) \/ container_stop(p) \/ StopStep(p)
      PROVE  /\ made' \in [Procs -> SUBSET Resources]
             /\ child' \in [Procs -> ChildStates] /\ view' \in [Procs -> Seq(Procs)]
  <2>1. \/ UNCHANGED made
        \/ \E R \in SUBSET Resources : Make(p, R) \/ Unmake(p, R)
    BY <1>2 DEF container_start, StartStep, session_disk_setup, MountOverlay, pty_bridge_init,
       ForkCrun, err_sock, err_mounted, container_stop, StopStep, StopUnmount,
       session_disk_cleanup, crun_delete, Resources, PartialDisks
  <2>2. made' \in [Procs -> SUBSET Resources]
    BY <2>1 DEF Make, Unmake, TypeOK
  <2> child[p] \in ChildStates
    BY DEF TypeOK
  <2>3. /\ view' = view
        /\ UNCHANGED child \/ \E st \in ChildStates : child' = [child EXCEPT ![p] = st]
    BY <1>2 DEF container_start, StartStep, session_disk_setup, MountOverlay, pty_bridge_init,
       ForkCrun, err_sock, err_mounted, container_stop, StopStep, StopUnmount,
       session_disk_cleanup, crun_delete, ChildStates
  <2> QED
    BY <2>2, <2>3 DEF TypeOK
<1>3. ASSUME NEW p \in Procs, container_start(p) \/ StartStep(p) \/ container_stop(p) \/ StopStep(p)
      PROVE  overlays' \in [Bundles -> Seq(Procs)] /\ lower' \in [Procs -> Seq(Procs)]
  <2> DEFINE b == BundleOf[p]
  <2>1. b \in Bundles /\ Visible(b) \in Seq(Procs) /\ overlays[b] \in Seq(Procs)
    BY BundleAssumption, VisibleFacts DEF TypeOK
  <2>2. /\ Append(overlays[b], p) \in Seq(Procs)
        /\ (IF overlays[b] = <<>> THEN overlays[b] ELSE Front(overlays[b])) \in Seq(Procs)
    BY <2>1, FrontFacts
  <2>3. CASE MountOverlay(p)
    <3>1. CASE /\ overlays' = [overlays EXCEPT ![b] = Append(overlays[b], p)]
               /\ lower' = [lower EXCEPT ![p] = Visible(b)]
      <4> HIDE DEF b
      <4> QED
        BY <2>1, <2>2, <3>1 DEF TypeOK
    <3>2. CASE UNCHANGED overlayVars
      BY <3>2 DEF TypeOK
    <3> QED
      BY <2>3, <3>1, <3>2 DEF MountOverlay
  <2>4. CASE err_mounted(p) \/ StopUnmount(p)
    BY <2>1, <2>2, <2>4 DEF err_mounted, StopUnmount, Umount, TypeOK
  <2>5. CASE UNCHANGED overlayVars
    BY <2>5 DEF TypeOK
  <2> QED
    BY <1>3, <2>3, <2>4, <2>5 DEF container_start, StartStep, session_disk_setup,
       pty_bridge_init, ForkCrun, err_sock, container_stop, StopStep, session_disk_cleanup,
       crun_delete
<1>4. ASSUME NEW p \in Procs, CrunStart(p) PROVE TypeOK'
  <2>1. Visible(BundleOf[p]) \in Seq(Procs)
    BY BundleAssumption, VisibleFacts
  <2> QED
    BY <1>4, <2>1 DEF TypeOK, CrunStart, ChildStates
<1>5. ASSUME NEW p \in Procs, CrunEnds(p) \/ Killed(p) PROVE TypeOK'
  <2>1. CASE CrunEnds(p)
    BY <2>1 DEF TypeOK, CrunEnds, ChildStates
  <2>2. CASE Killed(p)
    <3>1. UNCHANGED made \/ \E R \in SUBSET Resources : Make(p, R)
      BY <2>2 DEF Killed, PartialDisks, Resources
    <3>2. made' \in [Procs -> SUBSET Resources]
      BY <3>1 DEF Make, TypeOK
    <3> QED
      BY <2>2, <3>2 DEF TypeOK, Killed
  <2> QED
    BY <1>5, <2>1, <2>2
<1>6. CASE UNCHANGED hostVars
  BY <1>6 DEF TypeOK, hostVars
<1> QED
  BY <1>1, <1>2, <1>3, <1>4, <1>5, <1>6 DEF Next, Crun, TypeOK

\* Mounting adds one overlay and one holder (container.c:67).
LEMMA MountCounts ==
  ASSUME TypeOK, OverlayPerHolder, NEW p \in Procs, ~Holds(p), Holds(p)',
         \A q \in Procs \ {p} : Holds(q)' <=> Holds(q),
         overlays' = [overlays EXCEPT ![BundleOf[p]] = Append(@, p)]
  PROVE  OverlayPerHolder'
<1> SUFFICES ASSUME NEW b \in Bundles PROVE Len(overlays'[b]) = Cardinality(Holders(b)')
  BY DEF OverlayPerHolder
<1>1. /\ Len(overlays[b]) = Cardinality(Holders(b)) /\ overlays[b] \in Seq(Procs)
      /\ IsFiniteSet(Holders(b))
  BY HoldersFinite DEF OverlayPerHolder, TypeOK
<1>2. CASE b = BundleOf[p]
  <2>1. Holders(b)' = Holders(b) \cup {p} /\ p \notin Holders(b)
    BY <1>2 DEF Holders
  <2>2. Len(overlays'[b]) = Len(overlays[b]) + 1
    BY <1>1, <1>2 DEF TypeOK
  <2> QED
    BY <1>1, <2>1, <2>2, FS_AddElement
<1>3. CASE b # BundleOf[p]
  <2>1. Holders(b)' = Holders(b)
    BY <1>3 DEF Holders
  <2> QED
    BY <1>1, <1>3, <2>1 DEF TypeOK
<1> QED
  BY <1>2, <1>3

\* Unmounting takes away one overlay, not always the process's own, and one holder
\* (container.c:107, 119).
LEMMA UmountCounts ==
  ASSUME TypeOK, OverlayPerHolder, NEW p \in Procs, Holds(p), ~Holds(p)',
         \A q \in Procs \ {p} : Holds(q)' <=> Holds(q),
         Umount(BundleOf[p])
  PROVE  OverlayPerHolder'
<1> SUFFICES ASSUME NEW b \in Bundles PROVE Len(overlays'[b]) = Cardinality(Holders(b)')
  BY DEF OverlayPerHolder
<1>1. /\ Len(overlays[b]) = Cardinality(Holders(b)) /\ overlays[b] \in Seq(Procs)
      /\ IsFiniteSet(Holders(b)) /\ Cardinality(Holders(b)) \in Nat
  BY HoldersFinite, FS_CardinalityType DEF OverlayPerHolder, TypeOK
<1>2. CASE b = BundleOf[p]
  <2>1. Holders(b)' = Holders(b) \ {p} /\ p \in Holders(b)
    BY <1>2 DEF Holders
  <2>2. Cardinality(Holders(b)') = Cardinality(Holders(b)) - 1
    BY <1>1, <2>1, FS_RemoveElement
  <2>3. Cardinality(Holders(b)) # 0
    BY <1>1, <2>1, FS_EmptySet
  <2>4. overlays[b] # <<>>
    BY <1>1, <2>3
  <2>5. Len(overlays'[b]) = Len(overlays[b]) - 1
    BY <1>1, <1>2, <2>4, FrontFacts DEF Umount, TypeOK
  <2> QED
    BY <1>1, <2>2, <2>5
<1>3. CASE b # BundleOf[p]
  <2>1. Holders(b)' = Holders(b)
    BY <1>3 DEF Holders
  <2> QED
    BY <1>1, <1>3, <2>1 DEF TypeOK, Umount
<1> QED
  BY <1>2, <1>3

\* A step that neither mounts nor unmounts keeps the count.
LEMMA QuietCounts ==
  ASSUME OverlayPerHolder, overlays' = overlays, \A q \in Procs : Holds(q)' <=> Holds(q)
  PROVE  OverlayPerHolder'
<1>1. \A b \in Bundles : Holders(b)' = Holders(b)
  BY DEF Holders
<1> QED
  BY <1>1 DEF OverlayPerHolder

\* Every step keeps one overlay per holder.
LEMMA CountStep == TypeOK /\ OverlayPerHolder /\ [Next]_hostVars => OverlayPerHolder'
<1> SUFFICES ASSUME TypeOK, OverlayPerHolder, [Next]_hostVars PROVE OverlayPerHolder'
  OBVIOUS
<1> USE DEF overlayVars, crunVars
<1>1. ASSUME NEW p \in Procs, container_start(p) \/ session_disk_setup(p) \/ pty_bridge_init(p)
                  \/ ForkCrun(p) \/ err_sock(p) \/ container_stop(p) \/ session_disk_cleanup(p)
                  \/ crun_delete(p)
      PROVE  OverlayPerHolder'
  <2>1. /\ \A q \in Procs \ {p} : pc'[q] = pc[q]
        /\ Holds(p)' <=> Holds(p)
        /\ overlays' = overlays
    BY <1>1 DEF container_start, session_disk_setup, pty_bridge_init, ForkCrun, err_sock,
                container_stop, session_disk_cleanup, crun_delete, Go, Holds, TypeOK
  <2> QED
    BY <2>1, QuietCounts DEF Holds
<1>2. ASSUME NEW p \in Procs, MountOverlay(p) PROVE OverlayPerHolder'
  <2>1. CASE /\ Go(p, "overlay", "socket")
             /\ overlays' = [overlays EXCEPT ![BundleOf[p]] = Append(@, p)]
    <3>1. ~Holds(p) /\ Holds(p)' /\ \A q \in Procs \ {p} : Holds(q)' <=> Holds(q)
      BY <2>1 DEF Go, Holds, TypeOK
    <3> QED
      BY <2>1, <3>1, MountCounts
  <2>2. CASE Go(p, "overlay", "err_disk") /\ UNCHANGED overlayVars
    <3>1. \A q \in Procs : Holds(q)' <=> Holds(q)
      BY <2>2 DEF Go, Holds, TypeOK
    <3> QED
      BY <2>2, <3>1, QuietCounts
  <2> QED
    BY <1>2, <2>1, <2>2 DEF MountOverlay
<1>3. ASSUME NEW p \in Procs, err_mounted(p) \/ StopUnmount(p) PROVE OverlayPerHolder'
  <2>1. Holds(p) /\ ~Holds(p)' /\ \A q \in Procs \ {p} : Holds(q)' <=> Holds(q)
    BY <1>3 DEF err_mounted, StopUnmount, Go, Holds, TypeOK
  <2>2. Umount(BundleOf[p])
    BY <1>3 DEF err_mounted, StopUnmount
  <2> QED
    BY <2>1, <2>2, UmountCounts
<1>4. ASSUME NEW p \in Procs, CrunStart(p) \/ CrunEnds(p) \/ Killed(p) PROVE OverlayPerHolder'
  BY <1>4, QuietCounts DEF CrunStart, CrunEnds, Killed, Holds
<1>5. CASE UNCHANGED hostVars
  BY <1>5, QuietCounts DEF hostVars, Holds
<1> QED
  BY <1>1, <1>2, <1>3, <1>4, <1>5 DEF Next, StartStep, StopStep, Crun

\* A crun that enters its container finds an overlay: its own caalsh still holds one, so
\* the rootfs has at least one on it.
LEMMA BaseStep == IInv /\ [Next]_hostVars => BaseUntouched'
<1> SUFFICES ASSUME IInv, [Next]_hostVars PROVE BaseUntouched'
  OBVIOUS
<1> USE DEF overlayVars, crunVars
<1>1. ASSUME NEW p \in Procs, CrunStart(p) PROVE BaseUntouched'
  <2> DEFINE b == BundleOf[p]
  <2>1. b \in Bundles /\ overlays[b] \in Seq(Procs) /\ TypeOK
    BY BundleAssumption DEF IInv, TypeOK
  <2>2. p \in Holders(b)
    BY <1>1 DEF CrunStart, Holders, Holds
  <2>3. Cardinality(Holders(b)) # 0
    BY <2>2, HoldersFinite, FS_EmptySet
  <2>4. overlays[b] # <<>>
    BY <2>1, <2>3 DEF IInv, OverlayPerHolder
  <2>5. Visible(b) # <<>>
    BY <2>1, <2>4, VisibleFacts
  <2> HIDE DEF b
  <2>6. view' = [view EXCEPT ![p] = Visible(b)] /\ child' = [child EXCEPT ![p] = "running"]
    BY <1>1 DEF CrunStart, b
  <2> QED
    BY <2>1, <2>5, <2>6 DEF IInv, BaseUntouched, TypeOK
<1>2. ASSUME NEW p \in Procs, CrunEnds(p) PROVE BaseUntouched'
  BY <1>2 DEF CrunEnds, IInv, BaseUntouched, TypeOK
<1>3. ASSUME NEW p \in Procs, ForkCrun(p) PROVE BaseUntouched'
  BY <1>3 DEF ForkCrun, IInv, BaseUntouched, TypeOK
<1>4. ASSUME NEW p \in Procs, crun_delete(p) PROVE BaseUntouched'
  BY <1>4 DEF crun_delete, IInv, BaseUntouched, TypeOK
<1>5. CASE UNCHANGED crunVars
  BY <1>5 DEF IInv, BaseUntouched
<1> QED
  BY <1>1, <1>2, <1>3, <1>4, <1>5
     DEF Next, StartStep, StopStep, Crun, container_start, session_disk_setup, MountOverlay,
         pty_bridge_init, err_sock, err_mounted, container_stop, StopUnmount,
         session_disk_cleanup, Killed, hostVars

\* No session has begun.
LEMMA InitIInv == Init => IInv
<1> SUFFICES ASSUME Init PROVE IInv
  OBVIOUS
<1>1. TypeOK
  BY DEF Init, TypeOK, Pcs, ChildStates, Resources
<1>2. \A b \in Bundles : Holders(b) = {} /\ overlays[b] = <<>>
  BY DEF Init, Holders, Holds
<1>3. OverlayPerHolder
  BY <1>2, FS_EmptySet DEF OverlayPerHolder
<1>4. BaseUntouched
  BY DEF Init, BaseUntouched
<1> QED
  BY <1>1, <1>3, <1>4 DEF IInv

\* Every state that any number of sessions reach satisfies the invariant.
THEOREM Invariant == Spec => []IInv
<1>1. IInv /\ [Next]_hostVars => IInv'
  BY TypeStep, CountStep, BaseStep DEF IInv
<1> QED
  BY <1>1, InitIInv, PTL DEF Spec

\* The rootfs of a bundle has exactly one overlay for each session that has mounted and not
\* unmounted, though a session may unmount another's (container.c:67, 107, 119).
THEOREM OneOverlayPerHolder == Spec => []OverlayPerHolder
<1>1. IInv => OverlayPerHolder
  BY DEF IInv
<1> QED
  BY <1>1, Invariant, PTL

\* No container ever writes to the base image (container.c:63-101, README.md:27).
THEOREM BaseNeverTouched == Spec => []BaseUntouched
<1>1. IInv => BaseUntouched
  BY DEF IInv
<1> QED
  BY <1>1, Invariant, PTL

\* When all sessions have ended by themselves no overlay is left (README.md:31).
THEOREM HostLeftClean == Spec => []QuiescentHostClean
<1>1. ASSUME IInv, \A p \in Procs : pc[p] \in {"idle", "failed", "exited"}, NEW b \in Bundles
      PROVE  overlays[b] = <<>>
  <2>1. Holders(b) = {}
    BY <1>1 DEF Holders, Holds
  <2>2. Len(overlays[b]) = 0 /\ overlays[b] \in Seq(Procs)
    BY <1>1, <2>1, FS_EmptySet DEF IInv, OverlayPerHolder, TypeOK
  <2> QED
    BY <2>2
<1>2. IInv => QuiescentHostClean
  BY <1>1 DEF QuiescentHostClean
<1> QED
  BY <1>2, Invariant, PTL

\* Types are kept by any number of sessions.
THEOREM TypeCorrect == Spec => []TypeOK
<1>1. IInv => TypeOK
  BY DEF IInv
<1> QED
  BY <1>1, Invariant, PTL

-----------------------------------------------------------------------------
(* What a session leaves behind *)

Disk == {"dir", "image", "loop"}

(***************************************************************************)
(* What exists of a process's own files and mounts at each of its places:  *)
(* the ends of container_start and container_stop are clean because every  *)
(* place before them knows just what there is to undo.  A process killed   *)
(* in session_disk_setup stays there with any part of its disk.            *)
(***************************************************************************)
MadeAt(p) ==
  /\ pc[p] \in {"idle", "mkdir"} => made[p] = {}
  /\ pc[p] = "disk" /\ p \notin dead => made[p] = {"dir"}
  /\ pc[p] \in {"overlay", "socket"} => made[p] = Disk
  /\ pc[p] \in {"fork", "up", "stop", "err_sock"} => made[p] = Resources
  /\ pc[p] \in {"err_mounted", "err_disk"} => made[p] \in {Disk, Resources}
  /\ pc[p] = "stop_disk" => made[p] = Disk
  /\ pc[p] \in {"stop_crun", "exited"} => made[p] \subseteq {"dir"}
  /\ pc[p] \in {"stop_crun", "exited"} /\ p \notin helperFailed => made[p] = {}
  /\ pc[p] = "failed" /\ p \notin helperFailed => made[p] \in Leftovers
  /\ pc[p] = "exited" /\ p \notin helperFailed => child[p] # "running"

MadeInv == \A p \in Procs : MadeAt(p)

\* A process's own step leads from what one place knows to what the next one does
\* (container.c:39-129, session_disk.c:17-90).
LEMMA MadeOwnStep ==
  ASSUME TypeOK, NEW p \in Procs, MadeAt(p),
         container_start(p) \/ StartStep(p) \/ container_stop(p) \/ StopStep(p)
  PROVE  MadeAt(p)'
<1> USE DEF overlayVars, crunVars, TypeOK, Go
<1>1. CASE container_start(p)
  BY <1>1 DEF container_start, MadeAt
<1>2. CASE session_disk_setup(p)
  <2>1. CASE Go(p, "mkdir", "disk") /\ Make(p, {"dir"})
    BY <2>1 DEF Make, MadeAt
  <2>2. CASE Go(p, "mkdir", "failed") /\ UNCHANGED made
    BY <2>2 DEF MadeAt, Leftovers
  <2>3. CASE Go(p, "disk", "overlay") /\ Make(p, {"image", "loop"})
    BY <2>3 DEF Make, MadeAt, Disk
  <2>4. CASE Go(p, "disk", "failed") /\ \E R \in PartialDisks : Make(p, R)
    BY <2>4 DEF Make, MadeAt, Leftovers
  <2> QED
    BY <1>2, <2>1, <2>2, <2>3, <2>4 DEF session_disk_setup
<1>3. CASE MountOverlay(p)
  BY <1>3 DEF MountOverlay, MadeAt
<1>4. CASE pty_bridge_init(p)
  BY <1>4 DEF pty_bridge_init, Make, MadeAt, Disk, Resources
<1>5. CASE ForkCrun(p)
  BY <1>5 DEF ForkCrun, MadeAt
<1>6. CASE err_sock(p)
  BY <1>6 DEF err_sock, Unmake, MadeAt, Disk, Resources
<1>7. CASE err_mounted(p)
  BY <1>7 DEF err_mounted, MadeAt
<1>8. CASE container_stop(p)
  BY <1>8 DEF container_stop, MadeAt
<1>9. CASE StopUnmount(p)
  BY <1>9 DEF StopUnmount, Unmake, MadeAt, Disk, Resources
<1>10. CASE session_disk_cleanup(p)
  <2>1. CASE Unmake(p, Disk) /\ UNCHANGED helperFailed
    <3>1. CASE Go(p, "stop_disk", "stop_crun")
      BY <2>1, <3>1 DEF Unmake, MadeAt
    <3>2. CASE Go(p, "err_disk", "failed")
      <4>1. made'[p] \in {{}, {"socket"}}
        BY <2>1, <3>2 DEF Unmake, MadeAt, Disk, Resources
      <4> QED
        BY <3>2, <4>1 DEF MadeAt, Leftovers
    <3> QED
      BY <1>10, <3>1, <3>2 DEF session_disk_cleanup
  <2>2. CASE Unmake(p, {"loop", "image"}) /\ helperFailed' = helperFailed \cup {p}
    <3>1. CASE Go(p, "stop_disk", "stop_crun")
      <4>1. made'[p] \subseteq {"dir"}
        BY <2>2, <3>1 DEF Unmake, MadeAt, Disk
      <4> QED
        BY <2>2, <3>1, <4>1 DEF MadeAt
    <3>2. CASE Go(p, "err_disk", "failed")
      BY <2>2, <3>2 DEF MadeAt
    <3> QED
      BY <1>10, <3>1, <3>2 DEF session_disk_cleanup
  <2>3. {"loop", "image", "dir"} = Disk
    BY DEF Disk
  <2> QED
    BY <1>10, <2>1, <2>2, <2>3 DEF session_disk_cleanup
<1>11. CASE crun_delete(p)
  BY <1>11 DEF crun_delete, MadeAt
<1> QED
  BY <1>1, <1>2, <1>3, <1>4, <1>5, <1>6, <1>7, <1>8, <1>9, <1>10, <1>11 DEF StartStep, StopStep

\* Nor do the steps of crun and of other processes, or a signal, upset it.
LEMMA MadeStep == TypeOK /\ MadeInv /\ [Next]_hostVars => MadeInv'
<1> SUFFICES ASSUME TypeOK, MadeInv, [Next]_hostVars PROVE MadeInv'
  OBVIOUS
<1>1. ASSUME NEW p \in Procs, container_start(p) \/ StartStep(p) \/ container_stop(p) \/ StopStep(p)
      PROVE  MadeInv'
  <2>1. MadeAt(p)'
    BY <1>1, MadeOwnStep DEF MadeInv
  <2>2. ASSUME NEW q \in Procs \ {p} PROVE MadeAt(q)'
    <3>1. /\ pc'[q] = pc[q] /\ made'[q] = made[q] /\ child'[q] = child[q]
          /\ (q \in helperFailed' <=> q \in helperFailed) /\ (q \in dead' <=> q \in dead)
      BY <1>1 DEF TypeOK, overlayVars, crunVars, Go, Make, Unmake, container_start, StartStep,
         session_disk_setup, MountOverlay, pty_bridge_init, ForkCrun, err_sock, err_mounted,
         container_stop, StopStep, StopUnmount, session_disk_cleanup, crun_delete
    <3> QED
      BY <3>1 DEF MadeInv, MadeAt
  <2> QED
    BY <2>1, <2>2 DEF MadeInv
<1>2. ASSUME NEW p \in Procs, Crun(p) PROVE MadeInv'
  BY <1>2 DEF Crun, CrunStart, CrunEnds, overlayVars, MadeInv, MadeAt, TypeOK
<1>3. ASSUME NEW p \in Procs, Killed(p) PROVE MadeInv'
  BY <1>3 DEF Killed, Make, crunVars, overlayVars, LivePcs, StartPcs, ErrPcs, StopPcs, MadeInv, MadeAt, TypeOK
<1>4. CASE UNCHANGED hostVars
  BY <1>4 DEF hostVars, MadeInv, MadeAt
<1> QED
  BY <1>1, <1>2, <1>3, <1>4 DEF Next

\* Every state that any number of sessions reach satisfies it.
LEMMA MadeInvariant == Spec => []MadeInv
<1>1. Init => MadeInv
  BY DEF Init, MadeInv, MadeAt
<1>2. TypeOK /\ MadeInv /\ [Next]_hostVars => MadeInv'
  BY MadeStep
<1> QED
  BY <1>1, <1>2, TypeCorrect, PTL DEF Spec

\* A session that has been stopped leaves nothing on the host, or only its directory when a
\* cleanup command could not be run (container.c:112-129).
THEOREM NothingLeftByStop == Spec => []StopLeavesNothing
<1>1. MadeInv => StopLeavesNothing
  BY DEF MadeInv, MadeAt, StopLeavesNothing
<1> QED
  BY <1>1, MadeInvariant, PTL

\* A start that fails leaves at most a disk that broke off or a socket file
\* (container.c:55-58, 103-109).
THEOREM LeftByFailedStart == Spec => []FailedStartLeaves
<1>1. MadeInv => FailedStartLeaves
  BY DEF MadeInv, MadeAt, FailedStartLeaves
<1> QED
  BY <1>1, MadeInvariant, PTL

=============================================================================
